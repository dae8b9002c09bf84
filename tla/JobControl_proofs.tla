-------------------------- MODULE JobControl_proofs --------------------------
(***************************************************************************)
(* Three invariants of job control, each inductive on top of the ones      *)
(* before it, and the properties of JobControl that follow from them for   *)
(* every set of processes, commands, operands and bounds.                  *)
(*                                                                         *)
(* GeneralInv holds in every session: the table is an array with one job   *)
(* per process group, the kernel is one, and no process is taken for done  *)
(* before it has been reaped.  MonitorInv holds in monitor mode: a job is  *)
(* a process group of the kernel.  OrderlyInv holds in orderly sessions:   *)
(* the table knows all that waitpid has told.                              *)
(*                                                                         *)
(* The lookups, updates and builtins are first described by what they do   *)
(* to the set of jobs and to the processes (Notes, Marks, Tracks, Forgets, *)
(* Reported, Born, Moves), then each action by these (the lemmas ...Does); *)
(* the invariants are proved from those descriptions alone.                *)
(***************************************************************************)
EXTENDS JobControl, WellFoundedInduction, TLAPS

-----------------------------------------------------------------------------
(* The table: an array of jobs with a process group each; the status of a  *)
(* job is that of its last process.                                        *)
KnownStatuses ==
  {NoStatus, Stopped, Signaled("TERM")} \cup {Exited(code) : code \in Codes}
Reports == KnownStatuses \ {NoStatus}

Processes == [pid : Pids, stopped : BOOLEAN, done : BOOLEAN, status : KnownStatuses]

JobRecords == [pgid : Pids, job_id : Nat, serial : Nat, stopped : BOOLEAN,
               command : Commands, status_pid : Pids, procs : Seq(Processes)]

Tables == [jobs : Seq(JobRecords), next_job_id : Nat, next_serial : Nat]

JobsOf(t) == {t.jobs[k] : k \in DOMAIN t.jobs}

JobOK(job) == job.procs # <<>> /\ job.status_pid = job.procs[Len(job.procs)].pid

TableOK(t) ==
  /\ t \in Tables
  /\ \A k, l \in DOMAIN t.jobs : t.jobs[k].pgid = t.jobs[l].pgid => k = l
  /\ \A job \in JobsOf(t) : JobOK(job) /\ job.serial < t.next_serial

(* The kernel: what has ended has ended with an exit or a signal, and what *)
(* waitpid may still report of a child that has not ended is its stop.     *)
KernelOK(k) ==
  /\ k \in [Pids -> KernelProcesses]
  /\ \A p \in Pids : /\ k[p].state \in {"zombie", "reaped"} => Terminated(k[p].status)
                     /\ k[p].state = "stopped" => k[p].status = Stopped
                     /\ k[p].unreported => k[p].state = "stopped"

ReapedIn(k, p) == k[p].state = "reaped"

(* No process is taken for done before it is.                              *)
Real(k, proc) ==
  proc.done => ReapedIn(k, proc.pid) /\ proc.status = k[proc.pid].status

RealIn(k, t) == \A job \in JobsOf(t) : \A i \in DOMAIN job.procs : Real(k, job.procs[i])

(* What the shell has noted for itself of the members of a pipeline.       *)
Collected(k, f) ==
  \A j \in 1 .. Len(f.statuses) :
    Terminated(f.statuses[j]) => /\ ReapedIn(k, f.pids[j])
                                 /\ f.statuses[j] = k[f.pids[j]].status

Pipelines ==
  [kind : {"pipeline"}, executor : {"ast", "text"}, size : Nat, command : Commands,
   isolate : BOOLEAN, pids : Seq(Pids), statuses : Seq(Reports)]

FrameOK(k, at, f) ==
  /\ at \in {"prompt", "foreground", "fork", "collect", "wait_all", "wait_pid", "wait_job"}
  /\ at = "foreground" => f.pid \in Pids /\ f.command \in Commands
  /\ at \in {"fork", "collect"} => f \in Pipelines
  /\ at = "fork" => Len(f.pids) < f.size /\ f.statuses = <<>>
  /\ at = "collect" => /\ Len(f.pids) = f.size /\ Len(f.statuses) < f.size
                       /\ Collected(k, f)
  /\ at = "wait_pid" => f.pid \in Pids
  /\ at = "wait_job" => f.job.pgid \in Pids /\ f.job.status_pid \in Pids

StatusOK(result) == result.kind \in {"builtin", "exited", "signaled", "stopped"}

GeneralInv ==
  /\ session \in Sessions
  /\ monitor \in BOOLEAN /\ last_async_pid \in Pids \cup {0} /\ StatusOK(status)
  /\ KernelOK(kernel)
  /\ TableOK(table)
  /\ RealIn(kernel, table)
  /\ FrameOK(kernel, pc, frame)

-----------------------------------------------------------------------------
(* In monitor mode a job is a process group of the kernel: its processes   *)
(* are those of the group, each once, its leader among them.               *)
OneToOne(s) == \A i, j \in DOMAIN s : s[i] = s[j] => i = j

InGroup(k, p, g) == k[p].state # "unborn" /\ k[p].pgid = g

GroupedJob(k, job) ==
  /\ \A i, j \in DOMAIN job.procs : job.procs[i].pid = job.procs[j].pid => i = j
  /\ job.pgid \in PidsOf(job)
  /\ \A i \in DOMAIN job.procs : InGroup(k, job.procs[i].pid, job.pgid)

GroupedFrame(k, at, f) ==
  /\ at = "foreground" => InGroup(k, f.pid, f.pid)
  /\ at \in {"fork", "collect"} =>
       /\ f.isolate
       /\ OneToOne(f.pids)
       /\ \A i \in DOMAIN f.pids : InGroup(k, f.pids[i], f.pids[1])
  /\ at = "wait_job" => InGroup(k, f.job.status_pid, f.job.pgid)

MonitorInv ==
  Monitored => /\ monitor
               /\ \A job \in JobsOf(table) : GroupedJob(kernel, job)
               /\ GroupedFrame(kernel, pc, frame)

-----------------------------------------------------------------------------
(* In an orderly session the table knows all that waitpid has told.        *)
Flagged(job) == job_any_stopped(job) => job.stopped

HasStopped(k, p) == k[p].state = "stopped" /\ ~k[p].unreported

Told(k, proc) ==
  /\ ReapedIn(k, proc.pid) => proc.done
  /\ HasStopped(k, proc.pid) => proc.stopped

ToldJob(k, job) == Flagged(job) /\ \A i \in DOMAIN job.procs : Told(k, job.procs[i])

KnownJob(k, job) ==
  ToldJob(k, job) /\ \E i \in DOMAIN job.procs : ~ReapedIn(k, job.procs[i].pid)

(* The children that the shell itself has in hand, of which waitpid has    *)
(* told nothing yet.                                                       *)
Pending(at, f) ==
  CASE at = "foreground" -> {f.pid}
    [] at = "fork"       -> {f.pids[j] : j \in DOMAIN f.pids}
    [] at = "collect"    -> {f.pids[j] : j \in Len(f.statuses) + 1 .. f.size}
    [] OTHER             -> {}

Untold(k, p) == p \in Children(k) /\ ~HasStopped(k, p)

NotIn(t, p) == \A job \in JobsOf(t) : p \notin PidsOf(job)

(* A pipeline of which no member has stopped is no job, and what has been  *)
(* collected of it has ended; once a member has stopped it is a job.       *)
IsJobOf(job, f) ==
  /\ job.pgid = f.pids[1]
  /\ DOMAIN job.procs = DOMAIN f.pids
  /\ \A j \in DOMAIN f.pids : job.procs[j].pid = f.pids[j]

PipelineKnown(k, t, f) ==
  /\ f.executor = "text"
  /\ \A j \in 1 .. Len(f.statuses) :
       WIFSTOPPED(f.statuses[j]) => ~ReapedIn(k, f.pids[j])
  /\ \/ /\ \A j \in DOMAIN f.pids : NotIn(t, f.pids[j])
        /\ \A j \in 1 .. Len(f.statuses) : ~WIFSTOPPED(f.statuses[j])
     \/ /\ \E job \in JobsOf(t) : IsJobOf(job, f)
        /\ \E j \in 1 .. Len(f.statuses) : WIFSTOPPED(f.statuses[j])

Accounted(k, t, at, f) ==
  /\ \A p \in Children(k) : p \in Pending(at, f) \/ ~NotIn(t, p)
  /\ \A p \in Pending(at, f) : Untold(k, p)
  /\ at = "foreground" => NotIn(t, f.pid)
  /\ at = "fork" => \A j \in DOMAIN f.pids : NotIn(t, f.pids[j])
  /\ at \in {"fork", "collect"} => PipelineKnown(k, t, f)
  /\ at = "wait_job" => \E job \in JobsOf(t) : job.pgid = f.job.pgid

OrderlyInv ==
  Orderly => /\ \A job \in JobsOf(table) : KnownJob(kernel, job)
             /\ Accounted(kernel, table, pc, frame)

-----------------------------------------------------------------------------
(* Lookups.                                                                *)

(* A set of numbers has a least one.                                       *)
LEMMA LeastOf ==
  ASSUME NEW S \in SUBSET Nat, S # {}
  PROVE  \E x \in S : \A y \in S : x <= y
<1>1. PICK x \in S : \A y \in S : ~(<<y, x>> \in OpToRel(<, Nat))
  BY NatLessThanWellFounded, WFMin
<1> DEFINE less == {p \in Nat \X Nat : p[1] < p[2]}
<1>2. OpToRel(<, Nat) = less
  BY DEF OpToRel
<1>3. \A y \in S : ~(<<y, x>> \in less)
  BY <1>1, <1>2
<1>4. ASSUME NEW y \in S PROVE x <= y
  <2>1. x \in Nat /\ y \in Nat
    OBVIOUS
  <2>2. ~(<<y, x>>[1] < <<y, x>>[2])
    BY <1>3, <2>1
  <2> QED
    BY <2>1, <2>2
<1> QED
  BY <1>4

(* The minimum of a set of numbers is one of them.                         *)
LEMMA MinIs ==
  ASSUME NEW S \in SUBSET Nat, S # {}
  PROVE  Min(S) \in S
<1>1. \E x \in S : \A y \in S : x <= y
  BY LeastOf
<1> QED
  BY <1>1, Zenon DEF Min

(* What a scan of an array returns.                                        *)
LEMMA FirstOf ==
  ASSUME NEW n \in Nat, NEW I \in SUBSET (1 .. n)
  PROVE  LET i == IF I # {} THEN Min(I) ELSE 0
         IN  /\ i \in {0} \cup I
             /\ i = 0 <=> I = {}
<1>1. I \in SUBSET Nat /\ 0 \notin I
  OBVIOUS
<1>2. I # {} => Min(I) \in I
  BY <1>1, MinIs
<1> QED
  BY <1>1, <1>2

(* The jobs of a table are well formed.                                    *)
LEMMA JobsTyped ==
  ASSUME NEW t \in Tables
  PROVE  /\ t.jobs \in Seq(JobRecords) /\ DOMAIN t.jobs = 1 .. Len(t.jobs)
         /\ Len(t.jobs) \in Nat
         /\ \A k \in DOMAIN t.jobs : t.jobs[k] \in JobRecords /\ t.jobs[k] \in JobsOf(t)
         /\ t.next_job_id \in Nat /\ t.next_serial \in Nat
         /\ JobsOf(t) \subseteq JobRecords
<1>1. t.jobs \in Seq(JobRecords) /\ t.next_job_id \in Nat /\ t.next_serial \in Nat
  BY DEF Tables
<1> QED
  BY <1>1 DEF JobsOf

(* The processes of a job are well formed.                                 *)
LEMMA ProcsTyped ==
  ASSUME NEW job \in JobRecords
  PROVE  /\ job.procs \in Seq(Processes) /\ DOMAIN job.procs = 1 .. Len(job.procs)
         /\ Len(job.procs) \in Nat
         /\ \A i \in DOMAIN job.procs : job.procs[i] \in Processes /\ job.procs[i].pid \in Pids
         /\ job.pgid \in Pids /\ job.status_pid \in Pids /\ job.serial \in Nat
         /\ job.stopped \in BOOLEAN
<1>1. job.procs \in Seq(Processes)
  BY DEF JobRecords
<1>2. \A i \in DOMAIN job.procs : job.procs[i] \in Processes
  BY <1>1
<1> QED
  BY <1>1, <1>2 DEF JobRecords, Processes

(* The pids of a job.                                                      *)
LEMMA PidsOfIs ==
  ASSUME NEW job
  PROVE  PidsOf(job) = {job.procs[i].pid : i \in DOMAIN job.procs}
BY DEF PidsOf, ProcessesOf

(* find_job_by_pgid returns the entry of that group, or 0.                 *)
LEMMA PgidLookup ==
  ASSUME NEW t \in Tables, NEW g
  PROVE  LET k == find_job_by_pgid(t, g)
         IN  /\ k \in {0} \cup DOMAIN t.jobs
             /\ k # 0 => t.jobs[k].pgid = g
             /\ k = 0 => \A job \in JobsOf(t) : job.pgid # g
<1> DEFINE I == {i \in 1 .. Len(t.jobs) : t.jobs[i].pgid = g}
<1>1. find_job_by_pgid(t, g) = IF I # {} THEN Min(I) ELSE 0
  BY DEF find_job_by_pgid, SelectInSeq
<1>2. DOMAIN t.jobs = 1 .. Len(t.jobs) /\ Len(t.jobs) \in Nat
  BY JobsTyped
<1>3. \A i \in I : i \in DOMAIN t.jobs /\ t.jobs[i].pgid = g
  BY <1>2
<1>4. I = {} => \A job \in JobsOf(t) : job.pgid # g
  BY <1>2 DEF JobsOf
<1>5. I \in SUBSET (1 .. Len(t.jobs))
  OBVIOUS
<1> HIDE DEF I
<1> QED
  BY <1>1, <1>2, <1>3, <1>4, <1>5, FirstOf

(* find_process returns a process with that pid, or 0.                     *)
LEMMA ProcessLookup ==
  ASSUME NEW job \in JobRecords, NEW pid
  PROVE  LET i == find_process(job, pid)
         IN  /\ i \in {0} \cup DOMAIN job.procs
             /\ i # 0 => job.procs[i].pid = pid
             /\ i = 0 <=> pid \notin PidsOf(job)
<1> DEFINE I == {i \in 1 .. Len(job.procs) : job.procs[i].pid = pid}
<1>1. find_process(job, pid) = IF I # {} THEN Min(I) ELSE 0
  BY DEF find_process, SelectInSeq
<1>2. DOMAIN job.procs = 1 .. Len(job.procs) /\ Len(job.procs) \in Nat
  BY ProcsTyped
<1>3. \A i \in I : i \in DOMAIN job.procs /\ job.procs[i].pid = pid
  BY <1>2
<1>4. I = {} <=> pid \notin PidsOf(job)
  BY <1>2, PidsOfIs
<1>5. I \in SUBSET (1 .. Len(job.procs))
  OBVIOUS
<1> HIDE DEF I
<1> QED
  BY <1>1, <1>2, <1>3, <1>4, <1>5, FirstOf

(* find_job_by_pid returns a job that has the process, or 0.               *)
LEMMA PidLookup ==
  ASSUME NEW t \in Tables, NEW pid
  PROVE  LET k == find_job_by_pid(t, pid)
         IN  /\ k \in {0} \cup DOMAIN t.jobs
             /\ k # 0 => pid \in PidsOf(t.jobs[k])
             /\ k = 0 <=> NotIn(t, pid)
<1> DEFINE I == {i \in 1 .. Len(t.jobs) : find_process(t.jobs[i], pid) # 0}
<1>1. find_job_by_pid(t, pid) = IF I # {} THEN Min(I) ELSE 0
  BY DEF find_job_by_pid, SelectInSeq
<1>2. DOMAIN t.jobs = 1 .. Len(t.jobs) /\ Len(t.jobs) \in Nat
  BY JobsTyped
<1>3. \A i \in DOMAIN t.jobs : find_process(t.jobs[i], pid) # 0 <=> pid \in PidsOf(t.jobs[i])
  BY JobsTyped, ProcessLookup
<1>4. \A i \in I : i \in DOMAIN t.jobs /\ pid \in PidsOf(t.jobs[i])
  BY <1>2, <1>3
<1>5. I = {} <=> NotIn(t, pid)
  BY <1>2, <1>3 DEF JobsOf, NotIn
<1>6. I \in SUBSET (1 .. Len(t.jobs))
  OBVIOUS
<1> DEFINE k == find_job_by_pid(t, pid)
<1> HIDE DEF I
<1>10. k = IF I # {} THEN Min(I) ELSE 0
  BY <1>1
<1> HIDE DEF k
<1>7. k \in {0} \cup I /\ (k = 0 <=> I = {})
  BY <1>2, <1>6, <1>10, FirstOf
<1>8. k # 0 => k \in I
  BY <1>7
<1>9. k \in {0} \cup DOMAIN t.jobs /\ (k # 0 => pid \in PidsOf(t.jobs[k])) /\ (k = 0 <=> NotIn(t, pid))
  BY <1>4, <1>5, <1>7, <1>8
<1> QED
  BY <1>9 DEF k

(* A group has one job.                                                    *)
LEMMA OneJobOfGroup ==
  ASSUME NEW t, TableOK(t), NEW a \in JobsOf(t), NEW b \in JobsOf(t), a.pgid = b.pgid
  PROVE  a = b
BY DEF TableOK, JobsOf

(* The job found by its group.                                             *)
LEMMA FoundByPgid ==
  ASSUME NEW t, TableOK(t), NEW a \in JobsOf(t)
  PROVE  LET k == find_job_by_pgid(t, a.pgid)
         IN  k # 0 /\ k \in DOMAIN t.jobs /\ t.jobs[k] = a
<1>1. t \in Tables
  BY DEF TableOK
<1> DEFINE k == find_job_by_pgid(t, a.pgid)
<1>2. k \in DOMAIN t.jobs /\ t.jobs[k].pgid = a.pgid /\ k # 0
  BY <1>1, PgidLookup
<1>3. t.jobs[k] \in JobsOf(t)
  BY <1>1, <1>2, JobsTyped
<1> QED
  BY <1>2, <1>3, OneJobOfGroup

-----------------------------------------------------------------------------
(* Updates of the table.  Each rewrites the job of a group, adds a job or  *)
(* drops one; the job a group has afterwards is known up to its serial and *)
(* its command.                                                            *)
Others(t, g) == {job \in JobsOf(t) : job.pgid # g}

Put(t, u, b) == TableOK(u) /\ JobsOf(u) = Others(t, b.pgid) \cup {b}

Drop(t, u, g) == TableOK(u) /\ JobsOf(u) = Others(t, g)

Alike(a, b) == /\ a.pgid = b.pgid
               /\ a.status_pid = b.status_pid
               /\ a.stopped = b.stopped
               /\ a.procs = b.procs

Puts(t, u, a) == \E b \in JobRecords : Alike(a, b) /\ Put(t, u, b)

(* One entry of the array is rewritten.                                    *)
LEMMA EntryRewritten ==
  ASSUME NEW t, TableOK(t), NEW k \in DOMAIN t.jobs, NEW job \in JobRecords, JobOK(job),
         job.pgid = t.jobs[k].pgid,
         NEW u \in Tables, u.jobs = [t.jobs EXCEPT ![k] = job],
         job.serial < u.next_serial, t.next_serial <= u.next_serial
  PROVE  Put(t, u, job)
<1>1. t \in Tables
  BY DEF TableOK
<1>2. /\ DOMAIN u.jobs = DOMAIN t.jobs
      /\ \A l \in DOMAIN t.jobs : u.jobs[l] = IF l = k THEN job ELSE t.jobs[l]
  BY <1>1, JobsTyped
<1>3. \A l \in DOMAIN t.jobs : t.jobs[l].pgid = job.pgid <=> l = k
  BY DEF TableOK
<1>4. JobsOf(u) = Others(t, job.pgid) \cup {job}
  <2>1. \A l \in DOMAIN t.jobs : u.jobs[l] \in Others(t, job.pgid) \cup {job}
    BY <1>2, <1>3 DEF Others, JobsOf
  <2>2. \A a \in Others(t, job.pgid) : a \in JobsOf(u)
    BY <1>2, <1>3 DEF Others, JobsOf
  <2>3. job \in JobsOf(u)
    BY <1>2 DEF JobsOf
  <2>4. JobsOf(u) \subseteq Others(t, job.pgid) \cup {job}
    BY <1>2, <2>1 DEF JobsOf
  <2> QED
    BY <2>2, <2>3, <2>4
<1>5. ASSUME NEW k1 \in DOMAIN u.jobs, NEW k2 \in DOMAIN u.jobs, u.jobs[k1].pgid = u.jobs[k2].pgid
      PROVE  k1 = k2
  <2>1. t.jobs[k1].pgid = t.jobs[k2].pgid
    BY <1>2, <1>5
  <2> QED
    BY <1>2, <2>1 DEF TableOK
<1>6. ASSUME NEW a \in JobsOf(u)
      PROVE  JobOK(a) /\ a.serial < u.next_serial
  <2>1. CASE a = job
    BY <2>1
  <2>2. CASE a # job
    <3>1. a \in JobsOf(t)
      BY <1>4, <2>2 DEF Others
    <3>2. JobOK(a) /\ a.serial < t.next_serial /\ a.serial \in Nat
      BY <1>1, <3>1, JobsTyped, ProcsTyped DEF TableOK
    <3>3. t.next_serial \in Nat /\ u.next_serial \in Nat
      BY <1>1, JobsTyped
    <3> QED
      BY <3>2, <3>3
  <2> QED
    BY <2>1, <2>2
<1>7. TableOK(u)
  BY <1>5, <1>6 DEF TableOK
<1> QED
  BY <1>4, <1>7 DEF Put

(* ... and may be made the current job then.                               *)
LEMMA EntryPut ==
  ASSUME NEW t, TableOK(t), NEW k \in DOMAIN t.jobs, NEW job \in JobRecords, JobOK(job),
         job.pgid = t.jobs[k].pgid, job.serial = t.jobs[k].serial
  PROVE  /\ Puts(t, [t EXCEPT !.jobs[k] = job], job)
         /\ Puts(t, touch_job([t EXCEPT !.jobs[k] = job], k), job)
<1>1. t \in Tables
  BY DEF TableOK
<1>2. /\ t.jobs \in Seq(JobRecords) /\ t.next_job_id \in Nat /\ t.next_serial \in Nat
      /\ t.jobs[k] \in JobsOf(t) /\ job.serial \in Nat
      /\ DOMAIN t.jobs = 1 .. Len(t.jobs) /\ Len(t.jobs) \in Nat
  BY <1>1, JobsTyped, ProcsTyped
<1>3. job.serial < t.next_serial
  BY <1>2 DEF TableOK
<1> DEFINE u == [t EXCEPT !.jobs[k] = job]
           jobs == [t.jobs EXCEPT ![k] = job]
<1>4. u = [jobs |-> jobs, next_job_id |-> t.next_job_id, next_serial |-> t.next_serial]
  BY <1>1 DEF Tables
<1>5. jobs \in Seq(JobRecords) /\ jobs[k] = job /\ DOMAIN jobs = DOMAIN t.jobs
  BY <1>2
<1> HIDE DEF u
<1>6. u \in Tables /\ u.jobs = jobs /\ u.next_serial = t.next_serial
  <2> HIDE DEF jobs
  <2> QED
    BY <1>2, <1>4, <1>5 DEF Tables
<1>7. Put(t, u, job)
  <2>1. t.next_serial <= u.next_serial /\ job.serial < u.next_serial
    BY <1>2, <1>3, <1>6
  <2> QED
    BY <1>6, <2>1, EntryRewritten
<1>8. Puts(t, u, job)
  <2>1. Alike(job, job)
    BY DEF Alike
  <2> QED
    BY <1>7, <2>1 DEF Puts
<1> DEFINE v == touch_job(u, k)
           new == [job EXCEPT !.serial = t.next_serial]
<1>9. new \in JobRecords /\ Alike(job, new) /\ new.serial = t.next_serial
  BY <1>2 DEF JobRecords, Alike
<1>10. /\ v.jobs = [jobs EXCEPT ![k].serial = t.next_serial]
       /\ v.next_serial = t.next_serial + 1
       /\ v = [jobs |-> v.jobs, next_job_id |-> u.next_job_id, next_serial |-> t.next_serial + 1]
  BY <1>6 DEF touch_job
<1>11. v.jobs = [t.jobs EXCEPT ![k] = new]
  BY <1>5, <1>10
<1> HIDE DEF v, new, jobs
<1>12. [t.jobs EXCEPT ![k] = new] \in Seq(JobRecords)
  BY <1>2, <1>9
<1>13. v \in Tables
  BY <1>2, <1>4, <1>10, <1>11, <1>12 DEF Tables
<1>14. Put(t, v, new)
  <2>1. new.serial < v.next_serial /\ t.next_serial <= v.next_serial
    BY <1>2, <1>9, <1>10
  <2>2. JobOK(new) /\ new.pgid = t.jobs[k].pgid
    BY <1>9 DEF JobOK, Alike
  <2> QED
    BY <1>9, <1>11, <1>13, <2>1, <2>2, EntryRewritten
<1>15. Puts(t, v, job)
  BY <1>9, <1>14 DEF Puts
<1> QED
  BY <1>8, <1>15 DEF u, v

(* A job of a group that had none.                                         *)
LEMMA JobAdded ==
  ASSUME NEW t, TableOK(t), NEW job \in JobRecords, JobOK(job), job.serial = t.next_serial,
         \A a \in JobsOf(t) : a.pgid # job.pgid
  PROVE  Put(t, [jobs |-> Append(t.jobs, job), next_job_id |-> t.next_job_id + 1,
                 next_serial |-> t.next_serial + 1], job)
<1>1. t \in Tables
  BY DEF TableOK
<1>2. /\ t.jobs \in Seq(JobRecords) /\ t.next_job_id \in Nat /\ t.next_serial \in Nat
      /\ DOMAIN t.jobs = 1 .. Len(t.jobs) /\ Len(t.jobs) \in Nat
      /\ JobsOf(t) \subseteq JobRecords
  BY <1>1, JobsTyped
<1> DEFINE jobs == Append(t.jobs, job)
           u == [jobs |-> jobs, next_job_id |-> t.next_job_id + 1, next_serial |-> t.next_serial + 1]
           n == Len(t.jobs)
<1>3. /\ jobs \in Seq(JobRecords) /\ DOMAIN jobs = 1 .. n + 1 /\ jobs[n + 1] = job
      /\ \A l \in 1 .. n : jobs[l] = t.jobs[l]
  BY <1>2
<1> HIDE DEF jobs, n
<1>4. u \in Tables /\ u.jobs = jobs /\ u.next_serial = t.next_serial + 1
  BY <1>2, <1>3 DEF Tables
<1> HIDE DEF u
<1>5. n \in Nat /\ DOMAIN t.jobs = 1 .. n /\ (\A l \in 1 .. n + 1 : l \in 1 .. n \/ l = n + 1)
      /\ n + 1 \in 1 .. n + 1 /\ \A l \in 1 .. n : l \in 1 .. n + 1
  BY <1>2 DEF n
<1>6. Others(t, job.pgid) = JobsOf(t)
  BY DEF Others
<1>7. JobsOf(u) = JobsOf(t) \cup {job}
  <2>1. \A l \in 1 .. n + 1 : jobs[l] \in JobsOf(t) \cup {job}
    BY <1>3, <1>5 DEF JobsOf
  <2>2. JobsOf(t) \cup {job} \subseteq JobsOf(u)
    BY <1>3, <1>4, <1>5 DEF JobsOf
  <2>3. JobsOf(u) \subseteq JobsOf(t) \cup {job}
    BY <1>3, <1>4, <2>1 DEF JobsOf
  <2> QED
    BY <2>2, <2>3
<1>8. ASSUME NEW k \in DOMAIN u.jobs, NEW l \in DOMAIN u.jobs, u.jobs[k].pgid = u.jobs[l].pgid
      PROVE  k = l
  <2>1. \A i \in 1 .. n : u.jobs[i] = t.jobs[i] /\ t.jobs[i].pgid # job.pgid
    BY <1>3, <1>4, <1>5 DEF JobsOf
  <2>2. u.jobs[n + 1] = job
    BY <1>3, <1>4
  <2>3. k \in 1 .. n \/ k = n + 1
    BY <1>3, <1>4, <1>5
  <2>4. l \in 1 .. n \/ l = n + 1
    BY <1>3, <1>4, <1>5
  <2>5. CASE k \in 1 .. n /\ l \in 1 .. n
    BY <1>5, <1>8, <2>1, <2>5 DEF TableOK
  <2> QED
    BY <1>8, <2>1, <2>2, <2>3, <2>4, <2>5
<1>9. ASSUME NEW a \in JobsOf(u)
      PROVE  JobOK(a) /\ a.serial < u.next_serial
  <2>1. a.serial \in Nat
    BY <1>2, <1>7, ProcsTyped
  <2>2. a.serial <= t.next_serial
    BY <1>2, <1>7, <2>1 DEF TableOK
  <2> QED
    BY <1>2, <1>4, <1>7, <2>1, <2>2 DEF TableOK
<1>10. TableOK(u)
  BY <1>4, <1>8, <1>9 DEF TableOK
<1> QED
  BY <1>6, <1>7, <1>10 DEF Put, u, jobs

-----------------------------------------------------------------------------
(* What the functions of jobs.h do to a table.                             *)

(* A job of which one process is noted to have a status.                   *)
NotedJob(a, b, pid, report) ==
  /\ b.pgid = a.pgid /\ b.status_pid = a.status_pid
  /\ DOMAIN b.procs = DOMAIN a.procs
  /\ b.stopped = job_any_stopped(b)
  /\ \E i \in DOMAIN a.procs :
       /\ a.procs[i].pid = pid
       /\ b.procs[i] = NotedProcess(a.procs[i], report)
       /\ \A j \in DOMAIN a.procs : j # i => b.procs[j] = a.procs[j]

NotedIn(t, u, pid, report) ==
  \/ NotIn(t, pid) /\ u = t
  \/ \E a \in JobsOf(t), b \in JobRecords : Put(t, u, b) /\ NotedJob(a, b, pid, report)

(* A job with other processes' flags is the same job.                      *)
LEMMA SameEnds ==
  ASSUME NEW a \in JobRecords, JobOK(a), NEW b \in JobRecords, b.status_pid = a.status_pid,
         DOMAIN b.procs = DOMAIN a.procs,
         \A i \in DOMAIN a.procs : b.procs[i].pid = a.procs[i].pid
  PROVE  JobOK(b) /\ Len(b.procs) = Len(a.procs) /\ PidsOf(b) = PidsOf(a)
<1>1. /\ DOMAIN a.procs = 1 .. Len(a.procs) /\ Len(a.procs) \in Nat
      /\ DOMAIN b.procs = 1 .. Len(b.procs) /\ Len(b.procs) \in Nat
      /\ a.procs \in Seq(Processes) /\ b.procs \in Seq(Processes)
  BY ProcsTyped
<1>2. a.procs # <<>> /\ a.status_pid = a.procs[Len(a.procs)].pid
  BY DEF JobOK
<1>3. Len(a.procs) # 0
  BY <1>1, <1>2
<1>4. Len(b.procs) = Len(a.procs)
  BY <1>1
<1>5. Len(a.procs) \in DOMAIN a.procs
  BY <1>1, <1>3
<1>6. b.procs # <<>>
  BY <1>3, <1>4
<1>7. b.status_pid = b.procs[Len(b.procs)].pid
  BY <1>2, <1>4, <1>5
<1>8. PidsOf(b) = PidsOf(a)
  BY PidsOfIs
<1> QED
  BY <1>4, <1>6, <1>7, <1>8 DEF JobOK

(* What is noted of a process.                                             *)
LEMMA NotedTyped ==
  ASSUME NEW p \in Processes, NEW report \in Reports
  PROVE  /\ NotedProcess(p, report) \in Processes
         /\ NotedProcess(p, report).pid = p.pid
         /\ NotedProcess(p, report).status = report
         /\ NotedProcess(p, report).stopped = WIFSTOPPED(report)
         /\ NotedProcess(p, report).done = Terminated(report)
<1>1. report \in KnownStatuses /\ report # NoStatus
  BY DEF Reports
<1>2. WIFSTOPPED(report) \in BOOLEAN /\ Terminated(report) \in BOOLEAN
      /\ (WIFSTOPPED(report) <=> ~Terminated(report))
  BY <1>1 DEF WIFSTOPPED, Terminated, KnownStatuses, NoStatus, Stopped, Signaled, Exited
<1>3. p.pid \in Pids /\ p.done \in BOOLEAN
  BY DEF Processes
<1> DEFINE q == NotedProcess(p, report)
<1>5. q = [pid |-> p.pid, stopped |-> WIFSTOPPED(report),
           done |-> ~WIFSTOPPED(report) /\ (Terminated(report) \/ p.done), status |-> report]
  BY DEF NotedProcess
<1>6. q.done = (~WIFSTOPPED(report) /\ (Terminated(report) \/ p.done)) /\ q.done \in BOOLEAN
  BY <1>5
<1>7. q.done <=> Terminated(report)
  BY <1>2, <1>6
<1>8. q \in Processes
  BY <1>1, <1>2, <1>3, <1>5 DEF Processes
<1> HIDE DEF q
<1>9. q.done = Terminated(report)
  BY <1>2, <1>6, <1>7
<1> QED
  BY <1>5, <1>8, <1>9 DEF q

(* jobs_note_process_status notes it of one process with that pid.         *)
LEMMA Notes ==
  ASSUME NEW t, TableOK(t), NEW pid, NEW report \in Reports
  PROVE  NotedIn(t, jobs_note_process_status(t, pid, report), pid, report)
<1>1. t \in Tables
  BY DEF TableOK
<1> DEFINE u == jobs_note_process_status(t, pid, report)
           k == find_job_by_pid(t, pid)
           i == find_process(t.jobs[k], pid)
           job == [t.jobs[k] EXCEPT !.procs[i] = NotedProcess(@, report)]
           stopped == job_any_stopped(job)
           new == [job EXCEPT !.stopped = stopped]
           noted == [t EXCEPT !.jobs[k] = new]
<1>2. u = IF k = 0 THEN t
          ELSE IF stopped /\ ~t.jobs[k].stopped THEN touch_job(noted, k) ELSE noted
  BY DEF jobs_note_process_status
<1>3. CASE k = 0
  <2>1. NotIn(t, pid)
    BY <1>1, <1>3, PidLookup
  <2> QED
    BY <1>2, <1>3, <2>1 DEF NotedIn
<1>4. CASE k # 0
  <2>1. k \in DOMAIN t.jobs /\ pid \in PidsOf(t.jobs[k])
    BY <1>1, <1>4, PidLookup
  <2> DEFINE a == t.jobs[k]
  <2> HIDE DEF k
  <2>2. a \in JobRecords /\ a \in JobsOf(t)
    BY <1>1, <2>1, JobsTyped
  <2>3. JobOK(a)
    BY <2>2 DEF TableOK
  <2>4. i \in DOMAIN a.procs /\ a.procs[i].pid = pid
    BY <2>1, <2>2, ProcessLookup
  <2> HIDE DEF i
  <2> DEFINE q == NotedProcess(a.procs[i], report)
             procs == [a.procs EXCEPT ![i] = q]
  <2>5. a.procs \in Seq(Processes) /\ a.procs[i] \in Processes
    BY <2>2, <2>4, ProcsTyped
  <2>6. q \in Processes /\ q.pid = pid
    BY <2>4, <2>5, NotedTyped
  <2>7. job = [a EXCEPT !.procs = procs]
    OBVIOUS
  <2> HIDE DEF a, q
  <2>8. procs \in Seq(Processes) /\ DOMAIN procs = DOMAIN a.procs /\ procs[i] = q
        /\ \A j \in DOMAIN a.procs : j # i => procs[j] = a.procs[j]
    BY <2>4, <2>5, <2>6
  <2> HIDE DEF procs
  <2>9. job.procs = procs
    BY <2>2, <2>7 DEF JobRecords
  <2>10. stopped = (\E j \in DOMAIN procs : procs[j].stopped /\ ~procs[j].done)
    BY <2>9 DEF job_any_stopped
  <2>11. /\ new \in JobRecords /\ new.procs = procs /\ new.stopped = stopped
         /\ new.pgid = a.pgid /\ new.status_pid = a.status_pid /\ new.serial = a.serial
    <3>1. stopped \in BOOLEAN
      BY <2>10
    <3> HIDE DEF stopped
    <3> QED
      BY <2>2, <2>7, <2>8, <3>1 DEF JobRecords
  <2> HIDE DEF new, job, stopped
  <2>12. JobOK(new)
    <3>1. \A j \in DOMAIN a.procs : new.procs[j].pid = a.procs[j].pid
      BY <2>4, <2>6, <2>8, <2>11
    <3> QED
      BY <2>2, <2>3, <2>8, <2>11, <3>1, SameEnds
  <2>13. Puts(t, noted, new) /\ Puts(t, touch_job(noted, k), new)
    BY <2>1, <2>11, <2>12, EntryPut DEF a
  <2>14. Puts(t, u, new)
    BY <1>2, <1>4, <2>13
  <2>15. PICK b \in JobRecords : Alike(new, b) /\ Put(t, u, b)
    BY <2>14 DEF Puts
  <2>16. b.procs = procs /\ b.pgid = a.pgid /\ b.status_pid = a.status_pid /\ b.stopped = stopped
    BY <2>11, <2>15 DEF Alike
  <2>17. b.stopped = job_any_stopped(b)
    BY <2>10, <2>16 DEF job_any_stopped
  <2>18. NotedJob(a, b, pid, report)
    BY <2>4, <2>8, <2>16, <2>17 DEF NotedJob, q
  <2> QED
    BY <2>2, <2>15, <2>18 DEF NotedIn
<1> QED
  BY <1>3, <1>4

(* A job taken for running.                                                *)
MarkedJob(a, b) ==
  /\ b.pgid = a.pgid /\ b.status_pid = a.status_pid
  /\ DOMAIN b.procs = DOMAIN a.procs
  /\ b.stopped = FALSE
  /\ \A i \in DOMAIN a.procs : b.procs[i] = [a.procs[i] EXCEPT !.stopped = FALSE]

MarkedIn(t, u, g) ==
  \/ (\A a \in JobsOf(t) : a.pgid # g) /\ u = t
  \/ \E a \in JobsOf(t), b \in JobRecords : a.pgid = g /\ Put(t, u, b) /\ MarkedJob(a, b)

(* jobs_mark_job_running takes the job of a group for running.             *)
LEMMA Marks ==
  ASSUME NEW t, TableOK(t), NEW g
  PROVE  MarkedIn(t, jobs_mark_job_running(t, g), g)
<1>1. t \in Tables
  BY DEF TableOK
<1> DEFINE u == jobs_mark_job_running(t, g)
           k == find_job_by_pgid(t, g)
           a == t.jobs[k]
           procs == [i \in DOMAIN a.procs |-> [a.procs[i] EXCEPT !.stopped = FALSE]]
           running == [a EXCEPT !.stopped = FALSE, !.procs = procs]
<1>2. u = IF k = 0 THEN t ELSE touch_job([t EXCEPT !.jobs[k] = running], k)
  BY DEF jobs_mark_job_running
<1>3. CASE k = 0
  <2>1. \A job \in JobsOf(t) : job.pgid # g
    BY <1>1, <1>3, PgidLookup
  <2> QED
    BY <1>2, <1>3, <2>1 DEF MarkedIn
<1>4. CASE k # 0
  <2>1. k \in DOMAIN t.jobs /\ t.jobs[k].pgid = g
    BY <1>1, <1>4, PgidLookup
  <2> HIDE DEF k
  <2>2. a \in JobRecords /\ a \in JobsOf(t) /\ a.pgid = g
    BY <1>1, <2>1, JobsTyped
  <2>3. JobOK(a)
    BY <2>2 DEF TableOK
  <2> HIDE DEF a
  <2>4. a.procs \in Seq(Processes) /\ DOMAIN a.procs = 1 .. Len(a.procs) /\ Len(a.procs) \in Nat
        /\ \A i \in DOMAIN a.procs : a.procs[i] \in Processes
    BY <2>2, ProcsTyped
  <2>5. \A i \in DOMAIN a.procs : /\ [a.procs[i] EXCEPT !.stopped = FALSE] \in Processes
                                  /\ [a.procs[i] EXCEPT !.stopped = FALSE].pid = a.procs[i].pid
    BY <2>4 DEF Processes
  <2>6. procs \in Seq(Processes)
    <3>1. procs \in [1 .. Len(a.procs) -> Processes]
      BY <2>4, <2>5
    <3> QED
      BY <2>4, <3>1
  <2>7. DOMAIN procs = DOMAIN a.procs
        /\ \A i \in DOMAIN a.procs : procs[i] = [a.procs[i] EXCEPT !.stopped = FALSE]
    OBVIOUS
  <2> HIDE DEF procs
  <2>8. /\ running \in JobRecords /\ running.procs = procs /\ running.stopped = FALSE
        /\ running.pgid = a.pgid /\ running.status_pid = a.status_pid /\ running.serial = a.serial
    BY <2>2, <2>6 DEF JobRecords
  <2> HIDE DEF running
  <2>9. JobOK(running)
    <3>1. \A j \in DOMAIN a.procs : running.procs[j].pid = a.procs[j].pid
      BY <2>5, <2>7, <2>8
    <3> QED
      BY <2>2, <2>3, <2>7, <2>8, <3>1, SameEnds
  <2>10. Puts(t, u, running)
    BY <1>2, <1>4, <2>1, <2>8, <2>9, EntryPut DEF a
  <2>11. PICK b \in JobRecords : Alike(running, b) /\ Put(t, u, b)
    BY <2>10 DEF Puts
  <2>12. MarkedJob(a, b)
    BY <2>7, <2>8, <2>11 DEF MarkedJob, Alike
  <2> QED
    BY <2>2, <2>11, <2>12 DEF MarkedIn
<1> QED
  BY <1>3, <1>4

(* jobs_forget_pgid drops the job of a group, wherever the swap of the     *)
(* last entry into its place leaves the others.                            *)
LEMMA Forgets ==
  ASSUME NEW t, TableOK(t), NEW g
  PROVE  Drop(t, jobs_forget_pgid(t, g), g)
<1>1. t \in Tables
  BY DEF TableOK
<1> DEFINE u == jobs_forget_pgid(t, g)
           k == find_job_by_pgid(t, g)
           n == Len(t.jobs)
           from(i) == IF i = k THEN n ELSE i
           kept == [i \in 1 .. n - 1 |-> IF i = k THEN t.jobs[n] ELSE t.jobs[i]]
<1>2. u = IF k = 0 THEN t ELSE [t EXCEPT !.jobs = kept]
  BY DEF jobs_forget_pgid
<1>3. CASE k = 0
  <2>1. \A job \in JobsOf(t) : job.pgid # g
    BY <1>1, <1>3, PgidLookup
  <2>2. Others(t, g) = JobsOf(t)
    BY <2>1 DEF Others
  <2> QED
    BY <1>2, <1>3, <2>2 DEF Drop
<1>4. CASE k # 0
  <2>1. k \in DOMAIN t.jobs /\ t.jobs[k].pgid = g
    BY <1>1, <1>4, PgidLookup
  <2> HIDE DEF k
  <2>2. /\ t.jobs \in Seq(JobRecords) /\ DOMAIN t.jobs = 1 .. n /\ n \in Nat
        /\ t.next_job_id \in Nat /\ t.next_serial \in Nat
        /\ JobsOf(t) \subseteq JobRecords
    BY <1>1, JobsTyped
  <2>3. /\ DOMAIN kept = 1 .. n - 1
        /\ \A i \in 1 .. n - 1 : from(i) \in DOMAIN t.jobs /\ kept[i] = t.jobs[from(i)]
        /\ \A i, j \in 1 .. n - 1 : i # j => from(i) # from(j)
        /\ \A i \in 1 .. n - 1 : from(i) # k
        /\ \A m \in DOMAIN t.jobs \ {k} : \E i \in 1 .. n - 1 : from(i) = m
    <3>1. \A m \in DOMAIN t.jobs \ {k} :
            IF m = n THEN k \in 1 .. n - 1 /\ from(k) = m
                     ELSE m \in 1 .. n - 1 /\ from(m) = m
      BY <2>1, <2>2
    <3>2. \A m \in DOMAIN t.jobs \ {k} : \E i \in 1 .. n - 1 : from(i) = m
      <4> HIDE DEF from
      <4> QED
        BY <3>1
    <3> QED
      BY <2>1, <2>2, <3>2
  <2>4. kept \in Seq(JobRecords)
    <3>1. n - 1 \in Nat
      BY <2>1, <2>2
    <3>2. kept \in [1 .. n - 1 -> JobRecords]
      BY <2>2, <2>3
    <3> QED
      BY <3>1, <3>2
  <2> HIDE DEF kept, from, n
  <2>5. /\ u = [jobs |-> kept, next_job_id |-> t.next_job_id, next_serial |-> t.next_serial]
        /\ u.jobs = kept
        /\ u.next_serial = t.next_serial
    BY <1>1, <1>2, <1>4 DEF Tables
  <2>6. u \in Tables
    BY <2>2, <2>4, <2>5 DEF Tables
  <2> HIDE DEF u
  <2>7. \A i \in DOMAIN u.jobs : from(i) \in DOMAIN t.jobs /\ from(i) # k /\ u.jobs[i] = t.jobs[from(i)]
    BY <2>3, <2>5
  <2>8. \A m \in DOMAIN t.jobs : t.jobs[m].pgid = g <=> m = k
    BY <2>1 DEF TableOK
  <2>9. JobsOf(u) = Others(t, g)
    <3>1. \A i \in DOMAIN u.jobs : u.jobs[i] \in Others(t, g)
      BY <2>7, <2>8 DEF Others, JobsOf
    <3>2. \A m \in DOMAIN t.jobs \ {k} : t.jobs[m] \in JobsOf(u)
      BY <2>3, <2>5, <2>7 DEF JobsOf
    <3>3. \A a \in Others(t, g) : \E m \in DOMAIN t.jobs \ {k} : a = t.jobs[m]
      BY <2>8 DEF Others, JobsOf
    <3>4. Others(t, g) \subseteq JobsOf(u)
      BY <3>2, <3>3
    <3>5. JobsOf(u) \subseteq Others(t, g)
      BY <3>1 DEF JobsOf
    <3> QED
      BY <3>4, <3>5
  <2>10. ASSUME NEW i \in DOMAIN u.jobs, NEW j \in DOMAIN u.jobs, u.jobs[i].pgid = u.jobs[j].pgid
         PROVE  i = j
    <3>1. from(i) = from(j)
      BY <2>7, <2>10 DEF TableOK
    <3> QED
      BY <2>3, <2>5, <3>1
  <2>11. \A a \in JobsOf(u) : JobOK(a) /\ a.serial < u.next_serial
    BY <2>5, <2>9 DEF Others, TableOK
  <2>12. TableOK(u)
    BY <2>6, <2>10, <2>11 DEF TableOK
  <2> QED
    BY <2>9, <2>12 DEF Drop, u
<1> QED
  BY <1>3, <1>4

(* A job that is tracked: of its processes those are known that were       *)
(* already in the job of that group.                                       *)
TrackedJob(t, b, pgid, pids, stopped) ==
  /\ b.pgid = pgid /\ b.stopped = stopped
  /\ DOMAIN b.procs = DOMAIN pids
  /\ \A i \in DOMAIN pids :
       /\ b.procs[i].pid = pids[i]
       /\ \/ /\ b.procs[i] = NewProcess(pids[i])
             /\ \A a \in JobsOf(t) : a.pgid = pgid => pids[i] \notin PidsOf(a)
          \/ \E a \in JobsOf(t) : \E j \in DOMAIN a.procs :
               a.pgid = pgid /\ b.procs[i] = a.procs[j]

TrackedIn(t, u, pgid, pids, stopped) ==
  \E b \in JobRecords : Put(t, u, b) /\ TrackedJob(t, b, pgid, pids, stopped)

(* A new process is a process.                                             *)
LEMMA NewProcessTyped ==
  ASSUME NEW p \in Pids
  PROVE  NewProcess(p) \in Processes /\ NewProcess(p).pid = p
BY DEF NewProcess, Processes, KnownStatuses

(* jobs_track_job files a job with these processes.                        *)
LEMMA Tracks ==
  ASSUME NEW t, TableOK(t), NEW pgid \in Pids, NEW pids \in Seq(Pids), pids # <<>>,
         NEW command \in Commands, NEW stopped \in BOOLEAN
  PROVE  TrackedIn(t, jobs_track_job(t, pgid, pids, pids[Len(pids)], command, stopped),
                   pgid, pids, stopped)
<1>1. t \in Tables
  BY DEF TableOK
<1> DEFINE last == pids[Len(pids)]
           u == jobs_track_job(t, pgid, pids, last, command, stopped)
           k == find_job_by_pgid(t, pgid)
<1>2. /\ DOMAIN pids = 1 .. Len(pids) /\ Len(pids) \in Nat /\ Len(pids) \in DOMAIN pids
      /\ last \in Pids /\ \A i \in DOMAIN pids : pids[i] \in Pids
  OBVIOUS
<1>3. /\ t.jobs \in Seq(JobRecords) /\ t.next_job_id \in Nat /\ t.next_serial \in Nat
  BY <1>1, JobsTyped
<1> HIDE DEF last
<1>4. ASSUME NEW procs \in [DOMAIN pids -> Processes], NEW job \in JobRecords,
             job.procs = procs, job.status_pid = last,
             \A i \in DOMAIN pids : procs[i].pid = pids[i]
      PROVE  JobOK(job) /\ procs \in Seq(Processes)
  <2>1. procs \in Seq(Processes) /\ Len(procs) = Len(pids) /\ procs # <<>>
    BY <1>2
  <2> QED
    BY <1>2, <1>4, <2>1 DEF JobOK, last
<1>5. CASE k = 0
  <2>1. \A a \in JobsOf(t) : a.pgid # pgid
    BY <1>1, <1>5, PgidLookup
  <2> DEFINE procs == [i \in DOMAIN pids |-> NewProcess(pids[i])]
             job == [pgid |-> pgid, job_id |-> t.next_job_id, serial |-> t.next_serial,
                     stopped |-> stopped, command |-> command, status_pid |-> last,
                     procs |-> procs]
  <2>2. u = [jobs |-> Append(t.jobs, job), next_job_id |-> t.next_job_id + 1,
             next_serial |-> t.next_serial + 1]
    BY <1>5 DEF jobs_track_job, add_job
  <2>3. procs \in [DOMAIN pids -> Processes] /\ \A i \in DOMAIN pids : procs[i].pid = pids[i]
    BY <1>2, NewProcessTyped
  <2>4. \A i \in DOMAIN pids : procs[i] = NewProcess(pids[i])
    OBVIOUS
  <2> HIDE DEF procs
  <2>5. procs \in Seq(Processes)
    BY <1>2, <2>3
  <2>6. /\ job \in JobRecords /\ job.procs = procs /\ job.status_pid = last
        /\ job.serial = t.next_serial /\ job.pgid = pgid /\ job.stopped = stopped
    BY <1>2, <1>3, <2>5 DEF JobRecords
  <2> HIDE DEF job
  <2>7. JobOK(job)
    BY <1>4, <2>3, <2>6
  <2>8. Put(t, u, job)
    BY <2>1, <2>2, <2>6, <2>7, JobAdded
  <2>9. TrackedJob(t, job, pgid, pids, stopped)
    BY <2>1, <2>3, <2>4, <2>6 DEF TrackedJob
  <2> QED
    BY <2>6, <2>8, <2>9 DEF TrackedIn, u, last
<1>6. CASE k # 0
  <2>1. k \in DOMAIN t.jobs /\ t.jobs[k].pgid = pgid
    BY <1>1, <1>6, PgidLookup
  <2> DEFINE a == t.jobs[k]
             procs == rebuild_job_processes(a, pids)
             job == [a EXCEPT !.procs = procs, !.status_pid = last, !.stopped = stopped,
                              !.command = command]
  <2>2. u = touch_job([t EXCEPT !.jobs[k] = job], k)
    BY <1>6 DEF jobs_track_job
  <2> HIDE DEF k
  <2>3. a \in JobRecords /\ a \in JobsOf(t) /\ a.pgid = pgid
    BY <1>1, <2>1, JobsTyped
  <2> HIDE DEF a
  <2>4. /\ DOMAIN procs = DOMAIN pids
        /\ \A i \in DOMAIN pids : procs[i] = IF find_process(a, pids[i]) = 0 THEN NewProcess(pids[i])
                                             ELSE a.procs[find_process(a, pids[i])]
        /\ procs = [i \in DOMAIN pids |-> procs[i]]
    BY DEF rebuild_job_processes
  <2> HIDE DEF procs
  <2>5. ASSUME NEW i \in DOMAIN pids
        PROVE  /\ procs[i] \in Processes /\ procs[i].pid = pids[i]
               /\ \/ procs[i] = NewProcess(pids[i]) /\ pids[i] \notin PidsOf(a)
                  \/ \E j \in DOMAIN a.procs : procs[i] = a.procs[j]
    <3> DEFINE j == find_process(a, pids[i])
    <3>1. CASE j = 0
      BY <1>2, <2>3, <2>4, <3>1, NewProcessTyped, ProcessLookup
    <3>2. CASE j # 0
      <4>1. j \in DOMAIN a.procs /\ a.procs[j].pid = pids[i] /\ procs[i] = a.procs[j]
        BY <2>3, <2>4, <3>2, ProcessLookup
      <4> HIDE DEF j
      <4> QED
        BY <2>3, <4>1, ProcsTyped
    <3> QED
      BY <3>1, <3>2
  <2>6. procs \in [DOMAIN pids -> Processes]
    BY <2>4, <2>5
  <2>7. procs \in Seq(Processes)
    BY <1>2, <2>6
  <2>8. /\ job \in JobRecords /\ job.procs = procs /\ job.status_pid = last
        /\ job.serial = a.serial /\ job.pgid = pgid /\ job.stopped = stopped
    BY <1>2, <2>3, <2>7 DEF JobRecords
  <2> HIDE DEF job
  <2>9. JobOK(job)
    BY <1>4, <2>5, <2>6, <2>8
  <2>10. Puts(t, u, job)
    BY <2>1, <2>2, <2>8, <2>9, EntryPut DEF a
  <2>11. PICK b \in JobRecords : Alike(job, b) /\ Put(t, u, b)
    BY <2>10 DEF Puts
  <2>12. \A c \in JobsOf(t) : c.pgid = pgid => c = a
    BY <2>3, OneJobOfGroup
  <2>13. b.procs = procs /\ b.pgid = pgid /\ b.stopped = stopped
    BY <2>8, <2>11 DEF Alike
  <2>14. TrackedJob(t, b, pgid, pids, stopped)
    BY <2>3, <2>4, <2>5, <2>12, <2>13 DEF TrackedJob
  <2> QED
    BY <2>11, <2>14 DEF TrackedIn, u, last
<1> QED
  BY <1>5, <1>6

-----------------------------------------------------------------------------
(* What the table is asked.                                                *)

(* A group is completed if it has a job whose processes are all done.      *)
LEMMA CompletedIs ==
  ASSUME NEW t, TableOK(t), NEW g
  PROVE  jobs_job_is_completed(t, g) <=> \E a \in JobsOf(t) : a.pgid = g /\ job_all_done(a)
<1>1. t \in Tables
  BY DEF TableOK
<1> DEFINE k == find_job_by_pgid(t, g)
<1>2. jobs_job_is_completed(t, g) <=> k # 0 /\ job_all_done(t.jobs[k])
  BY DEF jobs_job_is_completed
<1>3. CASE k = 0
  <2>1. \A a \in JobsOf(t) : a.pgid # g
    BY <1>1, <1>3, PgidLookup
  <2> QED
    BY <1>2, <1>3, <2>1
<1>4. CASE k # 0
  <2>1. k \in DOMAIN t.jobs /\ t.jobs[k].pgid = g
    BY <1>1, <1>4, PgidLookup
  <2>2. t.jobs[k] \in JobsOf(t)
    BY <1>1, <2>1, JobsTyped
  <2>3. \A a \in JobsOf(t) : a.pgid = g => a = t.jobs[k]
    BY <2>1, <2>2, OneJobOfGroup
  <2> QED
    BY <1>2, <1>4, <2>1, <2>2, <2>3
<1> QED
  BY <1>3, <1>4

(* The status of a job is that of a process with its status_pid.           *)
LEMMA StatusIs ==
  ASSUME NEW t, TableOK(t), NEW a \in JobsOf(t)
  PROVE  \E i \in DOMAIN a.procs : /\ a.procs[i].pid = a.status_pid
                                   /\ jobs_get_job_wait_status(t, a.pgid) = a.procs[i].status
<1>1. t \in Tables
  BY DEF TableOK
<1> DEFINE k == find_job_by_pgid(t, a.pgid)
           i == find_process(a, a.status_pid)
<1>2. k # 0 /\ t.jobs[k] = a
  BY FoundByPgid
<1>3. jobs_get_job_wait_status(t, a.pgid) = IF k = 0 \/ i = 0 THEN NoStatus ELSE a.procs[i].status
  BY <1>2 DEF jobs_get_job_wait_status
<1>4. a \in JobRecords /\ JobOK(a)
  BY <1>1, JobsTyped DEF TableOK
<1>5. a.status_pid \in PidsOf(a)
  <2>1. a.procs # <<>> /\ a.status_pid = a.procs[Len(a.procs)].pid
    BY <1>4 DEF JobOK
  <2>2. Len(a.procs) \in DOMAIN a.procs
    BY <1>4, <2>1, ProcsTyped
  <2> QED
    BY <2>1, <2>2, PidsOfIs
<1>6. i # 0 /\ i \in DOMAIN a.procs /\ a.procs[i].pid = a.status_pid
  BY <1>4, <1>5, ProcessLookup
<1> HIDE DEF k, i
<1> QED
  BY <1>2, <1>3, <1>6

(* A group without a job has no status.                                    *)
LEMMA NoStatusIs ==
  ASSUME NEW t, TableOK(t), NEW g, \A a \in JobsOf(t) : a.pgid # g
  PROVE  jobs_get_job_wait_status(t, g) = NoStatus
<1>1. t \in Tables
  BY DEF TableOK
<1> DEFINE k == find_job_by_pgid(t, g)
<1>2. k = 0
  <2>1. k \in DOMAIN t.jobs /\ k # 0 => t.jobs[k].pgid = g /\ t.jobs[k] \in JobsOf(t)
    BY <1>1, PgidLookup, JobsTyped
  <2>2. k \in {0} \cup DOMAIN t.jobs
    BY <1>1, PgidLookup
  <2> QED
    BY <2>1, <2>2
<1> QED
  BY <1>2 DEF jobs_get_job_wait_status

(* Among jobs one was touched last, since serials are below the counter.   *)
LEMMA LatestIs ==
  ASSUME NEW t, TableOK(t), NEW K \in SUBSET (DOMAIN t.jobs), K # {}
  PROVE  (CHOOSE k \in K : \A l \in K : t.jobs[l].serial <= t.jobs[k].serial) \in K
<1>1. t \in Tables
  BY DEF TableOK
<1>2. t.next_serial \in Nat /\ \A k \in K : t.jobs[k].serial \in Nat /\ t.jobs[k].serial < t.next_serial
  BY <1>1, JobsTyped, ProcsTyped DEF TableOK
<1> DEFINE age(k) == t.next_serial - t.jobs[k].serial
           S == {age(k) : k \in K}
<1>3. \A k \in K : age(k) \in Nat
  BY <1>2
<1>4. S \in SUBSET Nat /\ S # {}
  BY <1>3
<1>5. PICK x \in S : \A y \in S : x <= y
  BY <1>4, LeastOf
<1>6. PICK k \in K : x = age(k)
  BY <1>5
<1>7. \A l \in K : age(k) <= age(l)
  BY <1>5, <1>6
<1>8. \A l \in K : t.jobs[l].serial <= t.jobs[k].serial
  BY <1>2, <1>7
<1>9. \E j \in K : \A l \in K : t.jobs[l].serial <= t.jobs[j].serial
  BY <1>8
<1> QED
  BY <1>9, Zenon

(* get_best_job returns an entry of the table, or 0.                       *)
LEMMA BestIs ==
  ASSUME NEW t, TableOK(t), NEW stopped_only \in BOOLEAN, NEW rank
  PROVE  get_best_job(t, stopped_only, rank) \in {0} \cup DOMAIN t.jobs
<1> DEFINE Candidates == {k \in DOMAIN t.jobs : stopped_only => t.jobs[k].stopped}
           Latest(K) == IF K = {} THEN 0
                        ELSE CHOOSE k \in K : \A l \in K : t.jobs[l].serial <= t.jobs[k].serial
           best == Latest(Candidates)
<1>1. get_best_job(t, stopped_only, rank) =
        IF rank = 0 THEN best ELSE Latest(Candidates \ {best})
  BY DEF get_best_job
<1>2. ASSUME NEW K \in SUBSET (DOMAIN t.jobs)
      PROVE  Latest(K) \in {0} \cup DOMAIN t.jobs
  BY LatestIs
<1>3. Candidates \in SUBSET (DOMAIN t.jobs)
  OBVIOUS
<1> HIDE DEF Latest, Candidates
<1>4. Candidates \ {best} \in SUBSET (DOMAIN t.jobs)
  BY <1>3
<1> QED
  BY <1>1, <1>2, <1>3, <1>4

(* A jobspec that is found names an entry of the table.                    *)
LEMMA SpecFound ==
  ASSUME NEW t, TableOK(t), NEW spec, jobs_get_by_spec(t, spec).result = "ok"
  PROVE  jobs_get_by_spec(t, spec).index \in DOMAIN t.jobs
<1> DEFINE Matches == {k \in DOMAIN t.jobs :
                         \/ spec.kind = "number" /\ t.jobs[k].job_id = spec.number
                         \/ spec.kind = "text" /\ t.jobs[k].command \in spec.commands}
           Found(k) == [result |-> IF k = 0 THEN "no_match" ELSE "ok", index |-> k]
           some == IF Matches = {} THEN 0 ELSE CHOOSE k \in Matches : TRUE
           current == get_best_job(t, FALSE, 0)
           previous == get_best_job(t, FALSE, 1)
           res == jobs_get_by_spec(t, spec)
<1>1. res = CASE spec.kind = "current"  -> Found(current)
              [] spec.kind = "previous" -> Found(previous)
              [] spec.kind = "invalid" \/ (spec.kind = "number" /\ spec.number = 0)
                    -> [result |-> "invalid", index |-> 0]
              [] OTHER -> IF Cardinality(Matches) > 1
                          THEN [result |-> "ambiguous", index |-> 0]
                          ELSE Found(some)
  BY DEF jobs_get_by_spec
<1>2. current \in {0} \cup DOMAIN t.jobs /\ previous \in {0} \cup DOMAIN t.jobs
  BY BestIs
<1>3. some \in {0} \cup DOMAIN t.jobs
  OBVIOUS
<1>4. \A k : Found(k).result = (IF k = 0 THEN "no_match" ELSE "ok") /\ Found(k).index = k
  OBVIOUS
<1> HIDE DEF Found, some, current, previous, Matches
<1>5. \/ res \in {Found(current), Found(previous), Found(some)}
      \/ res.result # "ok"
  <2>1. CASE spec.kind = "current"
    BY <1>1, <2>1
  <2>2. CASE spec.kind = "previous"
    BY <1>1, <2>2
  <2>3. CASE spec.kind = "invalid" \/ (spec.kind = "number" /\ spec.number = 0)
    BY <1>1, <2>3
  <2>4. CASE ~(spec.kind = "current" \/ spec.kind = "previous"
               \/ spec.kind = "invalid" \/ (spec.kind = "number" /\ spec.number = 0))
    BY <1>1, <2>4
  <2> QED
    BY <2>1, <2>2, <2>3, <2>4
<1> HIDE DEF res
<1>6. res.result = "ok"
  BY DEF res
<1>7. res.index \in DOMAIN t.jobs
  BY <1>2, <1>3, <1>4, <1>5, <1>6
<1> QED
  BY <1>7 DEF res

(* So does an operand of fg and bg.                                        *)
LEMMA OperandFound ==
  ASSUME TableOK(table), NEW spec, Lookup(spec).result = "ok"
  PROVE  /\ Lookup(spec).index \in DOMAIN table.jobs
         /\ table.jobs[Lookup(spec).index] \in JobsOf(table)
<1> DEFINE k == Lookup(spec).index
<1>1. k \in DOMAIN table.jobs
  <2>1. CASE spec.kind = "default"
    <3>1. k = DefaultJob(table) /\ DefaultJob(table) # 0
      BY <2>1 DEF Lookup
    <3>2. DefaultJob(table) \in {0} \cup DOMAIN table.jobs
      BY BestIs DEF DefaultJob
    <3> QED
      BY <3>1, <3>2
  <2>2. CASE spec.kind # "default"
    BY <2>2, SpecFound DEF Lookup
  <2> QED
    BY <2>1, <2>2
<1> QED
  BY <1>1, JobsTyped DEF TableOK

-----------------------------------------------------------------------------
(* The kernel.                                                             *)

(* What is reaped stays as it is, and a process keeps its group.           *)
Keeps(k, k2) ==
  \A p \in Pids : /\ ReapedIn(k, p) => k2[p] = k[p]
                  /\ k[p].state # "unborn" => k2[p].state # "unborn" /\ k2[p].pgid = k[p].pgid

(* A process that moves by itself or by a signal: it is not reaped by it,  *)
(* and no stop of it is reported.                                          *)
ProcessMoves(q, r) ==
  /\ r.pgid = q.pgid
  /\ r.state = "unborn" <=> q.state = "unborn"
  /\ r.state = "reaped" <=> q.state = "reaped"
  /\ q.state = "reaped" => r = q
  /\ r.state = "stopped" /\ ~r.unreported => q.state = "stopped" /\ ~q.unreported

Moves(k, k2) == KernelOK(k2) /\ \A p \in Pids : ProcessMoves(k[p], k2[p])

ProcessOK(q) == /\ q \in KernelProcesses
                /\ q.state \in {"zombie", "reaped"} => Terminated(q.status)
                /\ q.state = "stopped" => q.status = Stopped
                /\ q.unreported => q.state = "stopped"

(* KernelOK is about each process on its own.                              *)
LEMMA KernelIsProcesses ==
  ASSUME NEW k
  PROVE  KernelOK(k) <=> k = [p \in DOMAIN k |-> k[p]] /\ DOMAIN k = Pids
                         /\ \A p \in Pids : ProcessOK(k[p])
BY DEF KernelOK, ProcessOK

(* The fields of a process.                                                *)
LEMMA ProcessTyped ==
  ASSUME NEW q \in KernelProcesses
  PROVE  /\ q.state \in {"unborn", "running", "stopped", "zombie", "reaped"}
         /\ q.pgid \in Pids \cup {ShellGroup} /\ q.status \in KnownStatuses
         /\ q.unreported \in BOOLEAN /\ q.doomed \in BOOLEAN
BY DEF KernelProcesses, KnownStatuses

(* A process that ends, ...                                                *)
LEMMA EndMoves ==
  ASSUME NEW q, ProcessOK(q), q.state \in {"running", "stopped"},
         NEW report \in KnownStatuses, Terminated(report)
  PROVE  LET r == [q EXCEPT !.state = "zombie", !.status = report, !.unreported = FALSE]
         IN  ProcessOK(r) /\ ProcessMoves(q, r) /\ r.state = "zombie"
<1> DEFINE r == [q EXCEPT !.state = "zombie", !.status = report, !.unreported = FALSE]
<1>1. r \in KernelProcesses /\ r.state = "zombie" /\ r.status = report /\ r.unreported = FALSE
      /\ r.pgid = q.pgid
  BY DEF ProcessOK, KernelProcesses, KnownStatuses
<1> QED
  BY <1>1 DEF ProcessOK, ProcessMoves

(* ... that stops, ...                                                     *)
LEMMA StopMoves ==
  ASSUME NEW q, ProcessOK(q), q.state = "running"
  PROVE  LET r == [q EXCEPT !.state = "stopped", !.status = Stopped, !.unreported = TRUE]
         IN  ProcessOK(r) /\ ProcessMoves(q, r)
<1> DEFINE r == [q EXCEPT !.state = "stopped", !.status = Stopped, !.unreported = TRUE]
<1>1. r \in KernelProcesses /\ r.state = "stopped" /\ r.status = Stopped /\ r.unreported = TRUE
      /\ r.pgid = q.pgid
  BY DEF ProcessOK, KernelProcesses
<1> QED
  BY <1>1 DEF ProcessOK, ProcessMoves

(* ... that goes on, ...                                                   *)
LEMMA ContinueMoves ==
  ASSUME NEW q, ProcessOK(q), q.state = "stopped"
  PROVE  LET r == [q EXCEPT !.state = "running", !.status = NoStatus, !.unreported = FALSE]
         IN  ProcessOK(r) /\ ProcessMoves(q, r) /\ r.state = "running"
<1> DEFINE r == [q EXCEPT !.state = "running", !.status = NoStatus, !.unreported = FALSE]
<1>1. r \in KernelProcesses /\ r.state = "running" /\ r.status = NoStatus /\ r.unreported = FALSE
      /\ r.pgid = q.pgid
  BY DEF ProcessOK, KernelProcesses
<1> QED
  BY <1>1 DEF ProcessOK, ProcessMoves

(* ... that will end when it goes on.                                      *)
LEMMA DoomMoves ==
  ASSUME NEW q, ProcessOK(q), q.state = "stopped"
  PROVE  LET r == [q EXCEPT !.doomed = TRUE] IN ProcessOK(r) /\ ProcessMoves(q, r)
<1> DEFINE r == [q EXCEPT !.doomed = TRUE]
<1>1. r \in KernelProcesses /\ r.state = q.state /\ r.status = q.status /\ r.unreported = q.unreported
      /\ r.pgid = q.pgid
  BY DEF ProcessOK, KernelProcesses
<1> QED
  BY <1>1 DEF ProcessOK, ProcessMoves

(* A process that does not move.                                           *)
LEMMA RestMoves ==
  ASSUME NEW q, ProcessOK(q)
  PROVE  ProcessMoves(q, q)
BY DEF ProcessMoves

(* One process of the kernel is given another record.                      *)
Only(k, k2, p) == k2 = [k EXCEPT ![p] = k2[p]]

(* A signal moves one process.                                             *)
LEMMA SignalMoves ==
  ASSUME NEW k, KernelOK(k), NEW p \in Pids, NEW signal \in {"STOP", "CONT", "TERM"}
  PROVE  LET k2 == SentTo(k, p, signal)
         IN  /\ Only(k, k2, p)
             /\ ProcessOK(k2[p]) /\ ProcessMoves(k[p], k2[p])
             /\ signal = "CONT" => k2[p].state # "stopped"
<1>1. ProcessOK(k[p]) /\ k \in [Pids -> KernelProcesses] /\ DOMAIN k = Pids
  BY KernelIsProcesses DEF KernelOK
<1>2. Only(k, k, p) /\ ProcessMoves(k[p], k[p])
  BY <1>1, RestMoves DEF Only
<1>3. Signaled("TERM") \in KnownStatuses /\ Terminated(Signaled("TERM"))
  BY DEF KnownStatuses, Terminated, Signaled
<1>4. ASSUME NEW r
      PROVE  LET k2 == [k EXCEPT ![p] = r] IN Only(k, k2, p) /\ k2[p] = r
  BY <1>1 DEF Only
<1>5. ASSUME k[p].state \in {"running", "stopped"}
      PROVE  LET k2 == Ended(k, p, Signaled("TERM"))
             IN  /\ Only(k, k2, p) /\ ProcessOK(k2[p]) /\ ProcessMoves(k[p], k2[p])
                 /\ k2[p].state = "zombie"
  BY <1>1, <1>3, <1>4, <1>5, EndMoves DEF Ended
<1>6. CASE signal = "CONT"
  <2> DEFINE k2 == Continued(k, p)
  <2>1. SentTo(k, p, signal) = k2
    BY <1>6 DEF SentTo
  <2>2. CASE k[p].state # "stopped"
    <3>1. k2 = k
      BY <2>2 DEF Continued
    <3> QED
      BY <1>1, <1>2, <2>1, <2>2, <3>1
  <2>3. CASE k[p].state = "stopped" /\ k[p].doomed
    <3>1. k2 = Ended(k, p, Signaled("TERM"))
      BY <2>3 DEF Continued
    <3> QED
      BY <1>5, <2>1, <2>3, <3>1
  <2>4. CASE k[p].state = "stopped" /\ ~k[p].doomed
    <3> DEFINE r == [k[p] EXCEPT !.state = "running", !.status = NoStatus, !.unreported = FALSE]
    <3>1. k2 = [k EXCEPT ![p] = r]
      BY <2>4 DEF Continued
    <3>2. ProcessOK(r) /\ ProcessMoves(k[p], r) /\ r.state = "running"
      BY <1>1, <2>4, ContinueMoves
    <3> HIDE DEF r, k2
    <3>3. Only(k, k2, p) /\ k2[p] = r
      BY <1>4, <3>1
    <3> QED
      BY <2>1, <3>2, <3>3
  <2> QED
    BY <2>2, <2>3, <2>4
<1>7. CASE signal = "STOP"
  <2> DEFINE k2 == SentTo(k, p, signal)
             r == [k[p] EXCEPT !.state = "stopped", !.status = Stopped, !.unreported = TRUE]
  <2>1. k2 = IF k[p].state = "running" THEN [k EXCEPT ![p] = r] ELSE k
    BY <1>7 DEF SentTo, Suspended
  <2> HIDE DEF k2
  <2>2. CASE k[p].state = "running"
    <3>1. ProcessOK(r) /\ ProcessMoves(k[p], r)
      BY <1>1, <2>2, StopMoves
    <3> HIDE DEF r
    <3>2. Only(k, k2, p) /\ k2[p] = r
      BY <1>4, <2>1, <2>2
    <3> QED
      BY <1>7, <3>1, <3>2 DEF k2
  <2>3. CASE k[p].state # "running"
    BY <1>1, <1>2, <1>7, <2>1, <2>3 DEF k2
  <2> QED
    BY <2>2, <2>3
<1>8. CASE signal = "TERM"
  <2> DEFINE k2 == Terminate(k, p)
  <2>1. SentTo(k, p, signal) = k2
    BY <1>8 DEF SentTo
  <2>2. CASE k[p].state = "running"
    <3>1. k2 = Ended(k, p, Signaled("TERM"))
      BY <2>2 DEF Terminate
    <3> QED
      BY <1>5, <1>8, <2>1, <2>2, <3>1
  <2>3. CASE k[p].state = "stopped"
    <3> DEFINE r == [k[p] EXCEPT !.doomed = TRUE]
    <3>1. k2 = [k EXCEPT ![p] = r]
      BY <2>3 DEF Terminate
    <3>2. ProcessOK(r) /\ ProcessMoves(k[p], r)
      BY <1>1, <2>3, DoomMoves
    <3> HIDE DEF r, k2
    <3>3. Only(k, k2, p) /\ k2[p] = r
      BY <1>4, <3>1
    <3> QED
      BY <1>8, <2>1, <3>2, <3>3
  <2>4. CASE k[p].state \notin {"running", "stopped"}
    <3>1. k2 = k
      BY <2>4 DEF Terminate
    <3> QED
      BY <1>1, <1>2, <1>8, <2>1, <3>1
  <2> QED
    BY <2>2, <2>3, <2>4
<1> QED
  BY <1>6, <1>7, <1>8

(* Moves of one process are moves of the kernel.                           *)
LEMMA OneMoves ==
  ASSUME NEW k, KernelOK(k), NEW p \in Pids, NEW k2, Only(k, k2, p),
         ProcessOK(k2[p]), ProcessMoves(k[p], k2[p])
  PROVE  Moves(k, k2)
<1>1. /\ k \in [Pids -> KernelProcesses] /\ DOMAIN k = Pids
      /\ \A x \in Pids : ProcessOK(k[x])
  BY KernelIsProcesses DEF KernelOK
<1>2. /\ DOMAIN k2 = Pids /\ k2 = [x \in DOMAIN k2 |-> k2[x]]
      /\ \A x \in Pids : x # p => k2[x] = k[x]
  BY <1>1 DEF Only
<1>3. \A x \in Pids : ProcessOK(k2[x]) /\ ProcessMoves(k[x], k2[x])
  BY <1>1, <1>2, RestMoves
<1> QED
  BY <1>2, <1>3, KernelIsProcesses DEF Moves

(* A process that ends by itself.                                          *)
LEMMA EndingMoves ==
  ASSUME NEW k, KernelOK(k), NEW p \in Pids, k[p].state = "running", NEW code \in Codes
  PROVE  Moves(k, Ended(k, p, Exited(code)))
<1>1. ProcessOK(k[p]) /\ k \in [Pids -> KernelProcesses] /\ DOMAIN k = Pids
  BY KernelIsProcesses DEF KernelOK
<1>2. Exited(code) \in KnownStatuses /\ Terminated(Exited(code))
  BY DEF KnownStatuses, Terminated, Exited
<1> DEFINE r == [k[p] EXCEPT !.state = "zombie", !.status = Exited(code), !.unreported = FALSE]
           k2 == Ended(k, p, Exited(code))
<1>3. k2 = [k EXCEPT ![p] = r]
  BY DEF Ended
<1>4. ProcessOK(r) /\ ProcessMoves(k[p], r)
  BY <1>1, <1>2, EndMoves
<1> HIDE DEF r, k2
<1>5. Only(k, k2, p) /\ k2[p] = r
  BY <1>1, <1>3 DEF Only
<1>6. Moves(k, k2)
  BY <1>4, <1>5, OneMoves
<1> QED
  BY <1>6 DEF k2

(* A signal to one process, or to a group.                                 *)
LEMMA SentMoves ==
  ASSUME NEW k, KernelOK(k), NEW p \in Pids, NEW signal \in {"STOP", "CONT", "TERM"}
  PROVE  Moves(k, SentTo(k, p, signal))
<1> DEFINE k2 == SentTo(k, p, signal)
<1>1. Only(k, k2, p) /\ ProcessOK(k2[p]) /\ ProcessMoves(k[p], k2[p])
  BY SignalMoves
<1> HIDE DEF k2
<1>2. Moves(k, k2)
  BY <1>1, OneMoves
<1> QED
  BY <1>2 DEF k2

(* The members of a group that is continued are not stopped.               *)
LEMMA GroupMoves ==
  ASSUME NEW k, KernelOK(k), NEW g, NEW signal \in {"STOP", "CONT", "TERM"}
  PROVE  LET k2 == SentToGroup(k, g, signal)
         IN  /\ Moves(k, k2)
             /\ signal = "CONT" => \A p \in Pids : k[p].pgid = g => k2[p].state # "stopped"
<1>1. /\ k \in [Pids -> KernelProcesses] /\ DOMAIN k = Pids
      /\ \A x \in Pids : ProcessOK(k[x])
  BY KernelIsProcesses DEF KernelOK
<1> DEFINE k2 == SentToGroup(k, g, signal)
<1>2. /\ DOMAIN k2 = Pids /\ k2 = [x \in DOMAIN k2 |-> k2[x]]
      /\ \A p \in Pids : k2[p] = IF p \in Members(k, g) THEN SentTo(k, p, signal)[p] ELSE k[p]
  BY <1>1 DEF SentToGroup
<1> HIDE DEF k2
<1>3. ASSUME NEW p \in Pids
      PROVE  /\ ProcessOK(k2[p]) /\ ProcessMoves(k[p], k2[p])
             /\ signal = "CONT" /\ k[p].pgid = g => k2[p].state # "stopped"
  <2>1. CASE p \in Members(k, g)
    BY <1>2, <2>1, SignalMoves
  <2>2. CASE p \notin Members(k, g)
    <3>1. k2[p] = k[p]
      BY <1>2, <2>2
    <3>2. k[p].state = "stopped" => k[p].pgid # g
      BY <1>1, <2>2 DEF Members, Children
    <3> QED
      BY <1>1, <3>1, <3>2, RestMoves
  <2> QED
    BY <2>1, <2>2
<1>4. Moves(k, k2)
  BY <1>2, <1>3, KernelIsProcesses DEF Moves
<1> QED
  BY <1>3, <1>4 DEF k2

(* Moves keep what is reaped and who belongs to which group.               *)
LEMMA MovesKeep ==
  ASSUME NEW k, NEW k2, Moves(k, k2)
  PROVE  Keeps(k, k2)
BY DEF Moves, Keeps, ProcessMoves, ReapedIn

(* waitpid reports of p: its end, after which it is reaped, or its stop.   *)
Reported(k, k2, p) ==
  /\ KernelOK(k2)
  /\ \A x \in Pids : x # p => k2[x] = k[x]
  /\ k[p].state \notin {"unborn", "reaped"} /\ k2[p].state # "unborn"
  /\ k2[p].pgid = k[p].pgid /\ k2[p].status = k[p].status
  /\ k[p].status \in Reports
  /\ ReapedIn(k2, p) <=> Terminated(k[p].status)
  /\ WIFSTOPPED(k[p].status) <=> ~Terminated(k[p].status)
  /\ WIFSTOPPED(k[p].status) => HasStopped(k2, p) /\ k[p].status = Stopped

(* waitpid returns the status of a child that has ended or stopped.        *)
LEMMA WaitedReports ==
  ASSUME NEW k, KernelOK(k), NEW C, NEW untraced, NEW p \in Waitable(k, C, untraced)
  PROVE  p \in Pids /\ Reported(k, Waited(k, p), p) /\ p \in C
<1>1. /\ k \in [Pids -> KernelProcesses] /\ DOMAIN k = Pids
      /\ \A x \in Pids : ProcessOK(k[x])
  BY KernelIsProcesses DEF KernelOK
<1>2. /\ p \in C /\ p \in Pids
      /\ k[p].state = "zombie" \/ k[p].unreported
  BY <1>1 DEF Waitable, Children
<1>3. k[p].state \in {"zombie", "stopped"}
  BY <1>1, <1>2 DEF ProcessOK
<1> DEFINE r == [k[p] EXCEPT !.state = IF k[p].state = "zombie" THEN "reaped" ELSE k[p].state,
                             !.unreported = FALSE]
           k2 == Waited(k, p)
<1>4. k2 = [k EXCEPT ![p] = r]
  BY DEF Waited
<1>5. /\ r \in KernelProcesses /\ r.pgid = k[p].pgid /\ r.status = k[p].status
      /\ r.unreported = FALSE
      /\ r.state = IF k[p].state = "zombie" THEN "reaped" ELSE k[p].state
  BY <1>1, <1>2, <1>3 DEF KernelProcesses
<1> HIDE DEF r, k2
<1>6. ProcessOK(k[p])
  BY <1>1, <1>2
<1>7. ProcessOK(r)
  BY <1>3, <1>5, <1>6 DEF ProcessOK
<1>8. /\ DOMAIN k2 = Pids /\ k2 = [x \in DOMAIN k2 |-> k2[x]] /\ k2[p] = r
      /\ \A x \in Pids : x # p => k2[x] = k[x]
  BY <1>1, <1>2, <1>4
<1>9. \A x \in Pids : ProcessOK(k2[x])
  BY <1>1, <1>7, <1>8
<1>10. KernelOK(k2)
  BY <1>8, <1>9, KernelIsProcesses
<1>11. /\ k[p].status \in KnownStatuses
       /\ k[p].state = "zombie" => Terminated(k[p].status)
       /\ k[p].state = "stopped" => k[p].status = Stopped
  BY <1>3, <1>6, ProcessTyped DEF ProcessOK
<1>12. /\ \A s \in KnownStatuses : /\ s # NoStatus => (WIFSTOPPED(s) <=> ~Terminated(s))
                                   /\ WIFSTOPPED(s) \/ Terminated(s) => s # NoStatus
       /\ WIFSTOPPED(Stopped)
  BY DEF KnownStatuses, WIFSTOPPED, Terminated, NoStatus, Stopped, Signaled, Exited
<1>13. k[p].status \in Reports /\ (WIFSTOPPED(k[p].status) <=> ~Terminated(k[p].status))
       /\ (WIFSTOPPED(k[p].status) <=> k[p].state = "stopped")
  BY <1>3, <1>11, <1>12 DEF Reports
<1>14. /\ ReapedIn(k2, p) <=> Terminated(k[p].status)
       /\ WIFSTOPPED(k[p].status) => HasStopped(k2, p) /\ k[p].status = Stopped
  BY <1>3, <1>5, <1>8, <1>11, <1>13 DEF ReapedIn, HasStopped
<1>15. k[p].state \notin {"unborn", "reaped"} /\ k2[p].state # "unborn"
  BY <1>3, <1>5, <1>8
<1>16. Reported(k, k2, p)
  BY <1>5, <1>8, <1>10, <1>13, <1>14, <1>15 DEF Reported
<1> QED
  BY <1>2, <1>16 DEF k2

(* A report takes nothing back.                                            *)
LEMMA ReportKeeps ==
  ASSUME NEW k, NEW k2, NEW p \in Pids, Reported(k, k2, p)
  PROVE  Keeps(k, k2)
BY DEF Reported, Keeps, ReapedIn

(* fork makes a process that was not.                                      *)
Born(k, k2, p, g) ==
  /\ KernelOK(k2)
  /\ p \in Pids /\ k[p].state = "unborn"
  /\ k2[p].state = "running" /\ k2[p].pgid = g
  /\ \A x \in Pids : x # p => k2[x] = k[x]

(* The next process id is that of no process yet.                          *)
LEMMA ForkedIsBorn ==
  ASSUME KernelOK(kernel), NEW p, FreshPid(p), NEW g \in Pids \cup {ShellGroup}
  PROVE  Born(kernel, Forked(kernel, p, g), p, g)
<1> DEFINE k == kernel
<1>1. /\ k \in [Pids -> KernelProcesses] /\ DOMAIN k = Pids
      /\ \A x \in Pids : ProcessOK(k[x])
  BY KernelIsProcesses DEF KernelOK
<1>2. UnbornPids(k) \in SUBSET Nat
  BY <1>1, PidsAssumption DEF UnbornPids
<1>3. p \in UnbornPids(k)
  BY <1>2, MinIs DEF FreshPid
<1>4. p \in Pids /\ k[p].state = "unborn"
  BY <1>1, <1>3 DEF UnbornPids
<1> DEFINE r == [Unborn EXCEPT !.state = "running", !.pgid = g]
           k2 == Forked(k, p, g)
<1>5. k2 = [k EXCEPT ![p] = r]
  BY DEF Forked
<1>6. Unborn \in KernelProcesses /\ Unborn.unreported = FALSE
  BY DEF Unborn, KernelProcesses
<1>11. r \in KernelProcesses /\ r.state = "running" /\ r.pgid = g /\ r.unreported = FALSE
  BY <1>6 DEF KernelProcesses
<1>7. ProcessOK(r) /\ r.state = "running" /\ r.pgid = g
  BY <1>11 DEF ProcessOK
<1> HIDE DEF r, k2, k
<1>8. /\ DOMAIN k2 = Pids /\ k2 = [x \in DOMAIN k2 |-> k2[x]] /\ k2[p] = r
      /\ \A x \in Pids : x # p => k2[x] = k[x]
  BY <1>1, <1>4, <1>5
<1>9. KernelOK(k2)
  BY <1>1, <1>7, <1>8, KernelIsProcesses
<1>10. Born(k, k2, p, g)
  BY <1>4, <1>7, <1>8, <1>9 DEF Born
<1> QED
  BY <1>10 DEF k, k2

(* A birth takes nothing back.                                             *)
LEMMA BirthKeeps ==
  ASSUME NEW k, NEW k2, NEW p, NEW g, Born(k, k2, p, g)
  PROVE  Keeps(k, k2)
BY DEF Born, Keeps, ReapedIn

(* The kernel at the start.                                                *)
LEMMA BootIs ==
  /\ KernelOK(Boot(Pids))
  /\ \A p \in Pids : Boot(Pids)[p].state = "unborn"
<1> DEFINE k == Boot(Pids)
<1>1. k = [p \in Pids |-> Unborn]
  BY DEF Boot
<1>2. ProcessOK(Unborn) /\ Unborn.state = "unborn"
  BY DEF ProcessOK, Unborn, KernelProcesses
<1> HIDE DEF k
<1>3. KernelOK(k) /\ \A p \in Pids : k[p].state = "unborn"
  BY <1>1, <1>2, KernelIsProcesses
<1> QED
  BY <1>3 DEF k

-----------------------------------------------------------------------------
(* A pipeline becomes a job: it is tracked, then what is known of each of  *)
(* its members is noted in turn.                                           *)

(* What begins with x and is carried on by next.                           *)
IsRun(run, X, x, n, next) ==
  /\ run \in [0 .. n -> X]
  /\ run[0] = x
  /\ \A i \in 1 .. n : run[i] = next[<<run[i - 1], i>>]

(* A function defined by recursion on 0 .. n exists. Without induction:    *)
(* the least number up to which there is none would have one.              *)
LEMMA RunExists ==
  ASSUME NEW X, NEW x \in X, NEW n \in Nat, NEW next \in [X \X (1 .. n) -> X]
  PROVE  \E run : IsRun(run, X, x, n, next)
<1> DEFINE bad == {k \in 0 .. n : ~\E run : IsRun(run, X, x, k, next)}
<1>1. ASSUME bad # {}
      PROVE  FALSE
  <2>1. bad \in SUBSET Nat
    OBVIOUS
  <2>2. PICK k \in bad : \A j \in bad : k <= j
    BY <1>1, <2>1, LeastOf
  <2>3. k \in Nat /\ k <= n /\ ~\E run : IsRun(run, X, x, k, next)
    BY <2>2
  <2>4. CASE k = 0
    <3> DEFINE run == [i \in 0 .. 0 |-> x]
    <3>1. run \in [0 .. 0 -> X] /\ run[0] = x /\ \A i \in 1 .. 0 : run[i] = next[<<run[i - 1], i>>]
      OBVIOUS
    <3> HIDE DEF run
    <3> QED
      BY <2>3, <2>4, <3>1 DEF IsRun
  <2>5. CASE k # 0
    <3>1. k - 1 \in 0 .. n /\ k \in 1 .. n /\ ~(k <= k - 1)
      BY <2>3, <2>5
    <3>2. PICK old : IsRun(old, X, x, k - 1, next)
      <4>1. k - 1 \notin bad
        BY <2>2, <3>1
      <4> QED
        BY <3>1, <4>1
    <3> DEFINE last == next[<<old[k - 1], k>>]
               run == [i \in 0 .. k |-> IF i = k THEN last ELSE old[i]]
    <3>3. old \in [0 .. k - 1 -> X] /\ old[0] = x
          /\ \A i \in 1 .. k - 1 : old[i] = next[<<old[i - 1], i>>]
      BY <3>2 DEF IsRun
    <3>4. k - 1 \in 0 .. k - 1 /\ \A i \in 0 .. k : i = k \/ i \in 0 .. k - 1
      BY <2>3, <2>5
    <3>5. last \in X
      <4>1. <<old[k - 1], k>> \in X \X (1 .. n)
        BY <3>1, <3>3, <3>4
      <4> QED
        BY <4>1
    <3> HIDE DEF last
    <3>6. run \in [0 .. k -> X]
      BY <3>3, <3>4, <3>5
    <3>7. run[0] = x /\ run[k] = last /\ \A i \in 0 .. k - 1 : run[i] = old[i]
      BY <2>3, <2>5, <3>3
    <3> HIDE DEF run
    <3>8. ASSUME NEW i \in 1 .. k
          PROVE  run[i] = next[<<run[i - 1], i>>]
      <4>1. CASE i = k
        <5>1. run[k - 1] = old[k - 1]
          BY <3>4, <3>7
        <5> QED
          BY <3>7, <4>1, <5>1 DEF last
      <4>2. CASE i # k
        <5>1. i \in 1 .. k - 1 /\ i \in 0 .. k - 1 /\ i - 1 \in 0 .. k - 1
          BY <2>3, <4>2
        <5>2. run[i] = old[i] /\ run[i - 1] = old[i - 1]
          BY <3>7, <5>1
        <5> QED
          BY <3>3, <5>1, <5>2
      <4> QED
        BY <4>1, <4>2
    <3> QED
      BY <2>3, <3>6, <3>7, <3>8 DEF IsRun
  <2> QED
    BY <2>4, <2>5
<1>2. n \in 0 .. n
  OBVIOUS
<1> QED
  BY <1>1, <1>2

(* Induction over an interval, stated of a set.                            *)
LEMMA UpTo ==
  ASSUME NEW n \in Nat, NEW S \in SUBSET Nat, 0 \in S,
         \A j \in 1 .. n : j - 1 \in S => j \in S
  PROVE  \A j \in 0 .. n : j \in S
<1> DEFINE bad == {j \in 0 .. n : j \notin S}
<1>1. ASSUME bad # {} PROVE FALSE
  <2>1. bad \in SUBSET Nat
    OBVIOUS
  <2>2. PICK j \in bad : \A i \in bad : j <= i
    BY <1>1, <2>1, LeastOf
  <2>3. j \in 1 .. n /\ j \notin S /\ j - 1 \in 0 .. n /\ ~(j <= j - 1)
    BY <2>2
  <2>4. j - 1 \in S
    BY <2>2, <2>3
  <2> QED
    BY <2>3, <2>4
<1> QED
  BY <1>1

NotedAll(R, t, pids, statuses) ==
  LET i == Len(statuses)
  IN  /\ R[0] = t
      /\ \A j \in 0 .. i : TableOK(R[j])
      /\ \A j \in 1 .. i : NotedIn(R[j - 1], R[j], pids[j], statuses[j])

NotedBody(n, t, pids, statuses, noted) ==
  [j \in 0 .. n |->
     IF j = 0 THEN t ELSE jobs_note_process_status(noted[j - 1], pids[j], statuses[j])]

NotedRun(n, t, pids, statuses) ==
  CHOOSE noted : noted = NotedBody(n, t, pids, statuses, noted)

(* TrackPipeline is such a run.                                            *)
LEMMA NotesOfPipeline ==
  ASSUME NEW t, NEW pids, NEW statuses, NEW isolate, NEW command
  PROVE  LET i == Len(statuses)
             g == IF isolate THEN pids[1] ELSE pids[i]
             tracked == jobs_track_job(t, g, pids, pids[Len(pids)], command, TRUE)
         IN  TrackPipeline(t, pids, statuses, isolate, command)
               = NotedRun(i, tracked, pids, statuses)[i]
BY DEF TrackPipeline, StatusMember, NotedRun, NotedBody

(* What the run is made of.                                                *)
LEMMA NotedRunIs ==
  ASSUME NEW t, TableOK(t), NEW pids, NEW n \in Nat, NEW statuses,
         \A j \in 1 .. n : statuses[j] \in Reports
  PROVE  LET R == NotedRun(n, t, pids, statuses)
         IN  /\ R[0] = t
             /\ \A j \in 1 .. n : R[j] = jobs_note_process_status(R[j - 1], pids[j], statuses[j])
             /\ \A j \in 0 .. n : TableOK(R[j])
<1> DEFINE X == {u \in Tables : TableOK(u)}
           next == [p \in X \X (1 .. n) |-> jobs_note_process_status(p[1], pids[p[2]], statuses[p[2]])]
           Body(noted) == NotedBody(n, t, pids, statuses, noted)
           R == NotedRun(n, t, pids, statuses)
<1>1. ASSUME NEW u \in X, NEW j \in 1 .. n
      PROVE  jobs_note_process_status(u, pids[j], statuses[j]) \in X
  <2>1. TableOK(u) /\ statuses[j] \in Reports
    OBVIOUS
  <2> DEFINE v == jobs_note_process_status(u, pids[j], statuses[j])
  <2>2. NotedIn(u, v, pids[j], statuses[j])
    BY <2>1, Notes
  <2> HIDE DEF v
  <2>3. TableOK(v)
    BY <2>1, <2>2 DEF NotedIn, Put
  <2>4. v \in Tables
    BY <2>3 DEF TableOK
  <2> QED
    BY <2>3, <2>4 DEF v
<1>2. t \in X
  BY DEF TableOK
<1> HIDE DEF X
<1>3. next \in [X \X (1 .. n) -> X]
  <2>1. ASSUME NEW p \in X \X (1 .. n)
        PROVE  jobs_note_process_status(p[1], pids[p[2]], statuses[p[2]]) \in X
    BY <1>1
  <2> QED
    BY <2>1
<1>4. \A u \in X : \A j \in 1 .. n : next[<<u, j>>] = jobs_note_process_status(u, pids[j], statuses[j])
  OBVIOUS
<1> HIDE DEF next
<1>5. PICK run : IsRun(run, X, t, n, next)
  BY <1>2, <1>3, RunExists
<1>6. run \in [0 .. n -> X] /\ run[0] = t /\ \A i \in 1 .. n : run[i] = next[<<run[i - 1], i>>]
  BY <1>5 DEF IsRun
<1>7. \A i \in 1 .. n : run[i] = jobs_note_process_status(run[i - 1], pids[i], statuses[i])
  <2>1. \A i \in 1 .. n : i - 1 \in 0 .. n
    OBVIOUS
  <2> QED
    BY <1>4, <1>6, <2>1
<1>8. run = Body(run)
  <2>1. DOMAIN Body(run) = 0 .. n
    BY DEF NotedBody
  <2>2. \A i \in 0 .. n : Body(run)[i] = IF i = 0 THEN t ELSE jobs_note_process_status(run[i - 1], pids[i], statuses[i])
    BY DEF NotedBody
  <2>3. Body(run) = [i \in 0 .. n |-> Body(run)[i]]
    BY DEF NotedBody
  <2>4. \A i \in 0 .. n : i = 0 \/ i \in 1 .. n
    OBVIOUS
  <2>5. \A i \in 0 .. n : run[i] = Body(run)[i]
    BY <1>6, <1>7, <2>2, <2>4
  <2> HIDE DEF Body
  <2> QED
    BY <1>6, <2>1, <2>3, <2>5
<1>9. R = Body(R)
  <2>1. \E s : s = Body(s)
    BY <1>8
  <2>2. (CHOOSE s : s = Body(s)) = Body(CHOOSE s : s = Body(s))
    BY <2>1, Zenon
  <2> QED
    BY <2>2 DEF NotedRun
<1>10. /\ R[0] = t
       /\ \A i \in 1 .. n : R[i] = jobs_note_process_status(R[i - 1], pids[i], statuses[i])
  <2>2. \A i \in 0 .. n : Body(R)[i] = IF i = 0 THEN t ELSE jobs_note_process_status(R[i - 1], pids[i], statuses[i])
    BY DEF NotedBody
  <2>3. \A i \in 1 .. n : i \in 0 .. n /\ i # 0
    OBVIOUS
  <2>4. 0 \in 0 .. n
    OBVIOUS
  <2> HIDE DEF Body, R
  <2> QED
    BY <1>9, <2>2, <2>3, <2>4
<1> HIDE DEF R
<1>11. \A i \in 0 .. n : R[i] \in X
  <2> DEFINE S == {i \in 0 .. n : R[i] \in X}
  <2>1. S \in SUBSET Nat /\ 0 \in S
    BY <1>2, <1>10
  <2>2. ASSUME NEW j \in 1 .. n, j - 1 \in S
        PROVE  j \in S
    <3>1. R[j - 1] \in X /\ j \in 0 .. n
      BY <2>2
    <3> QED
      BY <1>1, <1>10, <3>1
  <2> HIDE DEF S
  <2>3. \A j \in 0 .. n : j \in S
    BY <2>1, <2>2, UpTo
  <2> QED
    BY <2>3 DEF S
<1>12. \A i \in 0 .. n : TableOK(R[i])
  BY <1>11 DEF X
<1> QED
  BY <1>10, <1>12 DEF R

PipelineRuns(t, u, g, pids, statuses) ==
  \E R, tracked : /\ g \in Pids
                  /\ TrackedIn(t, tracked, g, pids, TRUE)
                  /\ NotedAll(R, tracked, pids, statuses)
                  /\ u = R[Len(statuses)]

(* TrackPipeline tracks the members, then notes them in turn.              *)
LEMMA PipelineRun ==
  ASSUME NEW t, TableOK(t), NEW pids \in Seq(Pids), pids # <<>>,
         NEW n \in 1 .. Len(pids), NEW statuses \in Seq(Reports), Len(statuses) = n,
         NEW isolate \in BOOLEAN, NEW command \in Commands
  PROVE  LET g == IF isolate THEN pids[1] ELSE pids[n]
             u == TrackPipeline(t, pids, statuses, isolate, command)
         IN  PipelineRuns(t, u, g, pids, statuses)
<1> DEFINE g == IF isolate THEN pids[1] ELSE pids[n]
           u == TrackPipeline(t, pids, statuses, isolate, command)
           tracked == jobs_track_job(t, g, pids, pids[Len(pids)], command, TRUE)
           R == NotedRun(n, tracked, pids, statuses)
<1>1. u = R[n]
  BY NotesOfPipeline
<1>2. g \in Pids
  <2>1. 1 \in 1 .. Len(pids)
    OBVIOUS
  <2> QED
    BY <2>1
<1>3. /\ n \in Nat
      /\ \A j \in 1 .. n : statuses[j] \in Reports
  OBVIOUS
<1> HIDE DEF u, g
<1>4. TrackedIn(t, tracked, g, pids, TRUE)
  BY <1>2, Tracks
<1> HIDE DEF tracked
<1>5. TableOK(tracked)
  BY <1>4 DEF TrackedIn, Put
<1>6. /\ R[0] = tracked
      /\ \A j \in 1 .. n : R[j] = jobs_note_process_status(R[j - 1], pids[j], statuses[j])
      /\ \A j \in 0 .. n : TableOK(R[j])
  BY <1>3, <1>5, NotedRunIs
<1> HIDE DEF R
<1>7. ASSUME NEW j \in 1 .. n
      PROVE  NotedIn(R[j - 1], R[j], pids[j], statuses[j])
  <2>1. j - 1 \in 0 .. n
    OBVIOUS
  <2>2. TableOK(R[j - 1]) /\ statuses[j] \in Reports
    BY <1>3, <1>6, <2>1
  <2>3. NotedIn(R[j - 1], jobs_note_process_status(R[j - 1], pids[j], statuses[j]), pids[j], statuses[j])
    BY <2>2, Notes
  <2> QED
    BY <1>6, <2>3
<1>8. NotedAll(R, tracked, pids, statuses)
  BY <1>6, <1>7 DEF NotedAll
<1> QED
  BY <1>1, <1>2, <1>4, <1>8 DEF u, g, PipelineRuns

-----------------------------------------------------------------------------
(* Ends are real: what each update of the table and each move of the       *)
(* kernel makes of RealIn.                                                 *)

(* The kernel takes back no end.                                           *)
LEMMA RealKept ==
  ASSUME NEW k, NEW k2, Keeps(k, k2), NEW t, TableOK(t), RealIn(k, t)
  PROVE  RealIn(k2, t)
<1>1. JobsOf(t) \subseteq JobRecords
  BY JobsTyped DEF TableOK
<1>2. ASSUME NEW job \in JobsOf(t), NEW i \in DOMAIN job.procs
      PROVE  Real(k2, job.procs[i])
  <2>1. job.procs[i].pid \in Pids
    BY <1>1, ProcsTyped
  <2>2. Real(k, job.procs[i])
    BY DEF RealIn
  <2> QED
    BY <2>1, <2>2 DEF Real, Keeps, ReapedIn
<1> QED
  BY <1>2 DEF RealIn

(* A status that is noted of a process is that of its end.                 *)
LEMMA RealNoted ==
  ASSUME NEW k, NEW t, TableOK(t), RealIn(k, t), NEW u, NEW pid, NEW report \in Reports,
         NotedIn(t, u, pid, report),
         Terminated(report) => ReapedIn(k, pid) /\ report = k[pid].status
  PROVE  TableOK(u) /\ RealIn(k, u)
<1>1. JobsOf(t) \subseteq JobRecords
  BY JobsTyped DEF TableOK
<1>2. CASE NotIn(t, pid) /\ u = t
  BY <1>2
<1>3. CASE \E a \in JobsOf(t), b \in JobRecords : Put(t, u, b) /\ NotedJob(a, b, pid, report)
  <2>1. PICK a \in JobsOf(t), b \in JobRecords : Put(t, u, b) /\ NotedJob(a, b, pid, report)
    BY <1>3
  <2>2. PICK i \in DOMAIN a.procs :
          /\ a.procs[i].pid = pid
          /\ b.procs[i] = NotedProcess(a.procs[i], report)
          /\ \A j \in DOMAIN a.procs : j # i => b.procs[j] = a.procs[j]
    BY <2>1 DEF NotedJob
  <2>3. TableOK(u) /\ JobsOf(u) \subseteq JobsOf(t) \cup {b} /\ DOMAIN b.procs = DOMAIN a.procs
    BY <2>1 DEF Put, Others, NotedJob
  <2>4. a.procs[i] \in Processes
    BY <1>1, ProcsTyped
  <2>5. ASSUME NEW j \in DOMAIN b.procs
        PROVE  Real(k, b.procs[j])
    <3>1. CASE j = i
      <4>1. b.procs[j].pid = pid /\ b.procs[j].status = report
            /\ b.procs[j].done = Terminated(report)
        BY <2>2, <2>4, <3>1, NotedTyped
      <4> QED
        BY <4>1 DEF Real
    <3>2. CASE j # i
      BY <2>2, <2>3, <3>2 DEF RealIn
    <3> QED
      BY <3>1, <3>2
  <2> QED
    BY <2>3, <2>5 DEF RealIn
<1> QED
  BY <1>2, <1>3 DEF NotedIn

(* A job that is taken for running has ended as it had.                    *)
LEMMA RealMarked ==
  ASSUME NEW k, NEW t, TableOK(t), RealIn(k, t), NEW u, NEW g, MarkedIn(t, u, g)
  PROVE  TableOK(u) /\ RealIn(k, u)
<1>1. JobsOf(t) \subseteq JobRecords
  BY JobsTyped DEF TableOK
<1>2. CASE (\A a \in JobsOf(t) : a.pgid # g) /\ u = t
  BY <1>2
<1>3. CASE \E a \in JobsOf(t), b \in JobRecords : a.pgid = g /\ Put(t, u, b) /\ MarkedJob(a, b)
  <2>1. PICK a \in JobsOf(t), b \in JobRecords : a.pgid = g /\ Put(t, u, b) /\ MarkedJob(a, b)
    BY <1>3
  <2>2. TableOK(u) /\ JobsOf(u) \subseteq JobsOf(t) \cup {b} /\ DOMAIN b.procs = DOMAIN a.procs
    BY <2>1 DEF Put, Others, MarkedJob
  <2>3. ASSUME NEW j \in DOMAIN b.procs
        PROVE  Real(k, b.procs[j])
    <3>1. /\ a.procs[j] \in Processes
          /\ b.procs[j] = [a.procs[j] EXCEPT !.stopped = FALSE]
          /\ Real(k, a.procs[j])
      BY <1>1, <2>1, <2>2, ProcsTyped DEF MarkedJob, RealIn
    <3>2. /\ b.procs[j].pid = a.procs[j].pid /\ b.procs[j].done = a.procs[j].done
          /\ b.procs[j].status = a.procs[j].status
      BY <3>1 DEF Processes
    <3> QED
      BY <3>1, <3>2 DEF Real
  <2> QED
    BY <2>2, <2>3 DEF RealIn
<1> QED
  BY <1>2, <1>3 DEF MarkedIn

(* Nothing is said of a job that is dropped.                               *)
LEMMA RealDropped ==
  ASSUME NEW k, NEW t, RealIn(k, t), NEW u, NEW g, Drop(t, u, g)
  PROVE  TableOK(u) /\ RealIn(k, u)
BY DEF Drop, Others, RealIn

(* A job that is tracked knows no end but those it knew.                   *)
LEMMA RealTracked ==
  ASSUME NEW k, NEW t, TableOK(t), RealIn(k, t), NEW u, NEW g, NEW pids,
         NEW stopped, TrackedIn(t, u, g, pids, stopped)
  PROVE  TableOK(u) /\ RealIn(k, u)
<1>1. PICK b \in JobRecords : Put(t, u, b) /\ TrackedJob(t, b, g, pids, stopped)
  BY DEF TrackedIn
<1>2. TableOK(u) /\ JobsOf(u) \subseteq JobsOf(t) \cup {b} /\ DOMAIN b.procs = DOMAIN pids
  BY <1>1 DEF Put, Others, TrackedJob
<1>3. ASSUME NEW j \in DOMAIN b.procs
      PROVE  Real(k, b.procs[j])
  <2>1. CASE b.procs[j] = NewProcess(pids[j])
    BY <2>1 DEF NewProcess, Real
  <2>2. CASE \E a \in JobsOf(t) : \E i \in DOMAIN a.procs : b.procs[j] = a.procs[i]
    BY <2>2 DEF RealIn
  <2> QED
    BY <1>1, <1>2, <2>1, <2>2 DEF TrackedJob
<1> QED
  BY <1>2, <1>3 DEF RealIn

(* A pipeline that becomes a job: what was collected of it is real.        *)
LEMMA PipelineReal ==
  ASSUME NEW k, NEW t, TableOK(t), RealIn(k, t), NEW pids \in Seq(Pids), pids # <<>>,
         NEW n \in 1 .. Len(pids), NEW statuses \in Seq(Reports), Len(statuses) = n,
         NEW u, NEW g, PipelineRuns(t, u, g, pids, statuses),
         \A j \in 1 .. n : Terminated(statuses[j]) =>
                             ReapedIn(k, pids[j]) /\ statuses[j] = k[pids[j]].status
  PROVE  TableOK(u) /\ RealIn(k, u)
<1>1. n \in Nat /\ n \in 0 .. n /\ \A j \in 1 .. n : statuses[j] \in Reports
  OBVIOUS
<1>2. PICK R, tracked : /\ TrackedIn(t, tracked, g, pids, TRUE)
                        /\ NotedAll(R, tracked, pids, statuses)
                        /\ u = R[n]
  BY DEF PipelineRuns
<1>3. RealIn(k, tracked)
  BY <1>2, RealTracked
<1>4. /\ R[0] = tracked
      /\ \A j \in 0 .. n : TableOK(R[j])
      /\ \A j \in 1 .. n : NotedIn(R[j - 1], R[j], pids[j], statuses[j])
  BY <1>2 DEF NotedAll
<1> DEFINE S == {j \in 0 .. n : RealIn(k, R[j])}
<1>5. S \in SUBSET Nat /\ 0 \in S
  BY <1>1, <1>3, <1>4
<1>6. ASSUME NEW j \in 1 .. n, j - 1 \in S
      PROVE  j \in S
  <2>1. j - 1 \in 0 .. n /\ j \in 0 .. n /\ RealIn(k, R[j - 1])
    BY <1>6
  <2>2. TableOK(R[j - 1]) /\ NotedIn(R[j - 1], R[j], pids[j], statuses[j])
    BY <1>4, <2>1
  <2>3. /\ statuses[j] \in Reports
        /\ Terminated(statuses[j]) => ReapedIn(k, pids[j]) /\ statuses[j] = k[pids[j]].status
    BY <1>1
  <2>4. RealIn(k, R[j])
    BY <2>1, <2>2, <2>3, RealNoted
  <2> QED
    BY <2>1, <2>4
<1> HIDE DEF S
<1>7. n \in S
  BY <1>1, <1>5, <1>6, UpTo
<1> QED
  BY <1>1, <1>2, <1>4, <1>7 DEF S

(* What the shell has collected stays so.                                  *)
LEMMA CollectedKept ==
  ASSUME NEW k, NEW k2, Keeps(k, k2), NEW f \in Pipelines, Len(f.statuses) <= Len(f.pids),
         Collected(k, f)
  PROVE  Collected(k2, f)
<1>1. /\ f.pids \in Seq(Pids) /\ Len(f.statuses) \in Nat /\ Len(f.pids) \in Nat
  BY DEF Pipelines
<1>2. \A j \in 1 .. Len(f.statuses) : f.pids[j] \in Pids
  <2> DEFINE pids == f.pids
             n == Len(f.statuses)
  <2>1. pids \in Seq(Pids) /\ n \in Nat /\ n <= Len(pids) /\ Len(pids) \in Nat
    BY <1>1
  <2> HIDE DEF pids, n
  <2>2. \A j \in 1 .. n : pids[j] \in Pids
    BY <2>1
  <2> QED
    BY <2>2 DEF pids, n
<1> QED
  BY <1>2 DEF Collected, Keeps, ReapedIn

(* A job that is dropped once it has ended.                                *)
Gone(t, u) ==
  u = t \/ \E a \in JobsOf(t) : job_all_done(a) /\ Drop(t, u, a.pgid)

GoneOf(t, u, pid) ==
  \/ NotIn(t, pid) /\ u = t
  \/ \E a \in JobsOf(t) : /\ pid \in PidsOf(a)
                          /\ IF job_all_done(a) THEN Drop(t, u, a.pgid) ELSE u = t

(* wait drops the job of a process that has ended if all of it has.        *)
LEMMA ForgottenByPid ==
  ASSUME NEW t, TableOK(t), NEW pid
  PROVE  GoneOf(t, ForgetCompletedByPid(t, pid), pid)
<1> DEFINE i == find_job_by_pid(t, pid)
<1>1. /\ i \in {0} \cup DOMAIN t.jobs
      /\ i # 0 => pid \in PidsOf(t.jobs[i])
      /\ i = 0 <=> NotIn(t, pid)
  BY PidLookup DEF TableOK
<1>2. ForgetCompletedByPid(t, pid) =
        IF i # 0 /\ job_all_done(t.jobs[i]) THEN jobs_forget_pgid(t, t.jobs[i].pgid) ELSE t
  BY DEF ForgetCompletedByPid
<1> HIDE DEF i
<1>3. CASE i = 0
  BY <1>1, <1>2, <1>3 DEF GoneOf
<1>4. CASE i # 0
  <2>1. t.jobs[i] \in JobsOf(t) /\ pid \in PidsOf(t.jobs[i])
    BY <1>1, <1>4 DEF JobsOf
  <2>2. Drop(t, jobs_forget_pgid(t, t.jobs[i].pgid), t.jobs[i].pgid)
    BY Forgets
  <2> QED
    BY <1>2, <1>4, <2>1, <2>2 DEF GoneOf
<1> QED
  BY <1>3, <1>4

(* What it drops has ended.                                                *)
LEMMA GoneOfIsGone ==
  ASSUME NEW t, NEW u, NEW pid, GoneOf(t, u, pid)
  PROVE  Gone(t, u)
BY DEF GoneOf, Gone

(* wait %job and fg drop the job if all of it has ended.                   *)
LEMMA ForgottenIfDone ==
  ASSUME NEW t, TableOK(t), NEW g
  PROVE  /\ Gone(t, ForgetCompleted(t, g))
         /\ \/ ForgetCompleted(t, g) = t /\ \A a \in JobsOf(t) : a.pgid = g => ~job_all_done(a)
            \/ \E a \in JobsOf(t) : /\ a.pgid = g /\ job_all_done(a)
                                    /\ Drop(t, ForgetCompleted(t, g), g)
<1>1. jobs_job_is_completed(t, g) <=> \E a \in JobsOf(t) : a.pgid = g /\ job_all_done(a)
  BY CompletedIs
<1>2. Drop(t, jobs_forget_pgid(t, g), g)
  BY Forgets
<1> QED
  BY <1>1, <1>2 DEF ForgetCompleted, Gone

(* The rest of a table from which a job is gone.                           *)
LEMMA RealGone ==
  ASSUME NEW k, NEW t, TableOK(t), RealIn(k, t), NEW u, Gone(t, u)
  PROVE  TableOK(u) /\ RealIn(k, u)
BY RealDropped DEF Gone

-----------------------------------------------------------------------------
(* What the actions do to the kernel and to the table.                     *)

TracksThenNotes(t, u, pid) ==
  \E v : TrackedIn(t, v, pid, <<pid>>, TRUE) /\ NotedIn(v, u, pid, Stopped)

NotesThenForgets(t, u, pid, report) ==
  \E v : NotedIn(t, v, pid, report) /\ TableOK(v) /\ GoneOf(v, u, pid)

(* A fresh process id is a process id.                                     *)
LEMMA FreshIsPid ==
  ASSUME KernelOK(kernel), NEW p, FreshPid(p)
  PROVE  p \in Pids
<1>1. DOMAIN kernel = Pids
  BY KernelIsProcesses
<1>2. UnbornPids(kernel) \in SUBSET Nat
  BY <1>1, PidsAssumption DEF UnbornPids
<1>3. p \in UnbornPids(kernel)
  BY <1>2, MinIs DEF FreshPid
<1> QED
  BY <1>1, <1>3 DEF UnbornPids

(* An asynchronous list is forked and tracked.                             *)
LEMMA RunAsyncDoes ==
  ASSUME GeneralInv, NEW p, NEW command \in Commands, RunAsync(p, command)
  PROVE  /\ Born(kernel, kernel', p, IF monitor THEN p ELSE ShellGroup)
         /\ TrackedIn(table, table', p, <<p>>, FALSE)
<1> DEFINE g == IF monitor THEN p ELSE ShellGroup
           one == <<p>>
           t == table
<1>1. KernelOK(kernel) /\ TableOK(table) /\ FreshPid(p)
      /\ kernel' = Forked(kernel, p, g)
      /\ table' = jobs_track_job(table, p, one, p, command, FALSE)
  BY DEF GeneralInv, RunAsync, jobs_track_async
<1>2. p \in Pids
  BY <1>1, FreshIsPid
<1>3. g \in Pids \cup {ShellGroup}
  BY <1>2
<1>5. one \in Seq(Pids) /\ one # <<>> /\ one[Len(one)] = p
  BY <1>2
<1> HIDE DEF g
<1>4. Born(kernel, Forked(kernel, p, g), p, g)
  BY <1>1, <1>3, ForkedIsBorn
<1> HIDE DEF one, t
<1>6. TableOK(t) /\ p \in Pids /\ one \in Seq(Pids) /\ one # <<>> /\ FALSE \in BOOLEAN
  BY <1>1, <1>2, <1>5 DEF t
<1>7. TrackedIn(t, jobs_track_job(t, p, one, one[Len(one)], command, FALSE), p, one, FALSE)
  BY <1>6, Tracks
<1>8. TrackedIn(table, table', p, one, FALSE)
  BY <1>1, <1>5, <1>7 DEF t
<1> QED
  BY <1>1, <1>4, <1>8 DEF g, one

(* A foreground command is forked, and is no job.                          *)
LEMMA RunForegroundDoes ==
  ASSUME GeneralInv, NEW p, NEW command \in Commands, NEW vfork \in BOOLEAN,
         RunForeground(p, command, vfork)
  PROVE  /\ Born(kernel, kernel', p, IF monitor THEN p ELSE ShellGroup)
         /\ frame'.pid = p /\ frame'.command = command /\ pc' = "foreground"
<1> DEFINE g == IF monitor THEN p ELSE ShellGroup
<1>1. KernelOK(kernel) /\ FreshPid(p) /\ kernel' = Forked(kernel, p, g)
  BY DEF GeneralInv, RunForeground
<1>2. p \in Pids
  BY <1>1, FreshIsPid
<1>3. g \in Pids \cup {ShellGroup}
  BY <1>2
<1>4. frame'.pid = p /\ frame'.command = command /\ pc' = "foreground"
  BY DEF RunForeground, Start
<1> HIDE DEF g
<1>5. Born(kernel, Forked(kernel, p, g), p, g)
  BY <1>1, <1>3, ForkedIsBorn
<1> QED
  BY <1>1, <1>4, <1>5 DEF g

(* A foreground command that has stopped becomes a job.                    *)
LEMMA ForegroundDoes ==
  ASSUME GeneralInv, ForegroundChanged
  PROVE  /\ frame.pid \in Pids
         /\ Reported(kernel, kernel', frame.pid)
         /\ status' = kernel[frame.pid].status
         /\ IF WIFSTOPPED(kernel[frame.pid].status)
            THEN TracksThenNotes(table, table', frame.pid) ELSE table' = table
<1> DEFINE p == frame.pid
           t == table
           one == <<p>>
           k2 == Waited(kernel, p)
           v == jobs_track_job(t, p, one, p, frame.command, TRUE)
<1>1. /\ KernelOK(kernel) /\ TableOK(t) /\ p \in Pids /\ frame.command \in Commands
  BY DEF GeneralInv, FrameOK, ForegroundChanged
<1>2. /\ p \in Waitable(kernel, {p}, frame.untraced) /\ kernel' = k2
      /\ status' = kernel[p].status
      /\ IF WIFSTOPPED(kernel[p].status)
         THEN table' = jobs_note_process_status(v, p, Stopped) ELSE table' = table
  BY DEF ForegroundChanged, TrackOneStopped, Return
<1>3. one \in Seq(Pids) /\ one # <<>> /\ one[Len(one)] = p
  BY <1>1
<1> HIDE DEF p, t, k2
<1>4. Reported(kernel, k2, p)
  BY <1>1, <1>2, WaitedReports DEF k2
<1> HIDE DEF one
<1>5. TrackedIn(t, jobs_track_job(t, p, one, one[Len(one)], frame.command, TRUE), p, one, TRUE)
  <2>1. TRUE \in BOOLEAN
    OBVIOUS
  <2> QED
    BY <1>1, <1>3, <2>1, Tracks
<1>6. TrackedIn(t, v, p, one, TRUE)
  BY <1>3, <1>5
<1> HIDE DEF v
<1>7. TableOK(v) /\ Stopped \in Reports
  BY <1>6 DEF TrackedIn, Put, Reports, KnownStatuses, Stopped, NoStatus
<1>8. NotedIn(v, jobs_note_process_status(v, p, Stopped), p, Stopped)
  BY <1>7, Notes
<1>9. TracksThenNotes(t, jobs_note_process_status(v, p, Stopped), p)
  BY <1>6, <1>8 DEF TracksThenNotes, one
<1> QED
  BY <1>1, <1>2, <1>4, <1>9 DEF p, t

(* A pipeline has its whole size of members to fork.                       *)
LEMMA StartPipelineDoes ==
  ASSUME GeneralInv, NEW executor \in session.executors, NEW n \in 2 .. MaxMembers,
         NEW command \in Commands, StartPipeline(executor, n, command)
  PROVE  /\ frame' \in Pipelines /\ pc' = "fork"
         /\ frame'.pids = <<>> /\ frame'.statuses = <<>> /\ frame'.size = n
         /\ frame'.isolate = monitor /\ frame'.executor = executor
<1>1. session \in Sessions /\ monitor \in BOOLEAN
  BY DEF GeneralInv
<1>2. session.executors \in SUBSET {"ast", "text"}
  BY <1>1, SessionsAssumption
<1>3. executor \in {"ast", "text"} /\ n \in Nat
  BY <1>2
<1>4. <<>> \in Seq(Pids) /\ <<>> \in Seq(Reports)
  OBVIOUS
<1> DEFINE f == [kind |-> "pipeline", executor |-> executor, size |-> n, command |-> command,
                 isolate |-> monitor, pids |-> <<>>, statuses |-> <<>>]
<1>5. frame' = f /\ pc' = "fork"
  BY DEF StartPipeline, Start
<1>6. f \in Pipelines
  BY <1>1, <1>3, <1>4 DEF Pipelines
<1> QED
  BY <1>5, <1>6

(* The members of a pipeline so far, and one more.                         *)
LEMMA ForkMemberDoes ==
  ASSUME GeneralInv, NEW p, ForkMember(p)
  PROVE  /\ frame \in Pipelines /\ frame' \in Pipelines
         /\ frame'.pids = Append(frame.pids, p) /\ frame'.statuses = frame.statuses
         /\ frame'.size = frame.size /\ frame'.isolate = frame.isolate
         /\ frame'.executor = frame.executor
         /\ frame.statuses = <<>> /\ Len(frame.pids) < frame.size
         /\ pc' = IF Len(frame'.pids) = frame.size THEN "collect" ELSE "fork"
         /\ Born(kernel, kernel', p, IF frame.isolate THEN frame'.pids[1] ELSE ShellGroup)
<1> DEFINE pids == Append(frame.pids, p)
           f == [frame EXCEPT !.pids = pids]
           g == IF frame.isolate THEN pids[1] ELSE ShellGroup
<1>1. /\ KernelOK(kernel) /\ FreshPid(p) /\ pc = "fork" /\ frame \in Pipelines
      /\ Len(frame.pids) < frame.size /\ frame.statuses = <<>>
  BY DEF GeneralInv, FrameOK, ForkMember
<1>2. /\ kernel' = Forked(kernel, p, g) /\ frame' = f
      /\ pc' = IF Len(pids) = frame.size THEN "collect" ELSE "fork"
  BY DEF ForkMember, Start
<1>3. p \in Pids
  BY <1>1, FreshIsPid
<1>4. frame.pids \in Seq(Pids)
  BY <1>1 DEF Pipelines
<1>5. pids \in Seq(Pids) /\ Len(pids) = Len(frame.pids) + 1 /\ Len(frame.pids) \in Nat
  <2> DEFINE old == frame.pids
  <2>1. old \in Seq(Pids)
    BY <1>4
  <2> HIDE DEF old
  <2>2. Append(old, p) \in Seq(Pids) /\ Len(Append(old, p)) = Len(old) + 1 /\ Len(old) \in Nat
    BY <1>3, <2>1
  <2> QED
    BY <2>2 DEF old
<1> HIDE DEF pids
<1>6. g \in Pids \cup {ShellGroup}
  <2>1. 1 \in 1 .. Len(pids)
    BY <1>5
  <2>2. pids[1] \in Pids
    BY <1>5, <2>1
  <2> QED
    BY <2>2
<1> HIDE DEF g
<1>7. Born(kernel, Forked(kernel, p, g), p, g)
  BY <1>1, <1>6, ForkedIsBorn
<1>8. /\ f \in Pipelines /\ f.pids = pids /\ f.statuses = frame.statuses
      /\ f.size = frame.size /\ f.isolate = frame.isolate /\ f.executor = frame.executor
  BY <1>1, <1>5 DEF Pipelines
<1> HIDE DEF f
<1> QED
  BY <1>1, <1>2, <1>7, <1>8 DEF pids, g

CollectsOne(t, u, f, i, ws, statuses) ==
  IF WIFSTOPPED(ws)
  THEN PipelineRuns(t, u, IF f.isolate THEN f.pids[1] ELSE f.pids[i], f.pids, statuses)
  ELSE IF f.executor = "text" THEN NotedIn(t, u, f.pids[i], ws) ELSE u = t

OneMore(old, new, ws) ==
  /\ new \in Seq(Reports) /\ Len(new) = Len(old) + 1 /\ new[Len(new)] = ws
  /\ \A j \in 1 .. Len(old) : new[j] = old[j]

(* The status of the next member is collected.                             *)
LEMMA CollectDoes ==
  ASSUME GeneralInv, CollectMember
  PROVE  \E i, ws, statuses :
           /\ frame \in Pipelines /\ Collected(kernel, frame)
           /\ i = Len(frame.statuses) + 1 /\ i \in 1 .. Len(frame.pids)
           /\ Len(frame.pids) = frame.size
           /\ frame.pids[i] \in Pids /\ frame.pids \in Seq(Pids)
           /\ ws = kernel[frame.pids[i]].status
           /\ OneMore(frame.statuses, statuses, ws)
           /\ Reported(kernel, kernel', frame.pids[i])
           /\ CollectsOne(table, table', frame, i, ws, statuses)
           /\ IF i = frame.size THEN Return(ws)
              ELSE pc' = "collect" /\ frame' = [frame EXCEPT !.statuses = statuses]
                   /\ UNCHANGED status
<1> DEFINE f == frame
           i == Len(f.statuses) + 1
           p == f.pids[i]
           ws == kernel[p].status
           statuses == Append(f.statuses, ws)
           k2 == Waited(kernel, p)
           t == table
<1>1. /\ KernelOK(kernel) /\ TableOK(t) /\ f \in Pipelines /\ Collected(kernel, f)
      /\ Len(f.pids) = f.size /\ Len(f.statuses) < f.size
  BY DEF GeneralInv, FrameOK, CollectMember
<1>2. /\ p \in Waitable(kernel, {p}, TRUE) /\ kernel' = k2
      /\ table' = IF WIFSTOPPED(ws) THEN TrackPipeline(t, f.pids, statuses, f.isolate, f.command)
                                    ELSE NoteEndedMember(t, f.executor, p, ws)
      /\ IF i = f.size THEN Return(ws)
         ELSE Start("collect", [f EXCEPT !.statuses = statuses])
  BY DEF CollectMember
<1>3. /\ f.pids \in Seq(Pids) /\ f.statuses \in Seq(Reports) /\ f.size \in Nat
      /\ f.isolate \in BOOLEAN /\ f.command \in Commands
  BY <1>1 DEF Pipelines
<1>4. /\ i \in 1 .. Len(f.pids) /\ p \in Pids /\ f.pids # <<>>
  <2> DEFINE pids == f.pids
             old == f.statuses
             n == f.size
  <2>1. pids \in Seq(Pids) /\ old \in Seq(Reports) /\ Len(old) < n /\ Len(pids) = n /\ n \in Nat
    BY <1>1, <1>3
  <2> HIDE DEF pids, old, n
  <2>2. /\ Len(old) + 1 \in 1 .. Len(pids) /\ pids[Len(old) + 1] \in Pids /\ pids # <<>>
    <3>1. Len(old) \in Nat
      BY <2>1
    <3> QED
      BY <2>1, <3>1
  <2> QED
    BY <2>2 DEF pids, old
<1> HIDE DEF k2, p
<1>5. Reported(kernel, k2, p)
  BY <1>1, <1>2, WaitedReports DEF k2
<1>6. ws \in Reports
  BY <1>5 DEF Reported
<1> HIDE DEF ws
<1>7. OneMore(f.statuses, statuses, ws) /\ Len(statuses) = i
  <2> DEFINE old == f.statuses
  <2>1. old \in Seq(Reports)
    BY <1>3
  <2> HIDE DEF old
  <2>2. /\ Append(old, ws) \in Seq(Reports) /\ Len(Append(old, ws)) = Len(old) + 1
        /\ Append(old, ws)[Len(old) + 1] = ws
        /\ \A j \in 1 .. Len(old) : Append(old, ws)[j] = old[j]
    BY <1>6, <2>1
  <2>3. OneMore(old, Append(old, ws), ws)
    BY <2>2 DEF OneMore
  <2> QED
    BY <2>2, <2>3 DEF old
<1>8. statuses \in Seq(Reports)
  BY <1>7 DEF OneMore
<1> HIDE DEF statuses, i
<1>9. CollectsOne(t, table', f, i, ws, statuses)
  <2>1. CASE WIFSTOPPED(ws)
    <3> DEFINE u == TrackPipeline(t, f.pids, statuses, f.isolate, f.command)
               g == IF f.isolate THEN f.pids[1] ELSE f.pids[i]
    <3>1. PipelineRuns(t, u, g, f.pids, statuses)
      <4> DEFINE pids == f.pids
                 isolate == f.isolate
                 command == f.command
      <4>1. /\ pids \in Seq(Pids) /\ pids # <<>> /\ i \in 1 .. Len(pids)
            /\ statuses \in Seq(Reports) /\ Len(statuses) = i
            /\ isolate \in BOOLEAN /\ command \in Commands /\ TableOK(t)
        BY <1>1, <1>3, <1>4, <1>7, <1>8
      <4> HIDE DEF pids, isolate, command, t
      <4>2. PipelineRuns(t, TrackPipeline(t, pids, statuses, isolate, command),
                         IF isolate THEN pids[1] ELSE pids[i], pids, statuses)
        BY <4>1, PipelineRun
      <4> QED
        BY <4>2 DEF pids, isolate, command
    <3>2. table' = u
      BY <1>2, <2>1
    <3> HIDE DEF u
    <3> QED
      BY <2>1, <3>1, <3>2 DEF CollectsOne
  <2>2. CASE ~WIFSTOPPED(ws)
    <3>1. table' = NoteEndedMember(t, f.executor, p, ws)
      BY <1>2, <2>2
    <3>2. NotedIn(t, jobs_note_process_status(t, p, ws), p, ws)
      BY <1>1, <1>6, Notes
    <3> QED
      BY <2>2, <3>1, <3>2 DEF CollectsOne, NoteEndedMember, p
  <2> QED
    BY <2>1, <2>2
<1>10. IF i = f.size THEN Return(ws)
       ELSE pc' = "collect" /\ frame' = [f EXCEPT !.statuses = statuses] /\ UNCHANGED status
  BY <1>2 DEF Start
<1>11. /\ i = Len(f.statuses) + 1 /\ ws = kernel[f.pids[i]].status /\ p = f.pids[i]
  BY DEF i, ws, p
<1> QED
  BY <1>1, <1>2, <1>3, <1>4, <1>5, <1>7, <1>9, <1>10, <1>11

(* A kernel in which nothing happens.                                      *)
LEMMA Rests ==
  ASSUME NEW k, KernelOK(k)
  PROVE  Moves(k, k)
BY KernelIsProcesses, RestMoves DEF Moves

(* wait reaps a child, notes its end and drops the job that has ended.     *)
LEMMA WaitAllDoes ==
  ASSUME GeneralInv, NEW p, WaitAllReaps(p)
  PROVE  /\ p \in Pids /\ Reported(kernel, kernel', p)
         /\ NotesThenForgets(table, table', p, kernel[p].status)
<1> DEFINE t == table
           ws == kernel[p].status
           v == jobs_note_process_status(t, p, ws)
           k2 == Waited(kernel, p)
<1>1. /\ KernelOK(kernel) /\ TableOK(t) /\ p \in Waitable(kernel, Pids, FALSE)
      /\ kernel' = k2 /\ table' = ForgetCompletedByPid(v, p)
  BY DEF GeneralInv, WaitAllReaps
<1>2. p \in Pids /\ Reported(kernel, k2, p)
  BY <1>1, WaitedReports
<1>3. ws \in Reports
  BY <1>2 DEF Reported
<1> HIDE DEF t, ws
<1>4. NotedIn(t, v, p, ws)
  BY <1>1, <1>3, Notes
<1> HIDE DEF v
<1>5. TableOK(v)
  BY <1>1, <1>4 DEF NotedIn, Put
<1>6. GoneOf(v, ForgetCompletedByPid(v, p), p)
  BY <1>5, ForgottenByPid
<1>7. NotesThenForgets(t, table', p, ws)
  BY <1>1, <1>4, <1>5, <1>6 DEF NotesThenForgets
<1> QED
  BY <1>1, <1>2, <1>7 DEF t, ws

(* So does wait of one child.                                              *)
LEMMA WaitPidDoes ==
  ASSUME GeneralInv, WaitPidReaps
  PROVE  /\ frame.pid \in Pids /\ Reported(kernel, kernel', frame.pid)
         /\ NotesThenForgets(table, table', frame.pid, kernel[frame.pid].status)
         /\ status' = kernel[frame.pid].status
<1> DEFINE t == table
           p == frame.pid
           ws == kernel[p].status
           v == jobs_note_process_status(t, p, ws)
           k2 == Waited(kernel, p)
<1>1. /\ KernelOK(kernel) /\ TableOK(t) /\ p \in Waitable(kernel, {p}, FALSE)
      /\ kernel' = k2 /\ table' = ForgetCompletedByPid(v, p) /\ status' = ws
  BY DEF GeneralInv, WaitPidReaps, Return
<1> HIDE DEF p
<1>2. p \in Pids /\ Reported(kernel, k2, p)
  BY <1>1, WaitedReports
<1>3. ws \in Reports
  BY <1>2 DEF Reported
<1> HIDE DEF t, ws
<1>4. NotedIn(t, v, p, ws)
  BY <1>1, <1>3, Notes
<1> HIDE DEF v
<1>5. TableOK(v)
  BY <1>1, <1>4 DEF NotedIn, Put
<1>6. GoneOf(v, ForgetCompletedByPid(v, p), p)
  BY <1>5, ForgottenByPid
<1>7. NotesThenForgets(t, table', p, ws)
  BY <1>1, <1>4, <1>5, <1>6 DEF NotesThenForgets
<1> QED
  BY <1>1, <1>2, <1>7 DEF t, ws, p

(* A job that has ended is given up, and its status returned.              *)
GivesUp(t, u, result, g) ==
  \E a \in JobsOf(t) :
    /\ a.pgid = g /\ job_all_done(a)
    /\ Drop(t, u, g)
    /\ \E i \in DOMAIN a.procs : a.procs[i].pid = a.status_pid /\ result = a.procs[i].status

(* wait %job and fg give a job up when the table has it for completed.     *)
LEMMA CompletedIsGivenUp ==
  ASSUME NEW t, TableOK(t), NEW g, jobs_job_is_completed(t, g)
  PROVE  GivesUp(t, jobs_forget_pgid(t, g), jobs_get_job_wait_status(t, g), g)
<1>1. PICK a \in JobsOf(t) : a.pgid = g /\ job_all_done(a)
  BY CompletedIs
<1>2. \E i \in DOMAIN a.procs : /\ a.procs[i].pid = a.status_pid
                                /\ jobs_get_job_wait_status(t, g) = a.procs[i].status
  BY <1>1, StatusIs
<1>3. Drop(t, jobs_forget_pgid(t, g), g)
  BY Forgets
<1> QED
  BY <1>1, <1>2, <1>3 DEF GivesUp

(* A job that is given up has ended in the kernel, and what is returned is *)
(* how its last process ended.                                             *)
LEMMA GivenUpIsReal ==
  ASSUME NEW k, KernelOK(k), NEW t, TableOK(t), RealIn(k, t), NEW u, NEW result, NEW g,
         GivesUp(t, u, result, g)
  PROVE  /\ TableOK(u) /\ RealIn(k, u) /\ Drop(t, u, g) /\ Terminated(result)
         /\ \A a \in JobsOf(t) : a.pgid = g => result = k[a.status_pid].status
<1>1. PICK a \in JobsOf(t) :
        /\ a.pgid = g /\ job_all_done(a)
        /\ Drop(t, u, g)
        /\ \E i \in DOMAIN a.procs : a.procs[i].pid = a.status_pid /\ result = a.procs[i].status
  BY DEF GivesUp
<1>2. PICK i \in DOMAIN a.procs : a.procs[i].pid = a.status_pid /\ result = a.procs[i].status
  BY <1>1
<1>3. Real(k, a.procs[i]) /\ a.procs[i].done
  BY <1>1 DEF RealIn, job_all_done
<1>4. ReapedIn(k, a.status_pid) /\ result = k[a.status_pid].status
  BY <1>2, <1>3 DEF Real
<1>5. a \in JobRecords
  BY JobsTyped DEF TableOK
<1>6. a.status_pid \in Pids
  BY <1>5, ProcsTyped
<1>7. Terminated(result)
  BY <1>4, <1>6 DEF KernelOK, ReapedIn
<1>8. \A b \in JobsOf(t) : b.pgid = g => b = a
  BY <1>1, OneJobOfGroup
<1>9. TableOK(u) /\ RealIn(k, u)
  BY <1>1, RealDropped
<1> QED
  BY <1>1, <1>4, <1>7, <1>8, <1>9

(* What wait %job starts with.                                             *)
LEMMA StartWaitJobDoes ==
  ASSUME GeneralInv, NEW spec, StartWaitJob(spec)
  PROVE  \/ /\ table' = table /\ pc' = "prompt" /\ frame' = NoFrame
            /\ status' \in {Unknown, Failure}
         \/ \E job \in JobsOf(table) :
              /\ table' = table /\ pc' = "wait_job" /\ status' = status
              /\ frame' = [kind |-> "wait", job |-> [pgid |-> job.pgid, status_pid |-> job.status_pid]]
         \/ \E g : /\ GivesUp(table, table', status', g)
                   /\ pc' = "prompt" /\ frame' = NoFrame
<1>1. TableOK(table)
  BY DEF GeneralInv
<1> DEFINE found == jobs_get_by_spec(table, spec)
           info == JobInfo(table, found.index)
           t == table
<1>2. CASE found.result = "ok" /\ jobs_job_is_completed(table, info.pgid)
           /\ ReturnCompleted(table, info)
  <2> DEFINE g == info.pgid
  <2>1. /\ status' = jobs_get_job_wait_status(t, g) /\ table' = jobs_forget_pgid(t, g)
        /\ pc' = "prompt" /\ frame' = NoFrame /\ jobs_job_is_completed(t, g) /\ TableOK(t)
    BY <1>1, <1>2 DEF ReturnCompleted, Return
  <2> HIDE DEF g, t
  <2>2. GivesUp(t, table', status', g)
    BY <2>1, CompletedIsGivenUp
  <2>3. \E h : GivesUp(t, table', status', h)
    BY <2>2
  <2> QED
    BY <2>1, <2>3 DEF t
<1>3. CASE found.result = "ok" /\ Start("wait_job", [kind |-> "wait", job |-> info]) /\ table' = table
  <2>1. found.index \in DOMAIN t.jobs
    BY <1>1, <1>3, SpecFound
  <2> DEFINE job == t.jobs[found.index]
  <2>2. job \in JobsOf(t)
    BY <2>1 DEF JobsOf
  <2>3. info = [pgid |-> job.pgid, status_pid |-> job.status_pid]
    BY DEF JobInfo
  <2>4. /\ table' = table /\ pc' = "wait_job" /\ status' = status
        /\ frame' = [kind |-> "wait", job |-> info]
    BY <1>3 DEF Start
  <2> HIDE DEF info, job
  <2>5. frame' = [kind |-> "wait", job |-> [pgid |-> job.pgid, status_pid |-> job.status_pid]]
    BY <2>3, <2>4
  <2> QED
    BY <2>2, <2>4, <2>5
<1>4. CASE (Return(Unknown) \/ Return(Failure)) /\ table' = table
  BY <1>4 DEF Return
<1> QED
  BY <1>2, <1>3, <1>4 DEF StartWaitJob

WaitJobResult(k, v, u, g, ws, result) ==
  \/ /\ \A a \in JobsOf(v) : a.pgid = g => ~job_all_done(a)
     /\ u = v
     /\ result \in Reports
     /\ (\A a \in JobsOf(v) : a.pgid # g) => result = ws
  \/ GivesUp(v, u, result, g)

(* The status that wait %job and fg return at the end of their loop: that  *)
(* of a job that has ended is its last process's.                          *)
LEMMA JobStatusIs ==
  ASSUME NEW k, KernelOK(k), NEW v, TableOK(v), RealIn(k, v), NEW job, NEW ws \in Reports
  PROVE  WaitJobResult(k, v, ForgetCompleted(v, job.pgid), job.pgid, ws, JobStatus(v, job, ws))
<1> DEFINE g == job.pgid
           cached == jobs_get_job_wait_status(v, g)
           result == JobStatus(v, job, ws)
<1>1. /\ v \in Tables
      /\ JobsOf(v) \subseteq JobRecords
  BY JobsTyped DEF TableOK
<1>2. result = IF cached = NoStatus THEN ws ELSE cached
  BY DEF JobStatus
<1> HIDE DEF g, result
<1>3. cached \in KnownStatuses
  <2>1. CASE \E a \in JobsOf(v) : a.pgid = g
    <3>1. PICK a \in JobsOf(v) : a.pgid = g
      BY <2>1
    <3>2. PICK i \in DOMAIN a.procs : cached = a.procs[i].status
      BY <3>1, StatusIs
    <3>3. a.procs[i] \in Processes
      BY <1>1, ProcsTyped
    <3> QED
      BY <3>2, <3>3 DEF Processes
  <2>2. CASE \A a \in JobsOf(v) : a.pgid # g
    BY <2>2, NoStatusIs DEF KnownStatuses
  <2> QED
    BY <2>1, <2>2
<1>4. result \in Reports
  BY <1>2, <1>3 DEF Reports
<1>5. (\A a \in JobsOf(v) : a.pgid # g) => result = ws
  BY <1>2, NoStatusIs
<1>6. CASE \A a \in JobsOf(v) : a.pgid = g => ~job_all_done(a)
  <2>1. ForgetCompleted(v, g) = v
    BY <1>6, ForgottenIfDone
  <2> QED
    BY <1>4, <1>5, <1>6, <2>1 DEF WaitJobResult, g, result
<1>7. CASE ~\A a \in JobsOf(v) : a.pgid = g => ~job_all_done(a)
  <2>1. jobs_job_is_completed(v, g)
    BY <1>7, CompletedIs
  <2>2. GivesUp(v, jobs_forget_pgid(v, g), cached, g)
    BY <2>1, CompletedIsGivenUp
  <2> HIDE DEF cached
  <2>3. Terminated(cached)
    BY <2>2, GivenUpIsReal
  <2>4. result = cached
    BY <1>2, <2>3 DEF Terminated, NoStatus
  <2>5. ForgetCompleted(v, g) = jobs_forget_pgid(v, g)
    BY <2>1 DEF ForgetCompleted
  <2>6. GivesUp(v, ForgetCompleted(v, g), result, g)
    BY <2>2, <2>4, <2>5
  <2> QED
    BY <2>6 DEF WaitJobResult, g, result
<1> QED
  BY <1>6, <1>7

(* The loop of wait_for_job: it goes on as long as the job has not stopped *)
(* and has not ended.                                                      *)
LEMMA WaitJobDoes ==
  ASSUME GeneralInv, NEW p, WaitJobReports(p)
  PROVE  LET g == frame.job.pgid
             ws == kernel[p].status
         IN  /\ p \in Pids /\ kernel[p].pgid = g /\ Reported(kernel, kernel', p)
             /\ pc = "wait_job"
             /\ \E v : /\ NotedIn(table, v, p, ws) /\ TableOK(v) /\ RealIn(kernel', v)
                       /\ \/ /\ pc' = "wait_job" /\ frame' = frame /\ status' = status
                             /\ table' = v
                             /\ ~WIFSTOPPED(ws)
                             /\ \E a \in JobsOf(v) : a.pgid = g
                             /\ \A a \in JobsOf(v) : a.pgid = g => ~job_all_done(a)
                          \/ /\ pc' = "prompt" /\ frame' = NoFrame
                             /\ WaitJobResult(kernel', v, table', g, ws, status')
<1> DEFINE job == frame.job
           g == job.pgid
           ws == kernel[p].status
           t == table
           v == jobs_note_process_status(t, p, ws)
           k2 == Waited(kernel, p)
<1>1. /\ KernelOK(kernel) /\ TableOK(t) /\ RealIn(kernel, t)
      /\ p \in Waitable(kernel, Members(kernel, g), TRUE) /\ kernel' = k2
      /\ IF JobWaitOver(v, g, ws)
         THEN /\ Return(JobStatus(v, job, ws))
              /\ table' = ForgetCompleted(v, g)
         ELSE Start("wait_job", frame) /\ table' = v
      /\ pc = "wait_job"
  BY DEF GeneralInv, WaitJobReports, JobWaitable
<1>2. p \in Pids /\ Reported(kernel, k2, p) /\ p \in Members(kernel, g)
  BY <1>1, WaitedReports
<1>3. kernel[p].pgid = g
  BY <1>2 DEF Members
<1>4. ws \in Reports /\ (Terminated(ws) => ReapedIn(k2, p)) /\ k2[p].status = ws /\ KernelOK(k2)
  BY <1>2 DEF Reported
<1> HIDE DEF t, ws
<1>5. NotedIn(t, v, p, ws)
  BY <1>1, <1>4, Notes
<1>6. Keeps(kernel, k2)
  BY <1>2, ReportKeeps
<1> HIDE DEF v, k2, job
<1>7. RealIn(k2, t)
  BY <1>1, <1>6, RealKept
<1>8. TableOK(v) /\ RealIn(k2, v)
  BY <1>1, <1>4, <1>5, <1>7, RealNoted
<1>9. WaitJobResult(k2, v, ForgetCompleted(v, g), g, ws, JobStatus(v, job, ws))
  BY <1>4, <1>8, JobStatusIs
<1> HIDE DEF g
<1>10. CASE JobWaitOver(v, g, ws)
  <2>1. /\ pc' = "prompt" /\ frame' = NoFrame
        /\ WaitJobResult(kernel', v, table', g, ws, status')
    BY <1>1, <1>9, <1>10 DEF Return
  <2> QED
    BY <1>1, <1>2, <1>3, <1>5, <1>8, <2>1 DEF t, ws, g, job
<1>11. CASE ~JobWaitOver(v, g, ws)
  <2>1. /\ pc' = "wait_job" /\ frame' = frame /\ status' = status /\ table' = v
    BY <1>1, <1>11 DEF Start
  <2>2. ~WIFSTOPPED(ws) /\ find_job_by_pgid(v, g) # 0 /\ ~jobs_job_is_completed(v, g)
    BY <1>11 DEF JobWaitOver
  <2> DEFINE i == find_job_by_pgid(v, g)
  <2>3. i \in DOMAIN v.jobs /\ v.jobs[i].pgid = g
    BY <1>8, <2>2, PgidLookup DEF TableOK
  <2>4. \E a \in JobsOf(v) : a.pgid = g
    BY <2>3 DEF JobsOf
  <2>5. \A a \in JobsOf(v) : a.pgid = g => ~job_all_done(a)
    BY <1>8, <2>2, CompletedIs
  <2> QED
    BY <1>1, <1>2, <1>3, <1>5, <1>8, <2>1, <2>2, <2>4, <2>5 DEF t, ws, g, job
<1> QED
  BY <1>10, <1>11

(* The processes of a group move, and are not stopped any more.            *)
Resumes(k, k2, g) == Moves(k, k2) /\ \A p \in Pids : k[p].pgid = g => k2[p].state # "stopped"

(* fg takes its job for running and waits for it; when there is no group   *)
(* to resume it fails, and what the table has for completed it gives up.   *)
LEMMA StartFgDoes ==
  ASSUME GeneralInv, NEW spec, StartFg(spec)
  PROVE  \E job \in JobsOf(table), v \in Tables :
           /\ MarkedIn(table, v, job.pgid) /\ TableOK(v)
           /\ \/ /\ kernel' = kernel /\ table' = v
                 /\ ~GroupExists(kernel, job.pgid)
                 /\ pc' = "prompt" /\ frame' = NoFrame /\ status' = Failure
              \/ /\ Resumes(kernel, kernel', job.pgid) /\ table' = v
                 /\ pc' = "wait_job" /\ status' = status
                 /\ frame' = [kind |-> "fg", job |-> [pgid |-> job.pgid, status_pid |-> job.status_pid]]
              \/ /\ Resumes(kernel, kernel', job.pgid)
                 /\ GivesUp(v, table', status', job.pgid)
                 /\ pc' = "prompt" /\ frame' = NoFrame
<1> DEFINE index == Lookup(spec).index
           job == table.jobs[index]
           info == JobInfo(table, index)
           t == table
           g == job.pgid
           v == jobs_mark_job_running(t, g)
           k2 == SentToGroup(kernel, g, "CONT")
<1>1. KernelOK(kernel) /\ TableOK(t) /\ Lookup(spec).result = "ok" /\ pc = "prompt"
  BY DEF GeneralInv, StartFg, Resumable, Command
<1>2. job \in JobsOf(t)
  BY <1>1, OperandFound
<1>3. info = [pgid |-> g, status_pid |-> job.status_pid] /\ info.pgid = g
  BY DEF JobInfo
<1>4. \/ /\ ~GroupExists(kernel, g) /\ table' = v /\ kernel' = kernel
         /\ Return(Failure)
      \/ /\ kernel' = k2
         /\ IF jobs_job_is_completed(v, g)
            THEN ReturnCompleted(v, info)
            ELSE Start("wait_job", [kind |-> "fg", job |-> info]) /\ table' = v
  BY <1>3 DEF StartFg
<1> HIDE DEF index, job, info, t, g
<1>5. MarkedIn(t, v, g)
  BY <1>1, Marks
<1>6. Resumes(kernel, k2, g)
  BY <1>1, GroupMoves DEF Resumes
<1> HIDE DEF v, k2
<1>7. TableOK(v) /\ v \in Tables
  BY <1>1, <1>5 DEF MarkedIn, Put, TableOK
<1>8. CASE ~GroupExists(kernel, g) /\ table' = v /\ kernel' = kernel /\ Return(Failure)
  BY <1>2, <1>5, <1>7, <1>8 DEF Return, g, t
<1>9. CASE kernel' = k2 /\ jobs_job_is_completed(v, g) /\ ReturnCompleted(v, info)
  <2>1. GivesUp(v, jobs_forget_pgid(v, g), jobs_get_job_wait_status(v, g), g)
    BY <1>7, <1>9, CompletedIsGivenUp
  <2>2. GivesUp(v, table', status', g) /\ pc' = "prompt" /\ frame' = NoFrame
    BY <1>3, <1>9, <2>1 DEF ReturnCompleted, Return
  <2> QED
    BY <1>2, <1>5, <1>6, <1>7, <1>9, <2>2 DEF g, t
<1>10. CASE kernel' = k2 /\ Start("wait_job", [kind |-> "fg", job |-> info]) /\ table' = v
  BY <1>2, <1>3, <1>5, <1>6, <1>7, <1>10 DEF Start, g, t
<1> QED
  BY <1>4, <1>8, <1>9, <1>10

(* bg takes a stopped job for running, whether it could resume it or not.  *)
LEMMA BgDoes ==
  ASSUME GeneralInv, NEW spec, Bg(spec)
  PROVE  \E job \in JobsOf(table) :
           /\ pc' = "prompt" /\ frame' = NoFrame /\ status' \in {Success, Failure}
           /\ last_async_pid' \in {job.status_pid, last_async_pid}
           /\ \/ kernel' = kernel /\ table' = table
              \/ /\ MarkedIn(table, table', job.pgid)
                 /\ \/ kernel' = kernel /\ ~GroupExists(kernel, job.pgid)
                    \/ Resumes(kernel, kernel', job.pgid)
<1> DEFINE index == Lookup(spec).index
           job == table.jobs[index]
           t == table
           g == job.pgid
           v == jobs_mark_job_running(t, g)
           k2 == SentToGroup(kernel, g, "CONT")
<1>1. KernelOK(kernel) /\ TableOK(t) /\ Lookup(spec).result = "ok"
  BY DEF GeneralInv, Bg, Resumable
<1>2. job \in JobsOf(t)
  BY <1>1, OperandFound
<1> DEFINE last == job.status_pid
<1>6. /\ \/ last_async_pid' = last /\ Return(Success) /\ kernel' = kernel /\ table' = table
         \/ /\ GroupExists(kernel, g) /\ table' = v /\ kernel' = k2
            /\ last_async_pid' = last /\ Return(Success)
         \/ /\ ~GroupExists(kernel, g) /\ table' = v /\ Return(Failure)
            /\ kernel' = kernel /\ last_async_pid' = last_async_pid
  BY DEF Bg
<1> HIDE DEF v, k2, last, g
<1>3. /\ pc' = "prompt" /\ frame' = NoFrame /\ status' \in {Success, Failure}
      /\ last_async_pid' \in {last, last_async_pid}
      /\ \/ kernel' = kernel /\ table' = table
         \/ table' = v /\ (kernel' = k2 \/ (kernel' = kernel /\ ~GroupExists(kernel, g)))
  BY <1>6 DEF Return
<1> HIDE DEF index, job, t
<1>4. MarkedIn(t, v, g)
  BY <1>1, Marks DEF v
<1>5. Resumes(kernel, k2, g)
  BY <1>1, GroupMoves DEF Resumes, k2
<1> QED
  BY <1>2, <1>3, <1>4, <1>5 DEF g, t, last

(* kill moves processes, and so do the processes by themselves.            *)
LEMMA KillDoes ==
  ASSUME GeneralInv, NEW spec, NEW signal \in {"STOP", "CONT", "TERM"}, Kill(spec, signal)
  PROVE  Moves(kernel, kernel') /\ table' = table /\ pc' = "prompt" /\ frame' = NoFrame
         /\ status' \in {Success, Failure}
<1> DEFINE g == table.jobs[jobs_get_by_spec(table, spec).index].pgid
           k2 == SentToGroup(kernel, g, signal)
<1>1. KernelOK(kernel) /\ (kernel' = k2 \/ kernel' = kernel)
  BY DEF GeneralInv, Kill
<1>2. table' = table /\ pc' = "prompt" /\ frame' = NoFrame /\ status' \in {Success, Failure}
  BY DEF Kill, Return
<1> HIDE DEF g
<1>3. Moves(kernel, k2)
  BY <1>1, GroupMoves
<1>4. Moves(kernel, kernel)
  BY <1>1, Rests
<1> QED
  BY <1>1, <1>2, <1>3, <1>4

(* A process ends, stops or is continued.                                  *)
LEMMA ProcessDoes ==
  ASSUME GeneralInv, ProcessStep
  PROVE  Moves(kernel, kernel')
         /\ UNCHANGED <<session, table, monitor, last_async_pid, pc, frame, status>>
<1>1. KernelOK(kernel)
  BY DEF GeneralInv
<1>2. ASSUME NEW p \in Pids, ProcessEnds(p)
      PROVE  Moves(kernel, kernel') /\ ShellUnchanged
  BY <1>1, <1>2, EndingMoves DEF ProcessEnds
<1>3. ASSUME NEW p \in Pids, NEW signal \in {"STOP", "CONT"}, ProcessSignaled(p, signal)
      PROVE  Moves(kernel, kernel') /\ ShellUnchanged
  <2>1. signal \in {"STOP", "CONT", "TERM"} /\ kernel' = SentTo(kernel, p, signal) /\ ShellUnchanged
    BY <1>3 DEF ProcessSignaled
  <2> QED
    BY <1>1, <2>1, SentMoves
<1>4. Moves(kernel, kernel') /\ ShellUnchanged
  BY <1>2, <1>3 DEF ProcessStep
<1> QED
  BY <1>4 DEF ShellUnchanged, Options

-----------------------------------------------------------------------------
(* The general invariant, in every session.                                *)

(* What the shell has in hand does not depend on how processes move.       *)
LEMMA FrameKept ==
  ASSUME NEW k, NEW k2, Keeps(k, k2), NEW at, NEW f, FrameOK(k, at, f)
  PROVE  FrameOK(k2, at, f)
<1>1. CASE at = "collect"
  <2>1. /\ f \in Pipelines /\ Len(f.pids) = f.size /\ Len(f.statuses) < f.size
        /\ Collected(k, f)
    BY <1>1 DEF FrameOK
  <2>2. Len(f.statuses) <= Len(f.pids)
    <3> DEFINE m == Len(f.statuses)
               n == f.size
    <3>1. m < n /\ m \in Nat /\ n \in Nat
      BY <2>1 DEF Pipelines
    <3> HIDE DEF m, n
    <3>2. m <= n
      BY <3>1
    <3> QED
      BY <2>1, <3>2 DEF m, n
  <2>3. Collected(k2, f)
    BY <2>1, <2>2, CollectedKept
  <2> QED
    BY <1>1, <2>3 DEF FrameOK
<1>2. CASE at # "collect"
  BY <1>2 DEF FrameOK
<1> QED
  BY <1>1, <1>2

(* The shell back at its prompt has nothing in hand.                       *)
LEMMA PromptFrame ==
  ASSUME NEW k, NEW f
  PROVE  FrameOK(k, "prompt", f)
BY DEF FrameOK

(* The statuses that waitpid reports.                                      *)
LEMMA StatusesAreOK ==
  /\ \A s \in Reports : StatusOK(s)
  /\ StatusOK(Success) /\ StatusOK(Failure) /\ StatusOK(Unknown)
  /\ \A s : Terminated(s) => StatusOK(s)
BY DEF Reports, KnownStatuses, StatusOK, Success, Failure, Unknown, Terminated,
       Stopped, Signaled, Exited, NoStatus

(* The general invariant in parts.                                         *)
ShellOK == /\ session \in Sessions
           /\ monitor \in BOOLEAN /\ last_async_pid \in Pids \cup {0} /\ StatusOK(status)

KernelAndTableOK(k, t) == KernelOK(k) /\ TableOK(t) /\ RealIn(k, t)

(* The general invariant is the conjunction of these.                      *)
LEMMA GeneralInvParts ==
  GeneralInv <=> ShellOK /\ KernelAndTableOK(kernel, table) /\ FrameOK(kernel, pc, frame)
BY DEF GeneralInv, ShellOK, KernelAndTableOK

(* After a fork, ...                                                       *)
LEMMA AfterBirth ==
  ASSUME NEW k, NEW t, KernelAndTableOK(k, t), NEW k2, NEW p, NEW g, Born(k, k2, p, g)
  PROVE  KernelAndTableOK(k2, t) /\ Keeps(k, k2)
<1>1. Keeps(k, k2) /\ KernelOK(k2)
  BY BirthKeeps DEF Born
<1> QED
  BY <1>1, RealKept DEF KernelAndTableOK

(* ... moves of processes ...                                              *)
LEMMA AfterMoves ==
  ASSUME NEW k, NEW t, KernelAndTableOK(k, t), NEW k2, Moves(k, k2)
  PROVE  KernelAndTableOK(k2, t) /\ Keeps(k, k2)
<1>1. Keeps(k, k2) /\ KernelOK(k2)
  BY MovesKeep DEF Moves
<1> QED
  BY <1>1, RealKept DEF KernelAndTableOK

(* ... or a report, the table is right as it was, ...                      *)
LEMMA AfterReport ==
  ASSUME NEW k, NEW t, KernelAndTableOK(k, t), NEW k2, NEW p \in Pids, Reported(k, k2, p)
  PROVE  KernelAndTableOK(k2, t) /\ Keeps(k, k2)
<1>1. Keeps(k, k2) /\ KernelOK(k2)
  BY ReportKeeps DEF Reported
<1> QED
  BY <1>1, RealKept DEF KernelAndTableOK

(* ... and with the report noted ...                                       *)
LEMMA AfterNoting ==
  ASSUME NEW k, NEW t, KernelAndTableOK(k, t), NEW u, NEW p, NEW report \in Reports,
         NotedIn(t, u, p, report),
         Terminated(report) => ReapedIn(k, p) /\ report = k[p].status
  PROVE  KernelAndTableOK(k, u)
BY RealNoted DEF KernelAndTableOK

(* ... or the job tracked ...                                              *)
LEMMA AfterTracking ==
  ASSUME NEW k, NEW t, KernelAndTableOK(k, t), NEW u, NEW g, NEW pids,
         NEW stopped, TrackedIn(t, u, g, pids, stopped)
  PROVE  KernelAndTableOK(k, u)
BY RealTracked DEF KernelAndTableOK

(* ... or marked ...                                                       *)
LEMMA AfterMarking ==
  ASSUME NEW k, NEW t, KernelAndTableOK(k, t), NEW u, NEW g, MarkedIn(t, u, g)
  PROVE  KernelAndTableOK(k, u)
BY RealMarked DEF KernelAndTableOK

(* ... or dropped.                                                         *)
LEMMA AfterDropping ==
  ASSUME NEW k, NEW t, KernelAndTableOK(k, t), NEW u,
         Gone(t, u) \/ \E g : Drop(t, u, g)
  PROVE  KernelAndTableOK(k, u)
BY RealGone, RealDropped DEF KernelAndTableOK

(* A reported status is noted truly.                                       *)
LEMMA ReportIsTrue ==
  ASSUME NEW k, NEW k2, NEW p \in Pids, Reported(k, k2, p)
  PROVE  LET report == k[p].status
         IN  /\ report \in Reports
             /\ Terminated(report) => ReapedIn(k2, p) /\ report = k2[p].status
BY DEF Reported

(* wait notes a report, then drops the job.                                *)
LEMMA AfterWait ==
  ASSUME NEW k, NEW t, KernelAndTableOK(k, t), NEW k2, NEW p \in Pids, Reported(k, k2, p),
         NEW u, NotesThenForgets(t, u, p, k[p].status)
  PROVE  KernelAndTableOK(k2, u) /\ Keeps(k, k2)
<1>1. KernelAndTableOK(k2, t) /\ Keeps(k, k2)
  BY AfterReport
<1> DEFINE report == k[p].status
<1>2. PICK v : NotedIn(t, v, p, report) /\ TableOK(v) /\ Gone(v, u)
  BY GoneOfIsGone DEF NotesThenForgets
<1>3. report \in Reports /\ (Terminated(report) => ReapedIn(k2, p) /\ report = k2[p].status)
  BY ReportIsTrue
<1> HIDE DEF report
<1>4. KernelAndTableOK(k2, v)
  BY <1>1, <1>2, <1>3, AfterNoting
<1>5. KernelAndTableOK(k2, u)
  BY <1>2, <1>4, AfterDropping
<1> QED
  BY <1>1, <1>5

(* A foreground command that stops is tracked, then noted.                 *)
LEMMA AfterStop ==
  ASSUME NEW k, NEW t, KernelAndTableOK(k, t), NEW u, NEW p, TracksThenNotes(t, u, p)
  PROVE  KernelAndTableOK(k, u)
<1>1. PICK v : TrackedIn(t, v, p, <<p>>, TRUE) /\ NotedIn(v, u, p, Stopped)
  BY DEF TracksThenNotes
<1>2. KernelAndTableOK(k, v)
  BY <1>1, AfterTracking
<1>3. Stopped \in Reports /\ ~Terminated(Stopped)
  BY DEF Reports, KnownStatuses, Stopped, NoStatus, Terminated
<1> QED
  BY <1>1, <1>2, <1>3, AfterNoting

(* What has been collected is real, with one more status of a report.      *)
LEMMA OneMoreCollected ==
  ASSUME NEW k, NEW k2, NEW f \in Pipelines, Collected(k, f), Keeps(k, k2),
         NEW i, i = Len(f.statuses) + 1, i \in 1 .. Len(f.pids), f.pids[i] \in Pids,
         NEW ws, ws = k[f.pids[i]].status, Reported(k, k2, f.pids[i]),
         NEW statuses, OneMore(f.statuses, statuses, ws)
  PROVE  /\ statuses \in Seq(Reports) /\ Len(statuses) = i
         /\ \A j \in 1 .. i : Terminated(statuses[j]) =>
              ReapedIn(k2, f.pids[j]) /\ statuses[j] = k2[f.pids[j]].status
<1> DEFINE old == f.statuses
           pids == f.pids
           p == pids[i]
<1>1. old \in Seq(Reports) /\ pids \in Seq(Pids)
  BY DEF Pipelines
<1>2. /\ i = Len(old) + 1 /\ i \in 1 .. Len(pids)
      /\ \A j \in 1 .. Len(old) : Terminated(old[j]) =>
           ReapedIn(k, pids[j]) /\ old[j] = k[pids[j]].status
  BY DEF Collected
<1>3. /\ statuses \in Seq(Reports) /\ Len(statuses) = i /\ statuses[i] = ws
      /\ \A j \in 1 .. Len(old) : statuses[j] = old[j]
  BY DEF OneMore
<1>4. ws = k[p].status /\ p \in Pids /\ Reported(k, k2, p)
  OBVIOUS
<1> HIDE DEF old, p, pids
<1>5. Terminated(ws) => ReapedIn(k2, p) /\ ws = k2[p].status
  BY <1>4, ReportIsTrue
<1>6. ASSUME NEW j \in 1 .. i, Terminated(statuses[j])
      PROVE  ReapedIn(k2, pids[j]) /\ statuses[j] = k2[pids[j]].status
  <2>1. CASE j = i
    BY <1>3, <1>5, <1>6, <2>1 DEF p
  <2>2. CASE j # i
    <3>1. Len(old) \in Nat /\ Len(pids) \in Nat
      BY <1>1
    <3>2. j \in 1 .. Len(old) /\ j \in 1 .. Len(pids)
      BY <1>2, <2>2, <3>1
    <3>3. pids[j] \in Pids
      BY <1>1, <3>2
    <3>4. ReapedIn(k, pids[j]) /\ statuses[j] = k[pids[j]].status
      BY <1>2, <1>3, <1>6, <3>2
    <3> QED
      BY <3>3, <3>4 DEF Keeps, ReapedIn
  <2> QED
    BY <2>1, <2>2
<1> QED
  BY <1>3, <1>6 DEF pids

(* The table is empty at the start.                                        *)
LEMMA EmptyTableOK ==
  ASSUME NEW k
  PROVE  TableOK(EmptyTable) /\ RealIn(k, EmptyTable) /\ JobsOf(EmptyTable) = {}
BY DEF EmptyTable, TableOK, Tables, RealIn, JobsOf

(* Whoever starts the shell, the general invariant holds.                  *)
LEMMA GeneralInit ==
  ASSUME Init
  PROVE  GeneralInv
<1>1. /\ session \in Sessions /\ kernel = Boot(Pids) /\ table = EmptyTable
      /\ monitor = session.monitor /\ last_async_pid = 0 /\ pc = "prompt"
      /\ status = Success
  BY DEF Init
<1>2. monitor \in BOOLEAN
  BY <1>1, SessionsAssumption
<1>3. ShellOK
  BY <1>1, <1>2, StatusesAreOK DEF ShellOK
<1>4. KernelOK(kernel)
  BY <1>1, BootIs
<1>5. KernelAndTableOK(kernel, table)
  BY <1>1, <1>4, EmptyTableOK DEF KernelAndTableOK
<1>6. FrameOK(kernel, pc, frame)
  BY <1>1, PromptFrame
<1> QED
  BY <1>3, <1>5, <1>6, GeneralInvParts

(* It is about each of these.                                              *)
LEMMA GeneralInvStep ==
  ASSUME ShellOK', KernelAndTableOK(kernel', table'), FrameOK(kernel', pc', frame')
  PROVE  GeneralInv'
BY DEF GeneralInv, ShellOK, KernelAndTableOK

(* The options and the status stay well formed.                            *)
LEMMA ShellStaysOK ==
  ASSUME ShellOK, session' = session, monitor' \in BOOLEAN,
         last_async_pid' \in Pids \cup {0}, StatusOK(status')
  PROVE  ShellOK'
BY DEF ShellOK, StatusOK

(* ... by the commands that start at the prompt and fork, ...              *)
LEMMA GeneralForks ==
  ASSUME GeneralInv,
         \/ \E p \in Pids, command \in Commands :
              \/ RunAsync(p, command)
              \/ \E vfork \in BOOLEAN : RunForeground(p, command, vfork)
         \/ \E p \in Pids : ForkMember(p)
  PROVE  GeneralInv'
<1>1. ShellOK /\ KernelAndTableOK(kernel, table) /\ FrameOK(kernel, pc, frame)
  BY GeneralInvParts
<1>2. ASSUME NEW p \in Pids, NEW command \in Commands, RunAsync(p, command)
      PROVE  GeneralInv'
  <2>1. /\ Born(kernel, kernel', p, IF monitor THEN p ELSE ShellGroup)
        /\ TrackedIn(table, table', p, <<p>>, FALSE)
    BY <1>2, RunAsyncDoes
  <2>2. KernelAndTableOK(kernel', table)
    BY <1>1, <2>1, AfterBirth
  <2>3. KernelAndTableOK(kernel', table')
    BY <2>1, <2>2, AfterTracking
  <2>4. /\ session' = session /\ monitor' = monitor /\ last_async_pid' = p
        /\ pc' = "prompt" /\ status' = Success
    BY <1>2 DEF RunAsync, Command, Return
  <2>5. ShellOK'
    BY <1>1, <2>4, StatusesAreOK, ShellStaysOK DEF ShellOK
  <2> QED
    BY <2>3, <2>4, <2>5, PromptFrame, GeneralInvStep
<1>3. ASSUME NEW p \in Pids, NEW command \in Commands, NEW vfork \in BOOLEAN,
             RunForeground(p, command, vfork)
      PROVE  GeneralInv'
  <2>1. /\ Born(kernel, kernel', p, IF monitor THEN p ELSE ShellGroup)
        /\ frame'.pid = p /\ frame'.command = command /\ pc' = "foreground"
    BY <1>3, RunForegroundDoes
  <2>2. KernelAndTableOK(kernel', table)
    BY <1>1, <2>1, AfterBirth
  <2>3. /\ session' = session /\ monitor' = monitor /\ last_async_pid' = last_async_pid
        /\ status' = status /\ table' = table
    BY <1>3 DEF RunForeground, Command, Start, Options
  <2>4. ShellOK'
    BY <1>1, <2>3, ShellStaysOK DEF ShellOK
  <2>5. FrameOK(kernel', pc', frame')
    BY <2>1 DEF FrameOK
  <2> QED
    BY <2>2, <2>3, <2>4, <2>5, GeneralInvStep
<1>4. ASSUME NEW p \in Pids, ForkMember(p)
      PROVE  GeneralInv'
  <2> DEFINE f == frame
             h == frame'
             old == frame.pids
             new == frame'.pids
             m == frame.size
  <2>1. /\ f \in Pipelines /\ h \in Pipelines
        /\ new = Append(old, p) /\ h.statuses = <<>> /\ h.size = m
        /\ Len(old) < m
        /\ pc' = IF Len(new) = m THEN "collect" ELSE "fork"
        /\ Born(kernel, kernel', p, IF frame.isolate THEN frame'.pids[1] ELSE ShellGroup)
    BY <1>4, ForkMemberDoes
  <2>2. KernelAndTableOK(kernel', table)
    BY <1>1, <2>1, AfterBirth
  <2>3. /\ session' = session /\ monitor' = monitor /\ last_async_pid' = last_async_pid
        /\ status' = status /\ table' = table
    BY <1>4 DEF ForkMember, Running, Start, Options
  <2>4. ShellOK'
    BY <1>1, <2>3, ShellStaysOK DEF ShellOK
  <2>5. old \in Seq(Pids) /\ m \in Nat
    BY <2>1 DEF Pipelines
  <2>6. h.pids = new
    OBVIOUS
  <2> HIDE DEF old, new, m, h, f
  <2>7. Len(old) \in Nat /\ Len(new) = Len(old) + 1
    BY <2>1, <2>5
  <2>8. Len(new) # m => Len(new) < m
    BY <2>1, <2>5, <2>7
  <2>9. Len(h.statuses) = 0 /\ (Len(new) = m => 0 < m)
    BY <2>1, <2>7
  <2>10. Collected(kernel', h)
    BY <2>9 DEF Collected
  <2>11. FrameOK(kernel', pc', h)
    BY <2>1, <2>6, <2>8, <2>9, <2>10 DEF FrameOK
  <2> QED
    BY <2>2, <2>3, <2>4, <2>11, GeneralInvStep DEF h
<1> QED
  BY <1>2, <1>3, <1>4

(* ... by those that return from waitpid, ...                              *)
LEMMA GeneralWaits ==
  ASSUME GeneralInv,
         \/ ForegroundChanged
         \/ \E p \in Pids : WaitAllReaps(p)
         \/ WaitPidReaps
  PROVE  GeneralInv'
<1>1. ShellOK /\ KernelAndTableOK(kernel, table) /\ FrameOK(kernel, pc, frame)
  BY GeneralInvParts
<1>2. CASE ForegroundChanged
  <2> DEFINE p == frame.pid
             ws == kernel[p].status
  <2>1. /\ p \in Pids /\ Reported(kernel, kernel', p) /\ status' = ws
        /\ IF WIFSTOPPED(ws) THEN TracksThenNotes(table, table', p) ELSE table' = table
    BY <1>2, ForegroundDoes
  <2>2. /\ session' = session /\ monitor' = monitor /\ last_async_pid' = last_async_pid
        /\ pc' = "prompt"
    BY <1>2 DEF ForegroundChanged, Running, Return, Options
  <2>3. ws \in Reports
    BY <2>1, ReportIsTrue
  <2> HIDE DEF p, ws
  <2>4. KernelAndTableOK(kernel', table)
    BY <1>1, <2>1, AfterReport
  <2>5. KernelAndTableOK(kernel', table')
    BY <2>1, <2>4, AfterStop
  <2>6. ShellOK'
    BY <1>1, <2>1, <2>2, <2>3, StatusesAreOK, ShellStaysOK DEF ShellOK
  <2> QED
    BY <2>2, <2>5, <2>6, PromptFrame, GeneralInvStep
<1>3. ASSUME NEW p \in Pids, WaitAllReaps(p)
      PROVE  GeneralInv'
  <2>1. Reported(kernel, kernel', p) /\ NotesThenForgets(table, table', p, kernel[p].status)
    BY <1>3, WaitAllDoes
  <2>2. KernelAndTableOK(kernel', table')
    BY <1>1, <2>1, AfterWait
  <2>3. /\ session' = session /\ monitor' = monitor /\ last_async_pid' = last_async_pid
        /\ pc' = "wait_all" /\ status' = status
    BY <1>3 DEF WaitAllReaps, Running, Start, Options
  <2>4. ShellOK'
    BY <1>1, <2>3, ShellStaysOK DEF ShellOK
  <2>5. FrameOK(kernel', pc', frame')
    BY <2>3 DEF FrameOK
  <2> QED
    BY <2>2, <2>4, <2>5, GeneralInvStep
<1>4. CASE WaitPidReaps
  <2> DEFINE p == frame.pid
             ws == kernel[p].status
  <2>1. /\ p \in Pids /\ Reported(kernel, kernel', p) /\ NotesThenForgets(table, table', p, ws)
        /\ status' = ws
    BY <1>4, WaitPidDoes
  <2>2. KernelAndTableOK(kernel', table')
    BY <1>1, <2>1, AfterWait
  <2>3. /\ session' = session /\ monitor' = monitor /\ last_async_pid' = last_async_pid
        /\ pc' = "prompt"
    BY <1>4 DEF WaitPidReaps, Running, Return, Options
  <2>4. ws \in Reports
    BY <2>1, ReportIsTrue
  <2>5. ShellOK'
    BY <1>1, <2>1, <2>3, <2>4, StatusesAreOK, ShellStaysOK DEF ShellOK
  <2> QED
    BY <2>2, <2>3, <2>5, PromptFrame, GeneralInvStep
<1> QED
  BY <1>2, <1>3, <1>4

(* ... by the collection of a pipeline, ...                                *)
LEMMA GeneralCollects ==
  ASSUME GeneralInv, CollectMember
  PROVE  GeneralInv'
<1>1. ShellOK /\ KernelAndTableOK(kernel, table) /\ FrameOK(kernel, pc, frame)
  BY GeneralInvParts
<1> DEFINE f == frame
           h == frame'
           k2 == kernel'
           u == table'
<1>2. PICK i, ws, statuses :
           /\ f \in Pipelines /\ Collected(kernel, f)
           /\ i = Len(f.statuses) + 1 /\ i \in 1 .. Len(f.pids)
           /\ Len(f.pids) = f.size
           /\ f.pids[i] \in Pids /\ f.pids \in Seq(Pids)
           /\ ws = kernel[f.pids[i]].status
           /\ OneMore(f.statuses, statuses, ws)
           /\ Reported(kernel, k2, f.pids[i])
           /\ CollectsOne(table, u, f, i, ws, statuses)
           /\ IF i = f.size THEN Return(ws)
              ELSE pc' = "collect" /\ h = [f EXCEPT !.statuses = statuses]
                   /\ UNCHANGED status
  BY CollectDoes
<1>3. /\ session' = session /\ monitor' = monitor /\ last_async_pid' = last_async_pid
  BY DEF CollectMember, Running, Options
<1> DEFINE p == f.pids[i]
<1> HIDE DEF f, h, k2, u
<1>4. KernelAndTableOK(k2, table) /\ Keeps(kernel, k2)
  BY <1>1, <1>2, AfterReport
<1>5. ws \in Reports /\ (Terminated(ws) => ReapedIn(k2, p) /\ ws = k2[p].status)
  BY <1>2, ReportIsTrue
<1>6. /\ statuses \in Seq(Reports) /\ Len(statuses) = i
      /\ \A j \in 1 .. i : Terminated(statuses[j]) =>
           ReapedIn(k2, f.pids[j]) /\ statuses[j] = k2[f.pids[j]].status
  BY <1>2, <1>4, OneMoreCollected
<1>7. KernelAndTableOK(k2, u)
  <2>1. CASE WIFSTOPPED(ws)
    <3> DEFINE g == IF f.isolate THEN f.pids[1] ELSE f.pids[i]
    <3>1. PipelineRuns(table, u, g, f.pids, statuses)
      BY <1>2, <2>1 DEF CollectsOne
    <3> HIDE DEF g
    <3>2. TableOK(table) /\ RealIn(k2, table) /\ KernelOK(k2)
      BY <1>4 DEF KernelAndTableOK
    <3>3. TableOK(u) /\ RealIn(k2, u)
      <4> DEFINE pids == f.pids
      <4>1. pids \in Seq(Pids) /\ PipelineRuns(table, u, g, pids, statuses)
            /\ i \in 1 .. Len(pids)
            /\ \A j \in 1 .. i : Terminated(statuses[j]) =>
                 ReapedIn(k2, pids[j]) /\ statuses[j] = k2[pids[j]].status
        BY <1>2, <1>6, <3>1
      <4> HIDE DEF pids
      <4> QED
        BY <1>6, <3>2, <4>1, PipelineReal
    <3> QED
      BY <3>2, <3>3 DEF KernelAndTableOK
  <2>2. CASE ~WIFSTOPPED(ws) /\ f.executor = "text"
    <3>1. NotedIn(table, u, p, ws)
      BY <1>2, <2>2 DEF CollectsOne
    <3> QED
      BY <1>4, <1>5, <3>1, AfterNoting
  <2>3. CASE ~WIFSTOPPED(ws) /\ f.executor # "text"
    BY <1>2, <1>4, <2>3 DEF CollectsOne
  <2> QED
    BY <2>1, <2>2, <2>3
<1>8. CASE i = f.size
  <2>1. pc' = "prompt" /\ status' = ws
    BY <1>2, <1>8 DEF Return
  <2>2. ShellOK'
    BY <1>1, <1>3, <1>5, <2>1, StatusesAreOK, ShellStaysOK DEF ShellOK
  <2> QED
    BY <1>7, <2>1, <2>2, PromptFrame, GeneralInvStep DEF k2, u
<1>9. CASE i # f.size
  <2>1. pc' = "collect" /\ h = [f EXCEPT !.statuses = statuses] /\ status' = status
    BY <1>2, <1>9
  <2>2. h \in Pipelines /\ h.pids = f.pids /\ h.size = f.size /\ h.statuses = statuses
    BY <1>2, <1>6, <2>1 DEF Pipelines
  <2>3. Collected(k2, h)
    BY <1>6, <2>2 DEF Collected
  <2>4. Len(h.pids) = h.size /\ Len(h.statuses) < h.size
    <3> DEFINE n == Len(f.pids)
    <3>1. n \in Nat /\ i \in 1 .. n /\ n = f.size
      BY <1>2
    <3> HIDE DEF n
    <3>2. i < n
      BY <1>9, <3>1
    <3> QED
      BY <1>6, <2>2, <3>1, <3>2 DEF n
  <2>5. FrameOK(k2, pc', h)
    BY <2>1, <2>2, <2>3, <2>4 DEF FrameOK
  <2>6. ShellOK'
    BY <1>1, <1>3, <2>1, ShellStaysOK DEF ShellOK
  <2> QED
    BY <1>7, <2>5, <2>6, GeneralInvStep DEF k2, u, h
<1> QED
  BY <1>8, <1>9

(* ... by the builtins that look a job up, ...                             *)
LEMMA GeneralJobs ==
  ASSUME GeneralInv,
         \/ \E spec \in Operands : StartWaitJob(spec) \/ StartFg(spec) \/ Bg(spec)
         \/ \E p \in Pids : WaitJobReports(p)
  PROVE  GeneralInv'
<1>1. ShellOK /\ KernelAndTableOK(kernel, table) /\ FrameOK(kernel, pc, frame)
  BY GeneralInvParts
<1>2. KernelOK(kernel) /\ TableOK(table) /\ RealIn(kernel, table)
  BY <1>1 DEF KernelAndTableOK
<1>3. ASSUME NEW job \in JobsOf(table)
      PROVE  job.pgid \in Pids /\ job.status_pid \in Pids
  <2>1. job \in JobRecords
    BY <1>2, JobsTyped DEF TableOK
  <2> QED
    BY <2>1, ProcsTyped
<1>4. ASSUME NEW k, NEW v, KernelAndTableOK(k, v), NEW u, NEW result, NEW g,
             GivesUp(v, u, result, g)
      PROVE  KernelAndTableOK(k, u) /\ StatusOK(result)
  BY <1>4, GivenUpIsReal, StatusesAreOK DEF KernelAndTableOK
<1>5. ASSUME NEW spec, StartWaitJob(spec)
      PROVE  GeneralInv'
  <2>1. /\ session' = session /\ monitor' = monitor /\ last_async_pid' = last_async_pid
        /\ kernel' = kernel
    BY <1>5 DEF StartWaitJob, Command, Options
  <2>2. CASE table' = table /\ pc' = "prompt" /\ status' \in {Unknown, Failure}
    <3>1. ShellOK'
      BY <1>1, <2>1, <2>2, StatusesAreOK, ShellStaysOK DEF ShellOK
    <3> QED
      BY <1>1, <2>1, <2>2, <3>1, PromptFrame, GeneralInvStep
  <2>3. ASSUME NEW job \in JobsOf(table),
               table' = table, pc' = "wait_job", status' = status,
               frame' = [kind |-> "wait", job |-> [pgid |-> job.pgid, status_pid |-> job.status_pid]]
        PROVE  GeneralInv'
    <3>1. ShellOK'
      BY <1>1, <2>1, <2>3, ShellStaysOK DEF ShellOK
    <3>2. frame'.job.pgid = job.pgid /\ frame'.job.status_pid = job.status_pid
      BY <2>3
    <3>3. FrameOK(kernel', pc', frame')
      BY <1>3, <2>3, <3>2 DEF FrameOK
    <3> QED
      BY <1>1, <2>1, <2>3, <3>1, <3>3, GeneralInvStep
  <2>4. ASSUME NEW g, GivesUp(table, table', status', g), pc' = "prompt"
        PROVE  GeneralInv'
    <3>1. KernelAndTableOK(kernel', table') /\ StatusOK(status')
      BY <1>1, <1>4, <2>1, <2>4
    <3>2. ShellOK'
      BY <1>1, <2>1, <3>1, ShellStaysOK DEF ShellOK
    <3> QED
      BY <2>4, <3>1, <3>2, PromptFrame, GeneralInvStep
  <2> QED
    BY <1>5, <2>2, <2>3, <2>4, StartWaitJobDoes
<1>6. ASSUME NEW spec, StartFg(spec)
      PROVE  GeneralInv'
  <2>1. /\ session' = session /\ monitor' = monitor /\ last_async_pid' = last_async_pid
    BY <1>6 DEF StartFg, Command, Options
  <2>2. PICK job \in JobsOf(table), v \in Tables :
           /\ MarkedIn(table, v, job.pgid) /\ TableOK(v)
           /\ \/ /\ kernel' = kernel /\ table' = v
                 /\ ~GroupExists(kernel, job.pgid)
                 /\ pc' = "prompt" /\ frame' = NoFrame /\ status' = Failure
              \/ /\ Resumes(kernel, kernel', job.pgid) /\ table' = v
                 /\ pc' = "wait_job" /\ status' = status
                 /\ frame' = [kind |-> "fg", job |-> [pgid |-> job.pgid, status_pid |-> job.status_pid]]
              \/ /\ Resumes(kernel, kernel', job.pgid)
                 /\ GivesUp(v, table', status', job.pgid)
                 /\ pc' = "prompt" /\ frame' = NoFrame
    BY <1>6, StartFgDoes
  <2>3. KernelAndTableOK(kernel, v)
    BY <1>1, <2>2, AfterMarking
  <2>4. Resumes(kernel, kernel', job.pgid) => KernelAndTableOK(kernel', v)
    BY <2>3, AfterMoves DEF Resumes
  <2>5. CASE kernel' = kernel /\ table' = v /\ pc' = "prompt" /\ status' = Failure
    <3>1. ShellOK'
      BY <1>1, <2>1, <2>5, StatusesAreOK, ShellStaysOK DEF ShellOK
    <3> QED
      BY <2>3, <2>5, <3>1, PromptFrame, GeneralInvStep
  <2>6. CASE /\ Resumes(kernel, kernel', job.pgid) /\ table' = v
             /\ pc' = "wait_job" /\ status' = status
             /\ frame' = [kind |-> "fg", job |-> [pgid |-> job.pgid, status_pid |-> job.status_pid]]
    <3>1. ShellOK'
      BY <1>1, <2>1, <2>6, ShellStaysOK DEF ShellOK
    <3>2. frame'.job.pgid = job.pgid /\ frame'.job.status_pid = job.status_pid
      BY <2>6
    <3>3. FrameOK(kernel', pc', frame')
      BY <1>3, <2>6, <3>2 DEF FrameOK
    <3> QED
      BY <2>4, <2>6, <3>1, <3>3, GeneralInvStep
  <2>7. CASE /\ Resumes(kernel, kernel', job.pgid)
             /\ GivesUp(v, table', status', job.pgid) /\ pc' = "prompt"
    <3>1. KernelAndTableOK(kernel', table') /\ StatusOK(status')
      BY <1>4, <2>4, <2>7
    <3>2. ShellOK'
      BY <1>1, <2>1, <3>1, ShellStaysOK DEF ShellOK
    <3> QED
      BY <2>7, <3>1, <3>2, PromptFrame, GeneralInvStep
  <2> QED
    BY <2>2, <2>5, <2>6, <2>7
<1>7. ASSUME NEW spec, Bg(spec)
      PROVE  GeneralInv'
  <2>1. /\ session' = session /\ monitor' = monitor
    BY <1>7 DEF Bg, Command
  <2>2. PICK job \in JobsOf(table) :
           /\ pc' = "prompt" /\ frame' = NoFrame /\ status' \in {Success, Failure}
           /\ last_async_pid' \in {job.status_pid, last_async_pid}
           /\ \/ kernel' = kernel /\ table' = table
              \/ /\ MarkedIn(table, table', job.pgid)
                 /\ \/ kernel' = kernel /\ ~GroupExists(kernel, job.pgid)
                    \/ Resumes(kernel, kernel', job.pgid)
    BY <1>7, BgDoes
  <2>3. KernelAndTableOK(kernel', table) \/ kernel' = kernel
    BY <1>1, <2>2, AfterMoves DEF Resumes
  <2>4. KernelAndTableOK(kernel', table')
    BY <1>1, <2>2, <2>3, AfterMarking
  <2>5. last_async_pid' \in Pids \cup {0}
    BY <1>1, <1>3, <2>2 DEF ShellOK
  <2>6. ShellOK'
    BY <1>1, <2>1, <2>2, <2>5, StatusesAreOK, ShellStaysOK DEF ShellOK
  <2> QED
    BY <2>2, <2>4, <2>6, PromptFrame, GeneralInvStep
<1>8. ASSUME NEW p \in Pids, WaitJobReports(p)
      PROVE  GeneralInv'
  <2> DEFINE g == frame.job.pgid
             ws == kernel[p].status
  <2>1. /\ session' = session /\ monitor' = monitor /\ last_async_pid' = last_async_pid
    BY <1>8 DEF WaitJobReports, Running, Options
  <2>2. /\ Reported(kernel, kernel', p) /\ pc = "wait_job"
        /\ \E v : /\ NotedIn(table, v, p, ws) /\ TableOK(v) /\ RealIn(kernel', v)
                  /\ \/ /\ pc' = "wait_job" /\ frame' = frame /\ status' = status
                        /\ table' = v
                     \/ /\ pc' = "prompt" /\ frame' = NoFrame
                        /\ WaitJobResult(kernel', v, table', g, ws, status')
    BY <1>8, WaitJobDoes
  <2>3. PICK v : /\ NotedIn(table, v, p, ws) /\ TableOK(v) /\ RealIn(kernel', v)
                 /\ \/ /\ pc' = "wait_job" /\ frame' = frame /\ status' = status
                       /\ table' = v
                    \/ /\ pc' = "prompt" /\ frame' = NoFrame
                       /\ WaitJobResult(kernel', v, table', g, ws, status')
    BY <2>2
  <2> HIDE DEF g, ws
  <2>4. KernelAndTableOK(kernel', v)
    BY <2>2, <2>3 DEF Reported, KernelAndTableOK
  <2>5. CASE pc' = "wait_job" /\ frame' = frame /\ status' = status /\ table' = v
    <3>1. ShellOK'
      BY <1>1, <2>1, <2>5, ShellStaysOK DEF ShellOK
    <3>2. FrameOK(kernel', pc', frame')
      <4>1. Keeps(kernel, kernel')
        BY <2>2, ReportKeeps
      <4>2. FrameOK(kernel', pc, frame)
        BY <1>1, <4>1, FrameKept
      <4> QED
        BY <2>2, <2>5, <4>2
    <3> QED
      BY <2>4, <2>5, <3>1, <3>2, GeneralInvStep
  <2>6. CASE pc' = "prompt" /\ WaitJobResult(kernel', v, table', g, ws, status')
    <3>1. KernelAndTableOK(kernel', table') /\ StatusOK(status')
      BY <1>4, <2>4, <2>6, StatusesAreOK DEF WaitJobResult
    <3>2. ShellOK'
      BY <1>1, <2>1, <3>1, ShellStaysOK DEF ShellOK
    <3> QED
      BY <2>6, <3>1, <3>2, PromptFrame, GeneralInvStep
  <2> QED
    BY <2>3, <2>5, <2>6
<1> QED
  BY <1>5, <1>6, <1>7, <1>8

(* ... and by those that change neither kernel nor table.                  *)
LEMMA GeneralRest ==
  ASSUME GeneralInv,
         \/ \E on \in BOOLEAN : SetMonitor(on)
         \/ \E executor \in session.executors, n \in 2 .. MaxMembers, command \in Commands :
              StartPipeline(executor, n, command)
         \/ StartWaitAll
         \/ \E p \in Pids : StartWaitPid(p)
         \/ \E spec \in Operands : Refuse(spec)
         \/ ForkFails \/ WaitAllReturns \/ WaitJobLost
  PROVE  GeneralInv'
<1>1. ShellOK /\ KernelAndTableOK(kernel, table) /\ FrameOK(kernel, pc, frame)
  BY GeneralInvParts
<1>2. \/ \E on \in BOOLEAN : SetMonitor(on)
      \/ \E spec \in Operands : Refuse(spec)
      \/ ForkFails \/ WaitAllReturns \/ WaitJobLost
      => /\ kernel' = kernel /\ table' = table /\ session' = session /\ monitor' \in BOOLEAN
         /\ last_async_pid' = last_async_pid /\ pc' = "prompt"
         /\ status' \in {Success, Failure, Unknown}
  BY <1>1 DEF SetMonitor, Refuse, ForkFails, WaitAllReturns, WaitJobLost, Command, Running,
              Return, Options, ShellOK
<1>3. ASSUME kernel' = kernel, table' = table, session' = session, monitor' \in BOOLEAN,
             last_async_pid' = last_async_pid, pc' = "prompt",
             status' \in {Success, Failure, Unknown}
      PROVE  GeneralInv'
  <2>1. ShellOK'
    BY <1>1, <1>3, StatusesAreOK, ShellStaysOK DEF ShellOK
  <2> QED
    BY <1>1, <1>3, <2>1, PromptFrame, GeneralInvStep
<1>4. ASSUME kernel' = kernel, table' = table, session' = session, monitor' = monitor,
             last_async_pid' = last_async_pid, status' = status,
             FrameOK(kernel', pc', frame')
      PROVE  GeneralInv'
  <2>1. ShellOK'
    BY <1>1, <1>4, ShellStaysOK DEF ShellOK
  <2> QED
    BY <1>1, <1>4, <2>1, GeneralInvStep
<1>5. ASSUME NEW executor \in session.executors, NEW n \in 2 .. MaxMembers,
             NEW command \in Commands, StartPipeline(executor, n, command)
      PROVE  GeneralInv'
  <2> DEFINE h == frame'
  <2>1. h \in Pipelines /\ pc' = "fork" /\ h.pids = <<>> /\ h.statuses = <<>> /\ h.size = n
    BY <1>5, StartPipelineDoes
  <2>2. 0 < n
    OBVIOUS
  <2> HIDE DEF h
  <2>3. FrameOK(kernel', pc', h)
    BY <2>1, <2>2 DEF FrameOK
  <2>4. /\ kernel' = kernel /\ table' = table /\ session' = session /\ monitor' = monitor
        /\ last_async_pid' = last_async_pid /\ status' = status
    BY <1>5 DEF StartPipeline, Command, Start, Options
  <2> QED
    BY <1>4, <2>3, <2>4 DEF h
<1>6. ASSUME StartWaitAll
      PROVE  GeneralInv'
  <2>1. /\ kernel' = kernel /\ table' = table /\ session' = session /\ monitor' = monitor
        /\ last_async_pid' = last_async_pid /\ status' = status /\ pc' = "wait_all"
    BY <1>6 DEF StartWaitAll, Command, Start, Options
  <2>2. FrameOK(kernel', pc', frame')
    BY <2>1 DEF FrameOK
  <2> QED
    BY <1>4, <2>1, <2>2
<1>7. ASSUME NEW p \in Pids, StartWaitPid(p)
      PROVE  GeneralInv'
  <2>1. /\ kernel' = kernel /\ table' = table /\ session' = session /\ monitor' = monitor
        /\ last_async_pid' = last_async_pid
        /\ \/ status' = status /\ pc' = "wait_pid" /\ frame'.pid = p
           \/ status' = Unknown /\ pc' = "prompt"
    BY <1>7 DEF StartWaitPid, Command, Start, Return, Options
  <2>2. CASE status' = status /\ pc' = "wait_pid" /\ frame'.pid = p
    <3>1. FrameOK(kernel', pc', frame')
      BY <2>2 DEF FrameOK
    <3> QED
      BY <1>4, <2>1, <2>2, <3>1
  <2>3. CASE status' = Unknown /\ pc' = "prompt"
    BY <1>1, <1>3, <2>1, <2>3 DEF ShellOK
  <2> QED
    BY <2>1, <2>2, <2>3
<1> QED
  BY <1>2, <1>3, <1>5, <1>6, <1>7

(* Every step keeps the general invariant.                                 *)
LEMMA GeneralNext ==
  ASSUME GeneralInv, [Next]_vars
  PROVE  GeneralInv'
<1>1. ShellOK /\ KernelAndTableOK(kernel, table) /\ FrameOK(kernel, pc, frame)
  BY GeneralInvParts
<1>2. ASSUME NEW spec \in Operands, NEW signal \in {"STOP", "CONT", "TERM"}, Kill(spec, signal)
      PROVE  GeneralInv'
  <2>1. /\ Moves(kernel, kernel') /\ table' = table /\ pc' = "prompt"
        /\ status' \in {Success, Failure}
    BY <1>2, KillDoes
  <2>2. session' = session /\ monitor' = monitor /\ last_async_pid' = last_async_pid
    BY <1>2 DEF Kill, Command, Options
  <2>3. KernelAndTableOK(kernel', table)
    BY <1>1, <2>1, AfterMoves
  <2>4. ShellOK'
    BY <1>1, <2>1, <2>2, StatusesAreOK, ShellStaysOK DEF ShellOK
  <2> QED
    BY <2>1, <2>3, <2>4, PromptFrame, GeneralInvStep
<1>3. ASSUME ProcessStep
      PROVE  GeneralInv'
  <2>1. /\ Moves(kernel, kernel') /\ session' = session /\ table' = table /\ monitor' = monitor
        /\ last_async_pid' = last_async_pid /\ pc' = pc /\ frame' = frame /\ status' = status
    BY <1>3, ProcessDoes
  <2>2. KernelAndTableOK(kernel', table) /\ Keeps(kernel, kernel')
    BY <1>1, <2>1, AfterMoves
  <2>3. FrameOK(kernel', pc, frame)
    BY <1>1, <2>2, FrameKept
  <2>4. ShellOK'
    BY <1>1, <2>1, ShellStaysOK DEF ShellOK
  <2> QED
    BY <2>1, <2>2, <2>3, <2>4, GeneralInvStep
<1>4. CASE UNCHANGED vars
  BY <1>4 DEF GeneralInv, vars, StatusOK
<1>5. CASE CommandStep
  BY <1>2, <1>5, GeneralForks, GeneralJobs, GeneralRest DEF CommandStep
<1>6. CASE RunningStep
  BY <1>6, GeneralForks, GeneralWaits, GeneralCollects, GeneralJobs, GeneralRest DEF RunningStep
<1> QED
  BY <1>3, <1>4, <1>5, <1>6 DEF Next

(* The general invariant holds in every behaviour.                         *)
THEOREM GeneralInvHolds == Spec => []GeneralInv
BY GeneralInit, GeneralNext, PTL DEF Spec

(* The table's entries name children, commands and processes.              *)
THEOREM TypeCorrect == Spec => []TypeOK
<1>1. ASSUME GeneralInv
      PROVE  TypeOK
  <2>1. KernelOK(kernel) /\ TableOK(table) /\ FrameOK(kernel, pc, frame)
    BY <1>1 DEF GeneralInv
  <2>2. ASSUME NEW job \in TrackedJobs
        PROVE  /\ {job.pgid, job.status_pid} \cup PidsOf(job) \subseteq Pids
               /\ job.command \in Commands
               /\ job.status_pid \in PidsOf(job)
    <3>1. job \in JobsOf(table)
      BY DEF TrackedJobs, JobsOf
    <3>2. job \in JobRecords /\ JobOK(job)
      BY <2>1, <3>1, JobsTyped DEF TableOK
    <3>3. /\ \A i \in DOMAIN job.procs : job.procs[i].pid \in Pids
          /\ job.pgid \in Pids /\ job.status_pid \in Pids
          /\ DOMAIN job.procs = 1 .. Len(job.procs) /\ Len(job.procs) \in Nat
          /\ job.procs \in Seq(Processes)
      BY <3>2, ProcsTyped
    <3>4. job.command \in Commands
      BY <3>2 DEF JobRecords
    <3>5. PidsOf(job) = {job.procs[i].pid : i \in DOMAIN job.procs}
      BY PidsOfIs
    <3>6. Len(job.procs) \in DOMAIN job.procs
      <4> DEFINE procs == job.procs
      <4>1. procs \in Seq(Processes) /\ procs # <<>>
        BY <3>2, <3>3 DEF JobOK
      <4> HIDE DEF procs
      <4>2. Len(procs) \in DOMAIN procs
        BY <4>1
      <4> QED
        BY <4>2 DEF procs
    <3>7. job.status_pid \in PidsOf(job)
      BY <3>2, <3>5, <3>6 DEF JobOK
    <3> QED
      BY <3>3, <3>4, <3>5, <3>7
  <2>3. /\ monitor \in BOOLEAN /\ last_async_pid \in Pids \cup {0}
        /\ status.kind \in {"builtin", "exited", "signaled", "stopped"}
    BY <1>1 DEF GeneralInv, StatusOK
  <2> QED
    BY <2>1, <2>2, <2>3 DEF TypeOK, KernelOK, FrameOK
<1> QED
  BY <1>1, GeneralInvHolds, PTL

(* A table has no entry that is done before its process is reaped, in      *)
(* whatever order the processes end and the shell waits: the first half of *)
(* TableAgreesWithKernel, in every session.                                *)
LEMMA RealIsReal ==
  ASSUME GeneralInv
  PROVE  EndsAreReal
<1>1. RealIn(kernel, table)
  BY DEF GeneralInv
<1>2. ASSUME NEW job \in TrackedJobs, NEW proc \in ProcessesOf(job), proc.done
      PROVE  Reaped(proc.pid) /\ proc.status = kernel[proc.pid].status
  <2>1. job \in JobsOf(table)
    BY DEF TrackedJobs, JobsOf
  <2>2. PICK i \in DOMAIN job.procs : proc = job.procs[i]
    BY DEF ProcessesOf
  <2>3. Real(kernel, proc)
    BY <1>1, <2>1, <2>2 DEF RealIn
  <2> QED
    BY <1>2, <2>3 DEF Real, ReapedIn, Reaped
<1> QED
  BY <1>2 DEF EndsAreReal

(* The job of a group stays the job of that group, with the same status    *)
(* process, when something is noted or it is taken for running.            *)
LEMMA JobsStay ==
  ASSUME NEW t, TableOK(t), NEW u,
         (\E p, report : NotedIn(t, u, p, report)) \/ (\E g : MarkedIn(t, u, g)),
         NEW a \in JobsOf(t)
  PROVE  \E b \in JobsOf(u) : b.pgid = a.pgid /\ b.status_pid = a.status_pid
<1>1. CASE u = t
  BY <1>1
<1>2. CASE \E c \in JobsOf(t), b \in JobRecords :
             Put(t, u, b) /\ b.pgid = c.pgid /\ b.status_pid = c.status_pid
  <2>1. PICK c \in JobsOf(t), b \in JobRecords :
             Put(t, u, b) /\ b.pgid = c.pgid /\ b.status_pid = c.status_pid
    BY <1>2
  <2>2. CASE a.pgid = b.pgid
    <3>1. a = c
      BY <2>1, <2>2, OneJobOfGroup
    <3> QED
      BY <2>1, <3>1 DEF Put
  <2>3. CASE a.pgid # b.pgid
    BY <2>1, <2>3 DEF Put, Others
  <2> QED
    BY <2>2, <2>3
<1> QED
  BY <1>1, <1>2 DEF NotedIn, MarkedIn, NotedJob, MarkedJob

Kept(job) == \E b \in JobsOf(table') : b.pgid = job.pgid

GivenUp(job) == status' = kernel'[job.status_pid].status

(* At the prompt or in the loop of wait %job and fg, a job is dropped only *)
(* to return how its last process ended.                                   *)
LEMMA DroppedIsReported ==
  ASSUME GeneralInv, GeneralInv', [Next]_vars, pc \in {"prompt", "wait_job"},
         NEW job \in JobsOf(table)
  PROVE  Kept(job) \/ GivenUp(job)
<1>1. /\ KernelOK(kernel) /\ TableOK(table) /\ RealIn(kernel, table)
      /\ KernelOK(kernel') /\ TableOK(table')
  BY DEF GeneralInv
<1>2. ASSUME table' = table
      PROVE  Kept(job)
  BY <1>2 DEF Kept
<1>3. ASSUME NEW t, (\E p, report : NotedIn(table, t, p, report)) \/ (\E g : MarkedIn(table, t, g))
      PROVE  \E b \in JobsOf(t) : b.pgid = job.pgid /\ b.status_pid = job.status_pid
  BY <1>1, <1>3, JobsStay
<1>4. ASSUME NEW t, NEW result, NEW g, GivesUp(t, table', result, g), status' = result,
             TableOK(t), RealIn(kernel', t), NEW b \in JobsOf(t),
             b.pgid = job.pgid, b.status_pid = job.status_pid
      PROVE  Kept(job) \/ GivenUp(job)
  <2>1. Drop(t, table', g) /\ (b.pgid = g => result = kernel'[b.status_pid].status)
    BY <1>1, <1>4, GivenUpIsReal
  <2>2. CASE b.pgid = g
    BY <1>4, <2>1, <2>2 DEF GivenUp
  <2>3. CASE b.pgid # g
    BY <1>4, <2>1, <2>3 DEF Drop, Others, Kept
  <2> QED
    BY <2>2, <2>3
<1>5. ASSUME NEW p \in Pids, NEW command \in Commands, RunAsync(p, command)
      PROVE  Kept(job)
  <2>1. TrackedIn(table, table', p, <<p>>, FALSE)
    BY <1>5, RunAsyncDoes
  <2>2. PICK b \in JobRecords : Put(table, table', b)
    BY <2>1 DEF TrackedIn
  <2> QED
    BY <2>2 DEF Put, Others, Kept
<1>6. ASSUME NEW spec, StartWaitJob(spec)
      PROVE  Kept(job) \/ GivenUp(job)
  <2>1. kernel' = kernel
    BY <1>6 DEF StartWaitJob
  <2>2. table' = table \/ \E g : GivesUp(table, table', status', g)
    BY <1>6, StartWaitJobDoes
  <2> QED
    BY <1>1, <1>2, <1>4, <2>1, <2>2
<1>7. ASSUME NEW spec, StartFg(spec)
      PROVE  Kept(job) \/ GivenUp(job)
  <2>1. PICK a \in JobsOf(table), v \in Tables :
           /\ MarkedIn(table, v, a.pgid) /\ TableOK(v)
           /\ \/ table' = v
              \/ /\ Resumes(kernel, kernel', a.pgid)
                 /\ GivesUp(v, table', status', a.pgid)
    BY <1>7, StartFgDoes
  <2>2. \E b \in JobsOf(v) : b.pgid = job.pgid /\ b.status_pid = job.status_pid
    BY <1>3, <2>1
  <2>3. CASE table' = v
    BY <2>2, <2>3 DEF Kept
  <2>4. CASE Resumes(kernel, kernel', a.pgid) /\ GivesUp(v, table', status', a.pgid)
    <3>1. KernelAndTableOK(kernel', v)
      BY <1>1, <2>1, <2>4, AfterMarking, AfterMoves DEF Resumes, KernelAndTableOK
    <3> QED
      BY <1>4, <2>1, <2>2, <2>4, <3>1 DEF KernelAndTableOK
  <2> QED
    BY <2>1, <2>3, <2>4
<1>8. ASSUME NEW spec, Bg(spec)
      PROVE  Kept(job)
  <2>1. table' = table \/ \E g : MarkedIn(table, table', g)
    BY <1>8, BgDoes
  <2> QED
    BY <1>2, <1>3, <2>1 DEF Kept
<1>9. ASSUME NEW p \in Pids, WaitJobReports(p)
      PROVE  Kept(job) \/ GivenUp(job)
  <2> DEFINE g == frame.job.pgid
             ws == kernel[p].status
  <2>1. \E v : /\ NotedIn(table, v, p, ws) /\ TableOK(v) /\ RealIn(kernel', v)
               /\ \/ table' = v
                  \/ WaitJobResult(kernel', v, table', g, ws, status')
    BY <1>9, WaitJobDoes
  <2> HIDE DEF g, ws
  <2>2. PICK v : /\ NotedIn(table, v, p, ws) /\ TableOK(v) /\ RealIn(kernel', v)
                 /\ \/ table' = v
                    \/ WaitJobResult(kernel', v, table', g, ws, status')
    BY <2>1
  <2>3. PICK b \in JobsOf(v) : b.pgid = job.pgid /\ b.status_pid = job.status_pid
    BY <1>3, <2>2
  <2>4. CASE table' = v
    BY <2>3, <2>4 DEF Kept
  <2>5. CASE GivesUp(v, table', status', g)
    BY <1>4, <2>2, <2>3, <2>5
  <2> QED
    BY <2>2, <2>4, <2>5 DEF WaitJobResult
<1>10. ASSUME \/ \E on \in BOOLEAN : SetMonitor(on)
              \/ \E p \in Pids, command \in Commands, vfork \in BOOLEAN :
                   RunForeground(p, command, vfork)
              \/ \E executor \in session.executors, n \in 2 .. MaxMembers, command \in Commands :
                   StartPipeline(executor, n, command)
              \/ StartWaitAll
              \/ \E p \in Pids : StartWaitPid(p)
              \/ \E spec \in Operands, signal \in {"STOP", "CONT", "TERM"} : Kill(spec, signal)
              \/ \E spec \in Operands : Refuse(spec)
              \/ \E p \in Pids : ForkMember(p)
              \/ ForkFails \/ WaitAllReturns \/ WaitJobLost \/ ProcessStep \/ UNCHANGED vars
       PROVE  table' = table
  BY <1>10 DEF SetMonitor, RunForeground, StartPipeline, StartWaitAll, StartWaitPid, Kill, Refuse,
               ForkMember, ForkFails, WaitAllReturns, WaitJobLost, ProcessStep, ProcessEnds,
               ProcessSignaled, ShellUnchanged, vars
<1>11. ~ForegroundChanged /\ ~CollectMember /\ ~WaitPidReaps /\ \A p \in Pids : ~WaitAllReaps(p)
  BY DEF ForegroundChanged, CollectMember, WaitPidReaps, WaitAllReaps
<1>12. CASE CommandStep
  BY <1>2, <1>5, <1>6, <1>7, <1>8, <1>10, <1>12 DEF CommandStep
<1>13. CASE RunningStep
  BY <1>2, <1>9, <1>10, <1>11, <1>13 DEF RunningStep
<1>14. CASE ProcessStep \/ UNCHANGED vars
  BY <1>2, <1>10, <1>14
<1> QED
  BY <1>12, <1>13, <1>14 DEF Next

(* When wait %job or fg gives a job up, what it returns is how the job's   *)
(* rightmost process ended, whichever process ended last, in whatever      *)
(* session.                                                                *)
THEOREM GivenUpAsRightmost == Spec => JobStatusIsRightmost
<1>1. ASSUME GeneralInv, GeneralInv', [Next]_vars
      PROVE  \A job \in TrackedJobs :
               pc \in {"prompt", "wait_job"} /\ Forgotten(job) =>
                 status' = kernel'[job.procs[Len(job.procs)].pid].status
  <2>1. SUFFICES ASSUME NEW job \in TrackedJobs, pc \in {"prompt", "wait_job"}, Forgotten(job)
                 PROVE  status' = kernel'[job.procs[Len(job.procs)].pid].status
    OBVIOUS
  <2>2. TableOK(table) /\ TableOK(table')
    BY <1>1 DEF GeneralInv
  <2>3. job \in JobsOf(table)
    BY <2>1 DEF TrackedJobs, JobsOf
  <2>4. job.status_pid = job.procs[Len(job.procs)].pid
    BY <2>2, <2>3 DEF TableOK, JobOK
  <2>5. find_job_by_pgid(table', job.pgid) = 0
    BY <2>1 DEF Forgotten
  <2> DEFINE u == table'
             g == job.pgid
  <2>6. TableOK(u) /\ u \in Tables /\ find_job_by_pgid(u, g) = 0
    BY <2>2, <2>5 DEF TableOK
  <2> HIDE DEF u, g
  <2>7. \A b \in JobsOf(u) : b.pgid # g
    BY <2>6, PgidLookup
  <2>8. ~Kept(job)
    BY <2>7 DEF Kept, u, g
  <2>9. GivenUp(job)
    BY <1>1, <2>1, <2>3, <2>8, DroppedIsReported
  <2> QED
    BY <2>4, <2>9 DEF GivenUp
<1> QED
  BY <1>1, GeneralInvHolds, PTL DEF Spec, JobStatusIsRightmost

-----------------------------------------------------------------------------
(* Jobs are process groups.                                                *)
GroupedJobs(k, t) == \A job \in JobsOf(t) : GroupedJob(k, job)

(* A process keeps its group.                                              *)
LEMMA GroupKept ==
  ASSUME NEW k, NEW k2, Keeps(k, k2), NEW p \in Pids, NEW g, InGroup(k, p, g)
  PROVE  InGroup(k2, p, g)
BY DEF Keeps, InGroup

(* ... so a job stays a group, ...                                         *)
LEMMA GroupedKept ==
  ASSUME NEW k, NEW k2, Keeps(k, k2), NEW t, TableOK(t), GroupedJobs(k, t)
  PROVE  GroupedJobs(k2, t)
<1>1. JobsOf(t) \subseteq JobRecords
  BY JobsTyped DEF TableOK
<1>2. ASSUME NEW job \in JobsOf(t)
      PROVE  GroupedJob(k2, job)
  <2>1. GroupedJob(k, job) /\ \A i \in DOMAIN job.procs : job.procs[i].pid \in Pids
    BY <1>1, ProcsTyped DEF GroupedJobs
  <2> QED
    BY <2>1, GroupKept DEF GroupedJob
<1> QED
  BY <1>2 DEF GroupedJobs

(* ... and so does a job with the same processes ...                       *)
LEMMA SameGroup ==
  ASSUME NEW k, NEW a, NEW b, GroupedJob(k, a), b.pgid = a.pgid,
         DOMAIN b.procs = DOMAIN a.procs,
         \A i \in DOMAIN a.procs : b.procs[i].pid = a.procs[i].pid
  PROVE  GroupedJob(k, b)
<1>1. PidsOf(b) = PidsOf(a)
  BY PidsOfIs
<1> QED
  BY <1>1 DEF GroupedJob

(* ... when something is noted of it ...                                   *)
LEMMA GroupedNoted ==
  ASSUME NEW k, NEW t, TableOK(t), GroupedJobs(k, t), NEW u, NEW pid, NEW report \in Reports,
         NotedIn(t, u, pid, report)
  PROVE  GroupedJobs(k, u)
<1>1. JobsOf(t) \subseteq JobRecords
  BY JobsTyped DEF TableOK
<1>2. CASE u = t
  BY <1>2
<1>3. CASE \E a \in JobsOf(t), b \in JobRecords : Put(t, u, b) /\ NotedJob(a, b, pid, report)
  <2>1. PICK a \in JobsOf(t), b \in JobRecords : Put(t, u, b) /\ NotedJob(a, b, pid, report)
    BY <1>3
  <2>2. PICK i \in DOMAIN a.procs :
          /\ b.procs[i] = NotedProcess(a.procs[i], report)
          /\ \A j \in DOMAIN a.procs : j # i => b.procs[j] = a.procs[j]
    BY <2>1 DEF NotedJob
  <2>3. a.procs[i] \in Processes
    BY <1>1, ProcsTyped
  <2>4. b.procs[i].pid = a.procs[i].pid
    BY <2>2, <2>3, NotedTyped
  <2>5. \A j \in DOMAIN a.procs : b.procs[j].pid = a.procs[j].pid
    BY <2>2, <2>4
  <2>6. GroupedJob(k, b)
    BY <2>1, <2>5, SameGroup DEF NotedJob, GroupedJobs
  <2> QED
    BY <2>1, <2>6 DEF Put, Others, GroupedJobs
<1> QED
  BY <1>2, <1>3 DEF NotedIn

(* ... and when it is taken for running.                                   *)
LEMMA GroupedMarked ==
  ASSUME NEW k, NEW t, TableOK(t), GroupedJobs(k, t), NEW u, NEW g, MarkedIn(t, u, g)
  PROVE  GroupedJobs(k, u)
<1>1. JobsOf(t) \subseteq JobRecords
  BY JobsTyped DEF TableOK
<1>2. CASE u = t
  BY <1>2
<1>3. CASE \E a \in JobsOf(t), b \in JobRecords : Put(t, u, b) /\ MarkedJob(a, b)
  <2>1. PICK a \in JobsOf(t), b \in JobRecords : Put(t, u, b) /\ MarkedJob(a, b)
    BY <1>3
  <2>2. ASSUME NEW j \in DOMAIN a.procs
        PROVE  b.procs[j].pid = a.procs[j].pid
    <3>1. a.procs[j] \in Processes /\ b.procs[j] = [a.procs[j] EXCEPT !.stopped = FALSE]
      BY <1>1, <2>1, ProcsTyped DEF MarkedJob
    <3> QED
      BY <3>1 DEF Processes
  <2>3. GroupedJob(k, b)
    BY <2>1, <2>2, SameGroup DEF MarkedJob, GroupedJobs
  <2> QED
    BY <2>1, <2>3 DEF Put, Others, GroupedJobs
<1> QED
  BY <1>2, <1>3 DEF MarkedIn

(* The jobs that are left are groups.                                      *)
LEMMA GroupedDropped ==
  ASSUME NEW k, NEW t, GroupedJobs(k, t), NEW u, Gone(t, u) \/ \E g : Drop(t, u, g)
  PROVE  GroupedJobs(k, u)
BY DEF Gone, Drop, Others, GroupedJobs

(* Processes of one group that are tracked are a group.                    *)
LEMMA GroupedTracked ==
  ASSUME NEW k, NEW t, GroupedJobs(k, t), NEW u, NEW g, NEW pids, NEW stopped,
         TrackedIn(t, u, g, pids, stopped),
         OneToOne(pids), 1 \in DOMAIN pids, g = pids[1],
         \A i \in DOMAIN pids : InGroup(k, pids[i], g)
  PROVE  GroupedJobs(k, u)
<1>1. PICK b \in JobRecords : Put(t, u, b) /\ TrackedJob(t, b, g, pids, stopped)
  BY DEF TrackedIn
<1>2. b.pgid = g /\ DOMAIN b.procs = DOMAIN pids /\ \A i \in DOMAIN pids : b.procs[i].pid = pids[i]
  BY <1>1 DEF TrackedJob
<1>3. g \in PidsOf(b)
  BY <1>2, PidsOfIs
<1>4. GroupedJob(k, b)
  BY <1>2, <1>3 DEF GroupedJob, OneToOne
<1> QED
  BY <1>1, <1>4 DEF Put, Others, GroupedJobs

(* Noting one after the other what was collected of a pipeline.            *)
LEMMA GroupedNotedAll ==
  ASSUME NEW k, NEW t, GroupedJobs(k, t), NEW R, NEW pids, NEW statuses \in Seq(Reports),
         NotedAll(R, t, pids, statuses)
  PROVE  GroupedJobs(k, R[Len(statuses)])
<1> DEFINE n == Len(statuses)
<1>1. /\ n \in Nat /\ n \in 0 .. n /\ \A j \in 1 .. n : statuses[j] \in Reports
  OBVIOUS
<1>2. /\ R[0] = t
      /\ \A j \in 0 .. n : TableOK(R[j])
      /\ \A j \in 1 .. n : NotedIn(R[j - 1], R[j], pids[j], statuses[j])
  BY DEF NotedAll
<1> HIDE DEF n
<1> DEFINE S == {j \in 0 .. n : GroupedJobs(k, R[j])}
<1>3. S \in SUBSET Nat /\ 0 \in S
  BY <1>1, <1>2
<1>4. ASSUME NEW j \in 1 .. n, j - 1 \in S
      PROVE  j \in S
  <2>1. j - 1 \in 0 .. n /\ j \in 0 .. n /\ GroupedJobs(k, R[j - 1])
    BY <1>1, <1>4
  <2>2. TableOK(R[j - 1]) /\ NotedIn(R[j - 1], R[j], pids[j], statuses[j])
    BY <1>2, <2>1
  <2>3. GroupedJobs(k, R[j])
    BY <1>1, <2>1, <2>2, GroupedNoted
  <2> QED
    BY <2>1, <2>3
<1> HIDE DEF S
<1>5. n \in S
  BY <1>1, <1>3, <1>4, UpTo
<1> QED
  BY <1>5 DEF S, n

(* A pipeline that becomes a job is a group.                               *)
LEMMA GroupedPipeline ==
  ASSUME NEW k, NEW t, GroupedJobs(k, t), NEW u, NEW g, NEW pids \in Seq(Pids), pids # <<>>,
         NEW statuses \in Seq(Reports), PipelineRuns(t, u, g, pids, statuses),
         OneToOne(pids), g = pids[1],
         \A i \in DOMAIN pids : InGroup(k, pids[i], g)
  PROVE  GroupedJobs(k, u)
<1>1. PICK R, v : TrackedIn(t, v, g, pids, TRUE) /\ NotedAll(R, v, pids, statuses)
                  /\ u = R[Len(statuses)]
  BY DEF PipelineRuns
<1>2. 1 \in DOMAIN pids
  OBVIOUS
<1>3. GroupedJobs(k, v)
  BY <1>1, <1>2, GroupedTracked
<1> QED
  BY <1>1, <1>3, GroupedNotedAll

(* What the shell has in hand keeps its group.                             *)
LEMMA GroupedFrameKept ==
  ASSUME NEW k, NEW k2, Keeps(k, k2), NEW at, NEW f, FrameOK(k, at, f), GroupedFrame(k, at, f)
  PROVE  GroupedFrame(k2, at, f)
<1>1. CASE at \in {"fork", "collect"}
  <2>1. f.pids \in Seq(Pids)
    BY <1>1 DEF FrameOK, Pipelines
  <2> DEFINE pids == f.pids
  <2>2. pids \in Seq(Pids) /\ \A i \in DOMAIN pids : InGroup(k, pids[i], pids[1])
    BY <1>1, <2>1 DEF GroupedFrame
  <2> HIDE DEF pids
  <2>3. \A i \in DOMAIN pids : pids[i] \in Pids
    BY <2>2
  <2>4. \A i \in DOMAIN pids : InGroup(k2, pids[i], pids[1])
    BY <2>2, <2>3, GroupKept
  <2> QED
    BY <1>1, <2>4 DEF GroupedFrame, pids
<1>2. CASE at \notin {"fork", "collect"}
  BY <1>2, GroupKept DEF FrameOK, GroupedFrame
<1> QED
  BY <1>1, <1>2

(* A job's status process is one of its group.                             *)
LEMMA StatusInGroup ==
  ASSUME NEW k, NEW t, TableOK(t), GroupedJobs(k, t), NEW job \in JobsOf(t)
  PROVE  InGroup(k, job.status_pid, job.pgid)
<1>1. job \in JobRecords /\ JobOK(job) /\ GroupedJob(k, job)
  BY JobsTyped DEF TableOK, GroupedJobs
<1>2. job.procs \in Seq(Processes) /\ job.procs # <<>>
      /\ job.status_pid = job.procs[Len(job.procs)].pid
  BY <1>1, ProcsTyped DEF JobOK
<1>3. Len(job.procs) \in DOMAIN job.procs
  <2> DEFINE procs == job.procs
  <2>1. procs \in Seq(Processes) /\ procs # <<>>
    BY <1>2
  <2> HIDE DEF procs
  <2>2. Len(procs) \in DOMAIN procs
    BY <2>1
  <2> QED
    BY <2>2 DEF procs
<1> QED
  BY <1>1, <1>2, <1>3 DEF GroupedJob

(* A session stays what it is, and with set -m and set +m left alone, so   *)
(* does monitor mode.                                                      *)
LEMMA SessionStays ==
  ASSUME [Next]_vars
  PROVE  /\ session' = session /\ (Monitored' <=> Monitored) /\ (Orderly' <=> Orderly)
         /\ Monitored => monitor' = monitor
<1>1. session' = session /\ (monitor' = monitor \/ session.toggles)
  <2>1. CASE CommandStep
    BY <2>1 DEF CommandStep, SetMonitor, RunAsync, RunForeground, StartPipeline, StartWaitAll,
                StartWaitPid, StartWaitJob, Kill, Refuse, StartFg, Bg, Command, Options
  <2>2. CASE RunningStep
    BY <2>2 DEF RunningStep, ForegroundChanged, ForkMember, ForkFails, CollectMember,
                WaitAllReaps, WaitAllReturns, WaitPidReaps, WaitJobReports, WaitJobLost,
                Running, Options
  <2>3. CASE ProcessStep \/ UNCHANGED vars
    BY <2>3 DEF ProcessStep, ProcessEnds, ProcessSignaled, ShellUnchanged, Options, vars
  <2> QED
    BY <2>1, <2>2, <2>3 DEF Next
<1> QED
  BY <1>1 DEF Monitored, Orderly

GroupedAt(k, t, at, f) == GroupedJobs(k, t) /\ GroupedFrame(k, at, f)

(* At the prompt and in a wait for any child there is no group in hand.    *)
LEMMA UngroupedFrame ==
  ASSUME NEW k, NEW at, NEW f, at \in {"prompt", "wait_all", "wait_pid"}
  PROVE  GroupedFrame(k, at, f)
BY DEF GroupedFrame

(* In monitor mode each child is forked into its job's process group, ...  *)
LEMMA GroupedForks ==
  ASSUME GeneralInv, monitor, GroupedAt(kernel, table, pc, frame),
         \/ \E p \in Pids, command \in Commands :
              \/ RunAsync(p, command)
              \/ \E vfork \in BOOLEAN : RunForeground(p, command, vfork)
         \/ \E p \in Pids : ForkMember(p)
  PROVE  GroupedAt(kernel', table', pc', frame')
<1>1. KernelOK(kernel) /\ TableOK(table) /\ FrameOK(kernel, pc, frame)
      /\ GroupedJobs(kernel, table) /\ GroupedFrame(kernel, pc, frame)
  BY DEF GeneralInv, GroupedAt
<1>2. ASSUME NEW p \in Pids, NEW command \in Commands, RunAsync(p, command)
      PROVE  GroupedAt(kernel', table', pc', frame')
  <2> DEFINE one == <<p>>
             k2 == kernel'
             u == table'
  <2>1. Born(kernel, k2, p, p) /\ TrackedIn(table, u, p, one, FALSE)
    BY <1>2, RunAsyncDoes
  <2>2. OneToOne(one) /\ 1 \in DOMAIN one /\ p = one[1] /\ \A i \in DOMAIN one : one[i] = p
    BY DEF OneToOne
  <2> HIDE DEF one, k2, u
  <2>3. InGroup(k2, p, p) /\ Keeps(kernel, k2)
    BY <2>1, BirthKeeps DEF Born, InGroup
  <2>4. GroupedJobs(k2, table)
    BY <1>1, <2>3, GroupedKept
  <2>5. \A i \in DOMAIN one : InGroup(k2, one[i], p)
    BY <2>2, <2>3
  <2>6. GroupedJobs(k2, u)
    BY <2>1, <2>2, <2>4, <2>5, GroupedTracked
  <2>7. pc' = "prompt"
    BY <1>2 DEF RunAsync, Return
  <2> QED
    BY <2>6, <2>7, UngroupedFrame DEF GroupedAt, k2, u
<1>3. ASSUME NEW p \in Pids, NEW command \in Commands, NEW vfork \in BOOLEAN,
             RunForeground(p, command, vfork)
      PROVE  GroupedAt(kernel', table', pc', frame')
  <2>1. Born(kernel, kernel', p, p) /\ frame'.pid = p /\ pc' = "foreground"
    BY <1>3, RunForegroundDoes
  <2>2. table' = table
    BY <1>3 DEF RunForeground
  <2>3. InGroup(kernel', p, p) /\ Keeps(kernel, kernel')
    BY <2>1, BirthKeeps DEF Born, InGroup
  <2>4. GroupedJobs(kernel', table)
    BY <1>1, <2>3, GroupedKept
  <2> QED
    BY <2>1, <2>2, <2>3, <2>4 DEF GroupedAt, GroupedFrame
<1>4. ASSUME NEW p \in Pids, ForkMember(p)
      PROVE  GroupedAt(kernel', table', pc', frame')
  <2> DEFINE old == frame.pids
             h == frame'
             new == frame'.pids
             k2 == kernel'
  <2>0. pc = "fork"
    BY <1>4 DEF ForkMember
  <2>1. /\ old \in Seq(Pids) /\ new = Append(old, p) /\ h.isolate = frame.isolate
        /\ pc' \in {"fork", "collect"}
        /\ Born(kernel, k2, p, IF frame.isolate THEN new[1] ELSE ShellGroup)
    BY <1>4, ForkMemberDoes DEF Pipelines
  <2>2. /\ frame.isolate /\ OneToOne(old) /\ \A i \in DOMAIN old : InGroup(kernel, old[i], old[1])
    BY <1>1, <2>0 DEF GroupedFrame
  <2>3. h.pids = new
    OBVIOUS
  <2>4. table' = table
    BY <1>4 DEF ForkMember
  <2> HIDE DEF old, new, k2, h
  <2>5. Born(kernel, k2, p, new[1])
    BY <2>1, <2>2
  <2>6. /\ Len(new) = Len(old) + 1 /\ Len(old) \in Nat /\ new[Len(new)] = p
        /\ DOMAIN new = 1 .. Len(new) /\ DOMAIN old = 1 .. Len(old)
        /\ \A i \in 1 .. Len(old) : new[i] = old[i] /\ old[i] \in Pids
    BY <2>1
  <2>7. InGroup(k2, p, new[1]) /\ Keeps(kernel, k2) /\ kernel[p].state = "unborn"
    BY <2>5, BirthKeeps DEF Born, InGroup
  <2>8. \A i \in 1 .. Len(old) : old[i] # p /\ InGroup(k2, old[i], new[1])
    <3>1. SUFFICES ASSUME NEW i \in 1 .. Len(old)
                   PROVE  old[i] # p /\ InGroup(k2, old[i], new[1])
      OBVIOUS
    <3>2. InGroup(kernel, old[i], old[1]) /\ old[i] \in Pids /\ 1 \in 1 .. Len(old)
      BY <2>2, <2>6
    <3>3. InGroup(k2, old[i], old[1]) /\ new[1] = old[1]
      BY <2>6, <2>7, <3>2, GroupKept
    <3> QED
      BY <2>7, <3>2, <3>3 DEF InGroup
  <2>9. \A i \in DOMAIN new : i = Len(new) \/ i \in 1 .. Len(old)
    BY <2>6
  <2>10. \A i \in DOMAIN new : InGroup(k2, new[i], new[1])
    BY <2>6, <2>7, <2>8, <2>9
  <2>11. OneToOne(new)
    <3>1. SUFFICES ASSUME NEW i \in DOMAIN new, NEW j \in DOMAIN new, new[i] = new[j]
                   PROVE  i = j
      BY DEF OneToOne
    <3>2. CASE i \in 1 .. Len(old) /\ j \in 1 .. Len(old)
      BY <2>2, <2>6, <3>1, <3>2 DEF OneToOne
    <3>3. CASE i = Len(new) /\ j \in 1 .. Len(old)
      BY <2>6, <2>8, <3>1, <3>3
    <3>4. CASE j = Len(new) /\ i \in 1 .. Len(old)
      BY <2>6, <2>8, <3>1, <3>4
    <3> QED
      BY <2>9, <3>2, <3>3, <3>4
  <2>12. GroupedFrame(k2, pc', h)
    BY <2>1, <2>2, <2>3, <2>10, <2>11 DEF GroupedFrame
  <2>13. GroupedJobs(k2, table)
    BY <1>1, <2>7, GroupedKept
  <2> QED
    BY <2>4, <2>12, <2>13 DEF GroupedAt, k2, h
<1> QED
  BY <1>2, <1>3, <1>4

(* ... and what stops is filed under that group; ...                       *)
LEMMA GroupedWaits ==
  ASSUME GeneralInv, GroupedAt(kernel, table, pc, frame),
         \/ ForegroundChanged
         \/ \E p \in Pids : WaitAllReaps(p)
         \/ WaitPidReaps
  PROVE  GroupedAt(kernel', table', pc', frame')
<1>1. KernelOK(kernel) /\ TableOK(table) /\ FrameOK(kernel, pc, frame)
      /\ GroupedJobs(kernel, table) /\ GroupedFrame(kernel, pc, frame)
      /\ KernelAndTableOK(kernel, table)
  BY DEF GeneralInv, GroupedAt, KernelAndTableOK
<1>2. ASSUME NEW p \in Pids, Reported(kernel, kernel', p),
             NotesThenForgets(table, table', p, kernel[p].status)
      PROVE  GroupedJobs(kernel', table')
  <2> DEFINE report == kernel[p].status
  <2>1. PICK v : NotedIn(table, v, p, report) /\ TableOK(v) /\ Gone(v, table')
    BY <1>2, GoneOfIsGone DEF NotesThenForgets
  <2>2. report \in Reports
    BY <1>2, ReportIsTrue
  <2> HIDE DEF report
  <2>3. GroupedJobs(kernel', table)
    BY <1>1, <1>2, ReportKeeps, GroupedKept
  <2>4. GroupedJobs(kernel', v)
    BY <1>1, <2>1, <2>2, <2>3, GroupedNoted
  <2> QED
    BY <2>1, <2>4, GroupedDropped
<1>3. CASE ForegroundChanged
  <2> DEFINE p == frame.pid
             one == <<p>>
             k2 == kernel'
             u == table'
             ws == kernel[p].status
  <2>1. /\ p \in Pids /\ Reported(kernel, k2, p)
        /\ IF WIFSTOPPED(ws) THEN TracksThenNotes(table, u, p) ELSE u = table
    BY <1>3, ForegroundDoes
  <2>2. pc = "foreground" /\ pc' = "prompt"
    BY <1>3 DEF ForegroundChanged, Return
  <2>3. InGroup(kernel, p, p)
    BY <1>1, <2>2 DEF GroupedFrame
  <2>4. OneToOne(one) /\ 1 \in DOMAIN one /\ p = one[1] /\ \A i \in DOMAIN one : one[i] = p
    BY DEF OneToOne
  <2>5. TracksThenNotes(table, u, p) => \E v : TrackedIn(table, v, p, one, TRUE)
                                               /\ NotedIn(v, u, p, Stopped)
    BY DEF TracksThenNotes
  <2> HIDE DEF one, k2, u, p, ws
  <2>6. InGroup(k2, p, p) /\ GroupedJobs(k2, table) /\ KernelAndTableOK(k2, table)
    BY <1>1, <2>1, <2>3, ReportKeeps, GroupKept, GroupedKept, AfterReport
  <2>7. CASE WIFSTOPPED(ws)
    <3>1. PICK v : TrackedIn(table, v, p, one, TRUE) /\ NotedIn(v, u, p, Stopped)
      BY <2>1, <2>5, <2>7
    <3>2. \A i \in DOMAIN one : InGroup(k2, one[i], p)
      BY <2>4, <2>6
    <3>3. GroupedJobs(k2, v) /\ TableOK(v)
      BY <2>4, <2>6, <3>1, <3>2, GroupedTracked DEF TrackedIn, Put
    <3>4. Stopped \in Reports
      BY DEF Reports, KnownStatuses, Stopped, NoStatus
    <3>5. GroupedJobs(k2, u)
      BY <3>1, <3>3, <3>4, GroupedNoted
    <3> QED
      BY <2>2, <3>5, UngroupedFrame DEF GroupedAt, k2, u
  <2>8. CASE ~WIFSTOPPED(ws)
    BY <2>1, <2>2, <2>6, <2>8, UngroupedFrame DEF GroupedAt, k2, u
  <2> QED
    BY <2>7, <2>8
<1>4. ASSUME NEW p \in Pids, WaitAllReaps(p)
      PROVE  GroupedAt(kernel', table', pc', frame')
  <2>1. GroupedJobs(kernel', table')
    BY <1>2, <1>4, WaitAllDoes
  <2>2. pc' = "wait_all"
    BY <1>4 DEF WaitAllReaps, Start
  <2> QED
    BY <2>1, <2>2, UngroupedFrame DEF GroupedAt
<1>5. CASE WaitPidReaps
  <2>1. GroupedJobs(kernel', table')
    BY <1>2, <1>5, WaitPidDoes
  <2>2. pc' = "prompt"
    BY <1>5 DEF WaitPidReaps, Return
  <2> QED
    BY <2>1, <2>2, UngroupedFrame DEF GroupedAt
<1> QED
  BY <1>3, <1>4, <1>5

(* ... so is a pipeline of which a member has stopped; ...                 *)
LEMMA GroupedCollects ==
  ASSUME GeneralInv, GroupedAt(kernel, table, pc, frame), CollectMember
  PROVE  GroupedAt(kernel', table', pc', frame')
<1>1. KernelOK(kernel) /\ TableOK(table) /\ FrameOK(kernel, pc, frame)
      /\ GroupedJobs(kernel, table) /\ GroupedFrame(kernel, pc, frame)
      /\ KernelAndTableOK(kernel, table)
  BY DEF GeneralInv, GroupedAt, KernelAndTableOK
<1> DEFINE f == frame
           h == frame'
           k2 == kernel'
           u == table'
<1>2. pc = "collect"
  BY DEF CollectMember
<1>3. PICK i, ws, statuses :
           /\ f \in Pipelines /\ i \in 1 .. Len(f.pids)
           /\ f.pids[i] \in Pids
           /\ ws = kernel[f.pids[i]].status
           /\ OneMore(f.statuses, statuses, ws)
           /\ Reported(kernel, k2, f.pids[i])
           /\ CollectsOne(table, u, f, i, ws, statuses)
           /\ IF i = f.size THEN Return(ws)
              ELSE pc' = "collect" /\ h = [f EXCEPT !.statuses = statuses]
                   /\ UNCHANGED status
  BY CollectDoes
<1>4. GroupedFrame(kernel, "collect", f) /\ FrameOK(kernel, "collect", f)
  BY <1>1, <1>2
<1> HIDE DEF f, h, k2, u
<1> DEFINE p == f.pids[i]
           pids == f.pids
<1>5. /\ GroupedJobs(k2, table) /\ KernelAndTableOK(k2, table) /\ Keeps(kernel, k2)
      /\ GroupedFrame(k2, "collect", f)
  BY <1>1, <1>3, <1>4, ReportKeeps, GroupedKept, AfterReport, GroupedFrameKept
<1>6. ws \in Reports /\ statuses \in Seq(Reports) /\ TableOK(table)
  BY <1>1, <1>3, ReportIsTrue DEF OneMore
<1>7. /\ f.isolate /\ pids \in Seq(Pids) /\ pids # <<>> /\ OneToOne(pids)
      /\ \A j \in DOMAIN pids : InGroup(k2, pids[j], pids[1])
  <2>1. f.pids \in Seq(Pids) /\ i \in 1 .. Len(f.pids)
    BY <1>3 DEF Pipelines
  <2>2. f.pids # <<>>
    BY <2>1
  <2> QED
    BY <1>5, <2>1, <2>2 DEF GroupedFrame
<1>8. GroupedJobs(k2, u)
  <2>1. CASE WIFSTOPPED(ws)
    <3>1. PipelineRuns(table, u, pids[1], pids, statuses)
      BY <1>3, <1>7, <2>1 DEF CollectsOne
    <3> DEFINE g == pids[1]
    <3> HIDE DEF pids
    <3>2. PipelineRuns(table, u, g, pids, statuses) /\ \A j \in DOMAIN pids : InGroup(k2, pids[j], g)
      BY <1>7, <3>1
    <3> QED
      BY <1>5, <1>6, <1>7, <3>2, GroupedPipeline
  <2>2. CASE ~WIFSTOPPED(ws) /\ f.executor = "text"
    <3>1. NotedIn(table, u, p, ws)
      BY <1>3, <2>2 DEF CollectsOne
    <3> QED
      BY <1>5, <1>6, <3>1, GroupedNoted
  <2>3. CASE ~WIFSTOPPED(ws) /\ f.executor # "text"
    BY <1>3, <1>5, <2>3 DEF CollectsOne
  <2> QED
    BY <2>1, <2>2, <2>3
<1>9. CASE i = f.size
  <2>1. pc' = "prompt"
    BY <1>3, <1>9 DEF Return
  <2> QED
    BY <1>8, <2>1, UngroupedFrame DEF GroupedAt, k2, u
<1>10. CASE i # f.size
  <2>1. pc' = "collect" /\ h = [f EXCEPT !.statuses = statuses]
    BY <1>3, <1>10
  <2>2. h.pids = f.pids /\ h.isolate = f.isolate
    BY <1>3, <2>1 DEF Pipelines
  <2>3. GroupedFrame(k2, pc', h)
    BY <1>5, <2>1, <2>2 DEF GroupedFrame
  <2> QED
    BY <1>8, <2>3 DEF GroupedAt, k2, u, h
<1> QED
  BY <1>9, <1>10

(* ... and wait %job and fg wait for the group of a job.                   *)
LEMMA GroupedLookups ==
  ASSUME GeneralInv, GroupedAt(kernel, table, pc, frame),
         \/ \E spec \in Operands : StartWaitJob(spec) \/ StartFg(spec) \/ Bg(spec)
         \/ \E p \in Pids : WaitJobReports(p)
  PROVE  GroupedAt(kernel', table', pc', frame')
<1>1. KernelOK(kernel) /\ TableOK(table) /\ FrameOK(kernel, pc, frame)
      /\ GroupedJobs(kernel, table) /\ GroupedFrame(kernel, pc, frame)
      /\ KernelAndTableOK(kernel, table)
  BY DEF GeneralInv, GroupedAt, KernelAndTableOK
<1>2. ASSUME NEW k, NEW v, GroupedJobs(k, v), NEW u, NEW result, NEW g, GivesUp(v, u, result, g)
      PROVE  GroupedJobs(k, u)
  BY <1>2, GroupedDropped DEF GivesUp
<1>3. ASSUME NEW k, NEW job, InGroup(k, job.status_pid, job.pgid), NEW f,
             f.job.pgid = job.pgid, f.job.status_pid = job.status_pid
      PROVE  GroupedFrame(k, "wait_job", f)
  BY <1>3 DEF GroupedFrame
<1>4. ASSUME NEW spec, StartWaitJob(spec)
      PROVE  GroupedAt(kernel', table', pc', frame')
  <2>1. kernel' = kernel
    BY <1>4 DEF StartWaitJob
  <2>2. CASE table' = table /\ pc' = "prompt"
    BY <1>1, <2>1, <2>2, UngroupedFrame DEF GroupedAt
  <2>3. ASSUME NEW job \in JobsOf(table), table' = table, pc' = "wait_job",
               frame' = [kind |-> "wait", job |-> [pgid |-> job.pgid, status_pid |-> job.status_pid]]
        PROVE  GroupedAt(kernel', table', pc', frame')
    <3>1. InGroup(kernel, job.status_pid, job.pgid)
      BY <1>1, StatusInGroup
    <3>2. frame'.job.pgid = job.pgid /\ frame'.job.status_pid = job.status_pid
      BY <2>3
    <3>3. GroupedFrame(kernel, "wait_job", frame')
      BY <1>3, <3>1, <3>2
    <3> QED
      BY <1>1, <2>1, <2>3, <3>3 DEF GroupedAt
  <2>4. ASSUME NEW g, GivesUp(table, table', status', g), pc' = "prompt"
        PROVE  GroupedAt(kernel', table', pc', frame')
    BY <1>1, <1>2, <2>1, <2>4, UngroupedFrame DEF GroupedAt
  <2> QED
    BY <1>4, <2>2, <2>3, <2>4, StartWaitJobDoes
<1>5. ASSUME NEW spec, StartFg(spec)
      PROVE  GroupedAt(kernel', table', pc', frame')
  <2>1. PICK job \in JobsOf(table), v \in Tables :
           /\ MarkedIn(table, v, job.pgid) /\ TableOK(v)
           /\ \/ /\ kernel' = kernel /\ table' = v
                 /\ ~GroupExists(kernel, job.pgid)
                 /\ pc' = "prompt" /\ frame' = NoFrame /\ status' = Failure
              \/ /\ Resumes(kernel, kernel', job.pgid) /\ table' = v
                 /\ pc' = "wait_job" /\ status' = status
                 /\ frame' = [kind |-> "fg", job |-> [pgid |-> job.pgid, status_pid |-> job.status_pid]]
              \/ /\ Resumes(kernel, kernel', job.pgid)
                 /\ GivesUp(v, table', status', job.pgid)
                 /\ pc' = "prompt" /\ frame' = NoFrame
    BY <1>5, StartFgDoes
  <2>2. GroupedJobs(kernel, v)
    BY <1>1, <2>1, GroupedMarked
  <2>3. Resumes(kernel, kernel', job.pgid) => GroupedJobs(kernel', v) /\ Keeps(kernel, kernel')
    BY <2>1, <2>2, MovesKeep, GroupedKept DEF Resumes
  <2>4. CASE kernel' = kernel /\ table' = v /\ pc' = "prompt"
    BY <2>2, <2>4, UngroupedFrame DEF GroupedAt
  <2>5. CASE /\ Resumes(kernel, kernel', job.pgid) /\ table' = v
             /\ pc' = "wait_job"
             /\ frame' = [kind |-> "fg", job |-> [pgid |-> job.pgid, status_pid |-> job.status_pid]]
    <3>1. InGroup(kernel, job.status_pid, job.pgid)
      BY <1>1, StatusInGroup
    <3>2. frame'.job.pgid = job.pgid /\ frame'.job.status_pid = job.status_pid
      BY <2>5
    <3>3. job.status_pid \in Pids
      BY <1>1, JobsTyped, ProcsTyped DEF TableOK
    <3>4. InGroup(kernel', job.status_pid, job.pgid)
      BY <2>3, <2>5, <3>1, <3>3, GroupKept
    <3>5. GroupedFrame(kernel', "wait_job", frame')
      BY <1>3, <3>2, <3>4
    <3> QED
      BY <2>3, <2>5, <3>5 DEF GroupedAt
  <2>6. CASE /\ Resumes(kernel, kernel', job.pgid)
             /\ GivesUp(v, table', status', job.pgid) /\ pc' = "prompt"
    BY <1>2, <2>3, <2>6, UngroupedFrame DEF GroupedAt
  <2> QED
    BY <2>1, <2>4, <2>5, <2>6
<1>6. ASSUME NEW spec, Bg(spec)
      PROVE  GroupedAt(kernel', table', pc', frame')
  <2>1. PICK job \in JobsOf(table) :
           /\ pc' = "prompt"
           /\ \/ kernel' = kernel /\ table' = table
              \/ /\ MarkedIn(table, table', job.pgid)
                 /\ \/ kernel' = kernel /\ ~GroupExists(kernel, job.pgid)
                    \/ Resumes(kernel, kernel', job.pgid)
    BY <1>6, BgDoes
  <2>2. GroupedJobs(kernel', table)
    BY <1>1, <2>1, MovesKeep, GroupedKept DEF Resumes
  <2>3. GroupedJobs(kernel', table')
    BY <1>1, <2>1, <2>2, GroupedMarked
  <2> QED
    BY <2>1, <2>3, UngroupedFrame DEF GroupedAt
<1>7. ASSUME NEW p \in Pids, WaitJobReports(p)
      PROVE  GroupedAt(kernel', table', pc', frame')
  <2> DEFINE g == frame.job.pgid
             ws == kernel[p].status
  <2>1. /\ Reported(kernel, kernel', p) /\ pc = "wait_job"
        /\ \E v : /\ NotedIn(table, v, p, ws) /\ TableOK(v)
                  /\ \/ /\ pc' = "wait_job" /\ frame' = frame
                        /\ table' = v
                     \/ /\ pc' = "prompt"
                        /\ WaitJobResult(kernel', v, table', g, ws, status')
    BY <1>7, WaitJobDoes
  <2>2. ws \in Reports
    BY <2>1, ReportIsTrue
  <2> HIDE DEF g, ws
  <2>3. PICK v : /\ NotedIn(table, v, p, ws) /\ TableOK(v)
                 /\ \/ /\ pc' = "wait_job" /\ frame' = frame
                       /\ table' = v
                    \/ /\ pc' = "prompt"
                       /\ WaitJobResult(kernel', v, table', g, ws, status')
    BY <2>1
  <2>4. GroupedJobs(kernel', table) /\ Keeps(kernel, kernel')
    BY <1>1, <2>1, ReportKeeps, GroupedKept
  <2>5. GroupedJobs(kernel', v)
    BY <1>1, <2>2, <2>3, <2>4, GroupedNoted
  <2>6. CASE pc' = "wait_job" /\ frame' = frame /\ table' = v
    <3>1. GroupedFrame(kernel', pc, frame)
      BY <1>1, <2>4, GroupedFrameKept
    <3> QED
      BY <2>1, <2>5, <2>6, <3>1 DEF GroupedAt
  <2>7. CASE pc' = "prompt" /\ WaitJobResult(kernel', v, table', g, ws, status')
    <3>1. GroupedJobs(kernel', table')
      BY <1>2, <2>5, <2>7 DEF WaitJobResult
    <3> QED
      BY <2>7, <3>1, UngroupedFrame DEF GroupedAt
  <2> QED
    BY <2>3, <2>6, <2>7
<1> QED
  BY <1>4, <1>5, <1>6, <1>7

(* Every step keeps jobs and process groups together.                      *)
LEMMA MonitorNext ==
  ASSUME GeneralInv, MonitorInv, [Next]_vars
  PROVE  MonitorInv'
<1>1. SUFFICES ASSUME Monitored
               PROVE  GroupedAt(kernel', table', pc', frame')
  <2>1. (Monitored' <=> Monitored) /\ (Monitored => monitor' = monitor)
    BY SessionStays
  <2> QED
    BY <2>1 DEF MonitorInv, GroupedAt, GroupedJobs
<1>2. monitor /\ GroupedAt(kernel, table, pc, frame)
  BY <1>1 DEF MonitorInv, GroupedAt, GroupedJobs
<1>3. KernelOK(kernel) /\ TableOK(table) /\ FrameOK(kernel, pc, frame)
      /\ GroupedJobs(kernel, table) /\ GroupedFrame(kernel, pc, frame)
  BY <1>2 DEF GeneralInv, GroupedAt
<1>4. ASSUME kernel' = kernel, table' = table, pc' \in {"prompt", "wait_all", "wait_pid"}
      PROVE  GroupedAt(kernel', table', pc', frame')
  BY <1>3, <1>4, UngroupedFrame DEF GroupedAt
<1>5. ASSUME \/ \E on \in BOOLEAN : SetMonitor(on)
             \/ StartWaitAll
             \/ \E p \in Pids : StartWaitPid(p)
             \/ \E spec \in Operands : Refuse(spec)
             \/ ForkFails \/ WaitAllReturns \/ WaitJobLost
      PROVE  GroupedAt(kernel', table', pc', frame')
  <2>1. kernel' = kernel /\ table' = table /\ pc' \in {"prompt", "wait_all", "wait_pid"}
    BY <1>5 DEF SetMonitor, StartWaitAll, StartWaitPid, Refuse, ForkFails, WaitAllReturns,
                WaitJobLost, Return, Start
  <2> QED
    BY <1>4, <2>1
<1>6. ASSUME NEW executor \in session.executors, NEW n \in 2 .. MaxMembers,
             NEW command \in Commands, StartPipeline(executor, n, command)
      PROVE  GroupedAt(kernel', table', pc', frame')
  <2>1. pc' = "fork" /\ frame'.pids = <<>> /\ frame'.isolate = monitor
    BY <1>6, StartPipelineDoes
  <2>2. kernel' = kernel /\ table' = table
    BY <1>6 DEF StartPipeline
  <2>3. GroupedFrame(kernel', pc', frame')
    BY <1>2, <2>1 DEF GroupedFrame, OneToOne
  <2> QED
    BY <1>3, <2>2, <2>3 DEF GroupedAt
<1>7. ASSUME NEW spec \in Operands, NEW signal \in {"STOP", "CONT", "TERM"}, Kill(spec, signal)
      PROVE  GroupedAt(kernel', table', pc', frame')
  <2>1. Moves(kernel, kernel') /\ table' = table /\ pc' = "prompt"
    BY <1>7, KillDoes
  <2> QED
    BY <1>3, <2>1, MovesKeep, GroupedKept, UngroupedFrame DEF GroupedAt
<1>8. ASSUME ProcessStep
      PROVE  GroupedAt(kernel', table', pc', frame')
  <2>1. Moves(kernel, kernel') /\ table' = table /\ pc' = pc /\ frame' = frame
    BY <1>8, ProcessDoes
  <2> QED
    BY <1>3, <2>1, MovesKeep, GroupedKept, GroupedFrameKept DEF GroupedAt
<1>9. CASE UNCHANGED vars
  BY <1>2, <1>9 DEF vars, GroupedAt, GroupedJobs, GroupedFrame
<1>10. CASE CommandStep
  BY <1>2, <1>5, <1>6, <1>7, <1>10, GroupedForks, GroupedLookups DEF CommandStep
<1>11. CASE RunningStep
  BY <1>2, <1>5, <1>11, GroupedForks, GroupedWaits, GroupedCollects, GroupedLookups DEF RunningStep
<1> QED
  BY <1>8, <1>9, <1>10, <1>11 DEF Next

(* In monitor mode a job of the table is a process group of the kernel,    *)
(* from the fork of its first member until it is forgotten.                *)
THEOREM JobsAreGroups == Spec => []MonitorInv
<1>1. Init => MonitorInv
  <2>1. SUFFICES ASSUME Init, Monitored PROVE monitor /\ GroupedAt(kernel, table, pc, frame)
    BY DEF MonitorInv, GroupedAt, GroupedJobs
  <2>2. monitor = session.monitor /\ table = EmptyTable /\ pc = "prompt"
    BY <2>1 DEF Init
  <2> QED
    BY <2>1, <2>2, EmptyTableOK, UngroupedFrame DEF Monitored, GroupedAt, GroupedJobs
<1> QED
  BY <1>1, MonitorNext, GeneralInvHolds, PTL DEF Spec

(* The wait for a job comes back with what waitpid told of it, unless      *)
(* waitpid has nothing to wait for.                                        *)
LEMMA WaitingReturns ==
  ASSUME GeneralInv, [Next]_vars, pc = "wait_job", pc' = "prompt"
  PROVE  WaitJobLost \/ status' \in Reports \/ Terminated(status')
<1>1. ~CommandStep
  BY DEF CommandStep, SetMonitor, RunAsync, RunForeground, StartPipeline, StartWaitAll,
         StartWaitPid, StartWaitJob, Kill, Refuse, StartFg, Bg, Command
<1>2. ~ProcessStep /\ ~UNCHANGED vars
  BY DEF ProcessStep, ProcessEnds, ProcessSignaled, ShellUnchanged, vars
<1>3. ASSUME NEW p \in Pids, WaitJobReports(p)
      PROVE  status' \in Reports \/ Terminated(status')
  <2> DEFINE g == frame.job.pgid  ws == kernel[p].status
  <2>1. /\ Reported(kernel, kernel', p)
        /\ \E v : /\ TableOK(v) /\ RealIn(kernel', v)
                  /\ \/ pc' = "wait_job"
                     \/ WaitJobResult(kernel', v, table', g, ws, status')
    BY <1>3, WaitJobDoes
  <2> HIDE DEF g, ws
  <2>2. PICK v : /\ TableOK(v) /\ RealIn(kernel', v)
                 /\ WaitJobResult(kernel', v, table', g, ws, status')
    BY <2>1
  <2>3. KernelOK(kernel')
    BY <2>1 DEF Reported
  <2> QED
    BY <2>2, <2>3, GivenUpIsReal DEF WaitJobResult
<1>4. ~(\/ ForegroundChanged \/ (\E p \in Pids : ForkMember(p)) \/ ForkFails \/ CollectMember
        \/ (\E p \in Pids : WaitAllReaps(p)) \/ WaitAllReturns \/ WaitPidReaps)
  BY DEF ForegroundChanged, ForkMember, ForkFails, CollectMember, WaitAllReaps,
         WaitAllReturns, WaitPidReaps
<1> QED
  BY <1>1, <1>2, <1>3, <1>4 DEF Next, RunningStep

(* In monitor mode wait %job does not claim that there is nothing to wait  *)
(* for while a process of the job is an unreaped child of the shell: the   *)
(* group it waits for is the group of all of them.                         *)
THEOREM ChildrenAreFound == Spec => WaitJobFindsItsChild
<1>1. ASSUME GeneralInv, MonitorInv, [Next]_vars, Monitored, pc = "wait_job", pc' = "prompt",
             status' = Unknown, NEW job \in TrackedJobs, job.status_pid = frame.job.status_pid
      PROVE  PidsOf(job) \cap Children(kernel) = {}
  <2> DEFINE g == frame.job.pgid
  <2>1. /\ KernelOK(kernel) /\ TableOK(table) /\ RealIn(kernel, table)
        /\ GroupedJobs(kernel, table) /\ InGroup(kernel, frame.job.status_pid, g)
    BY <1>1 DEF GeneralInv, MonitorInv, GroupedJobs, GroupedFrame
  <2>2. WaitJobLost
    <3>1. Unknown \notin Reports /\ ~Terminated(Unknown)
      BY DEF Unknown, Reports, KnownStatuses, NoStatus, Stopped, Signaled, Exited, Terminated
    <3> QED
      BY <1>1, <3>1, WaitingReturns
  <2>3. Members(kernel, g) = {}
    BY <2>2 DEF WaitJobLost
  <2>4. job \in JobsOf(table)
    BY DEF TrackedJobs, JobsOf
  <2>5. InGroup(kernel, job.status_pid, job.pgid) /\ GroupedJob(kernel, job)
    BY <2>1, <2>4, StatusInGroup DEF GroupedJobs
  <2>6. job.pgid = g
    BY <1>1, <2>1, <2>5 DEF InGroup
  <2>7. ASSUME NEW p \in PidsOf(job), p \in Children(kernel)
        PROVE  FALSE
    <3>1. PICK i \in DOMAIN job.procs : p = job.procs[i].pid
      BY PidsOfIs
    <3>2. kernel[p].pgid = g
      BY <2>5, <2>6, <3>1 DEF GroupedJob, InGroup
    <3> QED
      BY <2>3, <2>7, <3>2 DEF Members
  <2> QED
    BY <2>7
<1>2. ASSUME GeneralInv, MonitorInv, [Next]_vars
      PROVE  Monitored /\ pc = "wait_job" /\ pc' = "prompt" /\ status' = Unknown =>
               \A job \in TrackedJobs :
                 job.status_pid = frame.job.status_pid => PidsOf(job) \cap Children(kernel) = {}
  BY <1>1, <1>2
<1> QED
  BY <1>2, GeneralInvHolds, JobsAreGroups, PTL DEF Spec, WaitJobFindsItsChild

-----------------------------------------------------------------------------
(* What reports, moves and updates of the table make of what is known.     *)
KnownJobs(k, t) == \A job \in JobsOf(t) : KnownJob(k, job)

Settled(k, t) == \A p \in Children(k) : ~NotIn(t, p)

(* A process that has not stopped again nor been reaped is known as before.*)
LEMMA ToldKept ==
  ASSUME NEW k, NEW k2, NEW job, KnownJob(k, job),
         \A i \in DOMAIN job.procs :
           LET p == job.procs[i].pid
           IN  (ReapedIn(k2, p) <=> ReapedIn(k, p)) /\ (HasStopped(k2, p) => HasStopped(k, p))
  PROVE  KnownJob(k2, job)
BY DEF KnownJob, ToldJob, Told

(* A job of which not all is done has a process that is not reaped.        *)
LEMMA ToldIsKnown ==
  ASSUME NEW k, NEW job, ToldJob(k, job), ~job_all_done(job)
  PROVE  KnownJob(k, job)
BY DEF ToldJob, KnownJob, Told, job_all_done

(* A process is in one job.                                                *)
LEMMA OneJobOfPid ==
  ASSUME NEW k, NEW t, TableOK(t), GroupedJobs(k, t), NEW a \in JobsOf(t), NEW b \in JobsOf(t),
         NEW p, p \in PidsOf(a), p \in PidsOf(b)
  PROVE  a = b
<1>1. GroupedJob(k, a) /\ GroupedJob(k, b)
  BY DEF GroupedJobs
<1>2. (\E i \in DOMAIN a.procs : a.procs[i].pid = p) /\ (\E i \in DOMAIN b.procs : b.procs[i].pid = p)
  BY PidsOfIs
<1>3. a.pgid = b.pgid
  BY <1>1, <1>2 DEF GroupedJob, InGroup
<1> QED
  BY <1>3, OneJobOfGroup

(* A process that was not yet born is in no job.                           *)
LEMMA UnbornIsNotIn ==
  ASSUME NEW k, NEW t, GroupedJobs(k, t), NEW p, k[p].state = "unborn"
  PROVE  NotIn(t, p) /\ \A a \in JobsOf(t) : a.pgid # p
<1>1. ASSUME NEW a \in JobsOf(t)
      PROVE  p \notin PidsOf(a) /\ a.pgid # p
  <2>1. GroupedJob(k, a)
    BY DEF GroupedJobs
  <2>2. p \notin PidsOf(a)
    BY <2>1, PidsOfIs DEF GroupedJob, InGroup
  <2> QED
    BY <2>1, <2>2 DEF GroupedJob
<1> QED
  BY <1>1 DEF NotIn

(* Noting and marking change no job's processes.                           *)
LEMMA SamePids ==
  ASSUME NEW t, TableOK(t), NEW u,
         (\E p : \E report \in Reports : NotedIn(t, u, p, report)) \/ (\E g : MarkedIn(t, u, g)),
         NEW x
  PROVE  NotIn(u, x) <=> NotIn(t, x)
<1>1. CASE u = t
  BY <1>1
<1>2. JobsOf(t) \subseteq JobRecords
  BY JobsTyped DEF TableOK
<1>3. ASSUME NEW a \in JobsOf(t), NEW b \in JobRecords, Put(t, u, b), b.pgid = a.pgid,
             DOMAIN b.procs = DOMAIN a.procs,
             \A i \in DOMAIN a.procs : b.procs[i].pid = a.procs[i].pid
      PROVE  NotIn(u, x) <=> NotIn(t, x)
  <2>1. PidsOf(b) = PidsOf(a)
    BY <1>3, PidsOfIs
  <2>2. \A c \in JobsOf(t) : c.pgid = b.pgid => c = a
    BY <1>3, OneJobOfGroup
  <2>3. JobsOf(u) = Others(t, b.pgid) \cup {b} /\ a \in JobsOf(t) /\ b.pgid = a.pgid
    BY <1>3 DEF Put
  <2> QED
    BY <2>1, <2>2, <2>3 DEF NotIn, Others
<1>4. ASSUME NEW p, NEW report \in Reports, NEW a \in JobsOf(t), NEW b \in JobRecords,
             Put(t, u, b), NotedJob(a, b, p, report)
      PROVE  NotIn(u, x) <=> NotIn(t, x)
  <2>1. PICK i \in DOMAIN a.procs :
          /\ b.procs[i] = NotedProcess(a.procs[i], report)
          /\ \A j \in DOMAIN a.procs : j # i => b.procs[j] = a.procs[j]
    BY <1>4 DEF NotedJob
  <2>2. a.procs[i] \in Processes
    BY <1>2, ProcsTyped
  <2>3. \A j \in DOMAIN a.procs : b.procs[j].pid = a.procs[j].pid
    BY <2>1, <2>2, NotedTyped
  <2> QED
    BY <1>3, <1>4, <2>3 DEF NotedJob
<1>5. ASSUME NEW a \in JobsOf(t), NEW b \in JobRecords, Put(t, u, b), MarkedJob(a, b)
      PROVE  NotIn(u, x) <=> NotIn(t, x)
  <2>1. ASSUME NEW j \in DOMAIN a.procs
        PROVE  b.procs[j].pid = a.procs[j].pid
    <3>1. a.procs[j] \in Processes /\ b.procs[j] = [a.procs[j] EXCEPT !.stopped = FALSE]
      BY <1>2, <1>5, ProcsTyped DEF MarkedJob
    <3> QED
      BY <3>1 DEF Processes
  <2> QED
    BY <1>3, <1>5, <2>1 DEF MarkedJob
<1> QED
  BY <1>1, <1>4, <1>5 DEF NotedIn, MarkedIn

(* Processes that move are children as they were, ...                      *)
LEMMA MovesSettled ==
  ASSUME NEW k, NEW k2, KernelOK(k), Moves(k, k2)
  PROVE  /\ Children(k2) = Children(k)
         /\ \A p \in Pids : /\ ReapedIn(k2, p) <=> ReapedIn(k, p)
                            /\ HasStopped(k2, p) => HasStopped(k, p)
                            /\ Untold(k, p) => Untold(k2, p)
<1>1. /\ DOMAIN k = Pids /\ DOMAIN k2 = Pids
      /\ \A p \in Pids : ProcessMoves(k[p], k2[p])
      /\ k \in [Pids -> KernelProcesses] /\ k2 \in [Pids -> KernelProcesses]
  BY DEF Moves, KernelOK
<1>2. ASSUME NEW p \in Pids
      PROVE  /\ p \in Children(k2) <=> p \in Children(k)
             /\ ReapedIn(k2, p) <=> ReapedIn(k, p)
             /\ HasStopped(k2, p) => HasStopped(k, p)
  <2>1. /\ k[p].state \in {"unborn", "running", "stopped", "zombie", "reaped"}
        /\ k2[p].state \in {"unborn", "running", "stopped", "zombie", "reaped"}
    BY <1>1, ProcessTyped
  <2>2. ProcessMoves(k[p], k2[p])
    BY <1>1
  <2> QED
    BY <1>1, <2>1, <2>2 DEF ProcessMoves, Children, ReapedIn, HasStopped
<1>3. Children(k2) = Children(k)
  BY <1>1, <1>2 DEF Children
<1> QED
  BY <1>2, <1>3 DEF Untold

(* ... and known as before.                                                *)
LEMMA KnownMoves ==
  ASSUME NEW k, NEW k2, KernelOK(k), Moves(k, k2), NEW t, TableOK(t), KnownJobs(k, t)
  PROVE  KnownJobs(k2, t) /\ (Settled(k, t) => Settled(k2, t))
<1>1. Children(k2) = Children(k)
  BY MovesSettled
<1>2. ASSUME NEW job \in JobsOf(t)
      PROVE  KnownJob(k2, job)
  <2>1. KnownJob(k, job) /\ \A i \in DOMAIN job.procs : job.procs[i].pid \in Pids
    BY JobsTyped, ProcsTyped DEF TableOK, KnownJobs
  <2>2. \A p \in Pids : (ReapedIn(k2, p) <=> ReapedIn(k, p)) /\ (HasStopped(k2, p) => HasStopped(k, p))
    BY MovesSettled
  <2> QED
    BY <2>1, <2>2, ToldKept
<1> QED
  BY <1>1, <1>2 DEF KnownJobs, Settled

(* A job whose processes did not change is known as before.                *)
LEMMA KnownElsewhere ==
  ASSUME NEW k, NEW k2, NEW p, \A x \in Pids : x # p => k2[x] = k[x],
         NEW job \in JobRecords, KnownJob(k, job), p \notin PidsOf(job)
  PROVE  KnownJob(k2, job)
<1>1. \A i \in DOMAIN job.procs : job.procs[i].pid \in Pids /\ job.procs[i].pid # p
  BY ProcsTyped, PidsOfIs
<1> QED
  BY <1>1, ToldKept DEF ReapedIn, HasStopped

(* What the shell has heard of a process is not behind the process.        *)
Heard(k, p, report) ==
  /\ ReapedIn(k, p) => Terminated(report)
  /\ HasStopped(k, p) => WIFSTOPPED(report)

(* What waitpid reports is the latest news of its process.                 *)
LEMMA ReportIsHeard ==
  ASSUME NEW k, NEW k2, NEW p, Reported(k, k2, p)
  PROVE  Heard(k2, p, k[p].status)
<1>1. HasStopped(k2, p) => ~ReapedIn(k2, p)
  BY DEF HasStopped, ReapedIn
<1> QED
  BY <1>1 DEF Heard, Reported

(* Noting a report makes its process told and leaves the others as told.   *)
LEMMA ToldNoted ==
  ASSUME NEW k, NEW a \in JobRecords, NEW b \in JobRecords, NEW p, NEW report \in Reports,
         NotedJob(a, b, p, report), Heard(k, p, report),
         NEW i \in DOMAIN a.procs, a.procs[i].pid = p \/ Told(k, a.procs[i]),
         \A j, l \in DOMAIN a.procs : a.procs[j].pid = a.procs[l].pid => j = l
  PROVE  Told(k, b.procs[i]) /\ b.procs[i].pid = a.procs[i].pid
<1>1. PICK l \in DOMAIN a.procs :
        /\ a.procs[l].pid = p
        /\ b.procs[l] = NotedProcess(a.procs[l], report)
        /\ \A j \in DOMAIN a.procs : j # l => b.procs[j] = a.procs[j]
  BY DEF NotedJob
<1>2. CASE i = l
  <2>1. /\ b.procs[i].pid = p
        /\ b.procs[i].stopped = WIFSTOPPED(report)
        /\ b.procs[i].done = Terminated(report)
    BY <1>1, <1>2, ProcsTyped, NotedTyped
  <2> QED
    BY <1>1, <1>2, <2>1 DEF Told, Heard
<1>3. CASE i # l
  <2>1. a.procs[i].pid # p
    BY <1>1, <1>3
  <2> QED
    BY <1>1, <1>3, <2>1
<1> QED
  BY <1>2, <1>3

(* The table after the note of a report about p: all is told, and the jobs *)
(* that are not done, or not p's, are known.                               *)
Heeded(k, t, p) ==
  \A b \in JobsOf(t) : /\ ToldJob(k, b)
                       /\ p \notin PidsOf(b) \/ ~job_all_done(b) => KnownJob(k, b)

(* Noting what waitpid reports makes it so.                                *)
LEMMA NotedHeeded ==
  ASSUME NEW k, NEW k2, NEW p \in Pids, Reported(k, k2, p),
         NEW t, TableOK(t), GroupedJobs(k, t), KnownJobs(k, t),
         NEW u, NotedIn(t, u, p, k[p].status)
  PROVE  Heeded(k2, u, p)
<1> DEFINE report == k[p].status
<1>1. report \in Reports /\ Heard(k2, p, report)
  BY ReportIsHeard DEF Reported
<1>2. JobsOf(t) \subseteq JobRecords
  BY JobsTyped DEF TableOK
<1>3. ASSUME NEW c \in JobsOf(t), p \notin PidsOf(c)
      PROVE  ToldJob(k2, c) /\ KnownJob(k2, c)
  <2>1. \A x \in Pids : x # p => k2[x] = k[x]
    BY DEF Reported
  <2>2. KnownJob(k, c) /\ c \in JobRecords
    BY <1>2 DEF KnownJobs
  <2>3. KnownJob(k2, c)
    BY <1>3, <2>1, <2>2, KnownElsewhere
  <2> QED
    BY <2>3 DEF KnownJob
<1>4. CASE NotIn(t, p) /\ u = t
  BY <1>3, <1>4 DEF NotIn, Heeded
<1>5. ASSUME NEW a \in JobsOf(t), NEW b \in JobRecords, Put(t, u, b), NotedJob(a, b, p, report)
      PROVE  Heeded(k2, u, p)
  <2>1. /\ b.pgid = a.pgid /\ DOMAIN b.procs = DOMAIN a.procs
        /\ b.stopped = job_any_stopped(b)
        /\ p \in PidsOf(a)
    BY <1>5, PidsOfIs DEF NotedJob
  <2>2. GroupedJob(k, a) /\ KnownJob(k, a) /\ a \in JobRecords
    BY <1>2 DEF GroupedJobs, KnownJobs
  <2>3. \A j, l \in DOMAIN a.procs : a.procs[j].pid = a.procs[l].pid => j = l
    BY <2>2 DEF GroupedJob
  <2>4. ASSUME NEW i \in DOMAIN a.procs
        PROVE  Told(k2, b.procs[i])
    <3>1. a.procs[i].pid \in Pids /\ Told(k, a.procs[i])
      BY <2>2, ProcsTyped DEF KnownJob, ToldJob
    <3>2. a.procs[i].pid = p \/ Told(k2, a.procs[i])
      BY <3>1 DEF Reported, Told, ReapedIn, HasStopped
    <3> HIDE DEF report
    <3> QED
      BY <1>1, <1>5, <2>2, <2>3, <3>2, ToldNoted
  <2>5. ToldJob(k2, b)
    BY <2>1, <2>4 DEF ToldJob, Flagged
  <2>6. ~job_all_done(b) => KnownJob(k2, b)
    BY <2>5, ToldIsKnown
  <2>7. PidsOf(b) = PidsOf(a)
    <3>1. \A i \in DOMAIN a.procs : b.procs[i].pid = a.procs[i].pid
      <4>1. PICK l \in DOMAIN a.procs :
              /\ b.procs[l] = NotedProcess(a.procs[l], report)
              /\ \A j \in DOMAIN a.procs : j # l => b.procs[j] = a.procs[j]
        BY <1>5 DEF NotedJob
      <4>2. a.procs[l] \in Processes
        BY <2>2, ProcsTyped
      <4> QED
        BY <1>1, <4>1, <4>2, NotedTyped
    <3> QED
      BY <2>1, <3>1, PidsOfIs
  <2>8. ASSUME NEW c \in JobsOf(u), c # b
        PROVE  c \in JobsOf(t) /\ p \notin PidsOf(c)
    <3>1. c \in JobsOf(t) /\ c.pgid # a.pgid
      BY <1>5, <2>1, <2>8 DEF Put, Others
    <3> QED
      BY <2>1, <3>1, OneJobOfPid
  <2> QED
    BY <1>3, <2>1, <2>5, <2>6, <2>7, <2>8 DEF Heeded
<1> QED
  BY <1>4, <1>5 DEF NotedIn

(* A report leaves the shell at most the children it had, without those    *)
(* that ended.                                                             *)
LEMMA ChildrenAfterReport ==
  ASSUME NEW k, KernelOK(k), NEW k2, NEW p \in Pids, Reported(k, k2, p)
  PROVE  /\ Children(k2) \subseteq Children(k) /\ Children(k) \subseteq Children(k2) \cup {p}
         /\ p \in Children(k2) <=> ~ReapedIn(k2, p)
         /\ \A x \in Pids : x # p /\ Untold(k, x) => Untold(k2, x)
<1>1. DOMAIN k = Pids /\ DOMAIN k2 = Pids /\ k2 \in [Pids -> KernelProcesses]
  BY DEF KernelOK, Reported
<1>2. k[p].state \in {"unborn", "running", "stopped", "zombie", "reaped"}
  BY ProcessTyped DEF KernelOK
<1>3. k2[p].state \in {"unborn", "running", "stopped", "zombie", "reaped"}
  BY <1>1, ProcessTyped
<1>4. \A x \in Pids : x # p => k2[x] = k[x]
  BY DEF Reported
<1>5. k[p].state \notin {"unborn", "reaped"} /\ k2[p].state # "unborn"
  BY DEF Reported
<1>6. p \in Children(k) /\ (p \in Children(k2) <=> ~ReapedIn(k2, p))
  BY <1>1, <1>2, <1>3, <1>5 DEF Children, ReapedIn
<1>7. \A x \in Pids : x # p => (x \in Children(k2) <=> x \in Children(k))
  BY <1>1, <1>4 DEF Children
<1>8. Children(k) \subseteq Pids /\ Children(k2) \subseteq Pids
  BY <1>1 DEF Children
<1> QED
  BY <1>4, <1>6, <1>7, <1>8 DEF Untold, HasStopped

(* OrderlyInv of a state taken apart; the lemmas say what Accounted is in  *)
(* each place the shell can be.                                            *)
OrderlyAt(k, t, at, f) == KnownJobs(k, t) /\ Accounted(k, t, at, f)

(* With nothing in hand each child is a job's.                             *)
LEMMA SettledIsAccounted ==
  ASSUME NEW k, NEW t, NEW at, NEW f, at \in {"prompt", "wait_all", "wait_pid"}
  PROVE  Accounted(k, t, at, f) <=> Settled(k, t)
BY DEF Accounted, Pending, Settled

(* Waiting for a job, there is that job too.                               *)
LEMMA WaitingIsAccounted ==
  ASSUME NEW k, NEW t, NEW f
  PROVE  Accounted(k, t, "wait_job", f)
           <=> Settled(k, t) /\ \E job \in JobsOf(t) : job.pgid = f.job.pgid
BY DEF Accounted, Pending, Settled

(* The foreground child is in hand.                                        *)
LEMMA ForegroundIsAccounted ==
  ASSUME NEW k, NEW t, NEW f
  PROVE  Accounted(k, t, "foreground", f)
           <=> /\ \A p \in Children(k) : p = f.pid \/ ~NotIn(t, p)
               /\ Untold(k, f.pid) /\ NotIn(t, f.pid)
BY DEF Accounted, Pending

(* So are the members of a pipeline forked so far, ...                     *)
LEMMA ForkIsAccounted ==
  ASSUME NEW k, NEW t, NEW f
  PROVE  Accounted(k, t, "fork", f)
           <=> /\ \A p \in Children(k) : (\E j \in DOMAIN f.pids : p = f.pids[j]) \/ ~NotIn(t, p)
               /\ \A j \in DOMAIN f.pids : Untold(k, f.pids[j]) /\ NotIn(t, f.pids[j])
               /\ PipelineKnown(k, t, f)
BY DEF Accounted, Pending

(* ... and those not yet collected.                                        *)
LEMMA CollectIsAccounted ==
  ASSUME NEW k, NEW t, NEW f
  PROVE  Accounted(k, t, "collect", f)
           <=> /\ \A p \in Children(k) :
                    (\E j \in Len(f.statuses) + 1 .. f.size : p = f.pids[j]) \/ ~NotIn(t, p)
               /\ \A j \in Len(f.statuses) + 1 .. f.size : Untold(k, f.pids[j])
               /\ PipelineKnown(k, t, f)
BY DEF Accounted, Pending

(* A job of which all is done, of which nothing is left, is no loss.       *)
LEMMA DoneIsGone ==
  ASSUME NEW k, NEW t, TableOK(t), RealIn(k, t), GroupedJobs(k, t), NEW a \in JobsOf(t),
         job_all_done(a), NEW u, Drop(t, u, a.pgid)
  PROVE  /\ JobsOf(u) = JobsOf(t) \ {a}
         /\ Settled(k, t) => Settled(k, u)
<1>1. JobsOf(u) = JobsOf(t) \ {a}
  <2>1. \A c \in JobsOf(t) : c.pgid = a.pgid => c = a
    BY OneJobOfGroup
  <2> QED
    BY <2>1 DEF Drop, Others
<1>2. ASSUME NEW p \in PidsOf(a)
      PROVE  p \notin Children(k)
  <2>1. PICK i \in DOMAIN a.procs : a.procs[i].pid = p
    BY PidsOfIs
  <2>2. k[p].state = "reaped"
    BY <2>1 DEF RealIn, Real, ReapedIn, job_all_done
  <2> QED
    BY <2>2 DEF Children
<1> QED
  BY <1>1, <1>2 DEF Settled, NotIn

(* Waiting for one child keeps the table informed: what the report makes   *)
(* complete is forgotten.                                                  *)
LEMMA WaitedKnown ==
  ASSUME NEW k, NEW t, KernelAndTableOK(k, t), NEW k2, NEW p \in Pids, Reported(k, k2, p),
         GroupedJobs(k, t), KnownJobs(k, t), NEW u, NotesThenForgets(t, u, p, k[p].status)
  PROVE  KnownJobs(k2, u) /\ (Settled(k, t) => Settled(k2, u))
<1>1. PICK v : NotedIn(t, v, p, k[p].status) /\ TableOK(v) /\ GoneOf(v, u, p)
  BY DEF NotesThenForgets
<1>2. KernelOK(k) /\ TableOK(t) /\ k[p].status \in Reports /\ Keeps(k, k2)
  BY ReportKeeps DEF KernelAndTableOK, Reported
<1>3. Heeded(k2, v, p)
  BY <1>1, <1>2, NotedHeeded
<1>4. GroupedJobs(k2, v)
  <2>1. GroupedJobs(k, v)
    BY <1>1, <1>2, GroupedNoted
  <2> QED
    BY <1>1, <1>2, <2>1, GroupedKept
<1>5. RealIn(k2, v)
  <2>1. KernelAndTableOK(k2, t)
    BY AfterReport
  <2>2. Terminated(k[p].status) => ReapedIn(k2, p) /\ k[p].status = k2[p].status
    BY ReportIsTrue
  <2>3. KernelAndTableOK(k2, v)
    BY <1>1, <1>2, <2>1, <2>2, AfterNoting
  <2> QED
    BY <2>3 DEF KernelAndTableOK
<1>6. Settled(k, t) => Settled(k2, v)
  <2>1. ASSUME NEW x PROVE NotIn(v, x) <=> NotIn(t, x)
    <3>1. \E q : \E report \in Reports : NotedIn(t, v, q, report)
      BY <1>1, <1>2
    <3> QED
      BY <1>2, <3>1, SamePids
  <2>2. Children(k2) \subseteq Children(k)
    BY <1>2, ChildrenAfterReport
  <2> QED
    BY <2>1, <2>2 DEF Settled
<1>7. CASE NotIn(v, p) /\ u = v
  BY <1>3, <1>6, <1>7 DEF Heeded, KnownJobs, NotIn
<1>8. ASSUME NEW a \in JobsOf(v), p \in PidsOf(a), job_all_done(a), Drop(v, u, a.pgid)
      PROVE  KnownJobs(k2, u) /\ (Settled(k, t) => Settled(k2, u))
  <2>1. JobsOf(u) = JobsOf(v) \ {a} /\ (Settled(k2, v) => Settled(k2, u))
    BY <1>1, <1>4, <1>5, <1>8, DoneIsGone
  <2>2. \A c \in JobsOf(v) : c # a => p \notin PidsOf(c)
    BY <1>1, <1>4, <1>8, OneJobOfPid
  <2> QED
    BY <1>3, <1>6, <2>1, <2>2 DEF Heeded, KnownJobs
<1>9. ASSUME NEW a \in JobsOf(v), p \in PidsOf(a), ~job_all_done(a), u = v
      PROVE  KnownJobs(k2, u) /\ (Settled(k, t) => Settled(k2, u))
  <2>1. \A c \in JobsOf(v) : c # a => p \notin PidsOf(c)
    BY <1>1, <1>4, <1>9, OneJobOfPid
  <2> QED
    BY <1>3, <1>6, <1>9, <2>1 DEF Heeded, KnownJobs
<1> QED
  BY <1>1, <1>7, <1>8, <1>9 DEF GoneOf

(* What is resumed, or has no process left to resume, is marked running    *)
(* without a loss.                                                         *)
LEMMA MarkedKnown ==
  ASSUME NEW k, KernelOK(k), NEW t, TableOK(t), GroupedJobs(k, t), KnownJobs(k, t),
         NEW k2, NEW g, NEW u, MarkedIn(t, u, g),
         Resumes(k, k2, g) \/ (k2 = k /\ ~GroupExists(k, g))
  PROVE  KnownJobs(k2, u) /\ (Settled(k, t) => Settled(k2, u))
<1>1. Moves(k, k2)
  BY Rests DEF Resumes
<1>2. KnownJobs(k2, t) /\ (Settled(k, t) => Settled(k2, t))
  BY <1>1, KnownMoves
<1>3. \A x : NotIn(u, x) <=> NotIn(t, x)
  BY SamePids
<1>4. Settled(k, t) => Settled(k2, u)
  BY <1>2, <1>3 DEF Settled
<1>5. CASE u = t
  BY <1>2, <1>5
<1>6. ASSUME NEW a \in JobsOf(t), NEW b \in JobRecords, a.pgid = g, Put(t, u, b), MarkedJob(a, b)
      PROVE  KnownJobs(k2, u)
  <2>1. /\ b.pgid = a.pgid /\ DOMAIN b.procs = DOMAIN a.procs /\ b.stopped = FALSE
        /\ \A i \in DOMAIN a.procs : b.procs[i] = [a.procs[i] EXCEPT !.stopped = FALSE]
    BY <1>6 DEF MarkedJob
  <2>2. a \in JobRecords /\ KnownJob(k2, a) /\ GroupedJob(k, a) /\ KnownJob(k, a)
    BY <1>2, JobsTyped DEF TableOK, KnownJobs, GroupedJobs
  <2>3. ASSUME NEW i \in DOMAIN a.procs
        PROVE  /\ b.procs[i].pid = a.procs[i].pid /\ b.procs[i].done = a.procs[i].done
               /\ b.procs[i].stopped = FALSE
    <3>1. a.procs[i] \in Processes
      BY <2>2, ProcsTyped
    <3> QED
      BY <2>1, <3>1 DEF Processes
  <2>4. ASSUME NEW i \in DOMAIN a.procs
        PROVE  ~HasStopped(k2, a.procs[i].pid)
    <3> DEFINE p == a.procs[i].pid
    <3>1. p \in Pids /\ k[p].pgid = g
      BY <1>6, <2>2, ProcsTyped DEF GroupedJob, InGroup
    <3>2. CASE Resumes(k, k2, g)
      BY <3>1, <3>2 DEF Resumes, HasStopped
    <3>3. CASE k2 = k /\ ~GroupExists(k, g)
      <4>1. p \notin Children(k)
        BY <3>1, <3>3 DEF GroupExists, Members
      <4>2. DOMAIN k = Pids
        BY DEF KernelOK
      <4>3. k[p].state # "stopped"
        BY <3>1, <4>1, <4>2 DEF Children
      <4> QED
        BY <3>3, <4>3 DEF HasStopped
    <3> QED
      BY <3>2, <3>3
  <2>5. KnownJob(k2, b)
    <3>1. Flagged(b)
      BY <2>1, <2>3 DEF Flagged, job_any_stopped
    <3>2. \A i \in DOMAIN b.procs : Told(k2, b.procs[i])
      BY <2>1, <2>2, <2>3, <2>4 DEF KnownJob, ToldJob, Told
    <3>3. \E i \in DOMAIN b.procs : ~ReapedIn(k2, b.procs[i].pid)
      BY <2>1, <2>2, <2>3 DEF KnownJob
    <3> QED
      BY <3>1, <3>2, <3>3 DEF KnownJob, ToldJob
  <2>6. JobsOf(u) \subseteq JobsOf(t) \cup {b}
    BY <1>6 DEF Put, Others
  <2> QED
    BY <1>2, <2>5, <2>6 DEF KnownJobs
<1> QED
  BY <1>4, <1>5, <1>6 DEF MarkedIn

(* No job of a table that is known has all of its processes done, ...      *)
LEMMA KnownIsNotDone ==
  ASSUME NEW k, NEW t, RealIn(k, t), KnownJobs(k, t), NEW a \in JobsOf(t)
  PROVE  ~job_all_done(a)
<1>1. PICK i \in DOMAIN a.procs : ~ReapedIn(k, a.procs[i].pid)
  BY DEF KnownJobs, KnownJob
<1> QED
  BY <1>1 DEF RealIn, Real, job_all_done

(* ... so that wait and fg find none to give up before they have waited.   *)
LEMMA KnownIsNotGivenUp ==
  ASSUME NEW k, NEW t, RealIn(k, t), KnownJobs(k, t), NEW u, NEW result, NEW g
  PROVE  ~GivesUp(t, u, result, g)
BY KnownIsNotDone DEF GivesUp

(* A child that is born is one more of which waitpid has told nothing.     *)
LEMMA ChildrenAfterBirth ==
  ASSUME NEW k, KernelOK(k), NEW k2, NEW p, NEW g, Born(k, k2, p, g)
  PROVE  /\ Children(k2) = Children(k) \cup {p}
         /\ ~ReapedIn(k2, p) /\ ~HasStopped(k2, p) /\ Untold(k2, p)
         /\ \A x \in Pids : Untold(k, x) => Untold(k2, x)
<1>1. DOMAIN k = Pids /\ DOMAIN k2 = Pids /\ p \in Pids
  BY DEF KernelOK, Born
<1>2. k[p].state = "unborn" /\ k2[p].state = "running" /\ \A x \in Pids : x # p => k2[x] = k[x]
  BY DEF Born
<1>3. Children(k2) = Children(k) \cup {p}
  BY <1>1, <1>2 DEF Children
<1>4. ~ReapedIn(k2, p) /\ ~HasStopped(k2, p) /\ Untold(k2, p)
  BY <1>2, <1>3 DEF ReapedIn, HasStopped, Untold
<1>5. \A x \in Pids : Untold(k, x) => Untold(k2, x)
  BY <1>2, <1>3, <1>4 DEF Untold, HasStopped
<1> QED
  BY <1>3, <1>4, <1>5

(* It is in no job yet.                                                    *)
LEMMA BornKnown ==
  ASSUME NEW k, NEW t, KernelAndTableOK(k, t), GroupedJobs(k, t), KnownJobs(k, t),
         NEW k2, NEW p, NEW g, Born(k, k2, p, g)
  PROVE  KnownJobs(k2, t) /\ NotIn(t, p) /\ \A a \in JobsOf(t) : a.pgid # p
<1>1. NotIn(t, p) /\ \A a \in JobsOf(t) : a.pgid # p
  BY UnbornIsNotIn DEF Born
<1>2. ASSUME NEW a \in JobsOf(t)
      PROVE  KnownJob(k2, a)
  <2>1. a \in JobRecords /\ KnownJob(k, a) /\ p \notin PidsOf(a)
    BY <1>1, JobsTyped DEF KernelAndTableOK, TableOK, KnownJobs, NotIn
  <2>2. \A x \in Pids : x # p => k2[x] = k[x]
    BY DEF Born
  <2> QED
    BY <2>1, <2>2, KnownElsewhere
<1> QED
  BY <1>1, <1>2 DEF KnownJobs

(* An asynchronous list is a job from the start.                           *)
LEMMA AsyncKnown ==
  ASSUME NEW k, NEW t, KernelAndTableOK(k, t), GroupedJobs(k, t), KnownJobs(k, t), Settled(k, t),
         NEW k2, NEW p, NEW g, Born(k, k2, p, g), NEW u, TrackedIn(t, u, p, <<p>>, FALSE)
  PROVE  KnownJobs(k2, u) /\ Settled(k2, u)
<1>1. PICK b \in JobRecords : Put(t, u, b) /\ TrackedJob(t, b, p, <<p>>, FALSE)
  BY DEF TrackedIn
<1>2. KnownJobs(k2, t) /\ NotIn(t, p) /\ \A a \in JobsOf(t) : a.pgid # p
  BY BornKnown
<1>3. Children(k2) = Children(k) \cup {p} /\ ~ReapedIn(k2, p) /\ ~HasStopped(k2, p)
  BY ChildrenAfterBirth DEF KernelAndTableOK
<1>4. JobsOf(u) = JobsOf(t) \cup {b}
  BY <1>1, <1>2 DEF Put, Others, TrackedJob
<1>5. DOMAIN b.procs = {1} /\ b.procs[1] = NewProcess(p) /\ b.stopped = FALSE
  BY <1>1, <1>2 DEF TrackedJob
<1>6. /\ b.procs[1].pid = p /\ b.procs[1].stopped = FALSE
  BY <1>5 DEF NewProcess
<1>7. KnownJob(k2, b)
  BY <1>3, <1>5, <1>6 DEF KnownJob, ToldJob, Told, Flagged, job_any_stopped
<1>8. p \in PidsOf(b)
  BY <1>5, <1>6, PidsOfIs
<1> QED
  BY <1>2, <1>3, <1>4, <1>7, <1>8 DEF KnownJobs, Settled, NotIn

(* Each child of an orderly session is at once in a job or in hand.        *)
LEMMA OrderlyForks ==
  ASSUME GeneralInv, GroupedAt(kernel, table, pc, frame), OrderlyAt(kernel, table, pc, frame),
         \/ \E p \in Pids, command \in Commands :
              \/ RunAsync(p, command)
              \/ \E vfork \in BOOLEAN : RunForeground(p, command, vfork)
         \/ \E p \in Pids : ForkMember(p)
  PROVE  OrderlyAt(kernel', table', pc', frame')
<1> DEFINE f == frame  h == frame'  k == kernel  k2 == kernel'  t == table  u == table'
<1>1. KernelAndTableOK(k, t) /\ FrameOK(k, pc, f) /\ GroupedJobs(k, t) /\ KnownJobs(k, t)
      /\ Accounted(k, t, pc, f)
  BY GeneralInvParts DEF GroupedAt, OrderlyAt
<1>2. ASSUME NEW p \in Pids, NEW command \in Commands, RunAsync(p, command)
      PROVE  OrderlyAt(k2, u, pc', h)
  <2>1. pc = "prompt" /\ pc' = "prompt"
    BY <1>2 DEF RunAsync, Command, Return
  <2>2. Born(k, k2, p, IF monitor THEN p ELSE ShellGroup) /\ TrackedIn(t, u, p, <<p>>, FALSE)
    BY <1>2, RunAsyncDoes
  <2> HIDE DEF f, h, k, k2, t, u
  <2>3. Settled(k, t)
    BY <1>1, <2>1, SettledIsAccounted
  <2>4. KnownJobs(k2, u) /\ Settled(k2, u)
    BY <1>1, <2>2, <2>3, AsyncKnown
  <2> QED
    BY <2>1, <2>4, SettledIsAccounted DEF OrderlyAt
<1>3. ASSUME NEW p \in Pids, NEW command \in Commands, NEW vfork \in BOOLEAN,
             RunForeground(p, command, vfork)
      PROVE  OrderlyAt(k2, u, pc', h)
  <2>1. pc = "prompt" /\ u = t
    BY <1>3 DEF RunForeground, Command
  <2>2. /\ Born(k, k2, p, IF monitor THEN p ELSE ShellGroup)
        /\ h.pid = p /\ pc' = "foreground"
    BY <1>3, RunForegroundDoes
  <2> HIDE DEF f, h, k, k2, t, u
  <2>3. Settled(k, t)
    BY <1>1, <2>1, SettledIsAccounted
  <2>4. KnownJobs(k2, t) /\ NotIn(t, p)
    BY <1>1, <2>2, BornKnown
  <2>5. Children(k2) = Children(k) \cup {p} /\ Untold(k2, p)
    BY <1>1, <2>2, ChildrenAfterBirth DEF KernelAndTableOK
  <2>6. Accounted(k2, t, "foreground", h)
    BY <2>2, <2>3, <2>4, <2>5, ForegroundIsAccounted DEF Settled
  <2> QED
    BY <2>1, <2>2, <2>4, <2>6 DEF OrderlyAt
<1>4. ASSUME NEW p \in Pids, ForkMember(p)
      PROVE  OrderlyAt(k2, u, pc', h)
  <2> DEFINE g == IF f.isolate THEN h.pids[1] ELSE ShellGroup
  <2>1. pc = "fork" /\ u = t
    BY <1>4 DEF ForkMember
  <2>2. /\ f \in Pipelines /\ h \in Pipelines
        /\ h.pids = Append(f.pids, p) /\ h.statuses = f.statuses
        /\ h.size = f.size /\ h.executor = f.executor
        /\ f.statuses = <<>> /\ Len(f.pids) < f.size
        /\ pc' = IF Len(h.pids) = f.size THEN "collect" ELSE "fork"
        /\ Born(k, k2, p, g)
    BY <1>4, ForkMemberDoes
  <2> HIDE DEF f, h, k, k2, t, u, g
  <2>3. KnownJobs(k2, t) /\ NotIn(t, p)
    BY <1>1, <2>2, BornKnown
  <2>4. /\ Children(k2) = Children(k) \cup {p} /\ Untold(k2, p)
        /\ \A x \in Pids : Untold(k, x) => Untold(k2, x)
    BY <1>1, <2>2, ChildrenAfterBirth DEF KernelAndTableOK
  <2>5. /\ \A c \in Children(k) : (\E j \in DOMAIN f.pids : c = f.pids[j]) \/ ~NotIn(t, c)
        /\ \A j \in DOMAIN f.pids : Untold(k, f.pids[j]) /\ NotIn(t, f.pids[j])
        /\ PipelineKnown(k, t, f)
    BY <1>1, <2>1, ForkIsAccounted
  <2>6. f.pids \in Seq(Pids) /\ h.pids \in Seq(Pids)
    BY <2>2 DEF Pipelines
  <2>7. /\ DOMAIN h.pids = DOMAIN f.pids \cup {Len(f.pids) + 1}
        /\ \A j \in DOMAIN f.pids : h.pids[j] = f.pids[j] /\ f.pids[j] \in Pids
        /\ h.pids[Len(f.pids) + 1] = p
        /\ DOMAIN h.pids = 1 .. Len(h.pids)
    BY <2>2, <2>6
  <2>8. /\ \A c \in Children(k2) : (\E j \in DOMAIN h.pids : c = h.pids[j]) \/ ~NotIn(t, c)
        /\ \A j \in DOMAIN h.pids : Untold(k2, h.pids[j]) /\ NotIn(t, h.pids[j])
    BY <2>3, <2>4, <2>5, <2>7
  <2>9. PipelineKnown(k2, t, h)
    BY <2>2, <2>5, <2>8 DEF PipelineKnown
  <2>10. CASE pc' = "fork"
    BY <2>1, <2>3, <2>8, <2>9, <2>10, ForkIsAccounted DEF OrderlyAt
  <2>11. CASE pc' = "collect" /\ Len(h.pids) = f.size
    <3>1. Len(h.statuses) + 1 .. h.size = DOMAIN h.pids
      BY <2>2, <2>7, <2>11
    <3>2. Accounted(k2, t, "collect", h)
      BY <2>8, <2>9, <3>1, CollectIsAccounted
    <3> QED
      BY <2>1, <2>3, <2>11, <3>2 DEF OrderlyAt
  <2> QED
    BY <2>2, <2>10, <2>11
<1> QED
  BY <1>2, <1>3, <1>4

(* A foreground child that stopped becomes a job.                          *)
LEMMA StopKnown ==
  ASSUME NEW k, NEW t, KernelAndTableOK(k, t), GroupedJobs(k, t), KnownJobs(k, t),
         NEW p \in Pids, NotIn(t, p), HasStopped(k, p), NEW u, TracksThenNotes(t, u, p)
  PROVE  KnownJobs(k, u) /\ ~NotIn(u, p) /\ \A x : ~NotIn(t, x) => ~NotIn(u, x)
<1>1. PICK v : TrackedIn(t, v, p, <<p>>, TRUE) /\ NotedIn(v, u, p, Stopped)
  BY DEF TracksThenNotes
<1>2. PICK c \in JobRecords : Put(t, v, c) /\ TrackedJob(t, c, p, <<p>>, TRUE)
  BY <1>1 DEF TrackedIn
<1>3. \A a \in JobsOf(t) : a.pgid # p
  BY DEF NotIn, GroupedJobs, GroupedJob
<1>4. JobsOf(v) = JobsOf(t) \cup {c} /\ c.pgid = p
  BY <1>2, <1>3 DEF Put, Others, TrackedJob
<1>5. DOMAIN c.procs = {1} /\ c.procs[1].pid = p
  BY <1>2 DEF TrackedJob
<1>6. PidsOf(c) = {p}
  BY <1>5, PidsOfIs
<1>7. PICK a \in JobsOf(v), b \in JobRecords : Put(v, u, b) /\ NotedJob(a, b, p, Stopped)
  BY <1>1, <1>4, <1>6 DEF NotedIn, NotIn
<1>8. a = c
  <2>1. p \in PidsOf(a)
    BY <1>7, PidsOfIs DEF NotedJob
  <2> QED
    BY <1>4, <2>1 DEF NotIn
<1>9. b.pgid = p /\ DOMAIN b.procs = {1} /\ b.stopped = job_any_stopped(b)
  BY <1>4, <1>5, <1>7, <1>8 DEF NotedJob
<1>10. JobsOf(u) = JobsOf(t) \cup {b}
  BY <1>3, <1>4, <1>7, <1>9 DEF Put, Others
<1>11. ~ReapedIn(k, p)
  BY DEF HasStopped, ReapedIn
<1>12. Told(k, b.procs[1]) /\ b.procs[1].pid = p
  <2>1. Heard(k, p, Stopped) /\ Stopped \in Reports
    BY <1>11 DEF Heard, Stopped, WIFSTOPPED, Reports, KnownStatuses, NoStatus
  <2>2. \A j, l \in DOMAIN c.procs : c.procs[j].pid = c.procs[l].pid => j = l
    BY <1>5
  <2>3. 1 \in DOMAIN c.procs
    BY <1>5
  <2>4. NotedJob(c, b, p, Stopped)
    BY <1>7, <1>8
  <2> QED
    BY <1>2, <1>5, <1>7, <2>1, <2>2, <2>3, <2>4, ToldNoted
<1>13. KnownJob(k, b)
  BY <1>9, <1>11, <1>12 DEF KnownJob, ToldJob, Flagged
<1>14. p \in PidsOf(b)
  BY <1>9, <1>12, PidsOfIs
<1> QED
  BY <1>10, <1>13, <1>14 DEF KnownJobs, NotIn

(* A foreground child that changed leaves its status or a job.             *)
LEMMA OrderlyForeground ==
  ASSUME GeneralInv, GroupedAt(kernel, table, pc, frame), OrderlyAt(kernel, table, pc, frame),
         ForegroundChanged
  PROVE  OrderlyAt(kernel', table', pc', frame')
<1> DEFINE f == frame  k == kernel  k2 == kernel'  t == table  u == table'  p == frame.pid
<1>1. KernelAndTableOK(k, t) /\ GroupedJobs(k, t) /\ KnownJobs(k, t) /\ Accounted(k, t, pc, f)
  BY GeneralInvParts DEF GroupedAt, OrderlyAt
<1>2. pc = "foreground" /\ pc' = "prompt"
  BY DEF ForegroundChanged, Return
<1>3. /\ p \in Pids /\ Reported(k, k2, p)
      /\ IF WIFSTOPPED(k[p].status) THEN TracksThenNotes(t, u, p) ELSE u = t
  BY ForegroundDoes
<1> HIDE DEF k, k2, t, u
<1>4. /\ \A c \in Children(k) : c = p \/ ~NotIn(t, c)
      /\ NotIn(t, p)
  BY <1>1, <1>2, ForegroundIsAccounted
<1> HIDE DEF f, p
<1>5. KernelAndTableOK(k2, t) /\ Keeps(k, k2)
  BY <1>1, <1>3, AfterReport
<1>6. KnownJobs(k2, t)
  <2>1. \A x \in Pids : x # p => k2[x] = k[x]
    BY <1>3 DEF Reported
  <2>2. JobsOf(t) \subseteq JobRecords
    BY <1>1, JobsTyped DEF KernelAndTableOK, TableOK
  <2>3. \A a \in JobsOf(t) : KnownJob(k, a) /\ p \notin PidsOf(a) /\ a \in JobRecords
    BY <1>1, <1>4, <2>2 DEF KnownJobs, NotIn
  <2>4. \A a \in JobsOf(t) : KnownJob(k2, a)
    BY <2>1, <2>3, KnownElsewhere
  <2> QED
    BY <2>4 DEF KnownJobs
<1>7. GroupedJobs(k2, t)
  BY <1>1, <1>5, GroupedKept DEF KernelAndTableOK
<1>8. Children(k2) \subseteq Children(k) /\ (p \in Children(k2) <=> ~ReapedIn(k2, p))
  BY <1>1, <1>3, ChildrenAfterReport DEF KernelAndTableOK
<1>9. CASE WIFSTOPPED(k[p].status)
  <2>1. HasStopped(k2, p) /\ TracksThenNotes(t, u, p)
    BY <1>3, <1>9 DEF Reported
  <2>2. KnownJobs(k2, u) /\ ~NotIn(u, p) /\ \A x : ~NotIn(t, x) => ~NotIn(u, x)
    BY <1>3, <1>4, <1>5, <1>6, <1>7, <2>1, StopKnown
  <2>3. Settled(k2, u)
    BY <1>4, <1>8, <2>2 DEF Settled
  <2>4. Accounted(k2, u, "prompt", frame')
    BY <2>3, SettledIsAccounted
  <2> QED
    BY <1>2, <2>2, <2>4 DEF OrderlyAt, k2, u
<1>10. CASE ~WIFSTOPPED(k[p].status)
  <2>1. ReapedIn(k2, p) /\ u = t
    BY <1>3, <1>10 DEF Reported
  <2>2. Settled(k2, t)
    BY <1>4, <1>8, <2>1 DEF Settled
  <2>3. Accounted(k2, u, "prompt", frame')
    BY <2>1, <2>2, SettledIsAccounted
  <2> QED
    BY <1>2, <1>6, <2>1, <2>3 DEF OrderlyAt, k2, u
<1> QED
  BY <1>9, <1>10

(* wait, for all or for one child, forgets what it has waited for.         *)
LEMMA OrderlyWaits ==
  ASSUME GeneralInv, GroupedAt(kernel, table, pc, frame), OrderlyAt(kernel, table, pc, frame),
         (\E p \in Pids : WaitAllReaps(p)) \/ WaitPidReaps
  PROVE  OrderlyAt(kernel', table', pc', frame')
<1>1. \E p \in Pids : /\ Reported(kernel, kernel', p)
                      /\ NotesThenForgets(table, table', p, kernel[p].status)
  BY WaitAllDoes, WaitPidDoes
<1>2. /\ pc \in {"wait_all", "wait_pid"}
      /\ pc' \in {"prompt", "wait_all"}
  BY DEF WaitAllReaps, WaitPidReaps, Return, Start
<1> DEFINE k == kernel  k2 == kernel'  t == table  u == table'
<1>3. KernelAndTableOK(k, t) /\ GroupedJobs(k, t) /\ KnownJobs(k, t) /\ Accounted(k, t, pc, frame)
  BY GeneralInvParts DEF GroupedAt, OrderlyAt
<1>4. PICK p \in Pids : Reported(k, k2, p) /\ NotesThenForgets(t, u, p, k[p].status)
  BY <1>1
<1> HIDE DEF k, k2, t, u
<1>5. Settled(k, t)
  BY <1>2, <1>3, SettledIsAccounted
<1>6. KnownJobs(k2, u) /\ Settled(k2, u)
  BY <1>3, <1>4, <1>5, WaitedKnown
<1>7. Accounted(k2, u, pc', frame')
  BY <1>2, <1>6, SettledIsAccounted
<1> QED
  BY <1>6, <1>7 DEF OrderlyAt, k2, u

-----------------------------------------------------------------------------
(* Tracking a pipeline, one note after the other: the notes up to the j-th *)
(* have been made, of the members after the n-th there is nothing to note. *)
PipelineJob(b, g, pids) ==
  /\ b.pgid = g
  /\ DOMAIN b.procs = DOMAIN pids
  /\ \A l \in DOMAIN pids : b.procs[l].pid = pids[l]

ToldUpTo(k, b, j, n) ==
  /\ j = 0 \/ Flagged(b)
  /\ \A l \in DOMAIN b.procs : l <= j \/ l > n => Told(k, b.procs[l])

HasJob(k, t, v, j, n, g, pids) ==
  \E b \in JobRecords : /\ JobsOf(v) = Others(t, g) \cup {b}
                        /\ PipelineJob(b, g, pids)
                        /\ ToldUpTo(k, b, j, n)

(* The table starts with a job for the pipeline, ...                       *)
LEMMA PipelineStarts ==
  ASSUME NEW k, NEW t, NEW v, NEW g, NEW pids \in Seq(Pids), NEW n \in Nat,
         \A l \in DOMAIN pids : l > n => Untold(k, pids[l]),
         TrackedIn(t, v, g, pids, TRUE)
  PROVE  HasJob(k, t, v, 0, n, g, pids)
<1>1. PICK b \in JobRecords : Put(t, v, b) /\ TrackedJob(t, b, g, pids, TRUE)
  BY DEF TrackedIn
<1>2. PipelineJob(b, g, pids) /\ JobsOf(v) = Others(t, g) \cup {b}
  BY <1>1 DEF TrackedJob, Put, PipelineJob
<1>3. ASSUME NEW l \in DOMAIN b.procs, l <= 0 \/ l > n
      PROVE  Told(k, b.procs[l])
  <2>1. l \in DOMAIN pids /\ l > n
    BY <1>2, <1>3, ProcsTyped DEF PipelineJob
  <2>2. Untold(k, pids[l]) /\ b.procs[l].pid = pids[l]
    BY <1>2, <2>1 DEF PipelineJob
  <2> QED
    BY <2>2 DEF Told, Untold, Children, ReapedIn
<1> QED
  BY <1>2, <1>3 DEF HasJob, ToldUpTo

(* ... each note tells one more of its processes, ...                      *)
LEMMA PipelineGoesOn ==
  ASSUME NEW k, NEW t, GroupedJobs(k, t), NEW g, NEW pids \in Seq(Pids), OneToOne(pids),
         \A i \in DOMAIN pids : InGroup(k, pids[i], g),
         NEW n \in Nat, NEW j \in 1 .. n, j \in DOMAIN pids,
         NEW report \in Reports, Heard(k, pids[j], report),
         NEW v, HasJob(k, t, v, j - 1, n, g, pids),
         NEW w, NotedIn(v, w, pids[j], report)
  PROVE  HasJob(k, t, w, j, n, g, pids)
<1> DEFINE p == pids[j]
<1>1. PICK a \in JobRecords : /\ JobsOf(v) = Others(t, g) \cup {a}
                              /\ PipelineJob(a, g, pids)
                              /\ ToldUpTo(k, a, j - 1, n)
  BY DEF HasJob
<1>2. /\ a.pgid = g /\ DOMAIN a.procs = DOMAIN pids
      /\ \A l \in DOMAIN pids : a.procs[l].pid = pids[l]
  BY <1>1 DEF PipelineJob
<1>3. p \in PidsOf(a) /\ InGroup(k, p, g)
  BY <1>2, PidsOfIs
<1>4. PICK c \in JobsOf(v), b \in JobRecords : Put(v, w, b) /\ NotedJob(c, b, p, report)
  BY <1>1, <1>3 DEF NotedIn, NotIn
<1>5. c = a
  <2>1. PICK i \in DOMAIN c.procs : c.procs[i].pid = p
    BY <1>4 DEF NotedJob
  <2>2. ASSUME c \in Others(t, g)
        PROVE  FALSE
    <3>1. InGroup(k, p, c.pgid) /\ c.pgid # g
      BY <2>1, <2>2 DEF Others, GroupedJobs, GroupedJob
    <3> QED
      BY <1>3, <3>1 DEF InGroup
  <2> QED
    BY <1>1, <2>2
<1>6. NotedJob(a, b, p, report)
  BY <1>4, <1>5
<1>7. /\ b.pgid = g /\ DOMAIN b.procs = DOMAIN a.procs
      /\ b.stopped = job_any_stopped(b)
  BY <1>2, <1>6 DEF NotedJob
<1>8. JobsOf(w) = Others(t, g) \cup {b}
  BY <1>1, <1>2, <1>4, <1>7 DEF Put, Others
<1>9. \A i, l \in DOMAIN a.procs : a.procs[i].pid = a.procs[l].pid => i = l
  BY <1>2 DEF OneToOne
<1>10. \A l \in DOMAIN pids : b.procs[l].pid = pids[l]
  <2>1. PICK i \in DOMAIN a.procs :
          /\ b.procs[i] = NotedProcess(a.procs[i], report)
          /\ \A l \in DOMAIN a.procs : l # i => b.procs[l] = a.procs[l]
    BY <1>6 DEF NotedJob
  <2>2. a.procs[i] \in Processes
    BY ProcsTyped
  <2>3. b.procs[i].pid = a.procs[i].pid
    BY <2>1, <2>2, NotedTyped
  <2> QED
    BY <1>2, <2>1, <2>3
<1>11. ASSUME NEW l \in DOMAIN b.procs, l <= j \/ l > n
       PROVE  Told(k, b.procs[l])
  <2>1. l \in DOMAIN a.procs /\ l \in Nat /\ j \in Nat
    BY <1>7, ProcsTyped
  <2>2. l = j \/ l <= j - 1 \/ l > n
    BY <1>11, <2>1
  <2>3. a.procs[l].pid = p \/ Told(k, a.procs[l])
    BY <1>1, <1>2, <2>1, <2>2 DEF ToldUpTo
  <2> HIDE DEF p
  <2> QED
    BY <1>6, <1>9, <2>1, <2>3, ToldNoted DEF p
<1>12. ToldUpTo(k, b, j, n)
  BY <1>7, <1>11 DEF ToldUpTo, Flagged
<1>13. PipelineJob(b, g, pids)
  BY <1>2, <1>7, <1>10 DEF PipelineJob
<1> QED
  BY <1>8, <1>12, <1>13 DEF HasJob

(* What the shell has heard of the members when one has just stopped.      *)
PipelineHeard(k, g, pids, statuses) ==
  LET n == Len(statuses)
  IN  /\ \A i \in DOMAIN pids : InGroup(k, pids[i], g)
      /\ n \in 1 .. Len(pids)
      /\ \A j \in 1 .. n : Heard(k, pids[j], statuses[j])
      /\ \A l \in DOMAIN pids : l > n => Untold(k, pids[l])
      /\ ~ReapedIn(k, pids[n])

KnowsPipeline(k, t, u, g, pids) ==
  /\ KnownJobs(k, u)
  /\ \E b \in JobRecords : JobsOf(u) = Others(t, g) \cup {b} /\ PipelineJob(b, g, pids)

(* ... and it ends with a job of which all is told.                        *)
LEMMA PipelineKnowsAll ==
  ASSUME NEW k, NEW t, GroupedJobs(k, t), NEW g, NEW pids \in Seq(Pids), OneToOne(pids),
         NEW statuses \in Seq(Reports), PipelineHeard(k, g, pids, statuses),
         \A a \in JobsOf(t) : a.pgid # g => KnownJob(k, a),
         NEW u, PipelineRuns(t, u, g, pids, statuses)
  PROVE  KnowsPipeline(k, t, u, g, pids)
<1> DEFINE n == Len(statuses)
<1>1. /\ n \in Nat /\ n \in 1 .. Len(pids) /\ DOMAIN pids = 1 .. Len(pids)
      /\ \A i \in DOMAIN pids : InGroup(k, pids[i], g)
      /\ \A j \in 1 .. n : Heard(k, pids[j], statuses[j])
      /\ \A l \in DOMAIN pids : l > n => Untold(k, pids[l])
      /\ ~ReapedIn(k, pids[n])
  BY DEF PipelineHeard
<1>2. PICK R, tracked : /\ TrackedIn(t, tracked, g, pids, TRUE)
                        /\ NotedAll(R, tracked, pids, statuses)
                        /\ u = R[n]
  BY DEF PipelineRuns
<1>3. R[0] = tracked /\ \A j \in 1 .. n : NotedIn(R[j - 1], R[j], pids[j], statuses[j])
  BY <1>2 DEF NotedAll
<1>4. \A j \in 1 .. n : statuses[j] \in Reports /\ Heard(k, pids[j], statuses[j]) /\ j \in DOMAIN pids
  BY <1>1
<1> HIDE DEF n
<1> DEFINE S == {j \in 0 .. n : HasJob(k, t, R[j], j, n, g, pids)}
<1>5. 0 \in S
  <2>1. HasJob(k, t, tracked, 0, n, g, pids)
    BY <1>1, <1>2, PipelineStarts DEF n
  <2> QED
    BY <1>1, <1>3, <2>1
<1>6. ASSUME NEW j \in 1 .. n, j - 1 \in S
      PROVE  j \in S
  <2>1. HasJob(k, t, R[j - 1], j - 1, n, g, pids)
    BY <1>6
  <2>2. /\ NotedIn(R[j - 1], R[j], pids[j], statuses[j]) /\ statuses[j] \in Reports
        /\ Heard(k, pids[j], statuses[j]) /\ j \in DOMAIN pids
    BY <1>3, <1>4
  <2>3. HasJob(k, t, R[j], j, n, g, pids)
    BY <1>1, <2>1, <2>2, PipelineGoesOn
  <2>4. j \in 0 .. n
    BY <1>1
  <2> QED
    BY <2>3, <2>4
<1>7. n \in S
  <2>1. S \in SUBSET Nat
    BY <1>1
  <2> HIDE DEF S
  <2>2. \A j \in 0 .. n : j \in S
    BY <1>1, <1>5, <1>6, <2>1, UpTo
  <2> QED
    BY <1>1, <2>2
<1>8. PICK b \in JobRecords : /\ JobsOf(u) = Others(t, g) \cup {b}
                              /\ PipelineJob(b, g, pids)
                              /\ ToldUpTo(k, b, n, n)
  BY <1>2, <1>7 DEF HasJob
<1>9. KnownJob(k, b)
  <2>1. \A l \in DOMAIN b.procs : Told(k, b.procs[l])
    <3>1. \A l \in DOMAIN b.procs : l \in Nat
      BY ProcsTyped
    <3> QED
      BY <1>1, <1>8, <3>1 DEF ToldUpTo
  <2>2. Flagged(b)
    BY <1>1, <1>8 DEF ToldUpTo
  <2>3. n \in DOMAIN b.procs /\ b.procs[n].pid = pids[n]
    BY <1>1, <1>8 DEF PipelineJob
  <2> QED
    BY <1>1, <2>1, <2>2, <2>3 DEF KnownJob, ToldJob
<1> QED
  BY <1>8, <1>9 DEF KnowsPipeline, KnownJobs, Others

(* What holds when waitpid has a status of the i-th member, and what it    *)
(* then reports.                                                           *)
Collecting(k, t, f, i) ==
  /\ KernelAndTableOK(k, t) /\ GroupedJobs(k, t) /\ KnownJobs(k, t)
  /\ f \in Pipelines /\ f.isolate /\ OneToOne(f.pids) /\ Len(f.pids) = f.size
  /\ \A j \in DOMAIN f.pids : InGroup(k, f.pids[j], f.pids[1])
  /\ i = Len(f.statuses) + 1 /\ i \in 1 .. Len(f.pids)
  /\ Collected(k, f) /\ PipelineKnown(k, t, f)
  /\ \A c \in Children(k) : (\E j \in i .. f.size : c = f.pids[j]) \/ ~NotIn(t, c)
  /\ \A j \in i .. f.size : Untold(k, f.pids[j])

OneReport(k, k2, f, i, ws, statuses) ==
  /\ ws = k[f.pids[i]].status
  /\ Reported(k, k2, f.pids[i])
  /\ OneMore(f.statuses, statuses, ws)

(* A report is of an end or of a stop.                                     *)
LEMMA EndOrStop ==
  \A report \in Reports : Terminated(report) <=> ~WIFSTOPPED(report)
BY DEF Reports, KnownStatuses, Terminated, WIFSTOPPED, NoStatus, Stopped, Signaled, Exited

(* All members up to the i-th are heard of, the later ones are not.        *)
LEMMA MembersHeard ==
  ASSUME NEW k, NEW k2, NEW t, NEW f, NEW i, NEW ws, NEW statuses,
         Collecting(k, t, f, i), OneReport(k, k2, f, i, ws, statuses)
  PROVE  /\ f.pids \in Seq(Pids) /\ statuses \in Seq(Reports) /\ Len(statuses) = i
         /\ \A j \in 1 .. Len(f.pids) : f.pids[j] \in Pids
         /\ \A j \in 1 .. Len(f.pids) : j # i => k2[f.pids[j]] = k[f.pids[j]]
         /\ \A j \in 1 .. i : Heard(k2, f.pids[j], statuses[j])
         /\ \A j \in 1 .. i : WIFSTOPPED(statuses[j]) => ~ReapedIn(k2, f.pids[j])
         /\ \A l \in DOMAIN f.pids : l > i => Untold(k2, f.pids[l])
         /\ \A c \in Children(k2) : \/ c = f.pids[i] /\ ~ReapedIn(k2, c)
                                    \/ \E j \in i + 1 .. f.size : c = f.pids[j]
                                    \/ ~NotIn(t, c)
<1> DEFINE pids == f.pids  old == f.statuses  p == f.pids[i]
<1>1. /\ pids \in Seq(Pids) /\ old \in Seq(Reports) /\ Len(pids) = f.size
      /\ i = Len(old) + 1 /\ i \in 1 .. Len(pids)
      /\ OneToOne(pids) /\ KernelOK(k)
  BY DEF Collecting, Pipelines, KernelAndTableOK
<1>2. /\ statuses \in Seq(Reports) /\ Len(statuses) = i /\ statuses[i] = ws
      /\ \A j \in 1 .. Len(old) : statuses[j] = old[j]
  BY <1>1 DEF OneReport, OneMore
<1>3. /\ \A j \in 1 .. Len(old) : WIFSTOPPED(old[j]) => ~ReapedIn(k, pids[j])
      /\ \A j \in 1 .. Len(old) : Terminated(old[j]) => ReapedIn(k, pids[j])
      /\ \A c \in Children(k) : (\E j \in i .. f.size : c = pids[j]) \/ ~NotIn(t, c)
      /\ \A j \in i .. f.size : Untold(k, pids[j])
  BY DEF Collecting, PipelineKnown, Collected
<1>4. ws = k[p].status /\ Reported(k, k2, p)
  BY DEF OneReport
<1> HIDE DEF pids, old, p
<1>5. /\ \A j \in 1 .. Len(pids) : pids[j] \in Pids
      /\ \A j \in 1 .. Len(pids) : j # i => pids[j] # p
      /\ p = pids[i] /\ p \in Pids
  BY <1>1 DEF OneToOne, p, pids
<1>6. \A j \in 1 .. Len(pids) : j # i => k2[pids[j]] = k[pids[j]]
  BY <1>4, <1>5 DEF Reported
<1>7. Heard(k2, p, ws) /\ (WIFSTOPPED(ws) => ~ReapedIn(k2, p))
  <2>1. WIFSTOPPED(ws) => ~ReapedIn(k2, p)
    BY <1>4 DEF Reported
  <2> QED
    BY <1>4, <2>1, ReportIsHeard
<1>8. ASSUME NEW j \in 1 .. Len(old)
      PROVE  /\ Heard(k2, pids[j], statuses[j])
             /\ WIFSTOPPED(statuses[j]) => ~ReapedIn(k2, pids[j])
  <2>1. j \in 1 .. Len(pids) /\ j # i /\ old[j] \in Reports /\ statuses[j] = old[j]
    BY <1>1, <1>2
  <2>2. k2[pids[j]] = k[pids[j]]
    BY <1>6, <2>1
  <2>3. Terminated(old[j]) <=> ~WIFSTOPPED(old[j])
    BY <2>1, EndOrStop
  <2> QED
    BY <1>3, <2>1, <2>2, <2>3 DEF Heard, ReapedIn, HasStopped
<1>9. \A j \in 1 .. i : j = i \/ j \in 1 .. Len(old)
  BY <1>1
<1>10. \A j \in 1 .. i : /\ Heard(k2, pids[j], statuses[j])
                         /\ WIFSTOPPED(statuses[j]) => ~ReapedIn(k2, pids[j])
  BY <1>2, <1>5, <1>7, <1>8, <1>9
<1>11. /\ Children(k2) \subseteq Children(k)
       /\ p \in Children(k2) <=> ~ReapedIn(k2, p)
       /\ \A x \in Pids : x # p /\ Untold(k, x) => Untold(k2, x)
  BY <1>1, <1>4, <1>5, ChildrenAfterReport
<1>12. ASSUME NEW l \in DOMAIN pids, l > i
       PROVE  Untold(k2, pids[l])
  <2>1. l \in 1 .. Len(pids) /\ l \in i .. f.size /\ l # i
    BY <1>1, <1>12
  <2> QED
    BY <1>3, <1>5, <1>11, <2>1
<1>13. ASSUME NEW c \in Children(k2)
       PROVE  \/ c = p /\ ~ReapedIn(k2, c)
              \/ \E j \in i + 1 .. f.size : c = pids[j]
              \/ ~NotIn(t, c)
  <2>1. CASE c = p
    BY <1>11, <2>1
  <2>2. CASE c # p
    <3>1. (\E j \in i .. f.size : c = pids[j]) \/ ~NotIn(t, c)
      BY <1>3, <1>11
    <3>2. \A j \in i .. f.size : j # i => j \in i + 1 .. f.size
      BY <1>1
    <3> QED
      BY <1>5, <2>2, <3>1, <3>2
  <2> QED
    BY <2>1, <2>2
<1> QED
  BY <1>1, <1>2, <1>5, <1>6, <1>10, <1>12, <1>13 DEF pids, p

(* A job of the pipeline's group is the pipeline's.                        *)
LEMMA GroupIsPipeline ==
  ASSUME NEW k, NEW t, TableOK(t), GroupedJobs(k, t), NEW f, f.pids # <<>>, f.pids \in Seq(Pids),
         PipelineKnown(k, t, f), NEW a \in JobsOf(t), a.pgid = f.pids[1]
  PROVE  IsJobOf(a, f)
<1>1. 1 \in DOMAIN f.pids
  OBVIOUS
<1>2. f.pids[1] \in PidsOf(a)
  BY DEF GroupedJobs, GroupedJob
<1>3. PICK b \in JobsOf(t) : IsJobOf(b, f)
  BY <1>1, <1>2 DEF PipelineKnown, NotIn
<1>4. b = a
  BY <1>3, OneJobOfGroup DEF IsJobOf
<1> QED
  BY <1>3, <1>4

(* A member that stops makes the pipeline a job.                           *)
LEMMA MemberStops ==
  ASSUME NEW k, NEW k2, NEW t, NEW u, NEW f, NEW i, NEW ws, NEW statuses,
         Collecting(k, t, f, i), OneReport(k, k2, f, i, ws, statuses),
         WIFSTOPPED(ws), CollectsOne(t, u, f, i, ws, statuses)
  PROVE  /\ KnownJobs(k2, u)
         /\ \E b \in JobsOf(u) : IsJobOf(b, f)
         /\ \A c \in Children(k2) : (\E j \in i + 1 .. f.size : c = f.pids[j]) \/ ~NotIn(u, c)
<1> DEFINE pids == f.pids  p == f.pids[i]  g == f.pids[1]
<1>1. /\ KernelAndTableOK(k, t) /\ GroupedJobs(k, t) /\ KnownJobs(k, t) /\ TableOK(t)
      /\ OneToOne(pids) /\ (\A j \in DOMAIN pids : InGroup(k, pids[j], g))
      /\ PipelineKnown(k, t, f) /\ i \in 1 .. Len(pids)
      /\ PipelineRuns(t, u, g, pids, statuses)
  BY DEF Collecting, KernelAndTableOK, CollectsOne
<1>2. /\ pids \in Seq(Pids) /\ statuses \in Seq(Reports) /\ Len(statuses) = i
      /\ \A j \in 1 .. i : Heard(k2, pids[j], statuses[j])
      /\ \A l \in DOMAIN pids : l > i => Untold(k2, pids[l])
      /\ \A c \in Children(k2) : \/ c = p
                                 \/ \E j \in i + 1 .. f.size : c = pids[j]
                                 \/ ~NotIn(t, c)
  BY MembersHeard
<1>3. p \in Pids /\ Reported(k, k2, p) /\ ~ReapedIn(k2, p)
  BY <1>1, <1>2 DEF OneReport, Reported
<1>4. i \in DOMAIN pids /\ pids # <<>> /\ DOMAIN pids = 1 .. Len(pids) /\ p = pids[i]
  BY <1>1, <1>2
<1>5. ASSUME NEW a \in JobsOf(t), a.pgid = g
      PROVE  IsJobOf(a, f)
  BY <1>1, <1>2, <1>4, <1>5, GroupIsPipeline
<1>6. Keeps(k, k2)
  BY <1>3, ReportKeeps
<1> HIDE DEF pids, p, g
<1>7. GroupedJobs(k2, t) /\ \A j \in DOMAIN pids : InGroup(k2, pids[j], g)
  <2>1. \A j \in DOMAIN pids : pids[j] \in Pids
    BY <1>2
  <2> QED
    BY <1>1, <1>6, <2>1, GroupKept, GroupedKept
<1>8. ASSUME NEW a \in JobsOf(t), a.pgid # g
      PROVE  KnownJob(k2, a)
  <2>1. p \notin PidsOf(a)
    <3>1. InGroup(k, p, g) /\ GroupedJob(k, a)
      BY <1>1, <1>4 DEF GroupedJobs
    <3> QED
      BY <1>8, <3>1, PidsOfIs DEF GroupedJob, InGroup
  <2>2. \A x \in Pids : x # p => k2[x] = k[x]
    BY <1>3 DEF Reported
  <2>3. KnownJob(k, a) /\ a \in JobRecords
    BY <1>1, JobsTyped DEF KnownJobs, TableOK
  <2> QED
    BY <2>1, <2>2, <2>3, KnownElsewhere
<1>9. KnownJobs(k2, u) /\ \E b \in JobRecords : /\ JobsOf(u) = Others(t, g) \cup {b}
                                                /\ PipelineJob(b, g, pids)
  <2>1. PipelineHeard(k2, g, pids, statuses)
    BY <1>1, <1>2, <1>3, <1>4, <1>7 DEF PipelineHeard
  <2>2. KnowsPipeline(k2, t, u, g, pids)
    BY <1>1, <1>2, <1>7, <1>8, <2>1, PipelineKnowsAll
  <2> QED
    BY <2>2 DEF KnowsPipeline
<1>10. PICK b \in JobRecords : JobsOf(u) = Others(t, g) \cup {b} /\ PipelineJob(b, g, pids)
  BY <1>9
<1>11. IsJobOf(b, f) /\ b \in JobsOf(u)
  BY <1>10 DEF PipelineJob, IsJobOf, pids, g
<1>12. \A j \in DOMAIN pids : ~NotIn(u, pids[j])
  <2>1. \A j \in DOMAIN pids : pids[j] \in PidsOf(b)
    BY <1>10, PidsOfIs DEF PipelineJob
  <2> QED
    BY <1>11, <2>1 DEF NotIn
<1>13. ASSUME NEW c, ~NotIn(t, c)
       PROVE  ~NotIn(u, c)
  <2>1. PICK a \in JobsOf(t) : c \in PidsOf(a)
    BY <1>13 DEF NotIn
  <2>2. CASE a.pgid = g
    <3>1. PICK j \in DOMAIN a.procs : a.procs[j].pid = c
      BY <2>1, PidsOfIs
    <3>2. j \in DOMAIN pids /\ pids[j] = c
      BY <1>5, <2>2, <3>1 DEF IsJobOf, pids
    <3> QED
      BY <1>12, <3>2
  <2>3. CASE a.pgid # g
    BY <1>10, <2>1, <2>3 DEF Others, NotIn
  <2> QED
    BY <2>2, <2>3
<1>14. \A c \in Children(k2) : (\E j \in i + 1 .. f.size : c = pids[j]) \/ ~NotIn(u, c)
  BY <1>2, <1>4, <1>12, <1>13
<1> QED
  BY <1>9, <1>11, <1>14 DEF pids

(* Noting a report leaves the pipeline's job the pipeline's.               *)
LEMMA PipelineNoted ==
  ASSUME NEW t, TableOK(t), NEW u, NEW p, NEW report \in Reports, NotedIn(t, u, p, report),
         NEW f, NEW c \in JobsOf(t), IsJobOf(c, f)
  PROVE  \E b \in JobsOf(u) : IsJobOf(b, f)
<1>1. CASE u = t
  BY <1>1
<1>2. ASSUME NEW a \in JobsOf(t), NEW b \in JobRecords, Put(t, u, b), NotedJob(a, b, p, report)
      PROVE  \E d \in JobsOf(u) : IsJobOf(d, f)
  <2>1. /\ b.pgid = a.pgid /\ DOMAIN b.procs = DOMAIN a.procs
        /\ b \in JobsOf(u)
    BY <1>2 DEF NotedJob, Put
  <2>2. \A i \in DOMAIN a.procs : b.procs[i].pid = a.procs[i].pid
    <3>1. PICK l \in DOMAIN a.procs :
            /\ b.procs[l] = NotedProcess(a.procs[l], report)
            /\ \A j \in DOMAIN a.procs : j # l => b.procs[j] = a.procs[j]
      BY <1>2 DEF NotedJob
    <3>2. a.procs[l] \in Processes
      BY JobsTyped, ProcsTyped DEF TableOK
    <3> QED
      BY <3>1, <3>2, NotedTyped
  <2>3. CASE c.pgid = a.pgid
    <3>1. c = a
      BY <2>3, OneJobOfGroup
    <3> QED
      BY <2>1, <2>2, <3>1 DEF IsJobOf
  <2>4. CASE c.pgid # a.pgid
    BY <1>2, <2>1, <2>4 DEF Put, Others
  <2> QED
    BY <2>3, <2>4
<1> QED
  BY <1>1, <1>2 DEF NotedIn

(* A member that ends is noted if the pipeline is a job.                   *)
LEMMA MemberEnds ==
  ASSUME NEW k, NEW k2, NEW t, NEW u, NEW f, NEW i, NEW ws, NEW statuses,
         Collecting(k, t, f, i), OneReport(k, k2, f, i, ws, statuses),
         ~WIFSTOPPED(ws), CollectsOne(t, u, f, i, ws, statuses)
  PROVE  /\ KnownJobs(k2, u)
         /\ \/ /\ \A j \in DOMAIN f.pids : NotIn(u, f.pids[j])
               /\ \A j \in 1 .. Len(f.statuses) : ~WIFSTOPPED(f.statuses[j])
            \/ /\ \E b \in JobsOf(u) : IsJobOf(b, f)
               /\ \E j \in 1 .. Len(f.statuses) : WIFSTOPPED(f.statuses[j])
         /\ \A c \in Children(k2) : (\E j \in i + 1 .. f.size : c = f.pids[j]) \/ ~NotIn(u, c)
<1> DEFINE pids == f.pids  p == f.pids[i]  old == f.statuses
<1>1. /\ KernelAndTableOK(k, t) /\ GroupedJobs(k, t) /\ KnownJobs(k, t) /\ TableOK(t)
      /\ i \in 1 .. Len(pids) /\ i = Len(old) + 1 /\ old \in Seq(Reports)
      /\ NotedIn(t, u, p, ws)
      /\ \/ /\ \A j \in DOMAIN pids : NotIn(t, pids[j])
            /\ \A j \in 1 .. Len(old) : ~WIFSTOPPED(old[j])
         \/ /\ \E b \in JobsOf(t) : IsJobOf(b, f)
            /\ \E j \in 1 .. Len(old) : WIFSTOPPED(old[j])
  BY DEF Collecting, KernelAndTableOK, CollectsOne, PipelineKnown, Pipelines
<1>2. /\ pids \in Seq(Pids) /\ p \in Pids
      /\ \A j \in 1 .. i : WIFSTOPPED(statuses[j]) => ~ReapedIn(k2, pids[j])
      /\ \A c \in Children(k2) : \/ c = p /\ ~ReapedIn(k2, c)
                                 \/ \E j \in i + 1 .. f.size : c = pids[j]
                                 \/ ~NotIn(t, c)
  BY <1>1, MembersHeard
<1>3. ws = k[p].status /\ Reported(k, k2, p) /\ \A j \in 1 .. Len(old) : statuses[j] = old[j]
  BY DEF OneReport, OneMore
<1>4. ws \in Reports /\ Keeps(k, k2) /\ ReapedIn(k2, p)
  BY <1>2, <1>3, ReportKeeps DEF Reported
<1>5. i \in DOMAIN pids /\ DOMAIN pids = 1 .. Len(pids) /\ p = pids[i]
  BY <1>1, <1>2
<1> HIDE DEF pids, p, old
<1>6. Heeded(k2, u, p)
  BY <1>1, <1>2, <1>3, NotedHeeded
<1>7. GroupedJobs(k2, u) /\ TableOK(u)
  <2>1. GroupedJobs(k, u)
    BY <1>1, <1>4, GroupedNoted
  <2>2. KernelAndTableOK(k2, t)
    BY <1>1, <1>2, <1>3, AfterReport
  <2>3. Terminated(ws) => ReapedIn(k2, p) /\ ws = k2[p].status
    BY <1>2, <1>3, ReportIsTrue
  <2>4. KernelAndTableOK(k2, u)
    BY <1>1, <1>4, <2>2, <2>3, AfterNoting
  <2>5. TableOK(u)
    BY <2>4 DEF KernelAndTableOK
  <2> QED
    BY <1>4, <2>1, <2>5, GroupedKept
<1>8. ASSUME NEW x
      PROVE  NotIn(u, x) <=> NotIn(t, x)
  <2>1. \E q : \E report \in Reports : NotedIn(t, u, q, report)
    BY <1>1, <1>4
  <2> QED
    BY <1>1, <2>1, SamePids
<1>9. \A c \in Children(k2) : (\E j \in i + 1 .. f.size : c = pids[j]) \/ ~NotIn(u, c)
  BY <1>2, <1>4, <1>8
<1>10. CASE /\ \A j \in DOMAIN pids : NotIn(t, pids[j])
            /\ \A j \in 1 .. Len(old) : ~WIFSTOPPED(old[j])
  <2>1. \A j \in DOMAIN pids : NotIn(u, pids[j])
    BY <1>8, <1>10
  <2>2. KnownJobs(k2, u)
    BY <1>5, <1>6, <2>1 DEF Heeded, NotIn, KnownJobs
  <2> QED
    BY <1>9, <1>10, <2>1, <2>2 DEF pids, old
<1>11. ASSUME NEW c \in JobsOf(t), IsJobOf(c, f), NEW j \in 1 .. Len(old), WIFSTOPPED(old[j])
       PROVE  KnownJobs(k2, u) /\ \E b \in JobsOf(u) : IsJobOf(b, f)
  <2>1. PICK b \in JobsOf(u) : IsJobOf(b, f)
    BY <1>1, <1>4, <1>11, PipelineNoted
  <2>2. DOMAIN b.procs = DOMAIN pids /\ \A l \in DOMAIN pids : b.procs[l].pid = pids[l]
    BY <2>1 DEF IsJobOf, pids
  <2>3. p \in PidsOf(b)
    BY <1>5, <2>2, PidsOfIs
  <2>4. j \in 1 .. i /\ j \in DOMAIN pids
    BY <1>1, <1>5, <1>11
  <2>5. ~ReapedIn(k2, b.procs[j].pid) /\ j \in DOMAIN b.procs
    BY <1>2, <1>3, <1>11, <2>2, <2>4
  <2>6. KnownJob(k2, b)
    BY <1>6, <2>1, <2>5 DEF Heeded, KnownJob
  <2>7. ASSUME NEW d \in JobsOf(u)
        PROVE  KnownJob(k2, d)
    <3>1. CASE p \in PidsOf(d)
      <4>1. d = b
        BY <1>7, <2>1, <2>3, <3>1, OneJobOfPid
      <4> QED
        BY <2>6, <4>1
    <3>2. CASE p \notin PidsOf(d)
      BY <1>6, <3>2 DEF Heeded
    <3> QED
      BY <3>1, <3>2
  <2> QED
    BY <2>1, <2>7 DEF KnownJobs
<1>12. CASE /\ \E c \in JobsOf(t) : IsJobOf(c, f)
            /\ \E j \in 1 .. Len(old) : WIFSTOPPED(old[j])
  BY <1>9, <1>11, <1>12 DEF pids, old
<1> QED
  BY <1>1, <1>10, <1>12

(* Collecting a member keeps the table informed.                           *)
LEMMA OrderlyCollects ==
  ASSUME GeneralInv, GroupedAt(kernel, table, pc, frame), OrderlyAt(kernel, table, pc, frame),
         CollectMember
  PROVE  OrderlyAt(kernel', table', pc', frame')
<1> DEFINE f == frame  h == frame'  k == kernel  k2 == kernel'  t == table  u == table'
<1>1. /\ KernelAndTableOK(k, t) /\ GroupedJobs(k, t) /\ KnownJobs(k, t)
      /\ Accounted(k, t, pc, f) /\ GroupedFrame(k, pc, f)
  BY GeneralInvParts DEF GroupedAt, OrderlyAt
<1>2. pc = "collect"
  BY DEF CollectMember
<1>3. PICK i, ws, statuses :
        /\ f \in Pipelines /\ Collected(k, f)
        /\ i = Len(f.statuses) + 1 /\ i \in 1 .. Len(f.pids)
        /\ Len(f.pids) = f.size
        /\ f.pids[i] \in Pids /\ f.pids \in Seq(Pids)
        /\ ws = k[f.pids[i]].status
        /\ OneMore(f.statuses, statuses, ws)
        /\ Reported(k, k2, f.pids[i])
        /\ CollectsOne(t, u, f, i, ws, statuses)
        /\ IF i = f.size THEN Return(ws)
           ELSE pc' = "collect" /\ h = [f EXCEPT !.statuses = statuses]
                /\ UNCHANGED status
  BY CollectDoes
<1>4. \/ pc' = "prompt" /\ i = f.size
      \/ pc' = "collect" /\ h = [f EXCEPT !.statuses = statuses]
  BY <1>3 DEF Return
<1> HIDE DEF f, h, k, k2, t, u
<1>5. Collecting(k, t, f, i)
  <2>1. f.isolate /\ OneToOne(f.pids) /\ \A j \in DOMAIN f.pids : InGroup(k, f.pids[j], f.pids[1])
    BY <1>1, <1>2 DEF GroupedFrame
  <2>2. Accounted(k, t, "collect", f)
    BY <1>1, <1>2
  <2>3. /\ \A c \in Children(k) : (\E j \in i .. f.size : c = f.pids[j]) \/ ~NotIn(t, c)
        /\ \A j \in i .. f.size : Untold(k, f.pids[j])
        /\ PipelineKnown(k, t, f)
    BY <1>3, <2>2, CollectIsAccounted
  <2> QED
    BY <1>1, <1>3, <2>1, <2>3 DEF Collecting
<1>6. OneReport(k, k2, f, i, ws, statuses) /\ CollectsOne(t, u, f, i, ws, statuses)
  BY <1>3 DEF OneReport
<1>7. /\ statuses \in Seq(Reports) /\ Len(statuses) = i
      /\ \A j \in 1 .. i : WIFSTOPPED(statuses[j]) => ~ReapedIn(k2, f.pids[j])
      /\ \A l \in DOMAIN f.pids : l > i => Untold(k2, f.pids[l])
  BY <1>5, <1>6, MembersHeard
<1>8. /\ i = Len(f.statuses) + 1 /\ i \in 1 .. Len(f.pids) /\ Len(f.statuses) \in Nat
      /\ statuses[i] = ws /\ \A j \in 1 .. Len(f.statuses) : statuses[j] = f.statuses[j]
  BY <1>3, <1>7 DEF OneMore, Pipelines
<1>9. \A j \in 1 .. i : j = i \/ j \in 1 .. Len(f.statuses)
  BY <1>8
<1>10. /\ KnownJobs(k2, u)
       /\ \A c \in Children(k2) : (\E j \in i + 1 .. f.size : c = f.pids[j]) \/ ~NotIn(u, c)
       /\ \/ /\ \A j \in DOMAIN f.pids : NotIn(u, f.pids[j])
             /\ \A j \in 1 .. i : ~WIFSTOPPED(statuses[j])
          \/ /\ \E b \in JobsOf(u) : IsJobOf(b, f)
             /\ \E j \in 1 .. i : WIFSTOPPED(statuses[j])
  <2>1. CASE WIFSTOPPED(ws)
    <3>1. i \in 1 .. i
      BY <1>8
    <3>2. \E j \in 1 .. i : WIFSTOPPED(statuses[j])
      BY <1>8, <2>1, <3>1
    <3> QED
      BY <1>5, <1>6, <2>1, <3>2, MemberStops
  <2>2. CASE ~WIFSTOPPED(ws)
    <3>1. /\ KnownJobs(k2, u)
          /\ \A c \in Children(k2) : (\E j \in i + 1 .. f.size : c = f.pids[j]) \/ ~NotIn(u, c)
          /\ \/ /\ \A j \in DOMAIN f.pids : NotIn(u, f.pids[j])
                /\ \A j \in 1 .. Len(f.statuses) : ~WIFSTOPPED(f.statuses[j])
             \/ /\ \E b \in JobsOf(u) : IsJobOf(b, f)
                /\ \E j \in 1 .. Len(f.statuses) : WIFSTOPPED(f.statuses[j])
      BY <1>5, <1>6, <2>2, MemberEnds
    <3>2. \A j \in 1 .. Len(f.statuses) : j \in 1 .. i /\ statuses[j] = f.statuses[j]
      BY <1>8
    <3>3. (\A j \in 1 .. Len(f.statuses) : ~WIFSTOPPED(f.statuses[j]))
            => \A j \in 1 .. i : ~WIFSTOPPED(statuses[j])
      BY <1>8, <1>9, <2>2
    <3>4. (\E j \in 1 .. Len(f.statuses) : WIFSTOPPED(f.statuses[j]))
            => \E j \in 1 .. i : WIFSTOPPED(statuses[j])
      BY <3>2
    <3> QED
      BY <3>1, <3>3, <3>4
  <2> QED
    BY <2>1, <2>2
<1>11. CASE pc' = "prompt" /\ i = f.size
  <2>1. Settled(k2, u)
    <3>1. ~\E j \in i + 1 .. f.size : TRUE
      BY <1>8, <1>11
    <3> QED
      BY <1>10, <3>1 DEF Settled
  <2>2. Accounted(k2, u, "prompt", h)
    BY <2>1, SettledIsAccounted
  <2> QED
    BY <1>10, <1>11, <2>2 DEF OrderlyAt, k2, u, h
<1>12. CASE pc' = "collect" /\ h = [f EXCEPT !.statuses = statuses]
  <2>1. /\ h.pids = f.pids /\ h.size = f.size /\ h.executor = f.executor
        /\ h.statuses = statuses
    BY <1>3, <1>12 DEF Pipelines
  <2>2. f.executor = "text"
    BY <1>5 DEF Collecting, PipelineKnown
  <2>3. PipelineKnown(k2, u, h)
    <3>1. \A b : IsJobOf(b, h) <=> IsJobOf(b, f)
      BY <2>1 DEF IsJobOf
    <3> QED
      BY <1>7, <1>10, <2>1, <2>2, <3>1 DEF PipelineKnown
  <2>4. \A j \in Len(h.statuses) + 1 .. h.size : Untold(k2, h.pids[j])
    <3>1. \A j \in i + 1 .. f.size : j \in DOMAIN f.pids /\ j > i
      BY <1>3, <1>8
    <3> QED
      BY <1>7, <2>1, <3>1
  <2>5. \A c \in Children(k2) :
          (\E j \in Len(h.statuses) + 1 .. h.size : c = h.pids[j]) \/ ~NotIn(u, c)
    BY <1>7, <1>10, <2>1
  <2>6. Accounted(k2, u, "collect", h)
    BY <2>3, <2>4, <2>5, CollectIsAccounted
  <2> QED
    BY <1>10, <1>12, <2>6 DEF OrderlyAt, k2, u, h
<1> QED
  BY <1>4, <1>11, <1>12

-----------------------------------------------------------------------------
(* The table of an orderly session is informed.                            *)

(* Processes that move leave the accounts as they are.                     *)
LEMMA AccountedMoves ==
  ASSUME NEW k, KernelOK(k), NEW k2, Moves(k, k2), NEW t, NEW at, NEW f, FrameOK(k, at, f),
         Accounted(k, t, at, f)
  PROVE  Accounted(k2, t, at, f)
<1>1. /\ Children(k2) = Children(k)
      /\ \A p \in Pids : /\ ReapedIn(k2, p) <=> ReapedIn(k, p)
                         /\ Untold(k, p) => Untold(k2, p)
  BY MovesSettled
<1>2. at \in {"prompt", "foreground", "fork", "collect", "wait_all", "wait_pid", "wait_job"}
  BY DEF FrameOK
<1>3. CASE at \in {"prompt", "wait_all", "wait_pid"}
  BY <1>1, <1>3, SettledIsAccounted DEF Settled
<1>4. CASE at = "wait_job"
  BY <1>1, <1>4, WaitingIsAccounted DEF Settled
<1>5. CASE at = "foreground"
  <2>1. f.pid \in Pids
    BY <1>5 DEF FrameOK
  <2> QED
    BY <1>1, <1>5, <2>1, ForegroundIsAccounted
<1>6. CASE at \in {"fork", "collect"}
  <2>1. /\ f.pids \in Seq(Pids) /\ f.statuses \in Seq(Reports)
        /\ Len(f.statuses) <= Len(f.pids)
        /\ at = "collect" => Len(f.pids) = f.size
    BY <1>6 DEF FrameOK, Pipelines
  <2>2. /\ \A j \in DOMAIN f.pids : f.pids[j] \in Pids
        /\ \A j \in 1 .. Len(f.statuses) : j \in DOMAIN f.pids
        /\ at = "collect" => \A j \in Len(f.statuses) + 1 .. f.size : j \in DOMAIN f.pids
    BY <2>1
  <2>3. PipelineKnown(k, t, f)
    BY <1>6 DEF Accounted
  <2>4. PipelineKnown(k2, t, f)
    BY <1>1, <2>2, <2>3 DEF PipelineKnown
  <2>5. CASE at = "fork"
    BY <1>1, <2>2, <2>4, <2>5, ForkIsAccounted
  <2>6. CASE at = "collect"
    BY <1>1, <2>2, <2>4, <2>6, CollectIsAccounted
  <2> QED
    BY <1>6, <2>5, <2>6
<1> QED
  BY <1>2, <1>3, <1>4, <1>5, <1>6

(* What happens to the processes, of itself or by kill, the shell has yet  *)
(* to be told.                                                             *)
LEMMA OrderlyMoves ==
  ASSUME GeneralInv, OrderlyAt(kernel, table, pc, frame),
         \/ ProcessStep
         \/ \E spec \in Operands, signal \in {"STOP", "CONT", "TERM"} : Kill(spec, signal)
  PROVE  OrderlyAt(kernel', table', pc', frame')
<1>1. /\ Moves(kernel, kernel') /\ table' = table
      /\ \/ pc' = pc /\ frame' = frame
         \/ pc = "prompt" /\ pc' = "prompt"
  <2>1. CASE ProcessStep
    BY <2>1, ProcessDoes
  <2>2. ASSUME NEW spec \in Operands, NEW signal \in {"STOP", "CONT", "TERM"}, Kill(spec, signal)
        PROVE  Moves(kernel, kernel') /\ table' = table /\ pc = "prompt" /\ pc' = "prompt"
    <3>1. pc = "prompt"
      BY <2>2 DEF Kill, Command
    <3> QED
      BY <2>2, <3>1, KillDoes
  <2> QED
    BY <2>1, <2>2
<1> DEFINE f == frame  h == frame'  k == kernel  k2 == kernel'  t == table
<1>2. /\ KernelOK(k) /\ TableOK(t) /\ FrameOK(k, pc, f)
      /\ KnownJobs(k, t) /\ Accounted(k, t, pc, f) /\ Moves(k, k2)
  BY <1>1 DEF GeneralInv, OrderlyAt
<1> HIDE DEF f, h, k, k2, t
<1>3. KnownJobs(k2, t) /\ Accounted(k2, t, pc, f)
  BY <1>2, KnownMoves, AccountedMoves
<1>4. pc = "prompt" => Accounted(k2, t, "prompt", h)
  BY <1>3, SettledIsAccounted
<1> QED
  BY <1>1, <1>3, <1>4 DEF OrderlyAt, f, h, k2, t

(* What waitpid tells wait %job and fg of a member of the group: the job   *)
(* goes on being one unless all of it has ended, and then it is given up.  *)
LEMMA WaitJobKnown ==
  ASSUME NEW k, NEW t, KernelAndTableOK(k, t), GroupedJobs(k, t), KnownJobs(k, t), Settled(k, t),
         NEW k2, NEW p \in Pids, Reported(k, k2, p), NEW g, k[p].pgid = g,
         NEW v, NotedIn(t, v, p, k[p].status), NEW u,
         \/ u = v /\ \A a \in JobsOf(v) : a.pgid = g => ~job_all_done(a)
         \/ \E result : GivesUp(v, u, result, g)
  PROVE  KnownJobs(k2, u) /\ Settled(k2, u)
<1>1. KernelOK(k) /\ TableOK(t) /\ k[p].status \in Reports /\ Keeps(k, k2) /\ k2[p].pgid = g
  BY ReportKeeps DEF KernelAndTableOK, Reported
<1>2. Heeded(k2, v, p)
  BY <1>1, NotedHeeded
<1>3. GroupedJobs(k2, v) /\ TableOK(v) /\ RealIn(k2, v)
  <2>1. GroupedJobs(k, v)
    BY <1>1, GroupedNoted
  <2>2. KernelAndTableOK(k2, t)
    BY AfterReport
  <2>3. Terminated(k[p].status) => ReapedIn(k2, p) /\ k[p].status = k2[p].status
    BY ReportIsTrue
  <2>4. KernelAndTableOK(k2, v)
    BY <1>1, <2>2, <2>3, AfterNoting
  <2>5. TableOK(v) /\ RealIn(k2, v)
    BY <2>4 DEF KernelAndTableOK
  <2> QED
    BY <1>1, <2>1, <2>5, GroupedKept
<1>4. Settled(k2, v)
  <2>1. ASSUME NEW x PROVE NotIn(v, x) <=> NotIn(t, x)
    <3>1. \E q : \E report \in Reports : NotedIn(t, v, q, report)
      BY <1>1
    <3> QED
      BY <1>1, <3>1, SamePids
  <2>2. Children(k2) \subseteq Children(k)
    BY <1>1, ChildrenAfterReport
  <2> QED
    BY <2>1, <2>2 DEF Settled
<1>5. ASSUME NEW b \in JobsOf(v), p \in PidsOf(b)
      PROVE  b.pgid = g
  <2>1. GroupedJob(k2, b)
    BY <1>3 DEF GroupedJobs
  <2> QED
    BY <1>1, <1>5, <2>1, PidsOfIs DEF GroupedJob, InGroup
<1>6. CASE u = v /\ \A a \in JobsOf(v) : a.pgid = g => ~job_all_done(a)
  BY <1>2, <1>4, <1>5, <1>6 DEF Heeded, KnownJobs
<1>7. ASSUME NEW result, GivesUp(v, u, result, g)
      PROVE  KnownJobs(k2, u) /\ Settled(k2, u)
  <2>1. PICK a \in JobsOf(v) : a.pgid = g /\ job_all_done(a) /\ Drop(v, u, g)
    BY <1>7 DEF GivesUp
  <2>2. Drop(v, u, a.pgid)
    BY <2>1
  <2>3. JobsOf(u) = JobsOf(v) \ {a} /\ Settled(k2, u)
    BY <1>3, <1>4, <2>1, <2>2, DoneIsGone
  <2>4. \A b \in JobsOf(u) : p \notin PidsOf(b)
    BY <1>3, <1>5, <2>1, <2>3, OneJobOfGroup
  <2> QED
    BY <1>2, <2>3, <2>4 DEF Heeded, KnownJobs
<1> QED
  BY <1>6, <1>7

(* wait %job and fg.                                                       *)
LEMMA OrderlyWaitJob ==
  ASSUME GeneralInv, GroupedAt(kernel, table, pc, frame), OrderlyAt(kernel, table, pc, frame),
         NEW p \in Pids, WaitJobReports(p)
  PROVE  OrderlyAt(kernel', table', pc', frame')
<1> DEFINE f == frame  h == frame'  k == kernel  k2 == kernel'  t == table  u == table'
           g == frame.job.pgid  ws == kernel[p].status
<1>1. /\ KernelAndTableOK(k, t) /\ GroupedJobs(k, t) /\ KnownJobs(k, t) /\ Accounted(k, t, pc, f)
  BY GeneralInvParts DEF GroupedAt, OrderlyAt
<1>2. /\ k[p].pgid = g /\ Reported(k, k2, p) /\ pc = "wait_job"
      /\ \E v : /\ NotedIn(t, v, p, ws)
                /\ \/ /\ pc' = "wait_job" /\ h = f
                      /\ u = v
                      /\ \E a \in JobsOf(v) : a.pgid = g
                      /\ \A a \in JobsOf(v) : a.pgid = g => ~job_all_done(a)
                   \/ /\ pc' = "prompt"
                      /\ WaitJobResult(k2, v, u, g, ws, status')
  BY WaitJobDoes
<1> HIDE DEF k, k2, t, u, h
<1>3. Settled(k, t)
  BY <1>1, <1>2, WaitingIsAccounted
<1>4. PICK v : /\ NotedIn(t, v, p, ws)
               /\ \/ /\ pc' = "wait_job" /\ h = f
                     /\ u = v
                     /\ \E a \in JobsOf(v) : a.pgid = g
                     /\ \A a \in JobsOf(v) : a.pgid = g => ~job_all_done(a)
                  \/ /\ pc' = "prompt"
                     /\ WaitJobResult(k2, v, u, g, ws, status')
  BY <1>2
<1>5. \/ u = v /\ \A a \in JobsOf(v) : a.pgid = g => ~job_all_done(a)
      \/ \E result : GivesUp(v, u, result, g)
  BY <1>4 DEF WaitJobResult
<1>6. ws = k[p].status
  BY DEF k
<1> HIDE DEF f, g, ws
<1>7. KnownJobs(k2, u) /\ Settled(k2, u)
  BY <1>1, <1>2, <1>3, <1>4, <1>5, <1>6, WaitJobKnown
<1>8. CASE pc' = "prompt"
  <2>1. Accounted(k2, u, "prompt", h)
    BY <1>7, SettledIsAccounted
  <2> QED
    BY <1>7, <1>8, <2>1 DEF OrderlyAt, k2, u, h
<1>9. CASE pc' = "wait_job" /\ h = f /\ \E a \in JobsOf(u) : a.pgid = g
  <2>1. \E a \in JobsOf(u) : a.pgid = h.job.pgid
    BY <1>9 DEF g, f
  <2>2. Accounted(k2, u, "wait_job", h)
    BY <1>7, <2>1, WaitingIsAccounted
  <2> QED
    BY <1>7, <1>9, <2>2 DEF OrderlyAt, k2, u, h
<1> QED
  BY <1>4, <1>8, <1>9

(* wait, fg and bg of a job.                                               *)
LEMMA OrderlyJobs ==
  ASSUME GeneralInv, GroupedAt(kernel, table, pc, frame), OrderlyAt(kernel, table, pc, frame),
         \E spec \in Operands : StartWaitJob(spec) \/ StartFg(spec) \/ Bg(spec)
  PROVE  OrderlyAt(kernel', table', pc', frame')
<1> DEFINE h == frame'  k == kernel  k2 == kernel'  t == table  u == table'
<1>1. /\ KernelAndTableOK(k, t) /\ GroupedJobs(k, t) /\ KnownJobs(k, t)
      /\ Accounted(k, t, pc, frame) /\ TableOK(t) /\ KernelOK(k) /\ RealIn(k, t)
  BY GeneralInvParts DEF GroupedAt, OrderlyAt, KernelAndTableOK
<1>2. pc = "prompt"
  BY DEF StartWaitJob, StartFg, Bg, Command
<1>3. Settled(k, t)
  BY <1>1, <1>2, SettledIsAccounted
<1>4. ASSUME KnownJobs(k2, u), Settled(k2, u), pc' = "prompt"
      PROVE  OrderlyAt(k2, u, pc', h)
  <2> HIDE DEF k2, u, h
  <2>1. Accounted(k2, u, "prompt", h)
    BY <1>4, SettledIsAccounted
  <2> QED
    BY <1>4, <2>1 DEF OrderlyAt
<1>5. ASSUME NEW g, KnownJobs(k2, u), Settled(k2, u), pc' = "wait_job", h.job.pgid = g,
             \E a \in JobsOf(u) : a.pgid = g
      PROVE  OrderlyAt(k2, u, pc', h)
  <2> HIDE DEF k2, u, h
  <2>1. Accounted(k2, u, "wait_job", h)
    BY <1>5, WaitingIsAccounted
  <2> QED
    BY <1>5, <2>1 DEF OrderlyAt
<1>6. ASSUME NEW spec \in Operands, StartWaitJob(spec)
      PROVE  OrderlyAt(k2, u, pc', h)
  <2>1. k2 = k
    BY <1>6 DEF StartWaitJob
  <2>2. \/ u = t /\ pc' = "prompt"
        \/ \E job \in JobsOf(t) :
             /\ u = t /\ pc' = "wait_job"
             /\ h = [kind |-> "wait", job |-> [pgid |-> job.pgid, status_pid |-> job.status_pid]]
        \/ \E g : GivesUp(t, u, status', g)
    BY <1>6, StartWaitJobDoes
  <2> HIDE DEF h, k, k2, t, u
  <2>3. \A g : ~GivesUp(t, u, status', g)
    BY <1>1, KnownIsNotGivenUp
  <2>4. CASE u = t /\ pc' = "prompt"
    BY <1>1, <1>3, <1>4, <2>1, <2>4
  <2>5. ASSUME NEW job \in JobsOf(t), u = t, pc' = "wait_job",
               h = [kind |-> "wait", job |-> [pgid |-> job.pgid, status_pid |-> job.status_pid]]
        PROVE  OrderlyAt(k2, u, pc', h)
    <3>1. h.job.pgid = job.pgid
      BY <2>5
    <3> QED
      BY <1>1, <1>3, <1>5, <2>1, <2>5, <3>1
  <2> QED
    BY <2>2, <2>3, <2>4, <2>5
<1>7. ASSUME NEW spec \in Operands, StartFg(spec)
      PROVE  OrderlyAt(k2, u, pc', h)
  <2>1. PICK job \in JobsOf(t), v \in Tables :
          /\ MarkedIn(t, v, job.pgid) /\ TableOK(v)
          /\ \/ /\ k2 = k /\ u = v
                /\ ~GroupExists(k, job.pgid)
                /\ pc' = "prompt"
             \/ /\ Resumes(k, k2, job.pgid) /\ u = v
                /\ pc' = "wait_job"
                /\ h = [kind |-> "fg", job |-> [pgid |-> job.pgid, status_pid |-> job.status_pid]]
             \/ /\ Resumes(k, k2, job.pgid)
                /\ GivesUp(v, u, status', job.pgid)
    BY <1>7, StartFgDoes
  <2> HIDE DEF h, k, k2, t, u
  <2>2. KnownJobs(k2, v) /\ Settled(k2, v)
    BY <1>1, <1>3, <2>1, MarkedKnown
  <2>3. RealIn(k2, v)
    <3>1. Moves(k, k2)
      BY <1>1, <2>1, Rests DEF Resumes
    <3>2. KernelAndTableOK(k2, t)
      BY <1>1, <3>1, AfterMoves
    <3>3. KernelAndTableOK(k2, v)
      BY <2>1, <3>2, AfterMarking
    <3> QED
      BY <3>3 DEF KernelAndTableOK
  <2>4. ~GivesUp(v, u, status', job.pgid)
    BY <2>2, <2>3, KnownIsNotGivenUp
  <2>5. CASE u = v /\ pc' = "prompt"
    BY <1>4, <2>2, <2>5
  <2>6. CASE u = v /\ pc' = "wait_job"
             /\ h = [kind |-> "fg", job |-> [pgid |-> job.pgid, status_pid |-> job.status_pid]]
    <3>1. h.job.pgid = job.pgid
      BY <2>6
    <3>2. \E b \in JobsOf(v) : b.pgid = job.pgid
      BY <1>1, <2>1, JobsStay
    <3> QED
      BY <1>5, <2>2, <2>6, <3>1, <3>2
  <2> QED
    BY <2>1, <2>4, <2>5, <2>6
<1>8. ASSUME NEW spec \in Operands, Bg(spec)
      PROVE  OrderlyAt(k2, u, pc', h)
  <2>1. PICK job \in JobsOf(t) :
          /\ pc' = "prompt"
          /\ \/ k2 = k /\ u = t
             \/ /\ MarkedIn(t, u, job.pgid)
                /\ \/ k2 = k /\ ~GroupExists(k, job.pgid)
                   \/ Resumes(k, k2, job.pgid)
    BY <1>8, BgDoes
  <2> HIDE DEF h, k, k2, t, u
  <2>2. KnownJobs(k2, u) /\ Settled(k2, u)
    BY <1>1, <1>3, <2>1, MarkedKnown
  <2> QED
    BY <1>4, <2>1, <2>2
<1> QED
  BY <1>6, <1>7, <1>8

(* The commands and waits that touch neither table nor processes.          *)
LEMMA OrderlyRest ==
  ASSUME GeneralInv, OrderlyAt(kernel, table, pc, frame), session.executors = {"text"},
         \/ \E executor \in session.executors, n \in 2 .. MaxMembers, command \in Commands :
              StartPipeline(executor, n, command)
         \/ StartWaitAll
         \/ \E p \in Pids : StartWaitPid(p)
         \/ \E spec \in Operands : Refuse(spec)
         \/ WaitAllReturns \/ WaitJobLost
  PROVE  OrderlyAt(kernel', table', pc', frame')
<1> DEFINE h == frame'  k == kernel  t == table
<1>1. kernel' = k /\ table' = t /\ pc \in {"prompt", "wait_all", "wait_job"}
  BY DEF StartPipeline, StartWaitAll, StartWaitPid, Refuse, WaitAllReturns, WaitJobLost, Command
<1>2. /\ \/ pc' \in {"prompt", "wait_all", "wait_pid"}
         \/ /\ pc' = "fork" /\ h.pids = <<>> /\ h.statuses = <<>> /\ h.executor = "text"
  <2>1. ASSUME NEW executor \in session.executors, NEW n \in 2 .. MaxMembers,
               NEW command \in Commands, StartPipeline(executor, n, command)
        PROVE  pc' = "fork" /\ h.pids = <<>> /\ h.statuses = <<>> /\ h.executor = "text"
    <3>1. pc' = "fork" /\ h.pids = <<>> /\ h.statuses = <<>> /\ h.executor = executor
      BY <2>1, StartPipelineDoes
    <3> QED
      BY <3>1
  <2>2. CASE StartWaitAll \/ (\E p \in Pids : StartWaitPid(p))
    BY <2>2 DEF StartWaitAll, StartWaitPid, Start, Return
  <2>3. CASE (\E spec \in Operands : Refuse(spec)) \/ WaitAllReturns \/ WaitJobLost
    BY <2>3 DEF Refuse, WaitAllReturns, WaitJobLost, Return
  <2> QED
    BY <2>1, <2>2, <2>3
<1>3. KnownJobs(k, t) /\ Accounted(k, t, pc, frame)
  BY DEF OrderlyAt
<1> HIDE DEF h, k, t
<1>4. Settled(k, t)
  BY <1>1, <1>3, SettledIsAccounted, WaitingIsAccounted
<1>5. CASE pc' \in {"prompt", "wait_all", "wait_pid"}
  <2>1. Accounted(k, t, pc', h)
    BY <1>4, <1>5, SettledIsAccounted
  <2> QED
    BY <1>1, <1>3, <2>1 DEF OrderlyAt, h
<1>6. CASE pc' = "fork" /\ h.pids = <<>> /\ h.statuses = <<>> /\ h.executor = "text"
  <2>1. DOMAIN h.pids = {} /\ 1 .. Len(h.statuses) = {}
    BY <1>6
  <2>2. PipelineKnown(k, t, h)
    BY <1>6, <2>1 DEF PipelineKnown
  <2>3. Accounted(k, t, "fork", h)
    BY <1>4, <2>1, <2>2, ForkIsAccounted DEF Settled
  <2> QED
    BY <1>1, <1>3, <1>6, <2>3 DEF OrderlyAt, h
<1> QED
  BY <1>2, <1>5, <1>6

(* OrderlyInv is inductive on top of the two invariants before it.         *)
LEMMA OrderlyNext ==
  ASSUME GeneralInv, MonitorInv, OrderlyInv, [Next]_vars
  PROVE  OrderlyInv'
<1> SUFFICES ASSUME Orderly'
             PROVE  OrderlyAt(kernel', table', pc', frame')
  BY DEF OrderlyInv, OrderlyAt, KnownJobs
<1>1. Orderly
  BY SessionStays
<1>2. GroupedAt(kernel, table, pc, frame) /\ monitor
  BY <1>1 DEF Orderly, MonitorInv, GroupedAt, GroupedJobs
<1>3. OrderlyAt(kernel, table, pc, frame)
  BY <1>1 DEF OrderlyInv, OrderlyAt, KnownJobs
<1>4. session.executors = {"text"} /\ ~session.forksFail /\ ~session.toggles
  BY <1>1 DEF Orderly, Monitored
<1>5. CASE CommandStep
  <2>1. CASE \E on \in BOOLEAN : SetMonitor(on)
    BY <1>4, <2>1 DEF SetMonitor
  <2>2. CASE \E p \in Pids, command \in Commands :
               \/ RunAsync(p, command)
               \/ \E vfork \in BOOLEAN : RunForeground(p, command, vfork)
    BY <1>2, <1>3, <2>2, OrderlyForks
  <2>3. CASE \/ \E executor \in session.executors, n \in 2 .. MaxMembers, command \in Commands :
                  StartPipeline(executor, n, command)
             \/ StartWaitAll
             \/ \E p \in Pids : StartWaitPid(p)
             \/ \E spec \in Operands : Refuse(spec)
    BY <1>3, <1>4, <2>3, OrderlyRest
  <2>4. CASE \E spec \in Operands : StartWaitJob(spec) \/ StartFg(spec) \/ Bg(spec)
    BY <1>2, <1>3, <2>4, OrderlyJobs
  <2>5. CASE \E spec \in Operands, signal \in {"STOP", "CONT", "TERM"} : Kill(spec, signal)
    BY <1>3, <2>5, OrderlyMoves
  <2> QED
    BY <1>5, <2>1, <2>2, <2>3, <2>4, <2>5 DEF CommandStep
<1>6. CASE RunningStep
  <2>1. CASE ForegroundChanged
    BY <1>2, <1>3, <2>1, OrderlyForeground
  <2>2. CASE \E p \in Pids : ForkMember(p)
    BY <1>2, <1>3, <2>2, OrderlyForks
  <2>3. CASE ForkFails
    BY <1>4, <2>3 DEF ForkFails
  <2>4. CASE CollectMember
    BY <1>2, <1>3, <2>4, OrderlyCollects
  <2>5. CASE (\E p \in Pids : WaitAllReaps(p)) \/ WaitPidReaps
    BY <1>2, <1>3, <2>5, OrderlyWaits
  <2>6. CASE WaitAllReturns \/ WaitJobLost
    BY <1>3, <1>4, <2>6, OrderlyRest
  <2>7. CASE \E p \in Pids : WaitJobReports(p)
    BY <1>2, <1>3, <2>7, OrderlyWaitJob
  <2> QED
    BY <1>6, <2>1, <2>2, <2>3, <2>4, <2>5, <2>6, <2>7 DEF RunningStep
<1>7. CASE ProcessStep
  BY <1>3, <1>7, OrderlyMoves
<1>8. CASE UNCHANGED vars
  BY <1>3, <1>8 DEF vars
<1> QED
  BY <1>5, <1>6, <1>7, <1>8 DEF Next

(* In an orderly session the table knows all that waitpid has told: no job *)
(* has only ended processes, no end and no stop of a job's process has     *)
(* gone unnoted, and each child is a job's or in the shell's hand.         *)
THEOREM TableIsInformed == Spec => []OrderlyInv
<1>1. Init => OrderlyInv
  <2>1. SUFFICES ASSUME Init
                 PROVE  OrderlyAt(kernel, table, pc, frame)
    BY DEF OrderlyInv, OrderlyAt, KnownJobs
  <2>2. kernel = Boot(Pids) /\ table = EmptyTable /\ pc = "prompt"
    BY <2>1 DEF Init
  <2>3. JobsOf(table) = {}
    BY <2>2, EmptyTableOK
  <2>4. Children(kernel) = {}
    <3>1. \A p \in Pids : kernel[p].state = "unborn"
      BY <2>2, BootIs
    <3>2. DOMAIN kernel = Pids
      BY <2>2 DEF Boot
    <3> QED
      BY <3>1, <3>2 DEF Children
  <2>5. Accounted(kernel, table, "prompt", frame)
    BY <2>4, SettledIsAccounted DEF Settled
  <2> QED
    BY <2>2, <2>3, <2>5 DEF OrderlyAt, KnownJobs
<1> QED
  BY <1>1, OrderlyNext, GeneralInvHolds, JobsAreGroups, PTL DEF Spec

(* At the prompt of an orderly session every child is a job's and every    *)
(* job has a process that is not reaped.                                   *)
LEMMA SettledAtPrompt ==
  ASSUME GeneralInv, OrderlyInv, Orderly, pc = "prompt"
  PROVE  /\ KnownJobs(kernel, table) /\ Settled(kernel, table)
         /\ TrackedJobs = JobsOf(table) /\ DOMAIN kernel = Pids
BY SettledIsAccounted
   DEF OrderlyInv, KnownJobs, TrackedJobs, JobsOf, GeneralInv, KernelOK

(* The table never runs ahead of the kernel, and at the prompt of an       *)
(* orderly session it is not behind either: every reaped process of a job  *)
(* is done, every child whose stop was reported is in a stopped job.       *)
THEOREM TableAgrees == Spec => []TableAgreesWithKernel
<1>1. ASSUME GeneralInv, OrderlyInv
      PROVE  TableAgreesWithKernel
  <2>1. EndsAreReal
    BY <1>1, RealIsReal
  <2>2. ASSUME Orderly, pc = "prompt"
        PROVE  /\ \A job \in TrackedJobs : \A proc \in ProcessesOf(job) :
                    Reaped(proc.pid) => proc.done
               /\ \A p \in Pids :
                    kernel[p].state = "stopped" /\ ~kernel[p].unreported =>
                      \E job \in TrackedJobs : p \in PidsOf(job) /\ job.stopped
    <3>1. /\ KnownJobs(kernel, table) /\ Settled(kernel, table)
          /\ TrackedJobs = JobsOf(table) /\ DOMAIN kernel = Pids
      BY <1>1, <2>2, SettledAtPrompt
    <3>2. ASSUME NEW job \in TrackedJobs
          PROVE  Flagged(job) /\ \A i \in DOMAIN job.procs : Told(kernel, job.procs[i])
      BY <3>1 DEF KnownJobs, KnownJob, ToldJob
    <3>3. \A job \in TrackedJobs : \A proc \in ProcessesOf(job) : Reaped(proc.pid) => proc.done
      BY <3>2 DEF ProcessesOf, Told, ReapedIn, Reaped
    <3>4. ASSUME NEW p \in Pids, kernel[p].state = "stopped", ~kernel[p].unreported
          PROVE  \E job \in TrackedJobs : p \in PidsOf(job) /\ job.stopped
      <4>1. p \in Children(kernel)
        BY <3>1, <3>4 DEF Children
      <4>2. PICK job \in TrackedJobs : p \in PidsOf(job)
        BY <3>1, <4>1 DEF Settled, NotIn
      <4>3. PICK i \in DOMAIN job.procs : job.procs[i].pid = p
        BY <4>2, PidsOfIs
      <4>4. job.procs[i].stopped
        BY <3>2, <3>4, <4>3 DEF Told, HasStopped
      <4>5. ~job.procs[i].done
        <5>1. Real(kernel, job.procs[i])
          BY <1>1, <3>1, <4>2, <4>3 DEF GeneralInv, RealIn
        <5> QED
          BY <3>4, <4>3, <5>1 DEF Real, ReapedIn
      <4>6. job.stopped
        BY <3>2, <4>2, <4>3, <4>4, <4>5 DEF Flagged, job_any_stopped
      <4> QED
        BY <4>2, <4>6
    <3> QED
      BY <3>3, <3>4
  <2> QED
    BY <2>1, <2>2 DEF TableAgreesWithKernel
<1> QED
  BY <1>1, GeneralInvHolds, TableIsInformed, PTL

(* At the prompt of an orderly session no child is without a job and no    *)
(* job without a child.                                                    *)
THEOREM ChildrenAreTracked == Spec => []EveryChildIsTracked
<1>1. ASSUME GeneralInv, OrderlyInv
      PROVE  EveryChildIsTracked
  <2>1. SUFFICES ASSUME Orderly, pc = "prompt"
                 PROVE  /\ \A p \in Children(kernel) : \E job \in TrackedJobs : p \in PidsOf(job)
                        /\ \A job \in TrackedJobs : \E p \in PidsOf(job) : ~Reaped(p)
    BY DEF EveryChildIsTracked
  <2>2. /\ KnownJobs(kernel, table) /\ Settled(kernel, table)
        /\ TrackedJobs = JobsOf(table)
    BY <1>1, <2>1, SettledAtPrompt
  <2>3. ASSUME NEW job \in TrackedJobs
        PROVE  \E p \in PidsOf(job) : ~Reaped(p)
    <3>1. PICK i \in DOMAIN job.procs : ~ReapedIn(kernel, job.procs[i].pid)
      BY <2>2 DEF KnownJobs, KnownJob
    <3>2. job.procs[i].pid \in PidsOf(job)
      BY PidsOfIs
    <3> QED
      BY <3>1, <3>2 DEF ReapedIn, Reaped
  <2> QED
    BY <2>2, <2>3 DEF Settled, NotIn
<1> QED
  BY <1>1, GeneralInvHolds, TableIsInformed, PTL

(* While the shell waits for a job of an orderly session, the job's group  *)
(* has a child to wait for.                                                *)
LEMMA NotLost ==
  ASSUME GeneralInv, MonitorInv, OrderlyInv, Orderly, pc = "wait_job"
  PROVE  Members(kernel, frame.job.pgid) # {}
<1>1. /\ KernelOK(kernel) /\ TableOK(table)
      /\ \A job \in JobsOf(table) : KnownJob(kernel, job) /\ GroupedJob(kernel, job)
      /\ Accounted(kernel, table, "wait_job", frame)
  BY DEF GeneralInv, OrderlyInv, MonitorInv, Orderly
<1>2. PICK job \in JobsOf(table) : job.pgid = frame.job.pgid
  BY <1>1, WaitingIsAccounted
<1>3. PICK i \in DOMAIN job.procs : ~ReapedIn(kernel, job.procs[i].pid)
  BY <1>1 DEF KnownJob
<1> DEFINE p == job.procs[i].pid
<1>4. p \in Pids /\ DOMAIN kernel = Pids /\ kernel \in [Pids -> KernelProcesses]
  BY <1>1, <1>3, JobsTyped, ProcsTyped DEF TableOK, KernelOK
<1>5. kernel[p].state # "unborn" /\ kernel[p].pgid = frame.job.pgid /\ kernel[p].state # "reaped"
  BY <1>1, <1>2, <1>3 DEF GroupedJob, InGroup, ReapedIn
<1> HIDE DEF p
<1>6. kernel[p].state \in {"unborn", "running", "stopped", "zombie", "reaped"}
  BY <1>4, ProcessTyped
<1>7. p \in Members(kernel, frame.job.pgid)
  BY <1>4, <1>5, <1>6 DEF Members, Children
<1> QED
  BY <1>7

(* In an orderly session fg of a job it could resume returns how the job   *)
(* ended or stopped, never the failure of its own waitpid.                 *)
THEOREM FgIsInOrder == Spec => FgReportsInOrder
<1>1. ASSUME GeneralInv, MonitorInv, OrderlyInv, [Next]_vars, Orderly
      PROVE  FgWaited
  <2>1. SUFFICES ASSUME pc = "wait_job", pc' = "prompt"
                 PROVE  status'.kind # "builtin"
    BY DEF FgWaited
  <2>2. ~WaitJobLost
    BY <1>1, <2>1, NotLost DEF WaitJobLost
  <2>3. status' \in Reports \/ Terminated(status')
    BY <1>1, <2>1, <2>2, WaitingReturns
  <2> QED
    BY <2>3 DEF Reports, KnownStatuses, NoStatus, Stopped, Signaled, Exited, Terminated
<1>2. ASSUME GeneralInv, MonitorInv, OrderlyInv, [Next]_vars
      PROVE  Orderly => FgWaited
  BY <1>1, <1>2
<1> QED
  BY <1>2, GeneralInvHolds, JobsAreGroups, TableIsInformed, PTL DEF Spec, FgReportsInOrder
=============================================================================
