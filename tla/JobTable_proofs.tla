-------------------------- MODULE JobTable_proofs ---------------------------
(***************************************************************************)
(* Proofs about JobTable, for every set of pids, every bound on pipelines  *)
(* and every bound on serials.                                             *)
(*                                                                         *)
(* Core is the inductive part that every operator of Jobs preserves for    *)
(* any table.  Which jobs may have members in common (Apart) and whose     *)
(* flags are right depend on how the callers use the table, and are        *)
(* carried separately.                                                     *)
(***************************************************************************)
EXTENDS JobTable, WellFoundedInduction, TLAPS

(* What has ended ended with an exit or a signal, and the process whose    *)
(* status is the job's is one of the job's processes.                      *)
SoundJob(job) ==
  /\ job.status_pid \in PidsOf(job)
  /\ \A i \in DOMAIN job.procs : job.procs[i].done => Terminated(job.procs[i].status)

(* No job has an id or a serial that is still to be given out.             *)
BelowCounters(t) ==
  \A k \in DOMAIN t.jobs : /\ t.jobs[k].job_id < t.next_job_id
                           /\ t.jobs[k].serial < t.next_serial

Core(t) ==
  /\ t \in Tables
  /\ DistinctKeys(t)
  /\ OncePerJob(t)
  /\ BelowCounters(t)
  /\ \A k \in DOMAIN t.jobs : SoundJob(t.jobs[k])

(* The flag of a job says whether one of its processes is stopped.         *)
Agrees(job) == job.stopped = job_any_stopped(job)

-----------------------------------------------------------------------------
(* Lookups.                                                                *)

(* A set of numbers has a least one.                                       *)
LEMMA LeastOf ==
  ASSUME NEW S \in SUBSET Nat, S # {}
  PROVE  \E x \in S : \A y \in S : x <= y
<1>1. PICK x \in S : \A y \in S : ~(<<y, x>> \in OpToRel(<, Nat))
  BY NatLessThanWellFounded, WFMin
<1> DEFINE less == {p \in Nat \X Nat : p[1] < p[2]}
<1>2. OpToRel(<, Nat) = less
  BY DEF OpToRel
<1>3. \A y \in S : ~(<<y, x>> \in less)
  BY <1>1, <1>2
<1>4. ASSUME NEW y \in S PROVE x <= y
  <2>1. x \in Nat /\ y \in Nat
    OBVIOUS
  <2>2. ~(<<y, x>>[1] < <<y, x>>[2])
    BY <1>3, <2>1
  <2> QED
    BY <2>1, <2>2
<1> QED
  BY <1>4

(* The minimum of a set of numbers is one of them.                         *)
LEMMA MinIs ==
  ASSUME NEW S \in SUBSET Nat, S # {}
  PROVE  Min(S) \in S
<1>1. \E x \in S : \A y \in S : x <= y
  BY LeastOf
<1> QED
  BY <1>1, Zenon DEF Min

(* find_job_by_pgid returns the entry of that group, or 0 if there is none.*)
LEMMA PgidLookup ==
  ASSUME NEW t, Core(t), NEW g
  PROVE  /\ find_job_by_pgid(t, g) \in {0} \cup DOMAIN t.jobs
         /\ find_job_by_pgid(t, g) # 0 => t.jobs[find_job_by_pgid(t, g)].pgid = g
         /\ find_job_by_pgid(t, g) = 0 => \A k \in DOMAIN t.jobs : t.jobs[k].pgid # g
<1> DEFINE I == {i \in 1 .. Len(t.jobs) : t.jobs[i].pgid = g}
<1>1. find_job_by_pgid(t, g) = IF I # {} THEN Min(I) ELSE 0
  BY DEF find_job_by_pgid, SelectInSeq
<1>2. t.jobs \in Seq(JobRecords) /\ DOMAIN t.jobs = 1 .. Len(t.jobs)
  BY DEF Core, Tables
<1>3. I # {} => Min(I) \in I
  <2>1. I \in SUBSET Nat
    OBVIOUS
  <2> QED
    BY <2>1, MinIs
<1> QED
  BY <1>1, <1>2, <1>3

(* find_process returns the process with that pid, or 0.                   *)
LEMMA ProcessLookup ==
  ASSUME NEW t, Core(t), NEW k \in DOMAIN t.jobs, NEW pid
  PROVE  LET i == find_process(t.jobs[k], pid)
         IN  /\ i \in {0} \cup DOMAIN t.jobs[k].procs
             /\ i # 0 => t.jobs[k].procs[i].pid = pid
             /\ i = 0 <=> pid \notin PidsOf(t.jobs[k])
<1> DEFINE procs == t.jobs[k].procs
           I == {i \in 1 .. Len(procs) : procs[i].pid = pid}
<1>1. find_process(t.jobs[k], pid) = IF I # {} THEN Min(I) ELSE 0
  BY DEF find_process, SelectInSeq
<1>2. procs \in Seq(Processes) /\ DOMAIN procs = 1 .. Len(procs)
  <2>1. t.jobs[k] \in JobRecords
    BY DEF Core, Tables
  <2> QED
    BY <2>1 DEF JobRecords
<1>3. I # {} => Min(I) \in I
  <2>1. I \in SUBSET Nat
    OBVIOUS
  <2> QED
    BY <2>1, MinIs
<1>4. PidsOf(t.jobs[k]) = {procs[i].pid : i \in DOMAIN procs}
  BY DEF PidsOf
<1>5. CASE I = {}
  BY <1>1, <1>2, <1>4, <1>5
<1>6. CASE I # {}
  <2>1. PICK x \in I : Min(I) = x
    BY <1>3, <1>6, Zenon
  <2>2. find_process(t.jobs[k], pid) = x
    BY <1>1, <1>6, <2>1
  <2>3. x \in DOMAIN procs /\ procs[x].pid = pid /\ x # 0
    BY <1>2
  <2>4. pid \in PidsOf(t.jobs[k])
    BY <1>4, <2>3
  <2> QED
    BY <2>2, <2>3, <2>4
<1> QED
  BY <1>5, <1>6

(* find_job_by_pid returns a job that has the process, or 0.               *)
LEMMA PidLookup ==
  ASSUME NEW t, Core(t), NEW pid
  PROVE  LET k == find_job_by_pid(t, pid)
         IN  /\ k \in {0} \cup DOMAIN t.jobs
             /\ k # 0 => pid \in PidsOf(t.jobs[k])
             /\ k = 0 => \A l \in DOMAIN t.jobs : pid \notin PidsOf(t.jobs[l])
<1> DEFINE I == {i \in 1 .. Len(t.jobs) : find_process(t.jobs[i], pid) # 0}
<1>1. find_job_by_pid(t, pid) = IF I # {} THEN Min(I) ELSE 0
  BY DEF find_job_by_pid, SelectInSeq
<1>2. t.jobs \in Seq(JobRecords) /\ DOMAIN t.jobs = 1 .. Len(t.jobs)
  BY DEF Core, Tables
<1>3. \A i \in DOMAIN t.jobs : find_process(t.jobs[i], pid) # 0 <=> pid \in PidsOf(t.jobs[i])
  BY ProcessLookup
<1>4. I # {} => Min(I) \in I
  <2>1. I \in SUBSET Nat
    OBVIOUS
  <2> QED
    BY <2>1, MinIs
<1>5. \A i : i \in I <=> i \in DOMAIN t.jobs /\ find_process(t.jobs[i], pid) # 0
  BY <1>2
<1>6. 0 \notin DOMAIN t.jobs
  BY <1>2
<1> DEFINE k == find_job_by_pid(t, pid)
<1> HIDE DEF I, k
<1>7. CASE I = {}
  <2>1. k = 0
    BY <1>1, <1>7 DEF k
  <2> QED
    BY <1>3, <1>5, <1>7, <2>1 DEF k
<1>8. CASE I # {}
  <2>1. k \in I
    BY <1>1, <1>4, <1>8, Zenon DEF k
  <2> QED
    BY <1>3, <1>5, <1>6, <2>1 DEF k
<1> QED
  BY <1>7, <1>8

-----------------------------------------------------------------------------
(* What an update may change: one job, with its group and its id kept; the *)
(* table by one job; the table but for one job.                            *)

Same(a, b) ==
  /\ a.pgid = b.pgid
  /\ a.job_id = b.job_id
  /\ a.serial = b.serial
  /\ a.stopped = b.stopped
  /\ a.procs = b.procs

Rewrites(t, u, k) ==
  /\ DOMAIN u.jobs = DOMAIN t.jobs
  /\ u.next_job_id = t.next_job_id
  /\ \A l \in DOMAIN t.jobs : /\ u.jobs[l].pgid = t.jobs[l].pgid
                              /\ u.jobs[l].job_id = t.jobs[l].job_id
  /\ \A l \in DOMAIN t.jobs : l # k => Same(u.jobs[l], t.jobs[l])

Extends(t, u, m, g, stopped) ==
  /\ u.next_job_id = t.next_job_id + 1
  /\ m \notin DOMAIN t.jobs
  /\ DOMAIN u.jobs = DOMAIN t.jobs \cup {m}
  /\ \A l \in DOMAIN t.jobs : Same(u.jobs[l], t.jobs[l])
  /\ u.jobs[m].pgid = g
  /\ u.jobs[m].job_id = t.next_job_id
  /\ u.jobs[m].serial = t.next_serial
  /\ u.jobs[m].stopped = stopped
  /\ ~job_all_done(u.jobs[m])

Removes(t, u, k) ==
  /\ u.next_job_id = t.next_job_id
  /\ \A l \in DOMAIN u.jobs : \E m \in DOMAIN t.jobs \ {k} : u.jobs[l] = t.jobs[m]
  /\ \A m \in DOMAIN t.jobs \ {k} : \E l \in DOMAIN u.jobs : u.jobs[l] = t.jobs[m]

(* Rewriting the same job twice is rewriting it once.                      *)
LEMMA RewrittenTwice ==
  ASSUME NEW t, NEW u, NEW v, NEW k, Rewrites(t, u, k), Rewrites(u, v, k)
  PROVE  Rewrites(t, v, k)
BY DEF Rewrites, Same

-----------------------------------------------------------------------------
(* Updates keep Core.                                                      *)

(* Core is kept when one job is rewritten with the same keys and pids.     *)
LEMMA ReplaceJob ==
  ASSUME NEW t, Core(t), NEW k \in DOMAIN t.jobs, NEW job \in JobRecords,
         job.pgid = t.jobs[k].pgid,
         job.job_id = t.jobs[k].job_id,
         job.serial = t.jobs[k].serial,
         PidsOf(job) = PidsOf(t.jobs[k]),
         \A i, j \in DOMAIN job.procs : job.procs[i].pid = job.procs[j].pid => i = j,
         SoundJob(job)
  PROVE  Core([t EXCEPT !.jobs[k] = job])
<1> DEFINE u == [t EXCEPT !.jobs[k] = job]
<1>1. t \in Tables /\ t.jobs \in Seq(JobRecords)
  BY DEF Core, Tables
<1>2. /\ u.jobs = [t.jobs EXCEPT ![k] = job]
      /\ u.next_job_id = t.next_job_id
      /\ u.next_serial = t.next_serial
  BY <1>1 DEF Tables
<1>3. /\ u.jobs \in Seq(JobRecords)
      /\ DOMAIN u.jobs = DOMAIN t.jobs
      /\ \A l \in DOMAIN t.jobs : u.jobs[l] = IF l = k THEN job ELSE t.jobs[l]
  BY <1>1, <1>2
<1>4. u \in Tables
  BY <1>1, <1>2, <1>3 DEF Tables
<1>5. DistinctKeys(u)
  BY <1>3 DEF Core, DistinctKeys
<1>6. OncePerJob(u)
  BY <1>3 DEF Core, OncePerJob
<1>7. BelowCounters(u)
  BY <1>2, <1>3 DEF Core, BelowCounters
<1>8. \A l \in DOMAIN u.jobs : SoundJob(u.jobs[l])
  BY <1>3 DEF Core
<1> QED
  BY <1>4, <1>5, <1>6, <1>7, <1>8 DEF Core

(* Making a job current changes nothing but its serial.                    *)
LEMMA TouchJob ==
  ASSUME NEW t, Core(t), NEW k \in DOMAIN t.jobs
  PROVE  /\ Core(touch_job(t, k))
         /\ DOMAIN touch_job(t, k).jobs = DOMAIN t.jobs
         /\ \A l \in DOMAIN t.jobs :
              /\ touch_job(t, k).jobs[l].procs = t.jobs[l].procs
              /\ touch_job(t, k).jobs[l].stopped = t.jobs[l].stopped
         /\ Rewrites(t, touch_job(t, k), k)
         /\ touch_job(t, k).jobs[k].serial = t.next_serial
<1> DEFINE u == touch_job(t, k)
<1>1. t.jobs \in Seq(JobRecords) /\ t.next_job_id \in Nat /\ t.next_serial \in Nat
  BY DEF Core, Tables
<1>2. /\ u.jobs = [t.jobs EXCEPT ![k].serial = t.next_serial]
      /\ u.next_job_id = t.next_job_id
      /\ u.next_serial = t.next_serial + 1
      /\ u = [jobs |-> [t.jobs EXCEPT ![k].serial = t.next_serial],
              next_job_id |-> t.next_job_id, next_serial |-> t.next_serial + 1]
  BY DEF touch_job
<1> HIDE DEF u
<1>3. \A l \in DOMAIN t.jobs : t.jobs[l] \in JobRecords
  BY <1>1
<1>4. DOMAIN u.jobs = DOMAIN t.jobs
  BY <1>2
<1>5. \A l \in DOMAIN t.jobs :
        u.jobs[l] = IF l = k THEN [t.jobs[k] EXCEPT !.serial = t.next_serial] ELSE t.jobs[l]
  BY <1>2
<1>6. \A l \in DOMAIN t.jobs :
        /\ u.jobs[l] \in JobRecords
        /\ u.jobs[l].procs = t.jobs[l].procs
        /\ u.jobs[l].pgid = t.jobs[l].pgid
        /\ u.jobs[l].job_id = t.jobs[l].job_id
        /\ u.jobs[l].stopped = t.jobs[l].stopped
        /\ u.jobs[l].status_pid = t.jobs[l].status_pid
        /\ u.jobs[l].serial = IF l = k THEN t.next_serial ELSE t.jobs[l].serial
  BY <1>1, <1>3, <1>5, ZenonT(60) DEF JobRecords
<1>7. u \in Tables
  <2>1. u.jobs \in Seq(JobRecords)
    <3>1. u.jobs \in [1 .. Len(t.jobs) -> JobRecords]
      BY <1>1, <1>2, <1>6
    <3> QED
      BY <1>1, <3>1
  <2> QED
    BY <1>1, <1>2, <2>1 DEF Tables
<1>8. DistinctKeys(u)
  <2>1. \A l \in DOMAIN t.jobs : t.jobs[l].serial \in Nat /\ t.jobs[l].serial < t.next_serial
    BY <1>3 DEF Core, BelowCounters, JobRecords
  <2>2. DistinctKeys(t)
    BY DEF Core
  <2> QED
    BY <1>1, <1>4, <1>6, <2>1, <2>2 DEF DistinctKeys
<1>9. OncePerJob(u)
  <2>1. OncePerJob(t)
    BY DEF Core
  <2> QED
    BY <1>4, <1>6, <2>1 DEF OncePerJob
<1>10. BelowCounters(u)
  <2>1. \A l \in DOMAIN t.jobs : /\ t.jobs[l].serial \in Nat /\ t.jobs[l].serial < t.next_serial
                                 /\ t.jobs[l].job_id < t.next_job_id
    BY <1>3 DEF Core, BelowCounters, JobRecords
  <2> QED
    BY <1>1, <1>2, <1>4, <1>6, <2>1 DEF BelowCounters
<1>11. \A l \in DOMAIN u.jobs : SoundJob(u.jobs[l])
  BY <1>4, <1>6 DEF Core, SoundJob, PidsOf
<1>12. Rewrites(t, u, k)
  BY <1>2, <1>4, <1>6 DEF Rewrites, Same
<1> QED
  BY <1>4, <1>6, <1>7, <1>8, <1>9, <1>10, <1>11, <1>12 DEF Core, u

(* Noting a status rewrites the job of the process, whose flag is right    *)
(* then, and which becomes current when it becomes stopped.                *)
NotedJob(t, u, k) ==
  /\ k \in DOMAIN t.jobs
  /\ Rewrites(t, u, k)
  /\ u.jobs[k].stopped \in BOOLEAN
  /\ u.jobs[k].serial = IF u.jobs[k].stopped /\ ~t.jobs[k].stopped
                        THEN t.next_serial ELSE t.jobs[k].serial
  /\ PidsOf(u.jobs[k]) = PidsOf(t.jobs[k])
  /\ Agrees(u.jobs[k])

(* Noting a status keeps Core and puts right the flag of the job concerned.*)
LEMMA NoteStatusKeeps ==
  ASSUME NEW t, Core(t), NEW pid, NEW status \in Statuses
  PROVE  LET u == jobs_note_process_status(t, pid, status)
             k == find_job_by_pid(t, pid)
         IN  /\ Core(u)
             /\ k = 0 => u = t
             /\ k # 0 => NotedJob(t, u, k) /\ pid \in PidsOf(t.jobs[k])
<1> DEFINE u == jobs_note_process_status(t, pid, status)
           k == find_job_by_pid(t, pid)
           i == find_process(t.jobs[k], pid)
           job == [t.jobs[k] EXCEPT !.procs[i] = NotedProcess(@, status)]
           stopped == job_any_stopped(job)
           noted == [t EXCEPT !.jobs[k] = [job EXCEPT !.stopped = stopped]]
<1>1. u = IF k = 0 THEN t
          ELSE IF stopped /\ ~t.jobs[k].stopped THEN touch_job(noted, k) ELSE noted
  BY DEF jobs_note_process_status
<1>2. CASE k = 0
  BY <1>1, <1>2
<1>3. CASE k # 0
  <2>1. k \in DOMAIN t.jobs /\ pid \in PidsOf(t.jobs[k])
    BY <1>3, PidLookup
  <2>2. i \in DOMAIN t.jobs[k].procs /\ t.jobs[k].procs[i].pid = pid
    BY <2>1, ProcessLookup
  <2> HIDE DEF k, i
  <2>3. t.jobs[k] \in JobRecords /\ t.jobs[k].procs \in Seq(Processes)
    <3>1. t.jobs \in Seq(JobRecords)
      BY DEF Core, Tables
    <3>2. t.jobs[k] \in JobRecords
      BY <2>1, <3>1
    <3> QED
      BY <3>2 DEF JobRecords
  <2> DEFINE p == t.jobs[k].procs[i]
             q == NotedProcess(p, status)
             new == [job EXCEPT !.stopped = stopped]
  <2>4. /\ q \in Processes
        /\ q.pid = p.pid
        /\ q.done => (p.done /\ status.kind # "stopped") \/ Terminated(status)
        /\ q.status = status
    <3>1. p \in Processes
      BY <2>2, <2>3
    <3>2. WIFSTOPPED(status) \in BOOLEAN /\ Terminated(status) \in BOOLEAN
      BY DEF WIFSTOPPED, Terminated
    <3>3. p.pid \in Pids /\ p.done \in BOOLEAN
      BY <3>1 DEF Processes
    <3> HIDE DEF p
    <3>4. q \in Processes
      BY <3>2, <3>3 DEF NotedProcess, Processes
    <3> QED
      BY <3>4 DEF NotedProcess, WIFSTOPPED
  <2>5. job = [t.jobs[k] EXCEPT !.procs = [@ EXCEPT ![i] = q]]
    OBVIOUS
  <2>6. /\ job.procs = [t.jobs[k].procs EXCEPT ![i] = q]
        /\ new.procs = job.procs
        /\ new.stopped = stopped
        /\ new.pgid = t.jobs[k].pgid
        /\ new.job_id = t.jobs[k].job_id
        /\ new.serial = t.jobs[k].serial
        /\ new.status_pid = t.jobs[k].status_pid
        /\ new \in JobRecords
    <3>1. [t.jobs[k].procs EXCEPT ![i] = q] \in Seq(Processes)
      BY <2>2, <2>3, <2>4
    <3>2. stopped \in BOOLEAN
      BY DEF job_any_stopped
    <3> HIDE DEF q, stopped
    <3> QED
      BY <2>3, <2>5, <3>1, <3>2 DEF JobRecords
  <2> HIDE DEF q, new, job
  <2>7. \A j \in DOMAIN t.jobs[k].procs :
          /\ new.procs[j].pid = t.jobs[k].procs[j].pid
          /\ new.procs[j] = IF j = i THEN q ELSE t.jobs[k].procs[j]
    BY <2>2, <2>4, <2>6
  <2>8. DOMAIN new.procs = DOMAIN t.jobs[k].procs
    BY <2>6
  <2>9. PidsOf(new) = PidsOf(t.jobs[k])
    BY <2>7, <2>8 DEF PidsOf
  <2>10. \A a, b \in DOMAIN new.procs : new.procs[a].pid = new.procs[b].pid => a = b
    BY <2>1, <2>7, <2>8 DEF Core, OncePerJob
  <2>11. SoundJob(new)
    <3>1. SoundJob(t.jobs[k])
      BY <2>1 DEF Core
    <3>2. q.done => Terminated(status)
      BY <2>4 DEF Statuses, Terminated
    <3> QED
      BY <2>4, <2>6, <2>7, <2>8, <2>9, <3>1, <3>2 DEF SoundJob
  <2>12. Agrees(new)
    BY <2>6 DEF Agrees, job_any_stopped, stopped, job
  <2>13. Core(noted)
    BY <2>1, <2>6, <2>9, <2>10, <2>11, ReplaceJob DEF new
  <2>14. /\ DOMAIN noted.jobs = DOMAIN t.jobs
         /\ \A l \in DOMAIN t.jobs : noted.jobs[l] = IF l = k THEN new ELSE t.jobs[l]
    <3>1. t \in Tables
      BY DEF Core
    <3> QED
      BY <2>1, <3>1 DEF new, Tables
  <2> HIDE DEF noted
  <2>18. /\ Rewrites(t, noted, k)
         /\ noted.jobs[k].serial = t.jobs[k].serial
         /\ noted.jobs[k].stopped = stopped
         /\ noted.next_serial = t.next_serial
    <3>1. noted.next_job_id = t.next_job_id /\ noted.next_serial = t.next_serial
      <4>1. t \in Tables
        BY DEF Core
      <4> QED
        BY <4>1 DEF noted, Tables
    <3>2. noted.jobs[k] = new
      BY <2>1, <2>14
    <3> QED
      BY <2>1, <2>6, <2>14, <3>1, <3>2 DEF Rewrites, Same
  <2>19. stopped \in BOOLEAN
    BY DEF job_any_stopped
  <2> HIDE DEF stopped
  <2>20. \A v : /\ Rewrites(t, v, k) /\ v.jobs[k].procs = new.procs /\ v.jobs[k].stopped = stopped
                /\ v.jobs[k].serial = IF stopped /\ ~t.jobs[k].stopped
                                      THEN t.next_serial ELSE t.jobs[k].serial
                => NotedJob(t, v, k)
    <3>1. ASSUME NEW v, v.jobs[k].procs = new.procs, v.jobs[k].stopped = stopped
          PROVE  PidsOf(v.jobs[k]) = PidsOf(new) /\ Agrees(v.jobs[k])
      BY <2>6, <2>12, <3>1, Zenon DEF Agrees, job_any_stopped, PidsOf
    <3> QED
      BY <2>1, <2>9, <2>19, <3>1 DEF NotedJob
  <2>21. noted.jobs[k].procs = new.procs
    BY <2>1, <2>14 DEF noted
  <2>22. LET v == touch_job(noted, k)
         IN  /\ Core(v)
             /\ Rewrites(t, v, k) /\ v.jobs[k].procs = new.procs /\ v.jobs[k].stopped = stopped
             /\ v.jobs[k].serial = t.next_serial
    <3>1. k \in DOMAIN noted.jobs
      BY <2>1, <2>14
    <3> QED
      BY <2>13, <2>18, <2>21, <3>1, TouchJob, RewrittenTwice
  <2>23. NotedJob(t, u, k)
    BY <1>1, <1>3, <2>18, <2>20, <2>21, <2>22
  <2> QED
    BY <1>1, <1>3, <2>1, <2>13, <2>22, <2>23 DEF k
<1> QED
  BY <1>2, <1>3

(* A job that is resumed becomes current, and has ended if it had.         *)
ResumedJob(t, u, k) ==
  /\ k \in DOMAIN t.jobs
  /\ Rewrites(t, u, k)
  /\ u.jobs[k].serial = t.next_serial
  /\ u.jobs[k].stopped = FALSE
  /\ job_all_done(u.jobs[k]) = job_all_done(t.jobs[k])
  /\ PidsOf(u.jobs[k]) = PidsOf(t.jobs[k])
  /\ Agrees(u.jobs[k])

(* Marking a job running keeps Core and leaves the job's flag right.       *)
LEMMA MarkRunningKeeps ==
  ASSUME NEW t, Core(t), NEW pgid
  PROVE  LET u == jobs_mark_job_running(t, pgid)
             k == find_job_by_pgid(t, pgid)
         IN  /\ Core(u)
             /\ k = 0 => u = t
             /\ k # 0 => ResumedJob(t, u, k)
<1> DEFINE u == jobs_mark_job_running(t, pgid)
           k == find_job_by_pgid(t, pgid)
           procs == t.jobs[k].procs
           run == [i \in DOMAIN procs |-> [procs[i] EXCEPT !.stopped = FALSE]]
           running == [t.jobs[k] EXCEPT !.stopped = FALSE, !.procs = run]
           marked == [t EXCEPT !.jobs[k] = running]
<1>1. u = IF k = 0 THEN t ELSE touch_job(marked, k)
  BY DEF jobs_mark_job_running
<1>2. CASE k = 0
  BY <1>1, <1>2
<1>3. CASE k # 0
  <2>1. k \in DOMAIN t.jobs
    BY <1>3, PgidLookup
  <2> HIDE DEF k
  <2>2. t.jobs[k] \in JobRecords
    <3>1. t.jobs \in Seq(JobRecords)
      BY DEF Core, Tables
    <3> QED
      BY <2>1, <3>1
  <2>3. procs \in Seq(Processes)
    BY <2>2 DEF JobRecords
  <2>4. \A i \in DOMAIN procs : /\ run[i] \in Processes
                                /\ run[i].pid = procs[i].pid
                                /\ run[i].stopped = FALSE
                                /\ run[i].done = procs[i].done
                                /\ run[i].status = procs[i].status
    <3>1. \A i \in DOMAIN procs : procs[i] \in Processes
      BY <2>3
    <3> QED
      BY <3>1 DEF Processes
  <2>5. run \in Seq(Processes) /\ DOMAIN run = DOMAIN procs
    <3>1. DOMAIN procs = 1 .. Len(procs) /\ Len(procs) \in Nat
      BY <2>3
    <3>2. DOMAIN run = DOMAIN procs
      OBVIOUS
    <3> HIDE DEF run, procs
    <3>3. run \in [1 .. Len(procs) -> Processes]
      BY <2>4, <3>1, <3>2 DEF run
    <3> QED
      BY <3>1, <3>2, <3>3
  <2> HIDE DEF run
  <2>6. /\ running \in JobRecords
        /\ running.procs = run
        /\ running.stopped = FALSE
        /\ running.pgid = t.jobs[k].pgid
        /\ running.job_id = t.jobs[k].job_id
        /\ running.serial = t.jobs[k].serial
        /\ running.status_pid = t.jobs[k].status_pid
    BY <2>2, <2>5 DEF JobRecords
  <2> HIDE DEF running
  <2>7. PidsOf(running) = PidsOf(t.jobs[k])
    BY <2>4, <2>5, <2>6 DEF PidsOf
  <2>8. \A a, b \in DOMAIN running.procs :
          running.procs[a].pid = running.procs[b].pid => a = b
    BY <2>1, <2>4, <2>5, <2>6 DEF Core, OncePerJob
  <2>9. SoundJob(running)
    <3>1. SoundJob(t.jobs[k])
      BY <2>1 DEF Core
    <3> QED
      BY <2>4, <2>5, <2>6, <2>7, <3>1 DEF SoundJob, Terminated
  <2>10. Agrees(running)
    BY <2>4, <2>5, <2>6 DEF Agrees, job_any_stopped
  <2>11. Core(marked)
    BY <2>1, <2>6, <2>7, <2>8, <2>9, ReplaceJob
  <2>12. /\ DOMAIN marked.jobs = DOMAIN t.jobs
         /\ \A l \in DOMAIN t.jobs : marked.jobs[l] = IF l = k THEN running ELSE t.jobs[l]
    <3>1. t \in Tables
      BY DEF Core
    <3> QED
      BY <2>1, <3>1 DEF Tables
  <2> HIDE DEF marked
  <2> DEFINE v == touch_job(marked, k)
  <2>14. /\ Core(v)
         /\ DOMAIN v.jobs = DOMAIN marked.jobs
         /\ \A l \in DOMAIN marked.jobs : /\ v.jobs[l].procs = marked.jobs[l].procs
                                          /\ v.jobs[l].stopped = marked.jobs[l].stopped
    BY <2>1, <2>11, <2>12, TouchJob
  <2> HIDE DEF v
  <2>16. Rewrites(t, marked, k) /\ marked.next_serial = t.next_serial
    <3>1. marked.next_job_id = t.next_job_id /\ marked.next_serial = t.next_serial
      <4>1. t \in Tables
        BY DEF Core
      <4> QED
        BY <4>1 DEF marked, Tables
    <3> QED
      BY <2>1, <2>6, <2>12, <3>1 DEF Rewrites, Same
  <2>17. Rewrites(marked, v, k) /\ v.jobs[k].serial = marked.next_serial
    BY <2>1, <2>11, <2>12, TouchJob DEF v
  <2>18. v.jobs[k].procs = run /\ v.jobs[k].stopped = FALSE
    BY <2>1, <2>6, <2>12, <2>14
  <2>19. job_all_done(v.jobs[k]) = job_all_done(t.jobs[k])
    BY <2>4, <2>5, <2>18 DEF job_all_done
  <2>20. PidsOf(v.jobs[k]) = PidsOf(t.jobs[k]) /\ Agrees(v.jobs[k])
    BY <2>6, <2>7, <2>10, <2>18 DEF PidsOf, Agrees, job_any_stopped
  <2>21. ResumedJob(t, v, k)
    BY <2>1, <2>16, <2>17, <2>18, <2>19, <2>20, RewrittenTwice DEF ResumedJob
  <2> QED
    BY <1>1, <1>3, <2>14, <2>21 DEF v, k
<1> QED
  BY <1>2, <1>3

(* Forgetting a job keeps the others as they are, wherever they move to.   *)
LEMMA ForgetKeeps ==
  ASSUME NEW t, Core(t), NEW pgid
  PROVE  LET u == jobs_forget_pgid(t, pgid)
             k == find_job_by_pgid(t, pgid)
         IN  /\ Core(u)
             /\ k = 0 => u = t
             /\ k # 0 => k \in DOMAIN t.jobs /\ Removes(t, u, k)
<1> DEFINE u == jobs_forget_pgid(t, pgid)
           k == find_job_by_pgid(t, pgid)
           n == Len(t.jobs)
           from(i) == IF i = k THEN n ELSE i
           kept == [i \in 1 .. n - 1 |-> IF i = k THEN t.jobs[n] ELSE t.jobs[i]]
<1>1. u = IF k = 0 THEN t ELSE [t EXCEPT !.jobs = kept]
  BY DEF jobs_forget_pgid
<1>2. CASE k = 0
  BY <1>1, <1>2
<1>3. CASE k # 0
  <2>1. k \in DOMAIN t.jobs
    BY <1>3, PgidLookup
  <2> HIDE DEF k
  <2>2. /\ t.jobs \in Seq(JobRecords) /\ DOMAIN t.jobs = 1 .. n /\ n \in Nat
        /\ t.next_job_id \in Nat /\ t.next_serial \in Nat
    BY DEF Core, Tables
  <2>3. /\ DOMAIN kept = 1 .. n - 1
        /\ \A i \in 1 .. n - 1 : from(i) \in DOMAIN t.jobs /\ kept[i] = t.jobs[from(i)]
        /\ \A i, j \in 1 .. n - 1 : i # j => from(i) # from(j)
        /\ \A i \in 1 .. n - 1 : from(i) # k
        /\ \A m \in DOMAIN t.jobs \ {k} : \E i \in 1 .. n - 1 : from(i) = m
    <3>1. \A m \in DOMAIN t.jobs \ {k} :
            IF m = n THEN k \in 1 .. n - 1 /\ from(k) = m
                     ELSE m \in 1 .. n - 1 /\ from(m) = m
      BY <2>1, <2>2
    <3>2. \A m \in DOMAIN t.jobs \ {k} : \E i \in 1 .. n - 1 : from(i) = m
      <4> HIDE DEF from
      <4> QED
        BY <3>1
    <3> QED
      BY <2>1, <2>2, <3>2
  <2>4. kept \in Seq(JobRecords)
    <3>1. n - 1 \in Nat
      BY <2>1, <2>2
    <3>2. kept \in [1 .. n - 1 -> JobRecords]
      BY <2>2, <2>3
    <3> QED
      BY <3>1, <3>2
  <2> HIDE DEF kept, from, n
  <2>5. /\ u = [jobs |-> kept, next_job_id |-> t.next_job_id, next_serial |-> t.next_serial]
        /\ u.jobs = kept
        /\ u.next_job_id = t.next_job_id
        /\ u.next_serial = t.next_serial
    <3>1. t \in Tables
      BY DEF Core
    <3> QED
      BY <1>1, <1>3, <3>1 DEF Tables
  <2>6. u \in Tables
    BY <2>2, <2>4, <2>5 DEF Tables
  <2> HIDE DEF u
  <2>7. DistinctKeys(u)
    BY <2>3, <2>5 DEF Core, DistinctKeys
  <2>8. OncePerJob(u)
    <3>1. OncePerJob(t)
      BY DEF Core
    <3> QED
      BY <2>3, <2>5, <3>1 DEF OncePerJob
  <2>9. BelowCounters(u)
    BY <2>3, <2>5 DEF Core, BelowCounters
  <2>10. \A l \in DOMAIN u.jobs : SoundJob(u.jobs[l])
    BY <2>3, <2>5 DEF Core
  <2>11. Removes(t, u, k)
    <3>1. \A i \in DOMAIN u.jobs : /\ from(i) \in DOMAIN t.jobs \ {k}
                                   /\ u.jobs[i] = t.jobs[from(i)]
      BY <2>3, <2>5
    <3>2. \A m \in DOMAIN t.jobs \ {k} : \E i \in DOMAIN u.jobs : from(i) = m
      BY <2>3, <2>5
    <3> QED
      BY <2>5, <3>1, <3>2 DEF Removes
  <2> QED
    BY <1>3, <2>1, <2>6, <2>7, <2>8, <2>9, <2>10, <2>11 DEF Core, u, k
<1> QED
  BY <1>2, <1>3

-----------------------------------------------------------------------------
(* Tracking.                                                               *)

(* The pids of a pipeline are a nonempty sequence without repetition.      *)
LEMMA PidSeqFacts ==
  ASSUME NEW pids \in PidSeqs
  PROVE  /\ pids \in Seq(Pids)
         /\ DOMAIN pids = 1 .. Len(pids)
         /\ Len(pids) \in Nat \ {0}
         /\ \A i, j \in DOMAIN pids : pids[i] = pids[j] => i = j
<1>1. PICK n \in 1 .. MaxProcs : pids \in [1 .. n -> Pids]
  BY DEF PidSeqs
<1>2. n \in Nat \ {0}
  BY BoundsAssumption
<1>3. IsInjective(pids)
  BY DEF PidSeqs
<1> QED
  BY <1>1, <1>2, <1>3 DEF IsInjective

(* A sequence with one more element.                                       *)
LEMMA Appended ==
  ASSUME NEW X, NEW s \in Seq(X), NEW x \in X
  PROVE  /\ Append(s, x) \in Seq(X)
         /\ DOMAIN Append(s, x) = DOMAIN s \cup {Len(s) + 1}
         /\ Len(s) + 1 \notin DOMAIN s
         /\ \A i \in DOMAIN s : Append(s, x)[i] = s[i]
         /\ Append(s, x)[Len(s) + 1] = x
OBVIOUS

(* A group the table does not know gets a new entry, with new keys.        *)
NewlyTracked(t, u, pgid, pids, stopped) ==
  /\ Core(u)
  /\ \E m : /\ Extends(t, u, m, pgid, stopped)
            /\ PidsOf(u.jobs[m]) = SetOf(pids)
            /\ stopped \/ Agrees(u.jobs[m])

(* Tracking a group that the table does not hold appends a job, which      *)
(* becomes current.                                                        *)
LEMMA TrackNew ==
  ASSUME NEW t, Core(t), NEW pgid \in Pids, find_job_by_pgid(t, pgid) = 0,
         NEW pids \in PidSeqs,
         NEW status_pid \in SetOf(pids), NEW command \in Commands, NEW stopped \in BOOLEAN
  PROVE  NewlyTracked(t, jobs_track_job(t, pgid, pids, status_pid, command, stopped),
                      pgid, pids, stopped)
<1> DEFINE u == jobs_track_job(t, pgid, pids, status_pid, command, stopped)
           procs == [i \in DOMAIN pids |-> NewProcess(pids[i])]
           job == [pgid |-> pgid, job_id |-> t.next_job_id, serial |-> t.next_serial,
                   stopped |-> stopped, command |-> command, status_pid |-> status_pid,
                   procs |-> procs]
           m == Len(t.jobs) + 1
<1>1. u = [jobs |-> Append(t.jobs, job), next_job_id |-> t.next_job_id + 1,
           next_serial |-> t.next_serial + 1]
  BY DEF jobs_track_job, add_job
<1>2. /\ u.jobs = Append(t.jobs, job)
      /\ u.next_job_id = t.next_job_id + 1
      /\ u.next_serial = t.next_serial + 1
  BY <1>1
<1>3. t.jobs \in Seq(JobRecords) /\ t.next_job_id \in Nat /\ t.next_serial \in Nat
  BY DEF Core, Tables
<1>4. /\ DOMAIN procs = 1 .. Len(pids) /\ Len(pids) \in Nat
      /\ \A i \in DOMAIN pids : /\ procs[i] \in Processes /\ procs[i].pid = pids[i]
                               /\ procs[i].done = FALSE /\ procs[i].stopped = FALSE
  BY PidSeqFacts DEF NewProcess, Processes
<1>5. procs \in Seq(Processes)
  <2>1. DOMAIN pids = 1 .. Len(pids)
    BY PidSeqFacts
  <2>2. \A i \in DOMAIN pids : NewProcess(pids[i]) \in Processes
    BY <1>4
  <2>3. procs \in [DOMAIN pids -> Processes]
    BY <2>2
  <2> HIDE DEF procs
  <2> QED
    BY <1>4, <2>1, <2>3
<1>6. job \in JobRecords
  <2>1. status_pid \in Pids
    BY PidSeqFacts DEF SetOf
  <2> QED
    BY <1>3, <1>5, <2>1 DEF JobRecords
<1>7. /\ PidsOf(job) = SetOf(pids)
      /\ SoundJob(job)
      /\ ~job_any_stopped(job)
      /\ \A i, j \in DOMAIN job.procs : job.procs[i].pid = job.procs[j].pid => i = j
  <2>1. job.procs = procs /\ job.status_pid = status_pid /\ DOMAIN procs = DOMAIN pids
    OBVIOUS
  <2> HIDE DEF job, procs
  <2>2. PidsOf(job) = SetOf(pids)
    BY <1>4, <2>1 DEF PidsOf, SetOf
  <2> QED
    BY <1>4, <2>1, <2>2, PidSeqFacts DEF SoundJob, job_any_stopped
<1>8. ~job_all_done(job)
  <2>1. job.procs = procs /\ 1 \in DOMAIN pids /\ 1 \in DOMAIN procs
    BY <1>4, PidSeqFacts
  <2> HIDE DEF job, procs
  <2> QED
    BY <1>4, <2>1 DEF job_all_done
<1>18. /\ job.pgid = pgid /\ job.job_id = t.next_job_id /\ job.serial = t.next_serial
      /\ job.stopped = stopped
  OBVIOUS
<1>9. \A l \in DOMAIN t.jobs : t.jobs[l].pgid # pgid
  BY PgidLookup
<1> HIDE DEF job, procs
<1>10. /\ u.jobs \in Seq(JobRecords)
       /\ DOMAIN u.jobs = DOMAIN t.jobs \cup {m} /\ m \notin DOMAIN t.jobs
       /\ \A l \in DOMAIN t.jobs : u.jobs[l] = t.jobs[l]
       /\ u.jobs[m] = job
  BY <1>2, <1>3, <1>6, Appended
<1>11. u \in Tables
  BY <1>1, <1>2, <1>3, <1>10 DEF Tables
<1> HIDE DEF u, m
<1>12. \A l \in DOMAIN t.jobs : /\ t.jobs[l].job_id \in Nat /\ t.jobs[l].serial \in Nat
                               /\ t.jobs[l].job_id < t.next_job_id
                               /\ t.jobs[l].serial < t.next_serial
  <2>1. \A l \in DOMAIN t.jobs : t.jobs[l] \in JobRecords
    BY <1>3
  <2> QED
    BY <2>1 DEF Core, BelowCounters, JobRecords
<1>13. DistinctKeys(u)
  <2>1. DistinctKeys(t)
    BY DEF Core
  <2> QED
    BY <1>3, <1>18, <1>9, <1>10, <1>12, <2>1, SMTT(40) DEF DistinctKeys
<1>14. OncePerJob(u)
  <2>1. OncePerJob(t)
    BY DEF Core
  <2> QED
    BY <1>7, <1>10, <2>1 DEF OncePerJob
<1>15. BelowCounters(u)
  BY <1>2, <1>3, <1>18, <1>10, <1>12 DEF BelowCounters
<1>16. \A l \in DOMAIN u.jobs : SoundJob(u.jobs[l])
  BY <1>7, <1>10 DEF Core
<1>17. stopped \/ Agrees(u.jobs[m])
  <2>1. job_any_stopped(job) = FALSE
    BY <1>7 DEF job_any_stopped
  <2> QED
    BY <1>10, <1>18, <2>1 DEF Agrees
<1>19. Extends(t, u, m, pgid, stopped) /\ PidsOf(u.jobs[m]) = SetOf(pids)
  BY <1>2, <1>7, <1>8, <1>10, <1>18 DEF Extends, Same
<1> QED
  BY <1>11, <1>13, <1>14, <1>15, <1>16, <1>17, <1>19 DEF Core, u, NewlyTracked

(* An asynchronous list is a new job of one process.                       *)
LEMMA TrackAsyncKeeps ==
  ASSUME NEW t, Core(t), NEW pid \in Pids, NEW command \in Commands,
         find_job_by_pgid(t, pid) = 0
  PROVE  NewlyTracked(t, jobs_track_async(t, pid, pid, command), pid, <<pid>>, FALSE)
<1>1. <<pid>> \in PidSeqs /\ SetOf(<<pid>>) = {pid}
  <2>1. 1 \in 1 .. MaxProcs
    BY BoundsAssumption
  <2>2. <<pid>> \in [1 .. 1 -> Pids]
    OBVIOUS
  <2>3. IsInjective(<<pid>>)
    BY DEF IsInjective
  <2> QED
    BY <2>1, <2>2, <2>3 DEF PidSeqs, SetOf
<1>2. NewlyTracked(t, jobs_track_job(t, pid, <<pid>>, pid, command, FALSE), pid, <<pid>>, FALSE)
  <2>1. FALSE \in BOOLEAN /\ pid \in SetOf(<<pid>>)
    BY <1>1
  <2> QED
    BY <1>1, <2>1, TrackNew
<1> QED
  BY <1>2 DEF jobs_track_async

(* A group the table knows keeps its entry and the statuses of the members *)
(* it had, and becomes current.                                            *)
TrackedAgain(t, u, k, pids, stopped) ==
  /\ Core(u)
  /\ Rewrites(t, u, k)
  /\ u.jobs[k].serial = t.next_serial
  /\ job_all_done(u.jobs[k]) = job_all_done(t.jobs[k])
  /\ u.jobs[k].stopped = stopped
  /\ PidsOf(u.jobs[k]) = SetOf(pids)
  /\ PidsOf(t.jobs[k]) = SetOf(pids)

(* Tracking a group that it holds rewrites that job's record and no other. *)
LEMMA TrackAgain ==
  ASSUME NEW t, Core(t), NEW k \in DOMAIN t.jobs,
         NEW pids \in PidSeqs, PidsOf(t.jobs[k]) = SetOf(pids),
         NEW status_pid \in SetOf(pids), NEW command \in Commands, NEW stopped \in BOOLEAN
  PROVE  TrackedAgain(t, jobs_track_job(t, t.jobs[k].pgid, pids, status_pid, command, stopped),
                      k, pids, stopped)
<1> DEFINE u == jobs_track_job(t, t.jobs[k].pgid, pids, status_pid, command, stopped)
           procs == rebuild_job_processes(t.jobs[k], pids)
           job == [t.jobs[k] EXCEPT !.procs = procs, !.status_pid = status_pid,
                                    !.stopped = stopped, !.command = command]
           tracked == [t EXCEPT !.jobs[k] = job]
<1>1. k # 0 /\ find_job_by_pgid(t, t.jobs[k].pgid) = k
  <2>1. t.jobs \in Seq(JobRecords) /\ DOMAIN t.jobs = 1 .. Len(t.jobs)
    BY DEF Core, Tables
  <2>2. DistinctKeys(t)
    BY DEF Core
  <2> QED
    BY <2>1, <2>2, PgidLookup DEF DistinctKeys
<1>2. u = touch_job(tracked, k)
  BY <1>1 DEF jobs_track_job
<1>3. t.jobs[k] \in JobRecords
  <2>1. t.jobs \in Seq(JobRecords)
    BY DEF Core, Tables
  <2> QED
    BY <2>1
<1>4. t.jobs[k].procs \in Seq(Processes)
  BY <1>3 DEF JobRecords
<1>5. ASSUME NEW i \in DOMAIN pids
      PROVE  /\ procs[i] \in Processes
             /\ procs[i].pid = pids[i]
             /\ procs[i].done => Terminated(procs[i].status)
  <2> DEFINE old == find_process(t.jobs[k], pids[i])
  <2>1. old \in DOMAIN t.jobs[k].procs /\ old # 0 /\ t.jobs[k].procs[old].pid = pids[i]
    <3>1. pids[i] \in PidsOf(t.jobs[k])
      BY DEF SetOf
    <3> QED
      BY <3>1, ProcessLookup
  <2>2. procs[i] = t.jobs[k].procs[old]
    BY <2>1 DEF rebuild_job_processes
  <2> HIDE DEF old, procs
  <2>3. SoundJob(t.jobs[k])
    BY DEF Core
  <2> QED
    BY <1>4, <2>1, <2>2, <2>3 DEF SoundJob
<1>20. ASSUME NEW j \in DOMAIN t.jobs[k].procs
       PROVE  \E i \in DOMAIN pids : procs[i] = t.jobs[k].procs[j]
  <2>1. PICK i \in DOMAIN pids : pids[i] = t.jobs[k].procs[j].pid
    BY DEF PidsOf, SetOf
  <2> DEFINE old == find_process(t.jobs[k], pids[i])
  <2>2. old \in DOMAIN t.jobs[k].procs /\ old # 0 /\ t.jobs[k].procs[old].pid = pids[i]
    <3>1. pids[i] \in PidsOf(t.jobs[k])
      BY DEF SetOf
    <3> QED
      BY <3>1, ProcessLookup
  <2>3. procs[i] = t.jobs[k].procs[old]
    BY <2>2 DEF rebuild_job_processes
  <2> HIDE DEF old, procs
  <2>4. old = j
    BY <2>1, <2>2 DEF Core, OncePerJob
  <2> QED
    BY <2>3, <2>4
<1>21. ASSUME NEW i \in DOMAIN pids
       PROVE  \E j \in DOMAIN t.jobs[k].procs : procs[i] = t.jobs[k].procs[j]
  <2> DEFINE old == find_process(t.jobs[k], pids[i])
  <2>1. old \in DOMAIN t.jobs[k].procs /\ old # 0
    <3>1. pids[i] \in PidsOf(t.jobs[k])
      BY DEF SetOf
    <3> QED
      BY <3>1, ProcessLookup
  <2>2. procs[i] = t.jobs[k].procs[old]
    BY <2>1 DEF rebuild_job_processes
  <2> QED
    BY <2>1, <2>2
<1>6. procs \in Seq(Processes) /\ DOMAIN procs = DOMAIN pids
  <2>1. DOMAIN pids = 1 .. Len(pids) /\ Len(pids) \in Nat
    BY PidSeqFacts
  <2>2. DOMAIN procs = DOMAIN pids
    BY DEF rebuild_job_processes
  <2>3. procs \in [DOMAIN pids -> Processes]
    BY <1>5 DEF rebuild_job_processes
  <2> HIDE DEF procs
  <2> QED
    BY <2>1, <2>2, <2>3
<1> HIDE DEF procs
<1>7. /\ job \in JobRecords
      /\ job.procs = procs
      /\ job.status_pid = status_pid
      /\ job.pgid = t.jobs[k].pgid
      /\ job.job_id = t.jobs[k].job_id
      /\ job.serial = t.jobs[k].serial
      /\ job.stopped = stopped
  <2>1. status_pid \in Pids
    BY PidSeqFacts DEF SetOf
  <2> QED
    BY <1>3, <1>6, <2>1 DEF JobRecords
<1> HIDE DEF job
<1>8. PidsOf(job) = SetOf(pids)
  BY <1>5, <1>6, <1>7 DEF PidsOf, SetOf
<1>9. \A i, j \in DOMAIN job.procs : job.procs[i].pid = job.procs[j].pid => i = j
  BY <1>5, <1>6, <1>7, PidSeqFacts
<1>10. SoundJob(job)
  BY <1>5, <1>6, <1>7, <1>8 DEF SoundJob
<1>11. Core(tracked)
  BY <1>7, <1>8, <1>9, <1>10, ReplaceJob
<1>12. /\ DOMAIN tracked.jobs = DOMAIN t.jobs
       /\ \A l \in DOMAIN t.jobs : tracked.jobs[l] = IF l = k THEN job ELSE t.jobs[l]
       /\ tracked.next_job_id = t.next_job_id
       /\ tracked.next_serial = t.next_serial
  <2>1. t \in Tables
    BY DEF Core
  <2> QED
    BY <2>1 DEF Tables
<1> HIDE DEF tracked, u
<1>13. /\ Core(u)
       /\ DOMAIN u.jobs = DOMAIN tracked.jobs
       /\ \A l \in DOMAIN tracked.jobs : /\ u.jobs[l].procs = tracked.jobs[l].procs
                                         /\ u.jobs[l].stopped = tracked.jobs[l].stopped
  BY <1>2, <1>11, <1>12, TouchJob
<1>15. Rewrites(t, tracked, k)
  BY <1>7, <1>12 DEF Rewrites, Same
<1>16. Rewrites(tracked, u, k) /\ u.jobs[k].serial = t.next_serial
  BY <1>2, <1>11, <1>12, TouchJob
<1>17. /\ Rewrites(t, u, k)
       /\ u.jobs[k].stopped = stopped
       /\ u.jobs[k].procs = procs
       /\ PidsOf(u.jobs[k]) = SetOf(pids)
  BY <1>7, <1>8, <1>12, <1>13, <1>15, <1>16, RewrittenTwice DEF PidsOf
<1>18. job_all_done(u.jobs[k]) = job_all_done(t.jobs[k])
  <2>1. job_all_done(u.jobs[k]) <=> \A i \in DOMAIN pids : procs[i].done
    BY <1>6, <1>17 DEF job_all_done
  <2>2. job_all_done(t.jobs[k]) <=> \A i \in DOMAIN pids : procs[i].done
    BY <1>20, <1>21, Zenon DEF job_all_done
  <2>3. job_all_done(u.jobs[k]) \in BOOLEAN /\ job_all_done(t.jobs[k]) \in BOOLEAN
    BY DEF job_all_done
  <2> QED
    BY <2>1, <2>2, <2>3
<1> QED
  BY <1>13, <1>16, <1>17, <1>18 DEF u, TrackedAgain

-----------------------------------------------------------------------------
(* The invariant and the theorems.                                         *)

(* A status of a member is still to be noted.                              *)
Awaited(job, D) ==
  \E j \in DOMAIN D : D[j].pid \in PidsOf(job) /\ D[j].status # NoStatus

(* The flag of a job is right, or will be when what is due is noted, or is *)
(* that of one of several jobs of a pipeline.                              *)
Right(job, S, D) == PidsOf(job) \subseteq S \/ Agrees(job) \/ Awaited(job, D)

FlagsRight(t, S, D) == \A l \in DOMAIN t.jobs : Right(t.jobs[l], S, D)

Dues == [pid : Pids, status : Statuses \cup {NoStatus}]

Inv ==
  /\ Core(table)
  /\ Apart(table, shared)
  /\ FlagsRight(table, shared, due)
  /\ due \in Seq(Dues)
  /\ shared \subseteq Pids

(* Members and flag of a job are made of what Same compares.               *)
LEMMA SameJob ==
  ASSUME NEW a, NEW b, Same(a, b)
  PROVE  PidsOf(a) = PidsOf(b) /\ (Agrees(a) <=> Agrees(b))
BY Zenon DEF Same, PidsOf, Agrees, job_any_stopped

(* Rewriting a job with the same members takes none to another job.        *)
LEMMA ApartKept ==
  ASSUME NEW t, NEW u, NEW k, Rewrites(t, u, k), PidsOf(u.jobs[k]) = PidsOf(t.jobs[k]),
         NEW S, Apart(t, S)
  PROVE  Apart(u, S)
<1>1. \A l \in DOMAIN t.jobs : PidsOf(u.jobs[l]) = PidsOf(t.jobs[l])
  BY SameJob DEF Rewrites
<1>2. DOMAIN u.jobs = DOMAIN t.jobs
  BY DEF Rewrites
<1> QED
  BY <1>1, <1>2 DEF Apart

(* Rewriting a job leaves the flags of the others as they are.             *)
LEMMA OthersKept ==
  ASSUME NEW t, NEW u, NEW k, Rewrites(t, u, k), NEW S, NEW D,
         NEW l \in DOMAIN t.jobs, l # k, Right(t.jobs[l], S, D)
  PROVE  Right(u.jobs[l], S, D)
<1>1. Same(u.jobs[l], t.jobs[l])
  BY DEF Rewrites
<1>2. PidsOf(u.jobs[l]) = PidsOf(t.jobs[l]) /\ (Agrees(u.jobs[l]) <=> Agrees(t.jobs[l]))
  BY <1>1, SameJob
<1> QED
  BY <1>2 DEF Right, Awaited

(* Noting a status puts right the flag of every job with that member which *)
(* is not one of several with it.                                          *)
LEMMA NoteKeepsFlags ==
  ASSUME NEW t, Core(t), NEW S, Apart(t, S), NEW D, NEW pid, NEW status \in Statuses,
         \A l \in DOMAIN t.jobs : pid \in PidsOf(t.jobs[l]) \/ Right(t.jobs[l], S, D)
  PROVE  LET u == jobs_note_process_status(t, pid, status)
         IN  Core(u) /\ Apart(u, S) /\ FlagsRight(u, S, D)
<1> DEFINE u == jobs_note_process_status(t, pid, status)
           k == find_job_by_pid(t, pid)
<1>1. /\ Core(u)
      /\ k = 0 => u = t
      /\ k # 0 => NotedJob(t, u, k) /\ pid \in PidsOf(t.jobs[k])
  BY NoteStatusKeeps
<1>2. k = 0 => \A l \in DOMAIN t.jobs : pid \notin PidsOf(t.jobs[l])
  BY PidLookup
<1> HIDE DEF u, k
<1>3. CASE k = 0
  BY <1>1, <1>2, <1>3 DEF u, FlagsRight
<1>4. CASE k # 0
  <2>1. /\ k \in DOMAIN t.jobs /\ Rewrites(t, u, k) /\ Agrees(u.jobs[k])
        /\ PidsOf(u.jobs[k]) = PidsOf(t.jobs[k]) /\ pid \in PidsOf(t.jobs[k])
    BY <1>1, <1>4 DEF NotedJob
  <2>2. Apart(u, S)
    BY <2>1, ApartKept
  <2>3. ASSUME NEW l \in DOMAIN t.jobs
        PROVE  Right(u.jobs[l], S, D)
    <3>1. CASE l = k
      BY <2>1, <3>1 DEF Right
    <3>2. CASE l # k /\ pid \in PidsOf(t.jobs[l])
      <4>1. PidsOf(t.jobs[l]) \subseteq S
        BY <2>1, <3>2 DEF Apart
      <4>2. PidsOf(u.jobs[l]) = PidsOf(t.jobs[l])
        BY <2>1, <3>2, SameJob DEF Rewrites
      <4> QED
        BY <4>1, <4>2 DEF Right
    <3>3. CASE l # k /\ pid \notin PidsOf(t.jobs[l])
      BY <2>1, <3>3, OthersKept
    <3> QED
      BY <3>1, <3>2, <3>3
  <2>4. DOMAIN u.jobs = DOMAIN t.jobs
    BY <2>1 DEF Rewrites
  <2> QED
    BY <1>1, <2>2, <2>3, <2>4 DEF u, FlagsRight
<1> QED
  BY <1>3, <1>4

(* A new job is right if it runs or its stop is due, and the others stay   *)
(* so for any larger set of shared members.                                *)
LEMMA NewJobRight ==
  ASSUME NEW t, NEW u, NEW g, NEW pids, NEW stopped, NEW S, NEW R, NEW D, NEW E,
         NewlyTracked(t, u, g, pids, stopped), FlagsRight(t, S, D), D = <<>>,
         \A l \in DOMAIN t.jobs : PidsOf(t.jobs[l]) \subseteq S => PidsOf(t.jobs[l]) \subseteq R,
         stopped => \E j \in DOMAIN E : E[j].pid \in SetOf(pids) /\ E[j].status # NoStatus
  PROVE  FlagsRight(u, R, E)
<1>1. PICK m : /\ Extends(t, u, m, g, stopped) /\ PidsOf(u.jobs[m]) = SetOf(pids)
               /\ stopped \/ Agrees(u.jobs[m])
  BY DEF NewlyTracked
<1>2. Right(u.jobs[m], R, E)
  BY <1>1 DEF Right, Awaited
<1>3. ASSUME NEW l \in DOMAIN t.jobs
      PROVE  Right(u.jobs[l], R, E)
  <2>1. PidsOf(u.jobs[l]) = PidsOf(t.jobs[l]) /\ (Agrees(u.jobs[l]) <=> Agrees(t.jobs[l]))
    BY <1>1, SameJob DEF Extends
  <2>2. PidsOf(t.jobs[l]) \subseteq S \/ Agrees(t.jobs[l])
    BY DEF FlagsRight, Right, Awaited
  <2> QED
    BY <2>1, <2>2 DEF Right
<1> QED
  BY <1>1, <1>2, <1>3 DEF Extends, FlagsRight

(* A job of new members has none in common with another.                   *)
LEMMA NewMembersApart ==
  ASSUME NEW t, NEW u, NEW g, NEW pids, NEW stopped, NEW S, Apart(t, S),
         NewlyTracked(t, u, g, pids, stopped),
         \A l \in DOMAIN t.jobs : PidsOf(t.jobs[l]) \cap SetOf(pids) = {}
  PROVE  Apart(u, S \ SetOf(pids))
<1>1. PICK m : Extends(t, u, m, g, stopped) /\ PidsOf(u.jobs[m]) = SetOf(pids)
  BY DEF NewlyTracked
<1>2. \A l \in DOMAIN t.jobs : PidsOf(u.jobs[l]) = PidsOf(t.jobs[l])
  BY <1>1, SameJob DEF Extends
<1>3. DOMAIN u.jobs = DOMAIN t.jobs \cup {m}
  BY <1>1 DEF Extends
<1> SUFFICES ASSUME NEW k \in DOMAIN u.jobs, NEW l \in DOMAIN u.jobs, k # l
             PROVE  \/ PidsOf(u.jobs[k]) \cap PidsOf(u.jobs[l]) = {}
                    \/ /\ PidsOf(u.jobs[k]) = PidsOf(u.jobs[l])
                       /\ PidsOf(u.jobs[k]) \subseteq S \ SetOf(pids)
  BY Zenon DEF Apart
<1>4. CASE k # m /\ l # m
  <2>1. k \in DOMAIN t.jobs /\ l \in DOMAIN t.jobs
    BY <1>3, <1>4
  <2>2. \/ PidsOf(t.jobs[k]) \cap PidsOf(t.jobs[l]) = {}
        \/ PidsOf(t.jobs[k]) = PidsOf(t.jobs[l]) /\ PidsOf(t.jobs[k]) \subseteq S
    BY <2>1, Zenon DEF Apart
  <2> QED
    BY <1>2, <2>1, <2>2
<1>5. CASE k = m \/ l = m
  BY <1>1, <1>2, <1>3, <1>5
<1> QED
  BY <1>4, <1>5

(* A second job of the same members shares them, and only them.            *)
LEMMA SameMembersApart ==
  ASSUME NEW t, NEW u, NEW g, NEW pids, NEW stopped, NEW S, Apart(t, S),
         NewlyTracked(t, u, g, pids, stopped),
         NEW h \in DOMAIN t.jobs, PidsOf(t.jobs[h]) = SetOf(pids)
  PROVE  Apart(u, S \cup SetOf(pids))
<1>1. PICK m : Extends(t, u, m, g, stopped) /\ PidsOf(u.jobs[m]) = SetOf(pids)
  BY DEF NewlyTracked
<1>2. \A l \in DOMAIN t.jobs : PidsOf(u.jobs[l]) = PidsOf(t.jobs[l])
  BY <1>1, SameJob DEF Extends
<1>3. DOMAIN u.jobs = DOMAIN t.jobs \cup {m}
  BY <1>1 DEF Extends
<1>4. ASSUME NEW l \in DOMAIN t.jobs
      PROVE  \/ PidsOf(t.jobs[l]) \cap SetOf(pids) = {}
             \/ PidsOf(t.jobs[l]) = SetOf(pids)
  <2>1. CASE l = h
    BY <2>1
  <2>2. CASE l # h
    BY <2>2 DEF Apart
  <2> QED
    BY <2>1, <2>2
<1> SUFFICES ASSUME NEW k \in DOMAIN u.jobs, NEW l \in DOMAIN u.jobs, k # l
             PROVE  \/ PidsOf(u.jobs[k]) \cap PidsOf(u.jobs[l]) = {}
                    \/ /\ PidsOf(u.jobs[k]) = PidsOf(u.jobs[l])
                       /\ PidsOf(u.jobs[k]) \subseteq S \cup SetOf(pids)
  BY Zenon DEF Apart
<1>5. CASE k # m /\ l # m
  <2>1. k \in DOMAIN t.jobs /\ l \in DOMAIN t.jobs
    BY <1>3, <1>5
  <2>2. \/ PidsOf(t.jobs[k]) \cap PidsOf(t.jobs[l]) = {}
        \/ PidsOf(t.jobs[k]) = PidsOf(t.jobs[l]) /\ PidsOf(t.jobs[k]) \subseteq S
    BY <2>1, Zenon DEF Apart
  <2> QED
    BY <1>2, <2>1, <2>2
<1>6. CASE k = m \/ l = m
  BY <1>1, <1>2, <1>3, <1>4, <1>6
<1> QED
  BY <1>5, <1>6

(* A new child is in no job and no group of the table.                     *)
LEMMA FreshFacts ==
  ASSUME Core(table), NEW pids, \A j \in DOMAIN pids : FreshPid(pids[j])
  PROVE  \A l \in DOMAIN table.jobs : PidsOf(table.jobs[l]) \cap SetOf(pids) = {}
BY PidLookup DEF FreshPid, SetOf

(* What a caller has collected of the first members of a pipeline.         *)
LEMMA StatusSeqFacts ==
  ASSUME NEW pids \in PidSeqs, NEW statuses \in StatusSeqs(pids)
  PROVE  /\ Len(statuses) \in DOMAIN pids
         /\ DOMAIN statuses = 1 .. Len(statuses)
         /\ statuses \in Seq(Statuses \cup {NoStatus})
         /\ Len(statuses) \in DOMAIN statuses
         /\ DOMAIN statuses \subseteq DOMAIN pids
<1>1. PICK i \in DOMAIN pids : statuses \in [1 .. i -> Statuses \cup {NoStatus}]
  BY DEF StatusSeqs
<1>2. DOMAIN pids = 1 .. Len(pids) /\ Len(pids) \in Nat
  BY PidSeqFacts
<1>3. i \in Nat /\ i >= 1 /\ i <= Len(pids)
  BY <1>2
<1> QED
  BY <1>1, <1>2, <1>3

(* What tracking a stopped pipeline makes of the table: a job that was not *)
(* there, or one that was with the same members.                           *)
LEMMA StopTracked ==
  ASSUME Core(table), NEW pids \in PidSeqs, NEW isolate \in BOOLEAN, NEW command \in Commands,
         NEW statuses \in StatusSeqs(pids), TrackStopped(pids, statuses, isolate, command)
  PROVE  LET g == JobGroup(pids, Len(statuses), isolate)
         IN  /\ g \in Pids
             /\ \/ /\ NewlyTracked(table, table', g, pids, TRUE)
                   /\ \A j \in DOMAIN pids : FreshPid(pids[j])
                   /\ shared' = shared \ SetOf(pids)
                \/ /\ NewlyTracked(table, table', g, pids, TRUE)
                   /\ \E h \in DOMAIN table.jobs : PidsOf(table.jobs[h]) = SetOf(pids)
                   /\ shared' = shared \cup SetOf(pids)
                \/ /\ \E k \in DOMAIN table.jobs :
                        table.jobs[k].pgid = g /\ TrackedAgain(table, table', k, pids, TRUE)
                   /\ shared' = shared
<1> DEFINE i == Len(statuses)
           g == JobGroup(pids, i, isolate)
           last == pids[Len(pids)]
<1>1. /\ i \in DOMAIN pids /\ 1 \in DOMAIN pids
      /\ pids \in Seq(Pids) /\ last \in SetOf(pids)
  BY PidSeqFacts, StatusSeqFacts DEF SetOf
<1>2. g \in Pids /\ \E j \in DOMAIN pids : g = pids[j]
  BY <1>1 DEF JobGroup
<1>3. table' = jobs_track_job(table, g, pids, last, command, TRUE)
  BY DEF TrackStopped
<1>4. shared' = IF \A j \in DOMAIN pids : FreshPid(pids[j]) THEN shared \ SetOf(pids)
                ELSE IF isolate THEN shared ELSE shared \cup SetOf(pids)
  BY DEF TrackStopped
<1>5. NowStopped(pids, statuses, isolate)
  BY DEF TrackStopped
<1>6. ASSUME find_job_by_pgid(table, g) = 0
      PROVE  NewlyTracked(table, table', g, pids, TRUE)
  <2>1. TRUE \in BOOLEAN
    OBVIOUS
  <2> HIDE DEF g, last
  <2> QED
    BY <1>1, <1>2, <1>3, <1>6, <2>1, TrackNew
<1> DEFINE earlier == {j \in 1 .. i - 1 : WIFSTOPPED(statuses[j])}
           Tracked(f) == \E k \in DOMAIN table.jobs :
                           table.jobs[k].pgid = f /\ PidsOf(table.jobs[k]) = SetOf(pids)
<1>7. IF earlier = {} THEN \A j \in DOMAIN pids : FreshPid(pids[j])
      ELSE /\ \A j \in earlier : Tracked(JobGroup(pids, j, isolate))
           /\ ~isolate => find_job_by_pgid(table, pids[i]) = 0
  BY <1>5 DEF NowStopped
<1> HIDE DEF g, earlier, i, last
<1>8. CASE \A j \in DOMAIN pids : FreshPid(pids[j])
  <2>1. find_job_by_pgid(table, g) = 0
    BY <1>2, <1>8 DEF FreshPid
  <2> QED
    BY <1>2, <1>4, <1>6, <1>8, <2>1 DEF g, i
<1>9. CASE ~(\A j \in DOMAIN pids : FreshPid(pids[j]))
  <2>1. /\ \E j : Tracked(JobGroup(pids, j, isolate))
        /\ ~isolate => find_job_by_pgid(table, pids[i]) = 0
    BY <1>7, <1>9
  <2>2. CASE isolate
    <3>1. \A j : JobGroup(pids, j, isolate) = g
      BY <2>2 DEF g, JobGroup
    <3>2. PICK k \in DOMAIN table.jobs : /\ table.jobs[k].pgid = g
                                         /\ PidsOf(table.jobs[k]) = SetOf(pids)
      BY <2>1, <3>1
    <3> DEFINE w == jobs_track_job(table, table.jobs[k].pgid, pids, last, command, TRUE)
    <3>3. TrackedAgain(table, w, k, pids, TRUE)
      <4>1. TRUE \in BOOLEAN
        OBVIOUS
      <4> QED
        BY <1>1, <3>2, <4>1, TrackAgain
    <3>4. table' = w
      BY <1>3, <3>2
    <3> HIDE DEF w
    <3>5. TrackedAgain(table, table', k, pids, TRUE)
      BY <3>3, <3>4
    <3> QED
      BY <1>2, <1>4, <1>9, <2>2, <3>2, <3>5 DEF g, i
  <2>3. CASE ~isolate
    <3>1. g = pids[i]
      BY <2>3 DEF g, JobGroup
    <3>2. \E h \in DOMAIN table.jobs : PidsOf(table.jobs[h]) = SetOf(pids)
      BY <2>1
    <3>3. NewlyTracked(table, table', g, pids, TRUE)
      BY <1>6, <2>1, <2>3, <3>1
    <3> QED
      BY <1>2, <1>4, <1>9, <2>3, <3>2, <3>3 DEF g, i
  <2> QED
    BY <2>2, <2>3
<1> QED
  BY <1>8, <1>9

(* The empty table satisfies the invariant.                                *)
LEMMA Initial == Init => Inv
<1> SUFFICES ASSUME Init PROVE Inv
  OBVIOUS
<1>1. /\ table.jobs = <<>> /\ DOMAIN table.jobs = {} /\ table \in Tables
      /\ due \in Seq(Dues) /\ shared \subseteq Pids
  BY DEF Init, EmptyTable, Tables
<1>2. Core(table)
  BY <1>1 DEF Core, DistinctKeys, OncePerJob, BelowCounters
<1> QED
  BY <1>1, <1>2 DEF Inv, Apart, FlagsRight

(* Tracking a stopped pipeline leaves its flag to be confirmed by the      *)
(* notes that are due.                                                     *)
LEMMA TrackStoppedKeeps ==
  ASSUME Inv, NEW pids \in PidSeqs, NEW isolate \in BOOLEAN, NEW command \in Commands,
         NEW statuses \in StatusSeqs(pids), TrackStopped(pids, statuses, isolate, command)
  PROVE  Inv'
<1> DEFINE i == Len(statuses)
           g == JobGroup(pids, i, isolate)
<1>1. /\ i \in DOMAIN pids /\ i \in DOMAIN statuses
      /\ DOMAIN statuses = 1 .. i /\ i \in Nat
      /\ \A j \in DOMAIN statuses : statuses[j] \in Statuses \cup {NoStatus} /\ pids[j] \in Pids
      /\ SetOf(pids) \subseteq Pids
  BY PidSeqFacts, StatusSeqFacts DEF SetOf
<1>2. /\ due' = [j \in DOMAIN statuses |-> [pid |-> pids[j], status |-> statuses[j]]]
      /\ due = <<>>
      /\ WIFSTOPPED(statuses[i])
  BY DEF TrackStopped, Quiet, NowStopped
<1> HIDE DEF i
<1>3. due' \in Seq(Dues)
  <2>1. due' \in [1 .. i -> Dues]
    BY <1>1, <1>2 DEF Dues
  <2> QED
    BY <1>1, <2>1
<1>4. \E j \in DOMAIN due' : due'[j].pid \in SetOf(pids) /\ due'[j].status # NoStatus
  <2>1. statuses[i] # NoStatus
    BY <1>2 DEF WIFSTOPPED, NoStatus
  <2>2. i \in DOMAIN due' /\ due'[i].pid = pids[i] /\ due'[i].status = statuses[i]
    BY <1>1, <1>2
  <2> QED
    BY <1>1, <2>1, <2>2 DEF SetOf
<1>5. /\ Core(table) /\ Apart(table, shared) /\ FlagsRight(table, shared, due)
      /\ shared \subseteq Pids
  BY DEF Inv
<1>6. CASE /\ NewlyTracked(table, table', g, pids, TRUE)
           /\ \A j \in DOMAIN pids : FreshPid(pids[j])
           /\ shared' = shared \ SetOf(pids)
  <2>1. \A l \in DOMAIN table.jobs : PidsOf(table.jobs[l]) \cap SetOf(pids) = {}
    BY <1>5, <1>6, FreshFacts
  <2> HIDE DEF g
  <2>2. Apart(table', shared \ SetOf(pids))
    BY <1>5, <1>6, <2>1, NewMembersApart
  <2>3. FlagsRight(table', shared \ SetOf(pids), due')
    BY <1>2, <1>4, <1>5, <1>6, <2>1, NewJobRight
  <2>4. Core(table')
    BY <1>6 DEF NewlyTracked
  <2> QED
    BY <1>3, <1>5, <1>6, <2>2, <2>3, <2>4 DEF Inv
<1>7. CASE /\ NewlyTracked(table, table', g, pids, TRUE)
           /\ \E h \in DOMAIN table.jobs : PidsOf(table.jobs[h]) = SetOf(pids)
           /\ shared' = shared \cup SetOf(pids)
  <2> HIDE DEF g
  <2>1. Apart(table', shared \cup SetOf(pids))
    BY <1>5, <1>7, SameMembersApart
  <2>2. FlagsRight(table', shared \cup SetOf(pids), due')
    <3>1. \A l \in DOMAIN table.jobs : PidsOf(table.jobs[l]) \subseteq shared
            => PidsOf(table.jobs[l]) \subseteq shared \cup SetOf(pids)
      OBVIOUS
    <3> QED
      BY <1>2, <1>4, <1>5, <1>7, <3>1, NewJobRight
  <2>3. Core(table')
    BY <1>7 DEF NewlyTracked
  <2> QED
    BY <1>1, <1>3, <1>5, <1>7, <2>1, <2>2, <2>3 DEF Inv
<1>8. CASE /\ \E k \in DOMAIN table.jobs :
                table.jobs[k].pgid = g /\ TrackedAgain(table, table', k, pids, TRUE)
           /\ shared' = shared
  <2>1. PICK k \in DOMAIN table.jobs : TrackedAgain(table, table', k, pids, TRUE)
    BY <1>8
  <2>2. /\ Core(table') /\ Rewrites(table, table', k)
        /\ PidsOf(table'.jobs[k]) = SetOf(pids) /\ PidsOf(table.jobs[k]) = SetOf(pids)
    BY <2>1 DEF TrackedAgain
  <2>3. Apart(table', shared)
    BY <1>5, <2>2, ApartKept
  <2>4. ASSUME NEW l \in DOMAIN table.jobs
        PROVE  Right(table'.jobs[l], shared, due')
    <3>1. CASE l = k
      BY <1>4, <2>2, <3>1 DEF Right, Awaited
    <3>2. CASE l # k
      <4>1. Right(table.jobs[l], shared, due')
        BY <1>2, <1>5 DEF FlagsRight, Right, Awaited
      <4> QED
        BY <2>2, <3>2, <4>1, OthersKept
    <3> QED
      BY <3>1, <3>2
  <2>5. DOMAIN table'.jobs = DOMAIN table.jobs
    BY <2>2 DEF Rewrites
  <2>6. FlagsRight(table', shared, due')
    BY <2>4, <2>5 DEF FlagsRight
  <2> QED
    BY <1>3, <1>5, <1>8, <2>2, <2>3, <2>6 DEF Inv
<1> QED
  BY <1>5, <1>6, <1>7, <1>8, StopTracked DEF g, i

(* A status that was due is noted.                                         *)
LEMMA NoteDueKeeps ==
  ASSUME Inv, NoteDue
  PROVE  Inv'
<1> DEFINE pid == Head(due).pid
           status == Head(due).status
<1>1. /\ due \in Seq(Dues) /\ due # <<>>
      /\ Core(table) /\ Apart(table, shared) /\ FlagsRight(table, shared, due)
      /\ shared \subseteq Pids
  BY DEF Inv, NoteDue, Quiet
<1>2. /\ Head(due) = due[1] /\ Head(due) \in Dues /\ Tail(due) \in Seq(Dues)
      /\ \A j \in DOMAIN due : j = 1 \/ (j - 1 \in DOMAIN Tail(due) /\ Tail(due)[j - 1] = due[j])
  BY <1>1
<1>3. /\ table' = IF status = NoStatus THEN table
                  ELSE jobs_note_process_status(table, pid, status)
      /\ due' = Tail(due) /\ shared' = shared
  BY DEF NoteDue
<1>4. status \in Statuses \cup {NoStatus}
  BY <1>2 DEF Dues
<1>5. ASSUME NEW job, Awaited(job, due)
      PROVE  Awaited(job, due') \/ (pid \in PidsOf(job) /\ status # NoStatus)
  <2>1. PICK j \in DOMAIN due : due[j].pid \in PidsOf(job) /\ due[j].status # NoStatus
    BY <1>5 DEF Awaited
  <2>2. CASE j = 1
    BY <1>2, <2>1, <2>2
  <2>3. CASE j # 1
    BY <1>2, <1>3, <2>1, <2>3 DEF Awaited
  <2> QED
    BY <2>2, <2>3
<1> HIDE DEF pid, status
<1>6. \A l \in DOMAIN table.jobs : \/ pid \in PidsOf(table.jobs[l]) /\ status # NoStatus
                                   \/ Right(table.jobs[l], shared, due')
  BY <1>1, <1>5 DEF FlagsRight, Right
<1>7. Core(table') /\ Apart(table', shared) /\ FlagsRight(table', shared, due')
  <2>1. CASE status = NoStatus
    BY <1>1, <1>3, <1>6, <2>1 DEF FlagsRight
  <2>2. CASE status # NoStatus
    <3>1. status \in Statuses
      BY <1>4, <2>2
    <3> QED
      BY <1>1, <1>3, <1>6, <2>2, <3>1, NoteKeepsFlags
  <2> QED
    BY <2>1, <2>2
<1> QED
  BY <1>1, <1>2, <1>3, <1>7 DEF Inv

(* Every call keeps it.                                                    *)
LEMMA Inductive == Inv /\ [Next]_vars => Inv'
<1> SUFFICES ASSUME Inv, [Next]_vars PROVE Inv'
  OBVIOUS
<1>0. /\ Core(table) /\ Apart(table, shared) /\ FlagsRight(table, shared, due)
      /\ due \in Seq(Dues) /\ shared \subseteq Pids
  BY DEF Inv
<1>1. ASSUME NEW pid \in Pids, NEW command \in Commands, TrackAsync(pid, command)
      PROVE  Inv'
  <2> DEFINE pids == <<pid>>
  <2>1. /\ FreshPid(pid) /\ find_job_by_pgid(table, pid) = 0
        /\ due' = due /\ due = <<>> /\ shared' = shared \ {pid}
    BY <1>1 DEF TrackAsync, FreshPid, Quiet
  <2>2. table' = jobs_track_async(table, pid, pid, command)
    BY <1>1 DEF TrackAsync
  <2>3. NewlyTracked(table, table', pid, pids, FALSE)
    BY <1>0, <2>1, <2>2, TrackAsyncKeeps
  <2>4. SetOf(pids) = {pid} /\ \A j \in DOMAIN pids : FreshPid(pids[j])
    BY <2>1 DEF SetOf
  <2> HIDE DEF pids
  <2>5. \A l \in DOMAIN table.jobs : PidsOf(table.jobs[l]) \cap SetOf(pids) = {}
    BY <1>0, <2>4, FreshFacts
  <2>6. Apart(table', shared \ SetOf(pids))
    BY <1>0, <2>3, <2>5, NewMembersApart
  <2>7. FlagsRight(table', shared \ SetOf(pids), due')
    BY <1>0, <2>1, <2>3, <2>5, NewJobRight
  <2>8. Core(table')
    BY <2>3 DEF NewlyTracked
  <2> QED
    BY <1>0, <2>1, <2>4, <2>6, <2>7, <2>8 DEF Inv
<1>2. ASSUME NEW pids \in PidSeqs, NEW isolate \in BOOLEAN, NEW command \in Commands,
             NEW statuses \in StatusSeqs(pids), TrackStopped(pids, statuses, isolate, command)
      PROVE  Inv'
  BY <1>2, TrackStoppedKeeps
<1>3. ASSUME NEW pid \in Pids, NEW status \in Statuses, NoteStatus(pid, status)
      PROVE  Inv'
  <2>1. /\ table' = jobs_note_process_status(table, pid, status)
        /\ due' = due /\ shared' = shared
    BY <1>3 DEF NoteStatus
  <2>2. Core(table') /\ Apart(table', shared) /\ FlagsRight(table', shared, due)
    BY <1>0, <2>1, NoteKeepsFlags DEF FlagsRight
  <2> QED
    BY <1>0, <2>1, <2>2 DEF Inv
<1>4. ASSUME NEW pgid \in Pids, MarkRunning(pgid)
      PROVE  Inv'
  <2> DEFINE k == find_job_by_pgid(table, pgid)
  <2>1. /\ table' = jobs_mark_job_running(table, pgid)
        /\ due' = due /\ shared' = shared
    BY <1>4 DEF MarkRunning
  <2>2. Core(table') /\ (k = 0 => table' = table) /\ (k # 0 => ResumedJob(table, table', k))
    BY <1>0, <2>1, MarkRunningKeeps
  <2> HIDE DEF k
  <2>3. CASE k = 0
    BY <1>0, <2>1, <2>2, <2>3 DEF Inv
  <2>4. CASE k # 0
    <3>1. /\ Rewrites(table, table', k) /\ Agrees(table'.jobs[k])
          /\ PidsOf(table'.jobs[k]) = PidsOf(table.jobs[k])
      BY <2>2, <2>4 DEF ResumedJob
    <3>2. Apart(table', shared)
      BY <1>0, <3>1, ApartKept
    <3>3. \A l \in DOMAIN table.jobs : l = k \/ Right(table'.jobs[l], shared, due)
      BY <1>0, <3>1, OthersKept DEF FlagsRight
    <3>4. FlagsRight(table', shared, due)
      BY <3>1, <3>3 DEF FlagsRight, Rewrites, Right
    <3> QED
      BY <1>0, <2>1, <2>2, <3>2, <3>4 DEF Inv
  <2> QED
    BY <2>3, <2>4
<1>5. ASSUME NEW pgid \in Pids, Forget(pgid)
      PROVE  Inv'
  <2> DEFINE k == find_job_by_pgid(table, pgid)
  <2>1. /\ table' = jobs_forget_pgid(table, pgid)
        /\ due' = due /\ shared' = shared
    BY <1>5 DEF Forget
  <2>2. /\ Core(table') /\ (k = 0 => table' = table)
        /\ k # 0 => k \in DOMAIN table.jobs /\ Removes(table, table', k)
    BY <1>0, <2>1, ForgetKeeps
  <2> HIDE DEF k
  <2>3. \A l \in DOMAIN table'.jobs : \E m \in DOMAIN table.jobs : table'.jobs[l] = table.jobs[m]
    BY <2>2 DEF Removes
  <2>4. FlagsRight(table', shared, due)
    BY <1>0, <2>3 DEF FlagsRight
  <2>5. Apart(table', shared)
    <3> SUFFICES ASSUME NEW l \in DOMAIN table'.jobs, NEW m \in DOMAIN table'.jobs, l # m
                 PROVE  \/ PidsOf(table'.jobs[l]) \cap PidsOf(table'.jobs[m]) = {}
                        \/ /\ PidsOf(table'.jobs[l]) = PidsOf(table'.jobs[m])
                           /\ PidsOf(table'.jobs[l]) \subseteq shared
      BY Zenon DEF Apart
    <3>1. PICK a \in DOMAIN table.jobs : table'.jobs[l] = table.jobs[a]
      BY <2>3
    <3>2. PICK b \in DOMAIN table.jobs : table'.jobs[m] = table.jobs[b]
      BY <2>3
    <3>3. a # b
      BY <2>2, <3>1, <3>2 DEF Core, DistinctKeys
    <3> QED
      BY <1>0, <3>1, <3>2, <3>3 DEF Apart
  <2> QED
    BY <1>0, <2>1, <2>2, <2>4, <2>5 DEF Inv
<1>6. CASE NoteDue
  BY <1>6, NoteDueKeeps
<1>7. CASE UNCHANGED vars
  BY <1>0, <1>7 DEF Inv, vars
<1> QED
  BY <1>1, <1>2, <1>3, <1>4, <1>5, <1>6, <1>7 DEF Next

(* Keys are distinct, members apart and flags right after every sequence   *)
(* of calls.                                                               *)
THEOREM Invariance == Spec => []Inv
BY Initial, Inductive, PTL DEF Spec

(* The table stays a well-formed array of jobs.                            *)
THEOREM TypeCorrect == Spec => []TypeOK
<1>1. Inv => TypeOK
  BY DEF Inv, Core, TypeOK, Dues
<1> QED
  BY <1>1, Invariance, PTL

(* No two jobs ever share a process group, an id or a serial, whatever the *)
(* order of tracking, noting, resuming and forgetting; and no two jobs     *)
(* have a child in common, so that its status reaches the one job it       *)
(* belongs to, unless they are the jobs of a pipeline without a group of   *)
(* its own of which several members have stopped.                          *)
THEOREM KeysStayDistinct == Spec => []KeysDistinct
<1>1. Inv => KeysDistinct
  BY DEF Inv, Core, KeysDistinct
<1> QED
  BY <1>1, Invariance, PTL

(* When all collected statuses are noted, a job's stopped flag says        *)
(* whether one of its processes is, unless it is one of several jobs of a  *)
(* pipeline without a group of its own.                                    *)
THEOREM FlagsStayRight == Spec => []StoppedFlagAgrees
<1>1. Inv => StoppedFlagAgrees
  BY DEF Inv, FlagsRight, Right, Awaited, Agrees, StoppedFlagAgrees, Quiet
<1> QED
  BY <1>1, Invariance, PTL

(* A completed job always has the status of its last process on record.    *)
THEOREM CompletedJobsHaveStatus == Spec => []CompletedJobHasStatus
<1>1. Inv => CompletedJobHasStatus
  <2> SUFFICES ASSUME Inv, NEW k \in DOMAIN table.jobs, job_all_done(table.jobs[k])
               PROVE  Terminated(jobs_get_job_wait_status(table, table.jobs[k].pgid))
    BY DEF CompletedJobHasStatus
  <2>1. Core(table) /\ SoundJob(table.jobs[k]) /\ DistinctKeys(table)
    BY DEF Inv, Core
  <2>2. find_job_by_pgid(table, table.jobs[k].pgid) = k /\ k # 0
    <3>1. table.jobs \in Seq(JobRecords) /\ DOMAIN table.jobs = 1 .. Len(table.jobs)
      BY <2>1 DEF Core, Tables
    <3> QED
      BY <2>1, <3>1, PgidLookup DEF DistinctKeys
  <2> DEFINE i == find_process(table.jobs[k], table.jobs[k].status_pid)
  <2>3. i # 0 /\ i \in DOMAIN table.jobs[k].procs
    BY <2>1, ProcessLookup DEF SoundJob
  <2>4. jobs_get_job_wait_status(table, table.jobs[k].pgid) = table.jobs[k].procs[i].status
    BY <2>2, <2>3 DEF jobs_get_job_wait_status
  <2> QED
    BY <2>1, <2>3, <2>4 DEF SoundJob, job_all_done
<1> QED
  BY <1>1, Invariance, PTL
-----------------------------------------------------------------------------
(* The book of a table: what JobTable substitutes for the variables of     *)
(* JobBook, as functions of the table, so that lemmas can speak of the     *)
(* books of two tables.                                                    *)

Entry(job) == [id |-> job.job_id, stopped |-> job.stopped, finished |-> job_all_done(job)]
GroupsOf(t) == {t.jobs[k].pgid : k \in DOMAIN t.jobs}
JobIn(t, g) == t.jobs[find_job_by_pgid(t, g)]
BookOf(t) == [g \in GroupsOf(t) |-> Entry(JobIn(t, g))]
(* The pairs of groups of which the first has the later serial.            *)
NewerOf(t) ==
  {p \in GroupsOf(t) \X GroupsOf(t) : JobIn(t, p[1]).serial > JobIn(t, p[2]).serial}
(* Newest of JobBook, with the order as a parameter.                       *)
NewestOf(n, g, known) == {p \in n : p[1] # g /\ p[2] # g} \cup {<<g, h>> : h \in known \ {g}}

(* The substituted expressions are the book and the order of the table.    *)
LEMMA BookIs ==
  /\ Groups = GroupsOf(table)
  /\ [g \in Groups |-> [id |-> JobOf(g).job_id, stopped |-> JobOf(g).stopped,
                             finished |-> job_all_done(JobOf(g))]] = BookOf(table)
  /\ {p \in Groups \X Groups : JobOf(p[1]).serial > JobOf(p[2]).serial} = NewerOf(table)
  /\ Book!Jobs = GroupsOf(table)
<1>1. Groups = GroupsOf(table) /\ \A g : JobOf(g) = JobIn(table, g)
  BY DEF Groups, GroupsOf, JobOf, JobIn
<1>2. \A g : [id |-> JobOf(g).job_id, stopped |-> JobOf(g).stopped,
                             finished |-> job_all_done(JobOf(g))] = Entry(JobIn(table, g))
  BY <1>1 DEF Entry
<1>3. [g \in Groups |-> [id |-> JobOf(g).job_id, stopped |-> JobOf(g).stopped,
                             finished |-> job_all_done(JobOf(g))]] = BookOf(table)
  BY <1>1, <1>2, Zenon DEF BookOf
<1>4. Book!Jobs = DOMAIN [g \in Groups |-> [id |-> JobOf(g).job_id, stopped |-> JobOf(g).stopped,
                             finished |-> job_all_done(JobOf(g))]]
  BY DEF Book!Jobs
<1>5. {p \in Groups \X Groups : JobOf(p[1]).serial > JobOf(p[2]).serial} = NewerOf(table)
  BY <1>1, Zenon DEF NewerOf
<1> QED
  BY <1>1, <1>3, <1>4, <1>5 

(* The same in the state after a step.                                     *)
LEMMA BookIsNext ==
  /\ [g \in Groups' |-> [id |-> JobOf(g)'.job_id, stopped |-> JobOf(g)'.stopped,
                             finished |-> job_all_done(JobOf(g)')]] = BookOf(table')
  /\ {p \in Groups' \X Groups' : JobOf(p[1])'.serial > JobOf(p[2])'.serial} = NewerOf(table')
<1>1. Groups' = GroupsOf(table') /\ \A g : JobOf(g)' = JobIn(table', g)
  BY DEF Groups, GroupsOf, JobOf, JobIn
<1>2. \A g : [id |-> JobOf(g)'.job_id, stopped |-> JobOf(g)'.stopped,
                             finished |-> job_all_done(JobOf(g)')] = Entry(JobIn(table', g))
  BY <1>1 DEF Entry
<1>3. [g \in Groups' |-> [id |-> JobOf(g)'.job_id, stopped |-> JobOf(g)'.stopped,
                             finished |-> job_all_done(JobOf(g)')]] = BookOf(table')
  BY <1>1, <1>2, Zenon DEF BookOf
<1>5. {p \in Groups' \X Groups' : JobOf(p[1])'.serial > JobOf(p[2])'.serial} = NewerOf(table')
  BY <1>1, Zenon DEF NewerOf
<1> QED
  BY <1>1, <1>3, <1>5 

(* Each operation of JobBook, in terms of the books of the table before    *)
(* and after it.                                                           *)
LEMMA DropStep ==
  ASSUME NEW g \in Pids, g \in GroupsOf(table), BookOf(table)[g].finished,
     BookOf(table') = [h \in GroupsOf(table) \ {g} |-> BookOf(table)[h]],
     NewerOf(table') = {p \in NewerOf(table) : p[1] # g /\ p[2] # g},
     table'.next_job_id = table.next_job_id
  PROVE Book!Drop(g)
BY BookIs, BookIsNext, Zenon DEF Book!Drop, Book!Restrict

(* A table with one more newest job has made the book's Enter step.        *)
LEMMA EnterStep ==
  ASSUME NEW g \in Pids, g \notin GroupsOf(table), NEW stopped, table.next_job_id \in Nat,
         BookOf(table') = [h \in GroupsOf(table) \cup {g} |->
                             IF h = g THEN [id |-> table.next_job_id, stopped |-> stopped,
                                            finished |-> FALSE]
                                      ELSE BookOf(table)[h]],
         NewerOf(table') = NewestOf(NewerOf(table), g, GroupsOf(table)),
         table'.next_job_id = table.next_job_id + 1
  PROVE  Book!Enter(g, stopped)
<1>1. table'.next_job_id - 1 = table.next_job_id - 1 + 1 /\ table'.next_job_id - 1 = table.next_job_id
  OBVIOUS
<1> QED
  BY <1>1, BookIs, BookIsNext, Zenon DEF Book!Enter, Book!Newest, NewestOf

(* A table with one job's state changed has made the book's Report step.   *)
LEMMA ReportStep ==
  ASSUME NEW g \in Pids, g \in GroupsOf(table), NEW stopped, NEW finished,
         BookOf(table') = [BookOf(table) EXCEPT ![g].stopped = stopped, ![g].finished = finished],
         NewerOf(table') = IF stopped /\ ~BookOf(table)[g].stopped
                           THEN NewestOf(NewerOf(table), g, GroupsOf(table)) ELSE NewerOf(table),
         table'.next_job_id = table.next_job_id
  PROVE  Book!Report(g, stopped, finished)
BY BookIs, BookIsNext, Zenon DEF Book!Report, Book!Newest, NewestOf

(* A table with one job stopped and newest has made the book's Suspend     *)
(* step.                                                                   *)
LEMMA SuspendStep ==
  ASSUME NEW g \in Pids, g \in GroupsOf(table),
         BookOf(table') = [BookOf(table) EXCEPT ![g].stopped = TRUE],
         NewerOf(table') = NewestOf(NewerOf(table), g, GroupsOf(table)),
         table'.next_job_id = table.next_job_id
  PROVE  Book!Suspend(g)
BY BookIs, BookIsNext, Zenon DEF Book!Suspend, Book!Newest, NewestOf

(* A table with one job no longer stopped has made the book's Resume step. *)
LEMMA ResumeStep ==
  ASSUME NEW g \in Pids, g \in GroupsOf(table),
         BookOf(table') = [BookOf(table) EXCEPT ![g].stopped = FALSE],
         NewerOf(table') = NewestOf(NewerOf(table), g, GroupsOf(table)),
         table'.next_job_id = table.next_job_id
  PROVE  Book!Resume(g)
BY BookIs, BookIsNext, Zenon DEF Book!Resume, Book!Newest, NewestOf

(* A step that leaves the table alone leaves the book alone.               *)
LEMMA StutterStep == UNCHANGED table => UNCHANGED Book!vars
BY DEF Book!vars, Groups, JobOf

(* A group is looked up at the index of its job.                           *)
LEMMA JobInGroup ==
  ASSUME NEW t, Core(t), NEW k \in DOMAIN t.jobs
  PROVE  /\ find_job_by_pgid(t, t.jobs[k].pgid) = k
         /\ JobIn(t, t.jobs[k].pgid) = t.jobs[k]
         /\ t.jobs[k].pgid \in GroupsOf(t)
         /\ t.jobs[k] \in JobRecords
         /\ k # 0
<1>1. t.jobs \in Seq(JobRecords) /\ DOMAIN t.jobs = 1 .. Len(t.jobs)
  BY DEF Core, Tables
<1>2. DistinctKeys(t)
  BY DEF Core
<1> QED
  BY <1>1, <1>2, PgidLookup DEF DistinctKeys, JobIn, GroupsOf

(* The entry of a job is made of what Same compares.                       *)
LEMMA SameEntry ==
  ASSUME NEW a, NEW b, Same(a, b)
  PROVE  Entry(a) = Entry(b)
BY Zenon DEF Same, Entry, job_all_done

(* The record updates of JobBook, named so that the prover can treat each  *)
(* as one term.                                                            *)
Changed(entry, stopped, finished) ==
  [entry EXCEPT !.stopped = stopped, !.finished = finished]

(* An entry of the book with both of its states changed.                   *)
LEMMA EntryChanged ==
  ASSUME NEW entry, NEW id, NEW s, NEW f, NEW stopped, NEW finished,
         entry = [id |-> id, stopped |-> s, finished |-> f]
  PROVE  Changed(entry, stopped, finished)
           = [id |-> id, stopped |-> stopped, finished |-> finished]
<1> DEFINE new == [entry EXCEPT !.stopped = stopped, !.finished = finished]
<1>1. DOMAIN entry = {"id", "stopped", "finished"} /\ entry["id"] = id
  OBVIOUS
<1>2. /\ DOMAIN new = {"id", "stopped", "finished"}
      /\ new["id"] = id /\ new["stopped"] = stopped /\ new["finished"] = finished
  BY <1>1
<1> DEFINE r == [id |-> id, stopped |-> stopped, finished |-> finished]
           D == {"id", "stopped", "finished"}
<1>3. DOMAIN r = D /\ r["id"] = id /\ r["stopped"] = stopped /\ r["finished"] = finished
  OBVIOUS
<1>4. new = [x \in DOMAIN new |-> new[x]] /\ r = [x \in DOMAIN r |-> r[x]]
  OBVIOUS
<1> HIDE DEF new, r
<1>5. \A x \in D : new[x] = r[x]
  BY <1>2, <1>3
<1>6. new = r
  BY <1>2, <1>3, <1>4, <1>5
<1> QED
  BY <1>6 DEF new, r, Changed

Marked(entry, stopped) ==
  [entry EXCEPT !.stopped = stopped]

(* An entry of the book with its stopped state changed.                    *)
LEMMA EntryMarked ==
  ASSUME NEW entry, NEW id, NEW s, NEW f, NEW stopped,
         entry = [id |-> id, stopped |-> s, finished |-> f]
  PROVE  Marked(entry, stopped)
           = [id |-> id, stopped |-> stopped, finished |-> f]
<1> DEFINE new == [entry EXCEPT !.stopped = stopped]
<1>1. DOMAIN entry = {"id", "stopped", "finished"} /\ entry["id"] = id /\ entry["finished"] = f
  OBVIOUS
<1>2. /\ DOMAIN new = {"id", "stopped", "finished"}
      /\ new["id"] = id /\ new["stopped"] = stopped /\ new["finished"] = f
  BY <1>1
<1> DEFINE r == [id |-> id, stopped |-> stopped, finished |-> f]
           D == {"id", "stopped", "finished"}
<1>3. DOMAIN r = D /\ r["id"] = id /\ r["stopped"] = stopped /\ r["finished"] = f
  OBVIOUS
<1>4. new = [x \in DOMAIN new |-> new[x]] /\ r = [x \in DOMAIN r |-> r[x]]
  OBVIOUS
<1> HIDE DEF new, r
<1>5. \A x \in D : new[x] = r[x]
  BY <1>2, <1>3
<1>6. new = r
  BY <1>2, <1>3, <1>4, <1>5
<1> QED
  BY <1>6 DEF new, r, Marked

(* When one job is rewritten, only its entry changes; the order changes    *)
(* only if the job was given the next serial, and then it becomes newer    *)
(* than all others.                                                        *)
LEMMA RewrittenBook ==
  ASSUME NEW t, Core(t), NEW u, Core(u), NEW k \in DOMAIN t.jobs, Rewrites(t, u, k)
  PROVE  LET g == t.jobs[k].pgid
             known == GroupsOf(t)
         IN  /\ GroupsOf(u) = known
             /\ BookOf(u) = [BookOf(t) EXCEPT ![g].stopped = u.jobs[k].stopped,
                                              ![g].finished = job_all_done(u.jobs[k])]
             /\ u.jobs[k].serial = t.jobs[k].serial => NewerOf(u) = NewerOf(t)
             /\ u.jobs[k].serial = t.next_serial => NewerOf(u) = NewestOf(NewerOf(t), g, known)
<1> DEFINE g == t.jobs[k].pgid
<1>1. GroupsOf(u) = GroupsOf(t)
  BY DEF Rewrites, GroupsOf
<1>2. ASSUME NEW h \in GroupsOf(t)
      PROVE  \E l \in DOMAIN t.jobs :
               /\ h = t.jobs[l].pgid /\ JobIn(t, h) = t.jobs[l]
               /\ JobIn(u, h) = u.jobs[l]
               /\ h = g <=> l = k
  <2>1. PICK l \in DOMAIN t.jobs : h = t.jobs[l].pgid
    BY DEF GroupsOf
  <2>2. l \in DOMAIN u.jobs /\ h = u.jobs[l].pgid
    BY <2>1 DEF Rewrites
  <2>3. h = g <=> l = k
    BY <2>1 DEF Core, DistinctKeys
  <2>4. JobIn(t, t.jobs[l].pgid) = t.jobs[l]
    BY JobInGroup
  <2>5. JobIn(u, u.jobs[l].pgid) = u.jobs[l]
    BY <2>2, JobInGroup
  <2> QED
    BY <2>1, <2>2, <2>3, <2>4, <2>5
<1>3. BookOf(u) = [BookOf(t) EXCEPT ![g].stopped = u.jobs[k].stopped,
                                    ![g].finished = job_all_done(u.jobs[k])]
  <2> DEFINE new == [BookOf(t) EXCEPT ![g].stopped = u.jobs[k].stopped,
                                      ![g].finished = job_all_done(u.jobs[k])]
  <2>1. BookOf(t) = [h \in GroupsOf(t) |-> Entry(JobIn(t, h))]
    BY DEF BookOf
  <2>2. BookOf(u) = [h \in GroupsOf(t) |-> Entry(JobIn(u, h))]
    BY <1>1 DEF BookOf
  <2>3. g \in GroupsOf(t) /\ JobIn(t, g) = t.jobs[k]
    BY JobInGroup
  <2>4. new = [h \in GroupsOf(t) |-> IF h = g
                 THEN [BookOf(t)[g] EXCEPT !.stopped = u.jobs[k].stopped,
                                    !.finished = job_all_done(u.jobs[k])]
                 ELSE BookOf(t)[h]]
    BY <2>1, <2>3
  <2>5. BookOf(t)[g] = [id |-> t.jobs[k].job_id, stopped |-> t.jobs[k].stopped,
                        finished |-> job_all_done(t.jobs[k])]
    BY <2>1, <2>3, Zenon DEF Entry
  <2>6. [BookOf(t)[g] EXCEPT !.stopped = u.jobs[k].stopped,
                             !.finished = job_all_done(u.jobs[k])]
          = [id |-> t.jobs[k].job_id, stopped |-> u.jobs[k].stopped,
             finished |-> job_all_done(u.jobs[k])]
    <3>1. Changed(BookOf(t)[g], u.jobs[k].stopped, job_all_done(u.jobs[k]))
            = [id |-> t.jobs[k].job_id, stopped |-> u.jobs[k].stopped,
               finished |-> job_all_done(u.jobs[k])]
      BY <2>5, EntryChanged
    <3> QED
      BY <3>1 DEF Changed
  <2>7. Entry(u.jobs[k]) = [id |-> t.jobs[k].job_id, stopped |-> u.jobs[k].stopped,
                            finished |-> job_all_done(u.jobs[k])]
    BY Zenon DEF Entry, Rewrites
  <2>8. ASSUME NEW h \in GroupsOf(t)
        PROVE  Entry(JobIn(u, h)) = IF h = g THEN Entry(u.jobs[k]) ELSE BookOf(t)[h]
    <3>1. PICK l \in DOMAIN t.jobs : /\ JobIn(t, h) = t.jobs[l]
                                     /\ JobIn(u, h) = u.jobs[l]
                                     /\ h = g <=> l = k
      BY <1>2, Zenon
    <3>2. CASE l = k
      BY <3>1, <3>2, Zenon
    <3>3. CASE l # k
      <4>2. Entry(u.jobs[l]) = Entry(t.jobs[l])
        BY <3>3, SameEntry DEF Rewrites
      <4>3. BookOf(t)[h] = Entry(t.jobs[l])
        BY <2>1, <3>1, Zenon
      <4> QED
        BY <3>1, <3>3, <4>2, <4>3, Zenon
    <3> QED
      BY <3>2, <3>3
  <2>9. \A h \in GroupsOf(t) :
          Entry(JobIn(u, h)) = IF h = g
                 THEN [BookOf(t)[g] EXCEPT !.stopped = u.jobs[k].stopped,
                                    !.finished = job_all_done(u.jobs[k])]
                 ELSE BookOf(t)[h]
    BY <2>6, <2>7, <2>8, Zenon
  <2> HIDE DEF new
  <2>10. BookOf(u) = new
    BY <2>2, <2>4, <2>9, Zenon
  <2> QED
    BY <2>10, Zenon DEF new
<1>4. ASSUME u.jobs[k].serial = t.jobs[k].serial
      PROVE  NewerOf(u) = NewerOf(t)
  <2>1. \A h \in GroupsOf(t) : JobIn(u, h).serial = JobIn(t, h).serial
    BY <1>2, <1>4 DEF Rewrites, Same
  <2> QED
    BY <1>1, <2>1, Zenon DEF NewerOf
<1>5. ASSUME u.jobs[k].serial = t.next_serial
      PROVE  NewerOf(u) = NewestOf(NewerOf(t), g, GroupsOf(t))
  <2>1. \A h \in GroupsOf(t) : /\ JobIn(t, h).serial \in Nat
                               /\ JobIn(t, h).serial < t.next_serial
                               /\ JobIn(u, h).serial = IF h = g THEN t.next_serial
                                                                ELSE JobIn(t, h).serial
    <3>1. \A l \in DOMAIN t.jobs : t.jobs[l].serial \in Nat /\ t.jobs[l].serial < t.next_serial
      BY JobInGroup DEF Core, BelowCounters, JobRecords
    <3> QED
      BY <1>2, <1>5, <3>1 DEF Rewrites, Same
  <2>2. t.next_serial \in Nat /\ g \in GroupsOf(t)
    BY JobInGroup DEF Core, Tables
  <2>3. NewerOf(u) = {p \in GroupsOf(t) \X GroupsOf(t) :
                        JobIn(u, p[1]).serial > JobIn(u, p[2]).serial}
    BY <1>1 DEF NewerOf
  <2> DEFINE before(h) == JobIn(t, h).serial
             after(h) == JobIn(u, h).serial
  <2> HIDE DEF g, before, after
  <2>4. \A h, i \in GroupsOf(t) :
          after(h) > after(i) <=> \/ h # g /\ i # g /\ before(h) > before(i)
                                  \/ h = g /\ i # g
    BY <2>1, <2>2 DEF before, after
  <2>5. NewerOf(t) = {p \in GroupsOf(t) \X GroupsOf(t) : before(p[1]) > before(p[2])}
    BY Zenon DEF NewerOf, before
  <2>6. NewerOf(u) = {p \in GroupsOf(t) \X GroupsOf(t) : after(p[1]) > after(p[2])}
    BY <2>3, Zenon DEF after
  <2> QED
    BY <2>2, <2>4, <2>5, <2>6 DEF NewestOf
<1> QED
  BY <1>1, <1>3, <1>4, <1>5

(* A new job is a new entry that is newer than all others.                 *)
LEMMA ExtendedBook ==
  ASSUME NEW t, Core(t), NEW u, Core(u), NEW m, NEW g, NEW stopped, Extends(t, u, m, g, stopped)
  PROVE  LET known == GroupsOf(t)
         IN  /\ g \notin known
             /\ BookOf(u) = [h \in known \cup {g} |->
                               IF h = g THEN [id |-> t.next_job_id, stopped |-> stopped,
                                              finished |-> FALSE]
                                        ELSE BookOf(t)[h]]
             /\ NewerOf(u) = NewestOf(NewerOf(t), g, known)
<1>1. m \in DOMAIN u.jobs /\ JobIn(u, g) = u.jobs[m]
  BY JobInGroup DEF Extends
<1>2. GroupsOf(u) = GroupsOf(t) \cup {g}
  BY DEF Extends, GroupsOf, Same
<1>3. ASSUME NEW h \in GroupsOf(t)
      PROVE  /\ h # g
             /\ Entry(JobIn(u, h)) = Entry(JobIn(t, h))
             /\ JobIn(u, h).serial = JobIn(t, h).serial
             /\ JobIn(t, h).serial \in Nat
             /\ JobIn(t, h).serial < t.next_serial
  <2>1. PICK l \in DOMAIN t.jobs : h = t.jobs[l].pgid
    BY DEF GroupsOf
  <2>2. l \in DOMAIN u.jobs /\ l # m /\ h = u.jobs[l].pgid /\ Same(u.jobs[l], t.jobs[l])
    BY <2>1 DEF Extends, Same
  <2>3. h # g
    BY <1>1, <2>2 DEF Core, DistinctKeys, Extends
  <2>4. JobIn(t, h) = t.jobs[l] /\ t.jobs[l] \in JobRecords
    BY <2>1, JobInGroup
  <2>5. JobIn(u, h) = u.jobs[l]
    BY <2>2, JobInGroup
  <2>6. t.jobs[l].serial \in Nat /\ t.jobs[l].serial < t.next_serial
    BY <2>4 DEF Core, BelowCounters, JobRecords
  <2>7. u.jobs[l].serial = t.jobs[l].serial
    BY <2>2 DEF Same
  <2> QED
    BY <2>2, <2>3, <2>4, <2>5, <2>6, <2>7, SameEntry
<1>4. g \notin GroupsOf(t)
  BY <1>3
<1>5. BookOf(u) = [h \in GroupsOf(t) \cup {g} |->
                     IF h = g THEN [id |-> t.next_job_id, stopped |-> stopped,
                                    finished |-> FALSE]
                              ELSE BookOf(t)[h]]
  <2>1. Entry(JobIn(u, g)) = [id |-> t.next_job_id, stopped |-> stopped, finished |-> FALSE]
    <3>1. job_all_done(u.jobs[m]) = FALSE
      BY DEF Extends, job_all_done
    <3> QED
      BY <1>1, <3>1, Zenon DEF Entry, Extends
  <2>2. \A h \in GroupsOf(t) : BookOf(t)[h] = Entry(JobIn(t, h))
    BY DEF BookOf
  <2>3. \A h \in GroupsOf(t) \cup {g} :
          Entry(JobIn(u, h)) = IF h = g THEN [id |-> t.next_job_id, stopped |-> stopped,
                                              finished |-> FALSE]
                                        ELSE BookOf(t)[h]
    BY <1>3, <2>1, <2>2, Zenon
  <2> QED
    BY <1>2, <2>3, Zenon DEF BookOf
<1>6. NewerOf(u) = NewestOf(NewerOf(t), g, GroupsOf(t))
  <2> DEFINE before(h) == JobIn(t, h).serial
             after(h) == JobIn(u, h).serial
  <2>1. t.next_serial \in Nat
    BY DEF Core, Tables
  <2>2. \A h \in GroupsOf(t) : /\ h # g /\ before(h) \in Nat /\ before(h) < t.next_serial
                               /\ after(h) = before(h)
    BY <1>3
  <2>3. after(g) = t.next_serial
    BY <1>1 DEF Extends
  <2>4. NewerOf(t) = {p \in GroupsOf(t) \X GroupsOf(t) : before(p[1]) > before(p[2])}
    BY Zenon DEF NewerOf
  <2>5. NewerOf(u) = {p \in GroupsOf(u) \X GroupsOf(u) : after(p[1]) > after(p[2])}
    BY Zenon DEF NewerOf
  <2> HIDE DEF before, after
  <2>6. \A h, i \in GroupsOf(u) :
          after(h) > after(i) <=> \/ h \in GroupsOf(t) /\ i \in GroupsOf(t) /\ before(h) > before(i)
                                  \/ h = g /\ i \in GroupsOf(t)
    BY <1>2, <2>1, <2>2, <2>3
  <2> QED
    BY <1>2, <1>4, <2>4, <2>5, <2>6 DEF NewestOf
<1> QED
  BY <1>4, <1>5, <1>6

(* Without one job the book is the same on the other groups, wherever      *)
(* their jobs have moved to in the array.                                  *)
LEMMA RemovedBook ==
  ASSUME NEW t, Core(t), NEW u, Core(u), NEW k \in DOMAIN t.jobs, Removes(t, u, k)
  PROVE  LET g == t.jobs[k].pgid
             known == GroupsOf(t)
         IN  /\ BookOf(u) = [h \in known \ {g} |-> BookOf(t)[h]]
             /\ NewerOf(u) = {p \in NewerOf(t) : p[1] # g /\ p[2] # g}
<1> DEFINE g == t.jobs[k].pgid
<1>1. GroupsOf(u) = GroupsOf(t) \ {g}
  <2>1. \A m \in DOMAIN t.jobs : t.jobs[m].pgid = g <=> m = k
    BY DEF Core, DistinctKeys
  <2> QED
    BY <2>1 DEF Removes, GroupsOf
<1>2. ASSUME NEW h \in GroupsOf(u)
      PROVE  JobIn(u, h) = JobIn(t, h)
  <2>1. PICK l \in DOMAIN u.jobs : h = u.jobs[l].pgid
    BY DEF GroupsOf
  <2>2. PICK m \in DOMAIN t.jobs : u.jobs[l] = t.jobs[m]
    BY DEF Removes
  <2>3. JobIn(u, h) = u.jobs[l]
    BY <2>1, JobInGroup
  <2>4. JobIn(t, h) = t.jobs[m]
    BY <2>1, <2>2, JobInGroup
  <2> QED
    BY <2>2, <2>3, <2>4
<1> HIDE DEF g
<1>3. BookOf(u) = [h \in GroupsOf(t) \ {g} |-> BookOf(t)[h]]
  <2>1. \A h \in GroupsOf(u) : BookOf(t)[h] = Entry(JobIn(u, h))
    BY <1>1, <1>2 DEF BookOf
  <2> QED
    BY <1>1, <2>1, Zenon DEF BookOf
<1>4. NewerOf(u) = {p \in NewerOf(t) : p[1] # g /\ p[2] # g}
  <2>1. NewerOf(u) = {p \in GroupsOf(u) \X GroupsOf(u) :
                        JobIn(t, p[1]).serial > JobIn(t, p[2]).serial}
    BY <1>2, Zenon DEF NewerOf
  <2> DEFINE later(p) == JobIn(t, p[1]).serial > JobIn(t, p[2]).serial
  <2>2. NewerOf(u) = {p \in GroupsOf(u) \X GroupsOf(u) : later(p)}
    BY <2>1, Zenon
  <2>3. NewerOf(t) = {p \in GroupsOf(t) \X GroupsOf(t) : later(p)}
    BY Zenon DEF NewerOf
  <2> HIDE DEF later
  <2> QED
    BY <1>1, <2>2, <2>3
<1> QED
  BY <1>3, <1>4 DEF g

(* An empty table is an empty book.                                        *)
LEMMA BookInit == Init => Book!Init
<1> SUFFICES ASSUME Init PROVE Book!Init
  OBVIOUS
<1>1. Groups = {} /\ table.next_job_id = 1
  BY DEF Init, EmptyTable, Groups
<1> QED
  BY <1>1 DEF Book!Init

(* A table extended by a job has entered it into the book.                 *)
LEMMA ExtensionEnters ==
  ASSUME Inv, Inv', NEW m, NEW g \in Pids, NEW stopped, Extends(table, table', m, g, stopped)
  PROVE  Book!Enter(g, stopped)
<1>1. /\ g \notin GroupsOf(table)
      /\ BookOf(table') = [h \in GroupsOf(table) \cup {g} |->
                            IF h = g THEN [id |-> table.next_job_id, stopped |-> stopped,
                                           finished |-> FALSE]
                                     ELSE BookOf(table)[h]]
      /\ NewerOf(table') = NewestOf(NewerOf(table), g, GroupsOf(table))
  BY ExtendedBook DEF Inv
<1>2. table.next_job_id \in Nat /\ table'.next_job_id = table.next_job_id + 1
  BY DEF Inv, Core, Tables, Extends
<1> QED
  BY <1>1, <1>2, EnterStep

(* Updates of one entry of the book.                                       *)
ChangedAt(b, g, stopped, finished) ==
  [b EXCEPT ![g].stopped = stopped, ![g].finished = finished]

MarkedAt(b, g, stopped) == [b EXCEPT ![g].stopped = stopped]

(* Setting a job's finished flag to what it was changes nothing.           *)
LEMMA SameFinished ==
  ASSUME NEW g \in GroupsOf(table), NEW stopped, NEW finished,
         finished = job_all_done(JobIn(table, g))
  PROVE  ChangedAt(BookOf(table), g, stopped, finished) = MarkedAt(BookOf(table), g, stopped)
<1> DEFINE b == BookOf(table)
<1>1. b = [h \in GroupsOf(table) |-> b[h]]
  BY DEF BookOf
<1>2. b[g] = [id |-> JobIn(table, g).job_id, stopped |-> JobIn(table, g).stopped,
              finished |-> finished]
  BY Zenon DEF BookOf, Entry
<1> HIDE DEF b
<1>3. Changed(b[g], stopped, finished) = Marked(b[g], stopped)
  BY <1>2, EntryChanged, EntryMarked
<1>4. [b EXCEPT ![g].stopped = stopped, ![g].finished = finished]
        = [h \in GroupsOf(table) |-> IF h = g THEN Changed(b[g], stopped, finished) ELSE b[h]]
  BY <1>1 DEF Changed
<1>5. [b EXCEPT ![g].stopped = stopped]
        = [h \in GroupsOf(table) |-> IF h = g THEN Marked(b[g], stopped) ELSE b[h]]
  BY <1>1 DEF Marked
<1> QED
  BY <1>3, <1>4, <1>5, Zenon DEF b, ChangedAt, MarkedAt

-----------------------------------------------------------------------------
(* Every step of the table is a step of the book.                          *)

(* An asynchronous list is entered as a running job.                       *)
LEMMA AsyncEnters ==
  ASSUME Inv, NEW pid \in Pids, NEW command \in Commands, TrackAsync(pid, command), Inv'
  PROVE  Book!Enter(pid, FALSE)
<1>1. find_job_by_pid(table, pid) = 0 /\ find_job_by_pgid(table, pid) = 0
  BY DEF TrackAsync, FreshPid
<1>2. table' = jobs_track_async(table, pid, pid, command)
  BY DEF TrackAsync
<1>3. NewlyTracked(table, table', pid, <<pid>>, FALSE)
  BY <1>1, <1>2, TrackAsyncKeeps DEF Inv
<1>4. PICK m : Extends(table, table', m, pid, FALSE)
  BY <1>3 DEF NewlyTracked
<1> QED
  BY <1>4, ExtensionEnters

(* A stopped foreground job is entered, or suspended as a whole.           *)
LEMMA StopEntersOrSuspends ==
  ASSUME Inv, NEW pids \in PidSeqs, NEW isolate \in BOOLEAN, NEW command \in Commands,
         NEW statuses \in StatusSeqs(pids), TrackStopped(pids, statuses, isolate, command), Inv'
  PROVE  \E g \in Pids : Book!Enter(g, TRUE) \/ Book!Suspend(g)
<1> DEFINE g == JobGroup(pids, Len(statuses), isolate)
<1>1. Core(table) /\ Core(table')
  BY DEF Inv
<1>2. /\ g \in Pids
      /\ \/ NewlyTracked(table, table', g, pids, TRUE)
         \/ \E k \in DOMAIN table.jobs :
              table.jobs[k].pgid = g /\ TrackedAgain(table, table', k, pids, TRUE)
  BY <1>1, StopTracked
<1> HIDE DEF g
<1>3. ASSUME NewlyTracked(table, table', g, pids, TRUE)
      PROVE  Book!Enter(g, TRUE)
  <2>1. PICK m : Extends(table, table', m, g, TRUE)
    BY <1>3 DEF NewlyTracked
  <2> QED
    BY <1>2, <2>1, ExtensionEnters
<1>4. ASSUME NEW k \in DOMAIN table.jobs, table.jobs[k].pgid = g,
             TrackedAgain(table, table', k, pids, TRUE)
      PROVE  Book!Suspend(g)
  <2>1. /\ Rewrites(table, table', k) /\ table'.jobs[k].serial = table.next_serial
        /\ table'.jobs[k].stopped = TRUE
        /\ job_all_done(table'.jobs[k]) = job_all_done(table.jobs[k])
    BY <1>4 DEF TrackedAgain
  <2> DEFINE finished == job_all_done(table'.jobs[k])
  <2>2. /\ g \in GroupsOf(table) /\ JobIn(table, g) = table.jobs[k]
        /\ BookOf(table') = [BookOf(table) EXCEPT ![g].stopped = table'.jobs[k].stopped,
                                                  ![g].finished = finished]
        /\ NewerOf(table') = NewestOf(NewerOf(table), g, GroupsOf(table))
    <3>1. /\ table.jobs[k].pgid \in GroupsOf(table)
          /\ JobIn(table, table.jobs[k].pgid) = table.jobs[k]
      BY <1>1, JobInGroup
    <3> DEFINE f == table.jobs[k].pgid
    <3>2. /\ BookOf(table') = [BookOf(table) EXCEPT ![f].stopped = table'.jobs[k].stopped,
                                                    ![f].finished = finished]
          /\ NewerOf(table') = NewestOf(NewerOf(table), f, GroupsOf(table))
      BY <1>1, <2>1, RewrittenBook
    <3>3. f = g
      BY <1>4
    <3> HIDE DEF f, finished
    <3>4. f \in GroupsOf(table) /\ JobIn(table, f) = table.jobs[k]
      BY <3>1 DEF f
    <3> QED
      BY <3>2, <3>3, <3>4, Zenon
  <2>3. BookOf(table') = [BookOf(table) EXCEPT ![g].stopped = TRUE]
    <3>1. finished = job_all_done(JobIn(table, g))
      BY <2>1, <2>2
    <3> HIDE DEF finished
    <3>2. ChangedAt(BookOf(table), g, TRUE, finished) = MarkedAt(BookOf(table), g, TRUE)
      BY <2>2, <3>1, SameFinished
    <3> QED
      BY <2>1, <2>2, <3>2, Zenon DEF ChangedAt, MarkedAt
  <2>4. table'.next_job_id = table.next_job_id
    BY <2>1 DEF Rewrites
  <2> QED
    BY <1>2, <2>2, <2>3, <2>4, SuspendStep
<1> QED
  BY <1>2, <1>3, <1>4

(* A status of a process the table does not hold changes nothing; any      *)
(* other is a report about its job.                                        *)
LEMMA NoteReports ==
  ASSUME Inv, NEW pid, NEW status \in Statuses, Inv',
         table' = jobs_note_process_status(table, pid, status)
  PROVE  \/ UNCHANGED table
         \/ \E g \in Pids, stopped, finished \in BOOLEAN : Book!Report(g, stopped, finished)
<1> DEFINE k == find_job_by_pid(table, pid)
<1>2. /\ k = 0 => UNCHANGED table
      /\ k # 0 => NotedJob(table, table', k)
  BY NoteStatusKeeps DEF Inv
<1>3. ASSUME k # 0
      PROVE  \E g \in Pids, stopped, finished \in BOOLEAN : Book!Report(g, stopped, finished)
  <2> HIDE DEF k
  <2> DEFINE g == table.jobs[k].pgid
             stopped == table'.jobs[k].stopped
             finished == job_all_done(table'.jobs[k])
  <2>1. /\ k \in DOMAIN table.jobs /\ Rewrites(table, table', k) /\ stopped \in BOOLEAN
        /\ table'.jobs[k].serial = IF stopped /\ ~table.jobs[k].stopped
                                   THEN table.next_serial ELSE table.jobs[k].serial
    BY <1>2, <1>3 DEF NotedJob
  <2>2. g \in GroupsOf(table) /\ g \in Pids /\ BookOf(table)[g].stopped = table.jobs[k].stopped
    BY <2>1, JobInGroup DEF Inv, JobRecords, BookOf, Entry
  <2>3. finished \in BOOLEAN
    BY DEF job_all_done
  <2>4. /\ BookOf(table') = [BookOf(table) EXCEPT ![g].stopped = stopped, ![g].finished = finished]
        /\ table'.jobs[k].serial = table.jobs[k].serial => NewerOf(table') = NewerOf(table)
        /\ table'.jobs[k].serial = table.next_serial
             => NewerOf(table') = NewestOf(NewerOf(table), g, GroupsOf(table))
    BY <2>1, RewrittenBook DEF Inv
  <2>5. table'.next_job_id = table.next_job_id
    BY <2>1 DEF Rewrites
  <2>6. NewerOf(table') = IF stopped /\ ~BookOf(table)[g].stopped
                          THEN NewestOf(NewerOf(table), g, GroupsOf(table)) ELSE NewerOf(table)
    BY <2>1, <2>2, <2>4, Zenon
  <2> HIDE DEF g, stopped, finished
  <2>7. Book!Report(g, stopped, finished)
    BY <2>2, <2>4, <2>5, <2>6, ReportStep
  <2> QED
    BY <2>1, <2>2, <2>3, <2>7
<1> QED
  BY <1>2, <1>3

(* fg and bg resume the job they name.                                     *)
LEMMA RunningResumes ==
  ASSUME Inv, NEW pgid \in Pids, MarkRunning(pgid), Inv'
  PROVE  UNCHANGED table \/ Book!Resume(pgid)
<1> DEFINE k == find_job_by_pgid(table, pgid)
<1>1. table' = jobs_mark_job_running(table, pgid)
  BY DEF MarkRunning
<1>2. /\ k = 0 => UNCHANGED table
      /\ k # 0 => ResumedJob(table, table', k)
  BY <1>1, MarkRunningKeeps DEF Inv
<1>3. k # 0 => table.jobs[k].pgid = pgid
  BY PgidLookup DEF Inv
<1>4. ASSUME k # 0
      PROVE  Book!Resume(pgid)
  <2> HIDE DEF k
  <2>1. /\ k \in DOMAIN table.jobs /\ Rewrites(table, table', k)
        /\ table'.jobs[k].serial = table.next_serial /\ table'.jobs[k].stopped = FALSE
        /\ job_all_done(table'.jobs[k]) = job_all_done(table.jobs[k])
    BY <1>2, <1>4 DEF ResumedJob
  <2> DEFINE g == table.jobs[k].pgid
             finished == job_all_done(table'.jobs[k])
  <2>2. g = pgid /\ g \in GroupsOf(table) /\ JobIn(table, g) = table.jobs[k]
    BY <1>3, <1>4, <2>1, JobInGroup DEF Inv
  <2>3. /\ BookOf(table') = [BookOf(table) EXCEPT ![g].stopped = table'.jobs[k].stopped,
                                                  ![g].finished = finished]
        /\ NewerOf(table') = NewestOf(NewerOf(table), g, GroupsOf(table))
    BY <2>1, RewrittenBook DEF Inv
  <2>4. BookOf(table') = [BookOf(table) EXCEPT ![g].stopped = FALSE]
    <3>1. finished = job_all_done(JobIn(table, g))
      BY <2>1, <2>2
    <3> HIDE DEF g, finished
    <3>2. ChangedAt(BookOf(table), g, FALSE, finished) = MarkedAt(BookOf(table), g, FALSE)
      BY <2>2, <3>1, SameFinished
    <3> QED
      BY <2>1, <2>3, <3>2, Zenon DEF ChangedAt, MarkedAt
  <2>5. table'.next_job_id = table.next_job_id
    BY <2>1 DEF Rewrites
  <2> HIDE DEF g
  <2>6. Book!Resume(g)
    BY <2>2, <2>3, <2>4, <2>5, ResumeStep
  <2> QED
    BY <2>2, <2>6
<1> QED
  BY <1>2, <1>4

(* A completed job that is forgotten is dropped.                           *)
LEMMA ForgetDrops ==
  ASSUME Inv, NEW pgid \in Pids, Forget(pgid), Inv'
  PROVE  Book!Drop(pgid)
<1> DEFINE k == find_job_by_pgid(table, pgid)
<1>1. table' = jobs_forget_pgid(table, pgid) /\ k # 0 /\ job_all_done(table.jobs[k])
  BY DEF Forget, jobs_job_is_completed
<1>2. k \in DOMAIN table.jobs /\ Removes(table, table', k)
  BY <1>1, ForgetKeeps DEF Inv
<1> HIDE DEF k
<1> DEFINE g == table.jobs[k].pgid
<1>3. g = pgid
  BY <1>1, PgidLookup DEF Inv, k
<1>4. g \in GroupsOf(table) /\ JobIn(table, g) = table.jobs[k]
  BY <1>2, JobInGroup DEF Inv
<1>5. BookOf(table)[g].finished
  BY <1>1, <1>4 DEF BookOf, Entry
<1>6. /\ BookOf(table') = [h \in GroupsOf(table) \ {g} |-> BookOf(table)[h]]
      /\ NewerOf(table') = {p \in NewerOf(table) : p[1] # g /\ p[2] # g}
  <2>1. Core(table) /\ Core(table')
    BY DEF Inv
  <2> QED
    BY <1>2, <2>1, RemovedBook
<1>7. table'.next_job_id = table.next_job_id
  BY <1>2 DEF Removes
<1> HIDE DEF g
<1>8. Book!Drop(g)
  BY <1>3, <1>4, <1>5, <1>6, <1>7, DropStep
<1> QED
  BY <1>3, <1>8

(* Every step is a step of the book or leaves it alone.                    *)
LEMMA StepsOfTheBook == Inv /\ Inv' /\ [Next]_vars => [Book!Next]_(Book!vars)
<1> SUFFICES ASSUME Inv, Inv', [Next]_vars
             PROVE  Book!Next \/ UNCHANGED Book!vars
  OBVIOUS
<1>1. ASSUME NEW pid \in Pids, NEW command \in Commands, TrackAsync(pid, command)
      PROVE  Book!Next
  BY <1>1, AsyncEnters DEF Book!Next
<1>2. ASSUME NEW pids \in PidSeqs, NEW isolate \in BOOLEAN, NEW command \in Commands,
             NEW statuses \in StatusSeqs(pids), TrackStopped(pids, statuses, isolate, command)
      PROVE  Book!Next
  BY <1>2, StopEntersOrSuspends DEF Book!Next
<1>3. ASSUME NEW pid \in Pids, NEW status \in Statuses, NoteStatus(pid, status)
      PROVE  Book!Next \/ UNCHANGED Book!vars
  <2>1. table' = jobs_note_process_status(table, pid, status)
    BY <1>3 DEF NoteStatus
  <2> QED
    BY <2>1, NoteReports, StutterStep DEF Book!Next
<1>4. ASSUME NEW pgid \in Pids, MarkRunning(pgid)
      PROVE  Book!Next \/ UNCHANGED Book!vars
  BY <1>4, RunningResumes, StutterStep DEF Book!Next
<1>5. ASSUME NEW pgid \in Pids, Forget(pgid)
      PROVE  Book!Next
  BY <1>5, ForgetDrops DEF Book!Next
<1>6. CASE NoteDue
  <2>1. Head(due).status \in Statuses \cup {NoStatus}
    <3>1. Head(due) \in Dues
      BY <1>6 DEF Inv, NoteDue, Quiet
    <3> QED
      BY <3>1 DEF Dues
  <2>2. CASE Head(due).status = NoStatus
    <3>1. UNCHANGED table
      BY <1>6, <2>2 DEF NoteDue
    <3> QED
      BY <3>1, StutterStep
  <2>3. CASE Head(due).status # NoStatus
    <3>1. table' = jobs_note_process_status(table, Head(due).pid, Head(due).status)
      BY <1>6, <2>3 DEF NoteDue
    <3> QED
      BY <2>1, <2>3, <3>1, NoteReports, StutterStep DEF Book!Next
  <2> QED
    BY <2>2, <2>3
<1>7. CASE UNCHANGED vars
  BY <1>7, StutterStep DEF vars
<1> QED
  BY <1>1, <1>2, <1>3, <1>4, <1>5, <1>6, <1>7 DEF Next

(* The array with its swap on removal, its serials and its scans is the    *)
(* book of jobs: every call on one job leaves the id, the state and the    *)
(* place in the order of recency of every other job alone.                 *)
THEOREM BookIsImplemented == Spec => ImplementsBook
<1>1. Inv /\ Inv' /\ [Next]_vars => [Book!Next]_(Book!vars)
  BY StepsOfTheBook
<1>2. Init => Book!Init
  BY BookInit
<1>3. Spec => []Inv
  BY Invariance
<1> QED
  BY <1>1, <1>2, <1>3, PTL DEF Spec, ImplementsBook, Book!Spec
=============================================================================
