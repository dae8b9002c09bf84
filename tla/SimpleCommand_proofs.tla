----------------------- MODULE SimpleCommand_proofs ------------------------
(***************************************************************************)
(* Proofs about SimpleCommand, for every limit of open files, every set of *)
(* files and scripts, and every depth of nesting.                          *)
(*                                                                         *)
(* A table is said to hold what a stack of commands has saved.  The shell's *)
(* own table does, for all the commands under way; and the table that the  *)
(* parent of a subshell waits with does, for the commands outside of it.   *)
(***************************************************************************)
EXTENDS SimpleCommand, SequenceTheorems, WellFoundedInduction, TLAPS

-----------------------------------------------------------------------------
(* The descriptor table.                                                   *)

(* A set of numbers has a least one; all inductions below are on it.       *)
LEMMA LeastOf ==
  ASSUME NEW S \in SUBSET Nat, S # {}
  PROVE  \E x \in S : \A y \in S : x <= y
<1>1. PICK x \in S : \A y \in S : ~(<<y, x>> \in OpToRel(<, Nat))
  BY NatLessThanWellFounded, WFMin
<1> DEFINE less == {p \in Nat \X Nat : p[1] < p[2]}
<1>2. OpToRel(<, Nat) = less
  BY DEF OpToRel
<1>3. \A y \in S : ~(<<y, x>> \in less)
  BY <1>1, <1>2
<1>4. ASSUME NEW y \in S PROVE x <= y
  <2>1. x \in Nat /\ y \in Nat
    OBVIOUS
  <2>2. ~(<<y, x>>[1] < <<y, x>>[2])
    BY <1>3, <2>1
  <2> QED
    BY <2>1, <2>2
<1> QED
  BY <1>4

(* A set of descriptors has a lowest one, which open and F_DUPFD return.   *)
LEMMA LowestIs ==
  ASSUME NEW S \in SUBSET Fds, S # {}
  PROVE  Lowest(S) \in S /\ \A e \in S : Lowest(S) <= e
<1>1. S \in SUBSET Nat
  BY DescriptorsAssumption DEF Fds
<1>2. \E x \in S : \A y \in S : x <= y
  BY <1>1, LeastOf
<1> QED
  BY <1>2, Zenon DEF Lowest

(* What may be behind a descriptor.                                        *)
Behind == OpenFiles \cup {Closed}

(* Copying keeps what is behind a descriptor, and copying it again does    *)
(* nothing more.                                                           *)
LEMMA Copies ==
  ASSUME NEW w \in Behind
  PROVE  /\ Copy(w) \in Behind
         /\ Copy(Copy(w)) = Copy(w)
         /\ w # Closed <=> Copy(w) # Closed
         /\ Copy(Closed) = Closed
<1> DEFINE Everything == [file : Files \cup {Terminal, Text, "none"},
                          mode : Modes \cup {"closed"}, cloexec : BOOLEAN]
<1>1. Closed \in Everything /\ Closed.mode = "closed" /\ Closed.file = "none" /\ Closed.cloexec = FALSE
  BY DEF Closed, Open
<1>2. w \in Everything
  BY <1>1 DEF Behind, OpenFiles
<1>3. /\ Copy(w) \in Everything /\ Copy(w).file = w.file /\ Copy(w).mode = w.mode
      /\ Copy(w).cloexec = FALSE
  BY <1>2 DEF Copy
<1> HIDE DEF Everything
<1>4. w \in OpenFiles => Copy(w) \in OpenFiles
  BY DEF OpenFiles, Copy
<1>5. \A x \in OpenFiles : x.mode # "closed"
  BY DEF OpenFiles, Modes
<1>6. \A x \in Everything : x.cloexec = FALSE => Copy(x) = x
  BY DEF Everything, Copy
<1>7. Copy(Closed) = Closed
  BY <1>1, <1>6
<1>8. Copy(Copy(w)) = Copy(w)
  BY <1>3, <1>6
<1> QED
  BY <1>1, <1>3, <1>4, <1>5, <1>7, <1>8 DEF Behind

(* A descriptor table maps every descriptor, and writing one keeps it a    *)
(* table.                                                                  *)
LEMMA Typed ==
  ASSUME NEW t \in Tables
  PROVE  /\ DOMAIN t = Fds
         /\ \A d \in Fds : t[d] \in Behind
         /\ \A d \in Fds, w \in Behind : [t EXCEPT ![d] = w] \in Tables
BY DEF Tables, Behind

(* The descriptors a script can name are descriptors, and -1 (closed) is   *)
(* none.                                                                   *)
LEMMA VisibleFds ==
  /\ Visible \subseteq Fds
  /\ -1 \notin Fds
  /\ \A d \in Visible : d \notin Fds \ Visible
BY DescriptorsAssumption DEF Visible, Fds

(* dup2 writes its target and nothing else.                                *)
LEMMA Dup2Writes ==
  ASSUME NEW t \in Tables, NEW source \in Fds, NEW target \in Fds
  PROVE  /\ Dup2(t, source, target) \in Tables
         /\ source # target => Dup2(t, source, target)[target] = Copy(t[source])
         /\ \A d \in Fds : d # target => Dup2(t, source, target)[d] = t[d]
<1>1. Copy(t[source]) \in Behind
  BY Typed, Copies
<1> QED
  BY <1>1, Typed DEF Dup2

(* A redirection writes its target and nothing else: the descriptor at     *)
(* which a file is opened on the way is free before and after.             *)
Writes(t, u, target) ==
  /\ u \in Tables
  /\ \A d \in Fds : d # target => u[d] = t[d]

(* Installing an opened file writes the target and nothing else a script   *)
(* can name.                                                               *)
LEMMA InstallWrites ==
  ASSUME NEW t \in Tables, NEW there, NEW target \in Visible, NEW what \in OpenFiles
  PROVE  Writes(t, Install(t, there, target, what).fds, target)
<1> DEFINE free == FreeFrom(t, 0)
           d == Lowest(free)
           opened == [t EXCEPT ![d] = what]
           closed == [Dup2(opened, d, target) EXCEPT ![d] = Closed]
<1>1. CASE free = {}
  BY <1>1 DEF Install, Result, Writes
<1>2. CASE free # {}
  <2>1. free \subseteq Fds /\ \A e \in free : t[e] = Closed
    BY DEF FreeFrom, Fds
  <2>2. d \in free
    BY <1>2, <2>1, LowestIs
  <2>3. Install(t, there, target, what).fds = IF d = target THEN opened ELSE closed
    BY <1>2 DEF Install, Result
  <2> HIDE DEF d, free
  <2>4. d \in Fds /\ t[d] = Closed /\ target \in Fds /\ Closed \in Behind /\ what \in Behind
    BY <2>1, <2>2, VisibleFds DEF Behind
  <2>5. opened \in Tables /\ \A e \in Fds : opened[e] = IF e = d THEN what ELSE t[e]
    BY <2>4, Typed
  <2> HIDE DEF opened
  <2>6. /\ Dup2(opened, d, target) \in Tables
        /\ \A e \in Fds : e # target => Dup2(opened, d, target)[e] = opened[e]
    BY <2>4, <2>5, Dup2Writes
  <2>7. /\ closed \in Tables
        /\ \A e \in Fds : closed[e] = IF e = d THEN Closed ELSE Dup2(opened, d, target)[e]
    BY <2>4, <2>6, Typed
  <2> HIDE DEF closed
  <2> QED
    BY <2>3, <2>4, <2>5, <2>6, <2>7 DEF Writes
<1> QED
  BY <1>1, <1>2

(* A redirection writes its target and no other visible descriptor.        *)
LEMMA RedirectionWrites ==
  ASSUME NEW t \in Tables, NEW there, NEW noclobber, NEW r \in Redirections
  PROVE  /\ r.target \in Visible
         /\ Writes(t, apply_one_redirection(t, there, noclobber, r).fds, r.target)
<1> DEFINE res == apply_one_redirection(t, there, noclobber, r)
<1>1. r.target \in Visible /\ r.target \in Fds
  BY VisibleFds DEF Redirections
<1>2. Writes(t, t, r.target)
  BY DEF Writes
<1>3. CASE r.kind \in Opening
  <2>1. r.path \in Files
    BY <1>3 DEF Redirections, Opening
  <2>2. Open(r.path, ModeOf(r.kind)) \in OpenFiles
    <3>1. ModeOf(r.kind) \in Modes
      BY <1>3 DEF ModeOf, Modes, Opening
    <3> QED
      BY <2>1, <3>1 DEF Open, OpenFiles
  <2>3. res = apply_opening(t, there, noclobber, r)
    BY <1>3 DEF apply_one_redirection, Opening
  <2>4. apply_opening(t, there, noclobber, r).fds
          \in {t, Install(t, there \cup {r.path}, r.target, Open(r.path, ModeOf(r.kind))).fds}
    BY DEF apply_opening, Result
  <2>5. Writes(t, Install(t, there \cup {r.path}, r.target, Open(r.path, ModeOf(r.kind))).fds, r.target)
    BY <1>1, <2>2, InstallWrites
  <2> HIDE DEF res
  <2> QED
    BY <1>1, <1>2, <2>3, <2>4, <2>5 DEF res
<1>4. CASE r.kind = "heredoc"
  <2>1. res = apply_heredoc(t, there, r)
    BY <1>4 DEF apply_one_redirection, Opening
  <2>2. [Open(Text, "rw") EXCEPT !.cloexec = TRUE] \in OpenFiles
    BY DEF Open, OpenFiles, Modes
  <2> QED
    BY <1>1, <2>1, <2>2, InstallWrites DEF apply_heredoc
<1>5. CASE r.kind \in {"dup_in", "dup_out"}
  <2>1. res = apply_dup(t, there, r)
    BY <1>5 DEF apply_one_redirection, Opening
  <2>2. r.source \in Fds
    BY <1>5, VisibleFds DEF Redirections, Opening
  <2>3. Writes(t, Dup2(t, r.source, r.target), r.target)
    BY <1>1, <2>2, Dup2Writes DEF Writes
  <2> QED
    BY <1>1, <1>2, <2>1, <2>3 DEF apply_dup, Result
<1>6. CASE r.kind = "close"
  <2>1. res.fds = [t EXCEPT ![r.target] = Closed]
    BY <1>6 DEF apply_one_redirection, Opening, Result
  <2>2. Closed \in Behind
    BY DEF Behind
  <2>3. Writes(t, [t EXCEPT ![r.target] = Closed], r.target)
    BY <1>1, <2>2, Typed DEF Writes
  <2> QED
    BY <1>1, <2>1, <2>3
<1>7. r.kind \in Opening \cup {"heredoc", "dup_in", "dup_out", "close"}
  BY DEF Redirections
<1> QED
  BY <1>3, <1>4, <1>5, <1>6, <1>7

-----------------------------------------------------------------------------
(* The invariant.                                                          *)

FrameFields == {"kind", "prefix", "redirs", "phase", "next", "backups", "before", "there",
                "outcome", "given", "stays", "parent"}

(* The descriptors that a command has given away for good: those it has    *)
(* redirected for the shell itself, and those that stay changed.           *)
Persists(f) == f.kind \in Persistent /\ f.phase = "apply"
GivenAway(f) ==
  f.stays \cup (IF Persists(f) THEN Targets(SubSeq(f.redirs, 1, f.next - 1)) ELSE {})

(* A frame on its own.  Nothing is saved where a command begins, spawns or *)
(* returns, nor for the shell's own redirections; nothing is given away    *)
(* before the body has run; a child is made for utilities and words that   *)
(* expand to nothing.                                                      *)
FrameOK(f) ==
  /\ DOMAIN f = FrameFields
  /\ f.redirs \in Seq(Redirections)
  /\ f.backups \in Seq(Backups)
  /\ f.next \in 1 .. Len(f.redirs) + 1
  /\ f.phase \in {"operands", "assign", "spawn", "done"} => f.backups = <<>>
  /\ Persists(f) => f.backups = <<>>
  /\ f.phase = "spawn" => f.kind \in Children
  /\ f.phase \in {"operands", "prefix", "values", "unprefix", "assign", "apply", "spawn"}
       => f.stays = {}

(* What an entry of a vector of backups stands for in a table: the         *)
(* descriptor that was behind it when its command began.                   *)
Holds(t, lk, f, b) ==
  IF b.was_open
  THEN /\ b.saved_fd \in Fds \ Visible
       /\ b.saved_fd \notin lk
       /\ t[b.saved_fd] # Closed
       /\ Copy(t[b.saved_fd]) = f.before[b.fd]
  ELSE b.saved_fd = -1 /\ f.before[b.fd] = Closed

(* A table with what it has leaked holds all that the first n commands     *)
(* have saved, and nothing else.                                           *)
Held(fs, t, lk, n) ==
  /\ t \in Tables
  /\ \A i \in 1 .. n : \A k \in 1 .. Len(fs[i].backups) : Holds(t, lk, fs[i], fs[i].backups[k])
  /\ \A d \in lk : d \in Fds \ Visible /\ t[d] # Closed
  /\ \A d \in Fds \ Visible : t[d] # Closed =>
       \/ d \in lk
       \/ \E i \in 1 .. n : \E k \in 1 .. Len(fs[i].backups) : fs[i].backups[k].saved_fd = d

(* No descriptor is saved twice.                                           *)
SavedOnce(fs) ==
  \A i, j \in 1 .. Len(fs) :
    \A k \in 1 .. Len(fs[i].backups), l \in 1 .. Len(fs[j].backups) :
      fs[i].backups[k].saved_fd = fs[j].backups[l].saved_fd /\ fs[i].backups[k].saved_fd # -1
        => i = j /\ k = l

(* Where nothing is saved and nothing is given away the descriptors are    *)
(* those of the beginning: in the table of the shell for the innermost     *)
(* command, and, for the others, in what the next one began with.          *)
Untouched(f) == Visible \ (SavedFor(f.backups) \cup GivenAway(f))
SeesBefore(f, view) == \A d \in Untouched(f) : view[d] = f.before[d]

Waiting(fs) ==
  \A i \in 1 .. Len(fs) - 1 : /\ fs[i].phase \in {"body", "called"}
                              /\ SeesBefore(fs[i], fs[i + 1].before)

(* The parent of a subshell has what it had when the subshell was made.    *)
InSubshell(f) == f.kind = "subshell" /\ f.phase = "body"
ParentKept(fs, s) ==
  /\ Held(fs, fs[s].parent.fds, fs[s].parent.leaked, s)
  /\ \A d \in Visible \ SavedFor(fs[s].backups) :
       View(fs[s].parent.fds)[d] = fs[s].before[d]

FramesOf(fs, t) ==
  /\ \A i \in 1 .. Len(fs) : FrameOK(fs[i])
  /\ Waiting(fs)
  /\ fs # <<>> => SeesBefore(fs[Len(fs)], View(t))
  /\ \A s \in 1 .. Len(fs) : InSubshell(fs[s]) => ParentKept(fs, s)

DescriptorsOf(fs, t, lk) ==
  /\ Held(fs, t, lk, Len(fs))
  /\ SavedOnce(fs)

IsStack(fs) == \E S : fs \in Seq(S)

Keeps(fs, t, lk) == IsStack(fs) /\ FramesOf(fs, t) /\ DescriptorsOf(fs, t, lk)

RedirectionsInv == Keeps(frames, fds, leaked)

-----------------------------------------------------------------------------
(* Saving and undoing one descriptor.                                      *)

(* fd_backup_save: nothing is done if the descriptor is saved already or   *)
(* there is no room; otherwise it is noted as closed, or copied to a free  *)
(* descriptor out of the program's sight.                                  *)
SavesNothing(t, backups, fd, s) ==
  s.fds = t /\ s.backups = backups /\ (s.rc = 0 => fd \in SavedFor(backups))

SavesOne(t, backups, fd, s, b) ==
  /\ b \in Backups
  /\ s.backups = Append(backups, b)
  /\ b.fd = fd
  /\ fd \notin SavedFor(backups)
  /\ \/ ~b.was_open /\ b.saved_fd = -1 /\ t[fd] = Closed /\ s.fds = t
     \/ /\ b.was_open
        /\ b.saved_fd \in Fds \ Visible
        /\ t[b.saved_fd] = Closed
        /\ t[fd] # Closed
        /\ s.fds = [t EXCEPT ![b.saved_fd] = Copy(t[fd])]

(* Saving a descriptor either does nothing (it is saved already, or there  *)
(* is no room) or adds one backup.                                         *)
LEMMA SaveEffect ==
  ASSUME NEW t \in Tables, NEW backups \in Seq(Backups), NEW fd \in Visible
  PROVE  LET s == fd_backup_save(t, backups, fd)
         IN  SavesNothing(t, backups, fd, s) \/ \E b : SavesOne(t, backups, fd, s, b)
<1> DEFINE s == fd_backup_save(t, backups, fd)
           free == FreeFrom(t, FirstSaved)
           d == Lowest(free)
           none == [fd |-> fd, saved_fd |-> -1, was_open |-> FALSE]
           one == [fd |-> fd, saved_fd |-> d, was_open |-> TRUE]
<1>1. CASE fd \in SavedFor(backups) \/ (t[fd] # Closed /\ free = {})
  <2>1. s.fds = t /\ s.backups = backups /\ (s.rc = 0 => fd \in SavedFor(backups))
    BY <1>1 DEF fd_backup_save
  <2> QED
    BY <2>1 DEF SavesNothing
<1>2. CASE fd \notin SavedFor(backups) /\ t[fd] = Closed
  <2>1. s.backups = Append(backups, none) /\ s.fds = t
    BY <1>2 DEF fd_backup_save
  <2>2. none \in Backups /\ none.fd = fd /\ none.was_open = FALSE /\ none.saved_fd = -1
    BY DEF Backups
  <2> HIDE DEF s, none
  <2>3. SavesOne(t, backups, fd, s, none)
    BY <1>2, <2>1, <2>2 DEF SavesOne
  <2> QED
    BY <2>3 DEF s
<1>3. CASE fd \notin SavedFor(backups) /\ t[fd] # Closed /\ free # {}
  <2>1. s.backups = Append(backups, one) /\ s.fds = [t EXCEPT ![d] = Copy(t[fd])]
    BY <1>3 DEF fd_backup_save
  <2>2. /\ free \subseteq Fds
        /\ \A e \in free : e \in Fds \ Visible /\ t[e] = Closed
    BY DescriptorsAssumption DEF FreeFrom, Fds, Visible
  <2>3. d \in free
    BY <1>3, <2>2, LowestIs
  <2> HIDE DEF d, free
  <2>4. /\ one \in Backups /\ one.fd = fd /\ one.was_open = TRUE /\ one.saved_fd = d
        /\ d \in Fds \ Visible /\ t[d] = Closed
    BY <2>2, <2>3 DEF Backups
  <2> HIDE DEF s, one
  <2>5. SavesOne(t, backups, fd, s, one)
    BY <1>3, <2>1, <2>4 DEF SavesOne
  <2> QED
    BY <2>5 DEF s
<1> QED
  BY <1>1, <1>2, <1>3

(* What a vector has saved for.                                            *)
LEMMA SavedForAppend ==
  ASSUME NEW backups \in Seq(Backups), NEW b \in Backups
  PROVE  /\ SavedFor(Append(backups, b)) = SavedFor(backups) \cup {b.fd}
         /\ Append(backups, b) \in Seq(Backups)
         /\ Len(Append(backups, b)) = Len(backups) + 1
         /\ \A k \in 1 .. Len(backups) : Append(backups, b)[k] = backups[k]
         /\ Append(backups, b)[Len(backups) + 1] = b
<1>1. /\ Append(backups, b) \in Seq(Backups)
      /\ Len(Append(backups, b)) = Len(backups) + 1
      /\ \A k \in 1 .. Len(backups) : Append(backups, b)[k] = backups[k]
      /\ Append(backups, b)[Len(backups) + 1] = b
  OBVIOUS
<1>2. /\ DOMAIN backups = 1 .. Len(backups)
      /\ DOMAIN Append(backups, b) = 1 .. Len(backups) + 1
      /\ Len(backups) \in Nat
  OBVIOUS
<1> DEFINE longer == Append(backups, b)
<1> HIDE DEF longer
<1>3. SavedFor(longer) = SavedFor(backups) \cup {b.fd}
  <2>1. \A k \in 1 .. Len(backups) + 1 : k \in 1 .. Len(backups) \/ k = Len(backups) + 1
    BY <1>2
  <2>2. Len(backups) + 1 \in 1 .. Len(backups) + 1 /\ 1 .. Len(backups) \subseteq 1 .. Len(backups) + 1
    BY <1>2
  <2> QED
    BY <1>1, <1>2, <2>1, <2>2 DEF SavedFor, longer
<1> QED
  BY <1>1, <1>3 DEF longer

(* Taking the last backup off the list leaves the others, in their order.  *)
LEMMA SavedForPop ==
  ASSUME NEW backups \in Seq(Backups), backups # <<>>
  PROVE  LET last == Len(backups)
             rest == SubSeq(backups, 1, last - 1)
         IN  /\ last \in Nat \ {0} /\ backups[last] \in Backups
             /\ rest \in Seq(Backups) /\ Len(rest) = last - 1
             /\ \A k \in 1 .. last - 1 : rest[k] = backups[k]
             /\ SavedFor(backups) = SavedFor(rest) \cup {backups[last].fd}
<1> DEFINE last == Len(backups)
           rest == SubSeq(backups, 1, last - 1)
<1>1. last \in Nat \ {0} /\ backups[last] \in Backups /\ DOMAIN backups = 1 .. last
  OBVIOUS
<1>2. rest \in Seq(Backups) /\ Len(rest) = last - 1 /\ DOMAIN rest = 1 .. last - 1
  BY <1>1
<1>3. \A k \in 1 .. last - 1 : rest[k] = backups[k]
  BY <1>1
<1> HIDE DEF rest, last
<1>4. 1 .. last = (1 .. last - 1) \cup {last}
  BY <1>1
<1>5. SavedFor(backups) = SavedFor(rest) \cup {backups[last].fd}
  BY <1>1, <1>2, <1>3, <1>4 DEF SavedFor
<1> QED
  BY <1>1, <1>2, <1>3, <1>5 DEF rest, last

-----------------------------------------------------------------------------
(* What a table holds.                                                     *)

SameSaved(fs, gs, n) ==
  \A i \in 1 .. n : gs[i].backups = fs[i].backups /\ gs[i].before = fs[i].before

(* It depends on what the commands have saved, on nothing else,            *)
LEMMA HeldAlike ==
  ASSUME NEW fs, NEW gs, NEW t, NEW lk, NEW n \in Nat, NEW m \in Nat, Held(fs, t, lk, n),
         \A i \in 1 .. m : \/ /\ i \in 1 .. n
                             /\ gs[i].backups = fs[i].backups /\ gs[i].before = fs[i].before
                          \/ gs[i].backups = <<>>,
         \A i \in 1 .. n : \/ i \in 1 .. m /\ gs[i].backups = fs[i].backups
                          \/ fs[i].backups = <<>>
  PROVE  Held(gs, t, lk, m)
<1>1. 1 .. Len(<<>>) = {}
  OBVIOUS
<1>2. ASSUME NEW i \in 1 .. m, NEW k \in 1 .. Len(gs[i].backups)
      PROVE  Holds(t, lk, gs[i], gs[i].backups[k])
  <2>1. i \in 1 .. n /\ gs[i].backups = fs[i].backups /\ gs[i].before = fs[i].before
    BY <1>1, <1>2
  <2>2. Holds(t, lk, fs[i], fs[i].backups[k])
    BY <1>2, <2>1 DEF Held
  <2> QED
    BY <2>1, <2>2 DEF Holds
<1>3. ASSUME NEW d \in Fds \ Visible, t[d] # Closed, d \notin lk
      PROVE  \E i \in 1 .. m : \E k \in 1 .. Len(gs[i].backups) : gs[i].backups[k].saved_fd = d
  <2>1. PICK i \in 1 .. n : \E k \in 1 .. Len(fs[i].backups) : fs[i].backups[k].saved_fd = d
    BY <1>3 DEF Held
  <2>2. i \in 1 .. m /\ gs[i].backups = fs[i].backups
    BY <1>1, <2>1
  <2> QED
    BY <2>1, <2>2
<1> QED
  BY <1>2, <1>3 DEF Held

(* What is held for the commands depends on their backups and snapshots    *)
(* alone.                                                                  *)
LEMMA HeldSame ==
  ASSUME NEW fs, NEW gs, NEW t, NEW lk, NEW n \in Nat, Held(fs, t, lk, n), SameSaved(fs, gs, n)
  PROVE  Held(gs, t, lk, n)
BY HeldAlike DEF SameSaved

(* not on the descriptors that programs see,                               *)
LEMMA HeldWrite ==
  ASSUME NEW fs, NEW t, NEW u, NEW lk, NEW n \in Nat, Held(fs, t, lk, n),
         NEW target \in Visible, Writes(t, u, target)
  PROVE  Held(fs, u, lk, n)
<1>1. u \in Tables /\ \A d \in Fds \ Visible : u[d] = t[d]
  BY VisibleFds DEF Writes
<1> QED
  BY <1>1 DEF Held, Holds

(* and not on commands that have saved nothing.                            *)
LEMMA HeldMore ==
  ASSUME NEW fs, NEW gs, NEW t, NEW lk, NEW n \in Nat, Held(fs, t, lk, n),
         SameSaved(fs, gs, n), gs[n + 1].backups = <<>>
  PROVE  Held(gs, t, lk, n + 1)
<1>1. \A i \in 1 .. n + 1 : i \in 1 .. n \/ i = n + 1
  OBVIOUS
<1>2. 1 .. n \subseteq 1 .. n + 1
  OBVIOUS
<1>3. \A i \in 1 .. n + 1 : \/ /\ i \in 1 .. n
                                /\ gs[i].backups = fs[i].backups /\ gs[i].before = fs[i].before
                             \/ gs[i].backups = <<>>
  BY <1>1 DEF SameSaved
<1>4. \A i \in 1 .. n : i \in 1 .. n + 1 /\ gs[i].backups = fs[i].backups
  BY <1>2 DEF SameSaved
<1>5. n + 1 \in Nat
  OBVIOUS
<1> QED
  BY <1>3, <1>4, <1>5, HeldAlike

(* A command with no backups left holds nothing, so its frame can go.      *)
LEMMA HeldLess ==
  ASSUME NEW fs, NEW gs, NEW t, NEW lk, NEW n \in Nat \ {0}, Held(fs, t, lk, n),
         fs[n].backups = <<>>, SameSaved(fs, gs, n - 1)
  PROVE  Held(gs, t, lk, n - 1)
<1>1. \A i \in 1 .. n : i \in 1 .. n - 1 \/ i = n
  OBVIOUS
<1>2. 1 .. n - 1 \subseteq 1 .. n /\ n - 1 \in Nat /\ n \in Nat
  OBVIOUS
<1>3. \A i \in 1 .. n - 1 : /\ i \in 1 .. n
                            /\ gs[i].backups = fs[i].backups /\ gs[i].before = fs[i].before
  BY <1>2 DEF SameSaved
<1>4. \A i \in 1 .. n : \/ i \in 1 .. n - 1 /\ gs[i].backups = fs[i].backups
                        \/ fs[i].backups = <<>>
  BY <1>1 DEF SameSaved
<1> QED
  BY <1>2, <1>3, <1>4, HeldAlike

(* No descriptor is saved twice by a command, whatever happens to commands *)
(* that save nothing.                                                      *)
LEMMA OnceAlike ==
  ASSUME NEW fs, NEW gs, SavedOnce(fs),
         \A i \in 1 .. Len(gs) : \/ i \in 1 .. Len(fs) /\ gs[i].backups = fs[i].backups
                                \/ gs[i].backups = <<>>
  PROVE  SavedOnce(gs)
<1>1. 1 .. Len(<<>>) = {}
  OBVIOUS
<1> SUFFICES ASSUME NEW i \in 1 .. Len(gs), NEW j \in 1 .. Len(gs),
                    NEW k \in 1 .. Len(gs[i].backups), NEW l \in 1 .. Len(gs[j].backups),
                    gs[i].backups[k].saved_fd = gs[j].backups[l].saved_fd,
                    gs[i].backups[k].saved_fd # -1
             PROVE  i = j /\ k = l
  BY DEF SavedOnce
<1>2. i \in 1 .. Len(fs) /\ gs[i].backups = fs[i].backups
  BY <1>1
<1>3. j \in 1 .. Len(fs) /\ gs[j].backups = fs[j].backups
  BY <1>1
<1> QED
  BY <1>2, <1>3 DEF SavedOnce

(* Dropping backups keeps each descriptor saved once.                      *)
LEMMA OnceFewer ==
  ASSUME NEW fs, NEW gs, SavedOnce(fs),
         \A i \in 1 .. Len(gs) : \A k \in 1 .. Len(gs[i].backups) :
           /\ i \in 1 .. Len(fs) /\ k \in 1 .. Len(fs[i].backups)
           /\ gs[i].backups[k] = fs[i].backups[k]
  PROVE  SavedOnce(gs)
<1> SUFFICES ASSUME NEW i \in 1 .. Len(gs), NEW j \in 1 .. Len(gs),
                    NEW k \in 1 .. Len(gs[i].backups), NEW l \in 1 .. Len(gs[j].backups),
                    gs[i].backups[k].saved_fd = gs[j].backups[l].saved_fd,
                    gs[i].backups[k].saved_fd # -1
             PROVE  i = j /\ k = l
  BY DEF SavedOnce
<1>1. i \in 1 .. Len(fs) /\ k \in 1 .. Len(fs[i].backups) /\ gs[i].backups[k] = fs[i].backups[k]
  OBVIOUS
<1>2. j \in 1 .. Len(fs) /\ l \in 1 .. Len(fs[j].backups) /\ gs[j].backups[l] = fs[j].backups[l]
  OBVIOUS
<1> QED
  BY <1>1, <1>2 DEF SavedOnce

(* A change of the frames that keeps the backups keeps each descriptor     *)
(* saved once.                                                             *)
LEMMA OnceSame ==
  ASSUME NEW fs, NEW gs, Len(gs) = Len(fs), SavedOnce(fs), SameSaved(fs, gs, Len(fs))
  PROVE  SavedOnce(gs)
BY OnceAlike DEF SameSaved

(* A new command has saved nothing, so each descriptor is still saved      *)
(* once.                                                                   *)
LEMMA OnceMore ==
  ASSUME NEW fs, NEW gs, Len(fs) \in Nat, Len(gs) = Len(fs) + 1, SavedOnce(fs),
         SameSaved(fs, gs, Len(fs)), gs[Len(fs) + 1].backups = <<>>
  PROVE  SavedOnce(gs)
<1>1. \A i \in 1 .. Len(fs) + 1 : i \in 1 .. Len(fs) \/ i = Len(fs) + 1
  OBVIOUS
<1>2. \A i \in 1 .. Len(gs) : \/ i \in 1 .. Len(fs) /\ gs[i].backups = fs[i].backups
                              \/ gs[i].backups = <<>>
  BY <1>1 DEF SameSaved
<1> QED
  BY <1>2, OnceAlike

(* A command that has returned took its frame along.                       *)
LEMMA OnceLess ==
  ASSUME NEW fs, NEW gs, Len(fs) \in Nat \ {0}, Len(gs) = Len(fs) - 1, SavedOnce(fs),
         SameSaved(fs, gs, Len(fs) - 1)
  PROVE  SavedOnce(gs)
<1>1. 1 .. Len(fs) - 1 \subseteq 1 .. Len(fs)
  OBVIOUS
<1>2. \A i \in 1 .. Len(gs) : i \in 1 .. Len(fs) /\ gs[i].backups = fs[i].backups
  BY <1>1 DEF SameSaved
<1> QED
  BY <1>2, OnceAlike

(* The innermost command has saved, undone or abandoned something.         *)
TopSaves(fs, gs, n, backups) ==
  /\ SameSaved(fs, gs, n - 1)
  /\ gs[n].before = fs[n].before
  /\ gs[n].backups = backups

SeenAlike(t, u) == \A d \in Visible : u[d] = t[d]
Unchanged(t, f, fd) == Copy(t[fd]) = f.before[fd]

(* Saving a descriptor not yet touched records what the command found      *)
(* there.                                                                  *)
LEMMA HeldSave ==
  ASSUME NEW fs, NEW gs, NEW t, NEW lk, NEW n \in Nat \ {0}, Held(fs, t, lk, n),
         fs[n].backups \in Seq(Backups), NEW fd \in Visible, NEW s, NEW b,
         SavesOne(t, fs[n].backups, fd, s, b), Unchanged(t, fs[n], fd),
         TopSaves(fs, gs, n, s.backups)
  PROVE  Held(gs, s.fds, lk, n) /\ SeenAlike(t, s.fds)
<1> DEFINE old == fs[n].backups
           m == Len(old) + 1
           u == s.fds
<1>1. /\ b \in Backups /\ b.fd = fd /\ Len(old) \in Nat
      /\ gs[n].backups = Append(old, b) /\ Len(gs[n].backups) = m
      /\ gs[n].backups[m] = b
      /\ \A k \in 1 .. Len(old) : gs[n].backups[k] = old[k]
  BY SavedForAppend DEF SavesOne, TopSaves
<1>2. t \in Tables /\ fd \in Fds /\ t[fd] \in Behind /\ Copy(t[fd]) \in Behind
  BY VisibleFds, Typed, Copies DEF Held
<1>3. ASSUME b.was_open
      PROVE  /\ b.saved_fd \in Fds \ Visible /\ t[b.saved_fd] = Closed /\ t[fd] # Closed
             /\ u \in Tables
             /\ \A d \in Fds : u[d] = IF d = b.saved_fd THEN Copy(t[fd]) ELSE t[d]
             /\ Copy(u[b.saved_fd]) = Copy(t[fd]) /\ u[b.saved_fd] # Closed
  <2>1. /\ b.saved_fd \in Fds \ Visible /\ t[b.saved_fd] = Closed /\ t[fd] # Closed
        /\ u = [t EXCEPT ![b.saved_fd] = Copy(t[fd])]
    BY <1>3 DEF SavesOne
  <2> QED
    BY <1>2, <2>1, Typed, Copies
<1>4. ASSUME ~b.was_open
      PROVE  u = t /\ b.saved_fd = -1 /\ t[fd] = Closed
  BY <1>4 DEF SavesOne
<1> HIDE DEF u
<1>5. u \in Tables
  BY <1>2, <1>3, <1>4
<1>6. ASSUME NEW i \in 1 .. n, NEW k \in 1 .. Len(fs[i].backups)
      PROVE  Holds(u, lk, gs[i], fs[i].backups[k])
  <2> DEFINE c == fs[i].backups[k]
  <2>1. Holds(t, lk, fs[i], c)
    BY DEF Held
  <2>2. gs[i].before = fs[i].before
    BY DEF TopSaves, SameSaved
  <2> HIDE DEF c
  <2>3. c.was_open => u[c.saved_fd] = t[c.saved_fd]
    BY <1>3, <1>4, <2>1 DEF Holds
  <2> QED
    BY <2>1, <2>2, <2>3 DEF Holds, c
<1>7. Holds(u, lk, gs[n], b)
  <2>1. gs[n].before[b.fd] = Copy(t[fd])
    BY <1>1 DEF TopSaves, Unchanged
  <2>2. CASE b.was_open
    <3>1. b.saved_fd \notin lk
      BY <1>3, <2>2 DEF Held
    <3> QED
      BY <1>3, <2>1, <2>2, <3>1 DEF Holds
  <2>3. CASE ~b.was_open
    <3>1. Copy(Closed) = Closed
      BY <1>2, Copies
    <3> QED
      BY <1>4, <2>1, <2>3, <3>1 DEF Holds
  <2> QED
    BY <2>2, <2>3
<1>8. ASSUME NEW i \in 1 .. n, NEW k \in 1 .. Len(gs[i].backups)
      PROVE  Holds(u, lk, gs[i], gs[i].backups[k])
  <2>1. CASE i # n
    <3>1. gs[i].backups = fs[i].backups
      BY <2>1 DEF TopSaves, SameSaved
    <3> QED
      BY <1>6, <3>1
  <2>2. CASE i = n /\ k # m
    <3>1. k \in 1 .. Len(old) /\ gs[i].backups[k] = old[k]
      BY <1>1, <2>2
    <3> QED
      BY <1>6, <2>2, <3>1
  <2>3. CASE i = n /\ k = m
    BY <1>1, <1>7, <2>3
  <2> QED
    BY <2>1, <2>2, <2>3
<1>9. \A d \in lk : d \in Fds \ Visible /\ u[d] # Closed
  BY <1>3, <1>4 DEF Held
<1>10. ASSUME NEW d \in Fds \ Visible, u[d] # Closed, d \notin lk
       PROVE  \E i \in 1 .. n : \E k \in 1 .. Len(gs[i].backups) : gs[i].backups[k].saved_fd = d
  <2>1. CASE b.was_open /\ d = b.saved_fd
    <3>1. m \in 1 .. Len(gs[n].backups) /\ n \in 1 .. n
      BY <1>1
    <3> QED
      BY <1>1, <2>1, <3>1
  <2>2. CASE ~(b.was_open /\ d = b.saved_fd)
    <3>1. t[d] # Closed
      BY <1>3, <1>4, <1>10, <2>2
    <3>2. PICK i \in 1 .. n : \E k \in 1 .. Len(fs[i].backups) : fs[i].backups[k].saved_fd = d
      BY <1>10, <3>1 DEF Held
    <3>3. PICK k \in 1 .. Len(fs[i].backups) : fs[i].backups[k].saved_fd = d
      BY <3>2
    <3>4. k \in 1 .. Len(gs[i].backups) /\ gs[i].backups[k] = fs[i].backups[k]
      <4>1. CASE i = n
        BY <1>1, <3>3, <4>1
      <4>2. CASE i # n
        BY <3>3, <4>2 DEF TopSaves, SameSaved
      <4> QED
        BY <4>1, <4>2
    <3> QED
      BY <3>3, <3>4
  <2> QED
    BY <2>1, <2>2
<1>11. SeenAlike(t, u)
  BY <1>3, <1>4, VisibleFds DEF SeenAlike
<1> QED
  BY <1>5, <1>8, <1>9, <1>10, <1>11 DEF Held, u

(* Saving takes a descriptor that the command has not saved and a copy     *)
(* above those a script can name.                                          *)
LEMMA OnceSave ==
  ASSUME NEW fs, NEW gs, NEW t, NEW lk, NEW n \in Nat \ {0}, Held(fs, t, lk, n),
         fs[n].backups \in Seq(Backups), NEW fd \in Visible, NEW s, NEW b,
         SavesOne(t, fs[n].backups, fd, s, b), TopSaves(fs, gs, n, s.backups),
         Len(fs) = n, Len(gs) = n, SavedOnce(fs)
  PROVE  SavedOnce(gs)
<1> DEFINE old == fs[n].backups
           m == Len(old) + 1
<1>1. /\ b \in Backups /\ Len(old) \in Nat
      /\ Len(gs[n].backups) = m
      /\ gs[n].backups[m] = b
      /\ \A k \in 1 .. Len(old) : gs[n].backups[k] = old[k]
  BY SavedForAppend DEF SavesOne, TopSaves
<1>2. \A i \in 1 .. n : \A k \in 1 .. Len(fs[i].backups) :
        fs[i].backups[k].saved_fd # -1 => t[fs[i].backups[k].saved_fd] # Closed
  BY DEF Held, Holds
<1>3. b.saved_fd # -1 => t[b.saved_fd] = Closed
  BY DEF SavesOne
<1>4. ASSUME NEW i \in 1 .. n, NEW k \in 1 .. Len(gs[i].backups)
      PROVE  \/ i = n /\ k = m /\ gs[i].backups[k] = b
             \/ /\ ~(i = n /\ k = m)
                /\ k \in 1 .. Len(fs[i].backups) /\ gs[i].backups[k] = fs[i].backups[k]
  <2>1. CASE i # n
    BY <2>1 DEF TopSaves, SameSaved
  <2>2. CASE i = n
    BY <1>1, <2>2
  <2> QED
    BY <2>1, <2>2
<1> HIDE DEF m
<1>5. ASSUME NEW i \in 1 .. n, NEW j \in 1 .. n,
             NEW k \in 1 .. Len(gs[i].backups), NEW l \in 1 .. Len(gs[j].backups),
             gs[i].backups[k].saved_fd = gs[j].backups[l].saved_fd,
             gs[i].backups[k].saved_fd # -1
      PROVE  i = j /\ k = l
  <2> DEFINE x == gs[i].backups[k].saved_fd
             y == gs[j].backups[l].saved_fd
  <2>1. \/ i = n /\ k = m /\ x = b.saved_fd
        \/ k \in 1 .. Len(fs[i].backups) /\ x = fs[i].backups[k].saved_fd
    BY <1>4
  <2>2. \/ j = n /\ l = m /\ y = b.saved_fd
        \/ l \in 1 .. Len(fs[j].backups) /\ y = fs[j].backups[l].saved_fd
    BY <1>4
  <2>3. x = y /\ x # -1
    BY <1>5
  <2> HIDE DEF x, y
  <2>4. CASE i = n /\ k = m /\ x = b.saved_fd
    <3>1. CASE l \in 1 .. Len(fs[j].backups) /\ y = fs[j].backups[l].saved_fd
      <4>1. t[y] # Closed
        BY <1>2, <2>3, <3>1
      <4> QED
        BY <1>3, <2>3, <2>4, <4>1
    <3> QED
      BY <2>2, <2>4, <3>1
  <2>5. CASE k \in 1 .. Len(fs[i].backups) /\ x = fs[i].backups[k].saved_fd
    <3>1. t[x] # Closed
      BY <1>2, <2>3, <2>5
    <3>2. l \in 1 .. Len(fs[j].backups) /\ y = fs[j].backups[l].saved_fd
      BY <1>3, <2>2, <2>3, <3>1
    <3>3. i \in 1 .. Len(fs) /\ j \in 1 .. Len(fs)
      OBVIOUS
    <3>4. /\ fs[i].backups[k].saved_fd = fs[j].backups[l].saved_fd
          /\ fs[i].backups[k].saved_fd # -1
      BY <2>3, <2>5, <3>2
    <3>5. k \in 1 .. Len(fs[i].backups)
      BY <2>5
    <3>6. l \in 1 .. Len(fs[j].backups)
      BY <3>2
    <3> QED
      BY <3>3, <3>4, <3>5, <3>6 DEF SavedOnce
  <2> QED
    BY <2>1, <2>4, <2>5
<1> QED
  BY <1>5 DEF SavedOnce

(* Undoing the last backup puts back what the command found there, and     *)
(* only there.                                                             *)
LEMMA HeldUndo ==
  ASSUME NEW fs, NEW gs, NEW t, NEW lk, NEW n \in Nat \ {0}, Held(fs, t, lk, n),
         Len(fs) = n, Len(gs) = n, SavedOnce(fs),
         fs[n].backups \in Seq(Backups), fs[n].backups # <<>>,
         TopSaves(fs, gs, n, SubSeq(fs[n].backups, 1, Len(fs[n].backups) - 1))
  PROVE  LET b == fs[n].backups[Len(fs[n].backups)]
             u == fd_backup_undo(t, b)
         IN  /\ Held(gs, u, lk, n)
             /\ SavedOnce(gs)
             /\ b.fd \in Visible /\ Copy(u[b.fd]) = fs[n].before[b.fd]
             /\ \A d \in Visible : d # b.fd => u[d] = t[d]
<1> DEFINE old == fs[n].backups
           m == Len(old)
           b == old[m]
           u == fd_backup_undo(t, b)
           moved == Dup2(t, b.saved_fd, b.fd)
<1>1. /\ m \in Nat \ {0} /\ b \in Backups
      /\ Len(gs[n].backups) = m - 1
      /\ \A k \in 1 .. m - 1 : gs[n].backups[k] = old[k]
  BY SavedForPop DEF TopSaves
<1>2. Holds(t, lk, fs[n], b)
  BY <1>1 DEF Held
<1>3. b.fd \in Visible /\ b.fd \in Fds /\ t \in Tables /\ Closed \in Behind
  BY <1>1, VisibleFds DEF Backups, Held, Behind
<1>4. ASSUME b.was_open
      PROVE  /\ b.saved_fd \in Fds \ Visible
             /\ u \in Tables
             /\ \A d \in Fds : u[d] = IF d = b.saved_fd THEN Closed
                                       ELSE IF d = b.fd THEN Copy(t[b.saved_fd]) ELSE t[d]
  <2>1. b.saved_fd \in Fds \ Visible
    BY <1>2, <1>4 DEF Holds
  <2>2. /\ moved \in Tables
        /\ moved[b.fd] = Copy(t[b.saved_fd])
        /\ \A d \in Fds : d # b.fd => moved[d] = t[d]
    BY <1>3, <2>1, Dup2Writes
  <2>3. u = [moved EXCEPT ![b.saved_fd] = Closed]
    BY <1>4 DEF fd_backup_undo
  <2> HIDE DEF u, moved, b
  <2> QED
    BY <1>3, <2>1, <2>2, <2>3, Typed
<1>5. ASSUME ~b.was_open
      PROVE  /\ b.saved_fd = -1
             /\ u \in Tables
             /\ \A d \in Fds : u[d] = IF d = b.fd THEN Closed ELSE t[d]
  <2>1. b.saved_fd = -1
    BY <1>2, <1>5 DEF Holds
  <2>2. u = [t EXCEPT ![b.fd] = Closed]
    BY <1>5 DEF fd_backup_undo
  <2> HIDE DEF u, b
  <2>3. [t EXCEPT ![b.fd] = Closed] \in Tables
    BY <1>3, Typed
  <2>4. DOMAIN t = Fds
    BY <1>3, Typed
  <2>5. \A d \in Fds : [t EXCEPT ![b.fd] = Closed][d] = IF d = b.fd THEN Closed ELSE t[d]
    BY <1>3, <2>4
  <2> QED
    BY <2>1, <2>2, <2>3, <2>5
<1> HIDE DEF u, b, m
<1>6. \A i \in 1 .. n : \A k \in 1 .. Len(gs[i].backups) :
        /\ k \in 1 .. Len(fs[i].backups) /\ gs[i].backups[k] = fs[i].backups[k]
        /\ ~(i = n /\ k = m)
  <2> SUFFICES ASSUME NEW i \in 1 .. n, NEW k \in 1 .. Len(gs[i].backups)
               PROVE  /\ k \in 1 .. Len(fs[i].backups) /\ gs[i].backups[k] = fs[i].backups[k]
                      /\ ~(i = n /\ k = m)
    OBVIOUS
  <2>1. CASE i # n
    BY <2>1 DEF TopSaves, SameSaved
  <2>2. CASE i = n
    BY <1>1, <2>2 DEF m
  <2> QED
    BY <2>1, <2>2
<1>7. \A i \in 1 .. n : gs[i].before = fs[i].before
  BY DEF TopSaves, SameSaved
<1>8. n \in 1 .. Len(fs) /\ m \in 1 .. Len(fs[n].backups) /\ b = fs[n].backups[m]
  BY <1>1 DEF m, b
<1>9. ASSUME NEW i \in 1 .. n, NEW k \in 1 .. Len(gs[i].backups)
      PROVE  Holds(u, lk, gs[i], gs[i].backups[k])
  <2> DEFINE c == fs[i].backups[k]
  <2>1. gs[i].backups[k] = c /\ Holds(t, lk, fs[i], c)
    BY <1>6 DEF Held
  <2>2. c.was_open => c.saved_fd # b.saved_fd
    <3>1. c.was_open => c.saved_fd # -1
      BY <2>1, VisibleFds DEF Holds
    <3>2. c.saved_fd = b.saved_fd /\ c.saved_fd # -1 => i = n /\ k = m
      BY <1>6, <1>8 DEF SavedOnce
    <3> QED
      BY <1>6, <3>1, <3>2
  <2> HIDE DEF c
  <2>3. c.was_open => u[c.saved_fd] = t[c.saved_fd]
    BY <1>3, <1>4, <1>5, <2>1, <2>2 DEF Holds
  <2> QED
    BY <1>7, <2>1, <2>3 DEF Holds
<1>10. \A d \in lk : d \in Fds \ Visible /\ u[d] # Closed
  <2>1. \A d \in lk : d \in Fds \ Visible /\ t[d] # Closed
    BY DEF Held
  <2>2. b.was_open => b.saved_fd \notin lk
    BY <1>2 DEF Holds
  <2> QED
    BY <1>3, <1>4, <1>5, <2>1, <2>2
<1>11. ASSUME NEW d \in Fds \ Visible, u[d] # Closed, d \notin lk
       PROVE  \E i \in 1 .. n : \E k \in 1 .. Len(gs[i].backups) : gs[i].backups[k].saved_fd = d
  <2>1. t[d] # Closed /\ d # b.saved_fd
    BY <1>3, <1>4, <1>5, <1>11, VisibleFds
  <2>2. PICK i \in 1 .. n : \E k \in 1 .. Len(fs[i].backups) : fs[i].backups[k].saved_fd = d
    BY <1>11, <2>1 DEF Held
  <2>3. PICK k \in 1 .. Len(fs[i].backups) : fs[i].backups[k].saved_fd = d
    BY <2>2
  <2>4. k \in 1 .. Len(gs[i].backups) /\ gs[i].backups[k] = fs[i].backups[k]
    <3>1. CASE i = n
      BY <1>1, <1>8, <2>1, <2>3, <3>1 DEF m
    <3>2. CASE i # n
      BY <2>3, <3>2 DEF TopSaves, SameSaved
    <3> QED
      BY <3>1, <3>2
  <2> QED
    BY <2>3, <2>4
<1>12. Held(gs, u, lk, n)
  BY <1>4, <1>5, <1>9, <1>10, <1>11 DEF Held
<1>13. SavedOnce(gs)
  <2>1. \A i \in 1 .. Len(gs) : \A k \in 1 .. Len(gs[i].backups) :
          /\ i \in 1 .. Len(fs) /\ k \in 1 .. Len(fs[i].backups)
          /\ gs[i].backups[k] = fs[i].backups[k]
    BY <1>6
  <2> QED
    BY <2>1, OnceFewer
<1>14. Copy(u[b.fd]) = fs[n].before[b.fd] /\ \A d \in Visible : d # b.fd => u[d] = t[d]
  <2>1. b.was_open => /\ t[b.saved_fd] \in Behind /\ Copy(t[b.saved_fd]) = fs[n].before[b.fd]
                      /\ b.fd # b.saved_fd
    BY <1>2, <1>3, Typed DEF Holds
  <2>2. \A w \in Behind : Copy(Copy(w)) = Copy(w) /\ Copy(Closed) = Closed
    BY Copies
  <2>3. ~b.was_open => fs[n].before[b.fd] = Closed
    BY <1>2 DEF Holds
  <2> QED
    BY <1>3, <1>4, <1>5, <2>1, <2>2, <2>3, VisibleFds
<1> QED
  BY <1>3, <1>12, <1>13, <1>14 DEF u, b, m

(* Abandoned, what was saved is leaked.                                    *)
LEMMA HeldAbandon ==
  ASSUME NEW fs, NEW gs, NEW t, NEW lk, NEW n \in Nat \ {0}, Held(fs, t, lk, n),
         Len(fs) = n, Len(gs) = n, SavedOnce(fs), fs[n].backups \in Seq(Backups),
         TopSaves(fs, gs, n, <<>>)
  PROVE  /\ Held(gs, t, lk \cup SavedFds(fs[n].backups), n)
         /\ SavedOnce(gs)
<1> DEFINE old == fs[n].backups
           more == lk \cup SavedFds(old)
<1>1. 1 .. Len(<<>>) = {} /\ DOMAIN old = 1 .. Len(old)
  OBVIOUS
<1>2. \A d : d \in SavedFds(old) <=> d # -1 /\ \E k \in 1 .. Len(old) : old[k].saved_fd = d
  BY <1>1 DEF SavedFds
<1> HIDE DEF more
<1>3. \A i \in 1 .. n : \A k \in 1 .. Len(gs[i].backups) :
        i # n /\ gs[i].backups = fs[i].backups /\ gs[i].before = fs[i].before
  <2> SUFFICES ASSUME NEW i \in 1 .. n, NEW k \in 1 .. Len(gs[i].backups)
               PROVE  i # n /\ gs[i].backups = fs[i].backups /\ gs[i].before = fs[i].before
    OBVIOUS
  <2>1. i # n
    BY <1>1 DEF TopSaves
  <2> QED
    BY <2>1 DEF TopSaves, SameSaved
<1>4. ASSUME NEW i \in 1 .. n, NEW k \in 1 .. Len(gs[i].backups)
      PROVE  Holds(t, more, gs[i], gs[i].backups[k])
  <2> DEFINE c == fs[i].backups[k]
  <2>1. /\ i # n /\ k \in 1 .. Len(fs[i].backups) /\ gs[i].backups[k] = c
        /\ gs[i].before = fs[i].before
    BY <1>3
  <2>2. Holds(t, lk, fs[i], c)
    BY <2>1 DEF Held
  <2>3. c.was_open => c.saved_fd \notin SavedFds(old)
    <3>1. n \in 1 .. Len(fs) /\ i \in 1 .. Len(fs)
      OBVIOUS
    <3>2. \A l \in 1 .. Len(old) : c.saved_fd = old[l].saved_fd /\ c.saved_fd # -1 => i = n
      BY <2>1, <3>1 DEF SavedOnce
    <3> QED
      BY <1>2, <2>1, <3>2
  <2> HIDE DEF c
  <2> QED
    BY <2>1, <2>2, <2>3 DEF Holds, more
<1>5. \A d \in more : d \in Fds \ Visible /\ t[d] # Closed
  <2>1. \A d \in lk : d \in Fds \ Visible /\ t[d] # Closed
    BY DEF Held
  <2>2. \A k \in 1 .. Len(old) : Holds(t, lk, fs[n], old[k])
    BY DEF Held
  <2> QED
    BY <1>2, <2>1, <2>2 DEF Holds, more
<1>6. ASSUME NEW d \in Fds \ Visible, t[d] # Closed, d \notin more
      PROVE  \E i \in 1 .. n : \E k \in 1 .. Len(gs[i].backups) : gs[i].backups[k].saved_fd = d
  <2>1. d \notin lk /\ d \notin SavedFds(old) /\ d # -1
    BY <1>6, VisibleFds DEF more
  <2>2. PICK i \in 1 .. n : \E k \in 1 .. Len(fs[i].backups) : fs[i].backups[k].saved_fd = d
    BY <1>6, <2>1 DEF Held
  <2>3. i # n
    BY <1>2, <2>1, <2>2
  <2>4. gs[i].backups = fs[i].backups
    BY <2>3 DEF TopSaves, SameSaved
  <2> QED
    BY <2>2, <2>4
<1>7. Held(gs, t, more, n)
  <2>1. t \in Tables
    BY DEF Held
  <2> QED
    BY <1>4, <1>5, <1>6, <2>1 DEF Held
<1>8. SavedOnce(gs)
  <2>1. \A i \in 1 .. Len(gs) : \A k \in 1 .. Len(gs[i].backups) :
          /\ i \in 1 .. Len(fs) /\ k \in 1 .. Len(fs[i].backups)
          /\ gs[i].backups[k] = fs[i].backups[k]
    BY <1>3
  <2> QED
    BY <2>1, OnceFewer
<1> QED
  BY <1>7, <1>8 DEF more

-----------------------------------------------------------------------------
(* What a step does to the stack of commands: the innermost command        *)
(* changes, one is added, one ends.                                        *)

Becomes(fs, gs, g) ==
  /\ IsStack(gs)
  /\ Len(fs) \in Nat \ {0}
  /\ fs # <<>> /\ gs # <<>>
  /\ Len(gs) = Len(fs)
  /\ gs[Len(fs)] = g
  /\ \A i \in 1 .. Len(fs) - 1 : gs[i] = fs[i]

(* An action on the running command changes the top frame only.            *)
LEMMA BecomeChanges ==
  ASSUME NEW fs, NEW g, IsStack(fs), fs # <<>>
  PROVE  Becomes(fs, [fs EXCEPT ![Len(fs)] = g], g)
<1>1. PICK S : fs \in Seq(S)
  BY DEF IsStack
<1> DEFINE n == Len(fs)
           T == S \cup {g}
           gs == [fs EXCEPT ![n] = g]
<1>2. n \in Nat \ {0} /\ DOMAIN fs = 1 .. n /\ \A i \in 1 .. n : fs[i] \in S
  BY <1>1
<1>3. /\ DOMAIN gs = 1 .. n
      /\ \A i \in 1 .. n : gs[i] = IF i = n THEN g ELSE fs[i]
      /\ gs = [i \in 1 .. n |-> gs[i]]
  BY <1>2
<1> HIDE DEF gs, n
<1>4. gs \in Seq(T)
  <2>1. \A i \in 1 .. n : gs[i] \in T
    BY <1>2, <1>3
  <2>2. gs \in [1 .. n -> T]
    BY <1>3, <2>1
  <2> QED
    BY <1>2, <2>2
<1>5. Len(gs) = n
  BY <1>2, <1>3, <1>4
<1>6. n \in 1 .. n /\ 1 .. n - 1 \subseteq 1 .. n /\ n \notin 1 .. n - 1
  BY <1>2
<1>7. gs # <<>>
  BY <1>2, <1>5
<1> QED
  BY <1>2, <1>3, <1>4, <1>5, <1>6, <1>7 DEF Becomes, IsStack, gs, n

(* What others have saved and begun with is not affected.                  *)
LEMMA BecomesSame ==
  ASSUME NEW fs, NEW gs, NEW g, Becomes(fs, gs, g), g.before = fs[Len(fs)].before
  PROVE  /\ TopSaves(fs, gs, Len(fs), g.backups)
         /\ g.backups = fs[Len(fs)].backups => SameSaved(fs, gs, Len(fs))
<1>1. \A i \in 1 .. Len(fs) : i \in 1 .. Len(fs) - 1 \/ i = Len(fs)
  BY DEF Becomes
<1> QED
  BY <1>1 DEF Becomes, TopSaves, SameSaved

(* What a waiting parent still holds depends on its own frame.             *)
LEMMA ParentKeptSame ==
  ASSUME NEW fs, NEW gs, NEW s \in Nat \ {0}, ParentKept(fs, s), SameSaved(fs, gs, s),
         gs[s].parent = fs[s].parent
  PROVE  ParentKept(gs, s)
<1>1. s \in 1 .. s /\ s \in Nat
  OBVIOUS
<1>2. gs[s].backups = fs[s].backups /\ gs[s].before = fs[s].before
  BY <1>1 DEF SameSaved
<1>3. Held(gs, fs[s].parent.fds, fs[s].parent.leaked, s)
  BY <1>1, HeldSame DEF ParentKept
<1> QED
  BY <1>2, <1>3 DEF ParentKept

(* The frames stay well formed when the top one changes and still sees     *)
(* what it found.                                                          *)
LEMMA FramesChange ==
  ASSUME NEW fs, NEW gs, NEW g, NEW t, NEW u, FramesOf(fs, t), Becomes(fs, gs, g),
         FrameOK(g), g.before = fs[Len(fs)].before, SeesBefore(g, View(u)),
         InSubshell(g) => ParentKept(gs, Len(fs))
  PROVE  FramesOf(gs, u)
<1> DEFINE n == Len(fs)
<1>1. n \in Nat \ {0} /\ Len(gs) = n /\ gs[n] = g /\ \A i \in 1 .. n - 1 : gs[i] = fs[i]
  BY DEF Becomes
<1> HIDE DEF n
<1>2. \A i \in 1 .. n : i \in 1 .. n - 1 \/ i = n
  BY <1>1
<1>3. \A i \in 1 .. n : FrameOK(gs[i])
  <2>1. \A i \in 1 .. n - 1 : i \in 1 .. n
    BY <1>1
  <2> QED
    BY <1>1, <1>2, <2>1 DEF FramesOf, n
<1>4. Waiting(gs)
  <2> SUFFICES ASSUME NEW i \in 1 .. n - 1
               PROVE  gs[i].phase \in {"body", "called"} /\ SeesBefore(gs[i], gs[i + 1].before)
    BY <1>1 DEF Waiting
  <2>1. i + 1 \in 1 .. n - 1 \/ i + 1 = n
    BY <1>1
  <2>2. gs[i + 1].before = fs[i + 1].before
    BY <1>1, <2>1 DEF n
  <2>3. fs[i].phase \in {"body", "called"} /\ SeesBefore(fs[i], fs[i + 1].before)
    BY DEF FramesOf, Waiting, n
  <2> QED
    BY <1>1, <2>2, <2>3
<1>5. ASSUME NEW s \in 1 .. n, InSubshell(gs[s])
      PROVE  ParentKept(gs, s)
  <2>1. CASE s = n
    BY <1>1, <1>5, <2>1 DEF n
  <2>2. CASE s \in 1 .. n - 1
    <3>1. s \in Nat \ {0} /\ 1 .. s \subseteq 1 .. n - 1 /\ s \in 1 .. n
      BY <1>1, <2>2
    <3>2. gs[s] = fs[s] /\ SameSaved(fs, gs, s)
      BY <1>1, <2>2, <3>1 DEF SameSaved
    <3>3. ParentKept(fs, s)
      BY <1>5, <3>1, <3>2 DEF FramesOf, n
    <3> QED
      BY <3>1, <3>2, <3>3, ParentKeptSame
  <2> QED
    BY <1>2, <2>1, <2>2
<1>6. gs # <<>> => SeesBefore(gs[n], View(u))
  BY <1>1
<1> QED
  BY <1>1, <1>3, <1>4, <1>5, <1>6 DEF FramesOf

(* The table stays as it is, and what is saved with it.                    *)
LEMMA QuietStep ==
  ASSUME NEW fs, NEW gs, NEW g, NEW t, NEW lk, FramesOf(fs, t), DescriptorsOf(fs, t, lk),
         Becomes(fs, gs, g), FrameOK(g),
         g.before = fs[Len(fs)].before, g.backups = fs[Len(fs)].backups,
         Untouched(g) \subseteq Untouched(fs[Len(fs)]),
         InSubshell(g) => \/ InSubshell(fs[Len(fs)]) /\ g.parent = fs[Len(fs)].parent
                          \/ /\ GivenAway(fs[Len(fs)]) = {}
                             /\ g.parent.fds = t /\ g.parent.leaked = lk
  PROVE  FramesOf(gs, t) /\ DescriptorsOf(gs, t, lk)
<1> DEFINE n == Len(fs)
           f == fs[n]
<1>1. /\ n \in Nat \ {0} /\ Len(gs) = n /\ gs[n] = g /\ fs # <<>>
      /\ n \in 1 .. n /\ n \in Nat
  BY DEF Becomes
<1>2. SameSaved(fs, gs, n)
  BY BecomesSame
<1>3. Held(gs, t, lk, n) /\ SavedOnce(gs)
  BY <1>1, <1>2, HeldSame, OnceSame DEF DescriptorsOf
<1>4. SeesBefore(f, View(t))
  BY <1>1 DEF FramesOf
<1>5. SeesBefore(g, View(t))
  BY <1>4 DEF SeesBefore
<1>6. ASSUME InSubshell(g)
      PROVE  ParentKept(gs, n)
  <2>1. CASE InSubshell(f) /\ g.parent = f.parent
    <3>1. ParentKept(fs, n)
      BY <1>1, <2>1 DEF FramesOf
    <3> QED
      BY <1>1, <1>2, <2>1, <3>1, ParentKeptSame
  <2>2. CASE GivenAway(f) = {} /\ g.parent.fds = t /\ g.parent.leaked = lk
    <3>1. \A d \in Visible \ SavedFor(f.backups) : View(t)[d] = f.before[d]
      BY <1>4, <2>2 DEF SeesBefore, Untouched
    <3> QED
      BY <1>1, <1>3, <2>2, <3>1 DEF ParentKept
  <2> QED
    BY <1>6, <2>1, <2>2
<1>7. FramesOf(gs, t)
  BY <1>5, <1>6, FramesChange
<1> QED
  BY <1>1, <1>3, <1>7 DEF DescriptorsOf

(* A command begins with nothing saved.                                    *)
Fresh(h, t) ==
  /\ FrameOK(h)
  /\ h.backups = <<>>
  /\ h.before = View(t)
  /\ ~InSubshell(h)

(* A command begins inside the body of another one, with nothing saved.    *)
LEMMA PushStep ==
  ASSUME NEW fs, NEW h, NEW t, NEW lk, Keeps(fs, t, lk),
         fs # <<>> => fs[Len(fs)].phase \in {"body", "called"}, Fresh(h, t)
  PROVE  Keeps(Append(fs, h), t, lk)
<1> USE DEF Keeps
<1>1. PICK S : fs \in Seq(S)
  BY DEF IsStack
<1> DEFINE n == Len(fs)
           gs == Append(fs, h)
<1>2. /\ n \in Nat /\ gs \in Seq(S \cup {h}) /\ Len(gs) = n + 1 /\ gs[n + 1] = h
      /\ \A i \in 1 .. n : gs[i] = fs[i]
      /\ n # 0 => fs # <<>>
  BY <1>1
<1> HIDE DEF gs
<1>3. IsStack(gs)
  BY <1>2 DEF IsStack
<1>4. SameSaved(fs, gs, n)
  BY <1>2 DEF SameSaved
<1>5. DescriptorsOf(gs, t, lk)
  <2>1. Held(fs, t, lk, n) /\ SavedOnce(fs) /\ gs[n + 1].backups = <<>>
    BY <1>2 DEF DescriptorsOf, Fresh
  <2>2. Held(gs, t, lk, n + 1)
    BY <1>2, <1>4, <2>1, HeldMore
  <2>3. SavedOnce(gs)
    BY <1>2, <1>4, <2>1, OnceMore
  <2> QED
    BY <1>2, <2>2, <2>3 DEF DescriptorsOf
<1> HIDE DEF n
<1>6. \A i \in 1 .. n + 1 : i \in 1 .. n \/ i = n + 1
  BY <1>2
<1>7. \A i \in 1 .. n + 1 : FrameOK(gs[i])
  BY <1>2, <1>6 DEF FramesOf, Fresh, n
<1>8. Waiting(gs)
  <2> SUFFICES ASSUME NEW i \in 1 .. n
               PROVE  gs[i].phase \in {"body", "called"} /\ SeesBefore(gs[i], gs[i + 1].before)
    BY <1>2 DEF Waiting
  <2>1. CASE i = n
    <3>1. fs # <<>> /\ gs[i] = fs[n] /\ gs[i + 1] = h
      BY <1>2, <2>1
    <3> QED
      BY <3>1 DEF FramesOf, Fresh, n
  <2>2. CASE i # n
    <3>1. i \in 1 .. n - 1 /\ i + 1 \in 1 .. n
      BY <1>2, <2>2
    <3> QED
      BY <1>2, <3>1 DEF FramesOf, Waiting, n
  <2> QED
    BY <2>1, <2>2
<1>9. ASSUME NEW s \in 1 .. n + 1, InSubshell(gs[s])
      PROVE  ParentKept(gs, s)
  <2>1. s \in 1 .. n
    BY <1>2, <1>6, <1>9 DEF Fresh
  <2>2. s \in Nat \ {0} /\ 1 .. s \subseteq 1 .. n
    BY <1>2, <2>1
  <2>3. SameSaved(fs, gs, s) /\ gs[s] = fs[s]
    BY <1>2, <2>1, <2>2 DEF SameSaved
  <2>4. ParentKept(fs, s)
    BY <1>9, <2>1, <2>3 DEF FramesOf, n
  <2> QED
    BY <2>2, <2>3, <2>4, ParentKeptSame
<1>10. SeesBefore(gs[n + 1], View(t))
  BY <1>2 DEF SeesBefore, Fresh
<1> QED
  BY <1>2, <1>3, <1>5, <1>7, <1>8, <1>9, <1>10 DEF FramesOf, gs

(* A command returns: what stays changed after it stays changed for the    *)
(* one around it.                                                          *)
Returns(fs, gs) ==
  LET m == Len(fs) - 1
  IN  IF m = 0 THEN gs = <<>>
      ELSE /\ IsStack(gs)
           /\ Len(gs) = m /\ gs # <<>>
           /\ \A i \in 1 .. m - 1 : gs[i] = fs[i]
           /\ gs[m] = [fs[m] EXCEPT !.stays = @ \cup fs[m + 1].stays]

(* What exec leaves open in a body is handed on to the command around it.  *)
LEMMA StaysGrow ==
  ASSUME NEW f, NEW more, FrameOK(f), f.phase \in {"body", "called"}
  PROVE  LET g == [f EXCEPT !.stays = @ \cup more]
         IN  /\ FrameOK(g)
             /\ g.before = f.before /\ g.backups = f.backups /\ g.parent = f.parent
             /\ g.phase = f.phase
             /\ InSubshell(g) => InSubshell(f)
             /\ Untouched(g) = Untouched(f) \ more
<1> DEFINE g == [f EXCEPT !.stays = @ \cup more]
<1>1. DOMAIN f = FrameFields
  BY DEF FrameOK
<1>2. /\ DOMAIN g = FrameFields
      /\ g.before = f.before /\ g.backups = f.backups /\ g.parent = f.parent
      /\ g.phase = f.phase /\ g.kind = f.kind /\ g.redirs = f.redirs /\ g.next = f.next
      /\ g.stays = f.stays \cup more
  BY <1>1 DEF FrameFields
<1> HIDE DEF g
<1>3. ~Persists(f) /\ ~Persists(g)
  BY <1>2 DEF Persists
<1>4. FrameOK(g)
  BY <1>2, <1>3 DEF FrameOK
<1>5. Untouched(g) = Untouched(f) \ more
  BY <1>2, <1>3 DEF Untouched, GivenAway
<1>6. InSubshell(g) => InSubshell(f)
  BY <1>2 DEF InSubshell
<1> QED
  BY <1>2, <1>4, <1>5, <1>6 DEF g

(* A command that is done has restored everything, so its frame can be     *)
(* dropped.                                                                *)
LEMMA PopStep ==
  ASSUME NEW fs, NEW gs, NEW t, NEW lk, Keeps(fs, t, lk), fs # <<>>,
         fs[Len(fs)].phase = "done", Returns(fs, gs)
  PROVE  Keeps(gs, t, lk)
<1>1. PICK S : fs \in Seq(S)
  BY DEF IsStack, Keeps
<1> DEFINE n == Len(fs)
           m == n - 1
           f == fs[n]
<1>2. n \in Nat \ {0} /\ n \in 1 .. n /\ m \in Nat
  BY <1>1
<1>3. FrameOK(f)
  BY <1>2 DEF Keeps, FramesOf
<1>4. f.backups = <<>> /\ ~Persists(f)
  BY <1>3 DEF FrameOK, Persists
<1>5. /\ SeesBefore(f, View(t)) /\ Held(fs, t, lk, n) /\ SavedOnce(fs)
      /\ \A i \in 1 .. n : FrameOK(fs[i])
      /\ \A i \in 1 .. n - 1 : /\ fs[i].phase \in {"body", "called"}
                               /\ SeesBefore(fs[i], fs[i + 1].before)
      /\ \A s \in 1 .. n : InSubshell(fs[s]) => ParentKept(fs, s)
  BY DEF Keeps, FramesOf, DescriptorsOf, Waiting
<1> HIDE DEF n
<1>6. CASE m = 0
  <2>1. n = 1 /\ gs = <<>> /\ Len(gs) = 0
    BY <1>2, <1>6 DEF Returns, n
  <2>2. IsStack(gs)
    <3>1. <<>> \in Seq({})
      OBVIOUS
    <3> QED
      BY <2>1, <3>1 DEF IsStack
  <2>3. FramesOf(gs, t)
    BY <2>1 DEF FramesOf, Waiting
  <2>4. Held(gs, t, lk, 0)
    <3>1. SameSaved(fs, gs, n - 1)
      BY <2>1 DEF SameSaved
    <3> QED
      BY <1>2, <1>4, <1>5, <1>6, <3>1, HeldLess
  <2>5. SavedOnce(gs)
    BY <2>1 DEF SavedOnce
  <2> QED
    BY <2>1, <2>2, <2>3, <2>4, <2>5 DEF Keeps, DescriptorsOf
<1>7. CASE m # 0
  <2> DEFINE e == fs[m]
             g == [e EXCEPT !.stays = @ \cup f.stays]
  <2>1. /\ IsStack(gs) /\ Len(gs) = m /\ gs # <<>>
        /\ \A i \in 1 .. m - 1 : gs[i] = fs[i]
        /\ gs[m] = g
    BY <1>2, <1>7 DEF Returns, n
  <2>2. m \in 1 .. n - 1 /\ m \in 1 .. n /\ m + 1 = n /\ m \in Nat \ {0}
    BY <1>2, <1>7
  <2>3. FrameOK(e) /\ e.phase \in {"body", "called"} /\ SeesBefore(e, f.before)
    BY <1>5, <2>2
  <2>4. /\ FrameOK(g)
        /\ g.before = e.before /\ g.backups = e.backups /\ g.parent = e.parent
        /\ g.phase = e.phase
        /\ InSubshell(g) => InSubshell(e)
        /\ Untouched(g) = Untouched(e) \ f.stays
    BY <2>3, StaysGrow
  <2> HIDE DEF g, m
  <2>5. \A i \in 1 .. m : i \in 1 .. m - 1 \/ i = m
    BY <2>2
  <2>6. /\ 1 .. m - 1 \subseteq 1 .. m /\ 1 .. m \subseteq 1 .. n
        /\ \A i \in 1 .. m - 1 : i \in 1 .. n - 1
    BY <2>2
  <2>7. SameSaved(fs, gs, m)
    BY <2>1, <2>4, <2>5 DEF SameSaved
  <2>8. \A i \in 1 .. m : FrameOK(gs[i])
    BY <1>5, <2>1, <2>4, <2>5, <2>6
  <2>9. Waiting(gs)
    <3> SUFFICES ASSUME NEW i \in 1 .. m - 1
                 PROVE  gs[i].phase \in {"body", "called"} /\ SeesBefore(gs[i], gs[i + 1].before)
      BY <2>1 DEF Waiting
    <3>1. i + 1 \in 1 .. m - 1 \/ i + 1 = m
      BY <2>2
    <3>2. gs[i + 1].before = fs[i + 1].before
      BY <2>1, <2>4, <3>1
    <3> QED
      BY <1>5, <2>1, <2>6, <3>2
  <2>10. SeesBefore(g, View(t))
    <3>1. \A d \in Visible \ f.stays : View(t)[d] = f.before[d]
      <4>1. SavedFor(<<>>) = {}
        BY DEF SavedFor
      <4> QED
        BY <1>4, <1>5, <4>1 DEF SeesBefore, Untouched, GivenAway
    <3>2. Untouched(g) \subseteq Visible
      BY DEF Untouched
    <3> QED
      BY <2>3, <2>4, <3>1, <3>2 DEF SeesBefore
  <2>11. ASSUME NEW s \in 1 .. m, InSubshell(gs[s])
         PROVE  ParentKept(gs, s)
    <3>1. s \in Nat \ {0} /\ 1 .. s \subseteq 1 .. m /\ s \in 1 .. n
      BY <2>2, <2>6
    <3>2. SameSaved(fs, gs, s)
      BY <2>7, <3>1 DEF SameSaved
    <3>3. InSubshell(fs[s]) /\ gs[s].parent = fs[s].parent
      BY <2>1, <2>4, <2>5, <2>11
    <3> QED
      BY <1>5, <3>1, <3>2, <3>3, ParentKeptSame
  <2>12. FramesOf(gs, t)
    BY <2>1, <2>8, <2>9, <2>10, <2>11 DEF FramesOf
  <2>13. Held(gs, t, lk, m) /\ SavedOnce(gs)
    <3>1. SameSaved(fs, gs, n - 1) /\ Len(gs) = n - 1 /\ n - 1 = m /\ Len(fs) = n
      BY <2>1, <2>2, <2>7 DEF n
    <3> QED
      BY <1>2, <1>4, <1>5, <3>1, HeldLess, OnceLess
  <2> QED
    BY <2>1, <2>12, <2>13 DEF Keeps, DescriptorsOf
<1> QED
  BY <1>6, <1>7

-----------------------------------------------------------------------------
(* The actions.                                                            *)

(* Steps that only change where the innermost command is.                  *)
Quiet(f, g) ==
  /\ FrameOK(g)
  /\ g.before = f.before
  /\ g.backups = f.backups
  /\ Untouched(g) \subseteq Untouched(f)
  /\ InSubshell(g) => InSubshell(f) /\ g.parent = f.parent

(* A step that touches neither the descriptors nor the backups keeps the   *)
(* invariant.                                                              *)
LEMMA QuietKeeps ==
  ASSUME NEW fs, NEW g, NEW t, NEW lk, Keeps(fs, t, lk), fs # <<>>, Quiet(fs[Len(fs)], g)
  PROVE  Keeps([fs EXCEPT ![Len(fs)] = g], t, lk)
<1> DEFINE gs == [fs EXCEPT ![Len(fs)] = g]
<1>1. Becomes(fs, gs, g)
  BY BecomeChanges DEF Keeps
<1> HIDE DEF gs
<1>2. FramesOf(gs, t) /\ DescriptorsOf(gs, t, lk)
  BY <1>1, QuietStep DEF Keeps, Quiet
<1> QED
  BY <1>1, <1>2 DEF Keeps, Becomes, gs

(* The running command's frame is well formed and sees what it must.       *)
LEMMA TopIs ==
  ASSUME RedirectionsInv, frames # <<>>
  PROVE  FrameOK(Top) /\ SeesBefore(Top, View(fds)) /\ Len(frames) \in Nat \ {0}
<1>1. PICK S : frames \in Seq(S)
  BY DEF RedirectionsInv, Keeps, IsStack
<1>2. Len(frames) \in Nat \ {0} /\ Len(frames) \in 1 .. Len(frames)
  BY <1>1
<1> QED
  BY <1>2 DEF RedirectionsInv, Keeps, FramesOf, Top

(* Where a command may go with what it has saved.                          *)
MayGo(f, phase) ==
  /\ phase \in {"operands", "assign", "spawn", "done"} => f.backups = <<>>
  /\ phase = "apply" /\ f.kind \in Persistent => f.backups = <<>>
  /\ phase = "spawn" => f.kind \in Children
  /\ phase \in {"operands", "prefix", "values", "unprefix", "assign", "apply", "spawn"}
       => f.stays = {}
  /\ phase # "body"
  /\ ~Persists(f)

(* Going on to the next phase is quiet.                                    *)
LEMMA GoIsQuiet ==
  ASSUME NEW f, NEW phase, FrameOK(f), MayGo(f, phase)
  PROVE  Quiet(f, [f EXCEPT !.phase = phase])
<1> DEFINE g == [f EXCEPT !.phase = phase]
<1>1. DOMAIN f = FrameFields
  BY DEF FrameOK
<1>2. /\ DOMAIN g = FrameFields
      /\ g.before = f.before /\ g.backups = f.backups /\ g.parent = f.parent
      /\ g.phase = phase /\ g.kind = f.kind /\ g.redirs = f.redirs /\ g.next = f.next
      /\ g.stays = f.stays
  BY <1>1 DEF FrameFields
<1> HIDE DEF g
<1>3. FrameOK(g)
  BY <1>2 DEF FrameOK, MayGo, Persists
<1>4. Untouched(g) \subseteq Untouched(f)
  BY <1>2 DEF Untouched, GivenAway, MayGo
<1>5. ~InSubshell(g)
  BY <1>2 DEF InSubshell, MayGo
<1> QED
  BY <1>2, <1>3, <1>4, <1>5 DEF Quiet, g

(* An action that only goes on to the next phase keeps the invariant.      *)
LEMMA GoAction ==
  ASSUME RedirectionsInv, frames # <<>>, UNCHANGED <<fds, leaked>>, NEW phase, Go(phase),
         MayGo(Top, phase)
  PROVE  RedirectionsInv'
<1>1. FrameOK(Top)
  BY TopIs
<1>2. Keeps([frames EXCEPT ![Len(frames)] = [Top EXCEPT !.phase = phase]], fds, leaked)
  BY <1>1, GoIsQuiet, QuietKeeps DEF RedirectionsInv, Top
<1> QED
  BY <1>2 DEF RedirectionsInv, Become, Go

(* Expanding the words of a command touches no descriptor.                 *)
LEMMA OperandsExpandKeeps ==
  ASSUME RedirectionsInv, OperandsExpand
  PROVE  RedirectionsInv'
<1>1. frames # <<>> /\ Top.phase = "operands" /\ FrameOK(Top)
  BY TopIs DEF OperandsExpand, At
<1>2. AfterOperands(Top) \in {"values", "prefix", "spawn", "apply"}
  BY DEF AfterOperands
<1>3. AfterOperands(Top) = "spawn" => Top.kind \in Children
  BY DEF AfterOperands, Children
<1>4. MayGo(Top, AfterOperands(Top))
  BY <1>1, <1>2, <1>3 DEF MayGo, FrameOK, Persists
<1> QED
  BY <1>1, <1>4, GoAction DEF OperandsExpand

(* Nor do the other actions that only change the phase.                    *)
LEMMA GoesKeep ==
  ASSUME RedirectionsInv,
         OperandsFail \/ ValuesExpand \/ ValuesFail \/ Assign \/ AssignFails \/ SpawnFails
           \/ AllRestored
  PROVE  RedirectionsInv'
<1>1. frames # <<>> /\ FrameOK(Top) /\ UNCHANGED <<fds, leaked>>
  BY TopIs DEF OperandsFail, ValuesExpand, ValuesFail, Assign, AssignFails, SpawnFails,
               AllRestored, At
<1> USE DEF At
<1>2. ASSUME NEW phase, Go(phase), MayGo(Top, phase)
      PROVE  RedirectionsInv'
  BY <1>1, <1>2, GoAction
<1>3. CASE OperandsFail
  <2>1. MayGo(Top, "done")
    BY <1>1, <1>3 DEF OperandsFail, MayGo, FrameOK, Persists
  <2> QED
    BY <1>2, <1>3, <2>1 DEF OperandsFail
<1>4. CASE ValuesExpand
  <2>1. MayGo(Top, "unprefix")
    BY <1>1, <1>4 DEF ValuesExpand, MayGo, FrameOK, Persists
  <2> QED
    BY <1>2, <1>4, <2>1 DEF ValuesExpand
<1>5. CASE ValuesFail
  <2>1. MayGo(Top, "restore")
    BY <1>1, <1>5 DEF ValuesFail, MayGo, FrameOK, Persists
  <2> QED
    BY <1>2, <1>5, <2>1 DEF ValuesFail
<1>6. CASE Assign
  <2>1. CASE Top.kind = "external"
    <3>1. MayGo(Top, "spawn")
      BY <1>1, <1>6, <2>1 DEF Assign, MayGo, FrameOK, Persists, Children
    <3> QED
      BY <1>2, <1>6, <2>1, <3>1 DEF Assign
  <2>2. CASE Top.kind # "external"
    <3>1. MayGo(Top, "apply")
      BY <1>1, <1>6, <2>2 DEF Assign, MayGo, FrameOK, Persists
    <3> QED
      BY <1>2, <1>6, <2>2, <3>1 DEF Assign
  <2> QED
    BY <2>1, <2>2
<1>7. CASE AssignFails
  <2>1. MayGo(Top, "done")
    BY <1>1, <1>7 DEF AssignFails, MayGo, FrameOK, Persists
  <2> QED
    BY <1>2, <1>7, <2>1 DEF AssignFails
<1>8. CASE SpawnFails
  <2>1. MayGo(Top, "done")
    BY <1>1, <1>8 DEF SpawnFails, MayGo, FrameOK, Persists
  <2> QED
    BY <1>2, <1>8, <2>1 DEF SpawnFails
<1>9. CASE AllRestored
  <2>1. CASE Top.phase = "restore"
    <3>1. MayGo(Top, "done")
      BY <1>1, <1>9, <2>1 DEF AllRestored, MayGo, FrameOK, Persists
    <3> QED
      BY <1>2, <1>9, <2>1, <3>1 DEF AllRestored
  <2>2. CASE Top.phase = "unprefix"
    <3>1. MayGo(Top, "assign")
      BY <1>1, <1>9, <2>2 DEF AllRestored, MayGo, FrameOK, Persists
    <3> QED
      BY <1>2, <1>9, <2>2, <3>1 DEF AllRestored
  <2> QED
    BY <1>9, <2>1, <2>2 DEF AllRestored
<1> QED
  BY <1>3, <1>4, <1>5, <1>6, <1>7, <1>8, <1>9

(* Steps that say more of the innermost command.                           *)
LEMMA SpawnKeeps ==
  ASSUME RedirectionsInv, Spawn
  PROVE  RedirectionsInv'
<1>1. frames # <<>> /\ Top.phase = "spawn" /\ FrameOK(Top) /\ UNCHANGED <<fds, leaked>>
  BY TopIs DEF Spawn, At
<1>2. PICK o, v : Become([Top EXCEPT !.phase = "body", !.outcome = o, !.given = v])
  BY DEF Spawn
<1> DEFINE g == [Top EXCEPT !.phase = "body", !.outcome = o, !.given = v]
<1>3. /\ DOMAIN g = FrameFields
      /\ g.before = Top.before /\ g.backups = Top.backups
      /\ g.phase = "body" /\ g.kind = Top.kind /\ g.redirs = Top.redirs /\ g.next = Top.next
      /\ g.stays = Top.stays
  BY <1>1 DEF FrameOK, FrameFields
<1> HIDE DEF g
<1>4. FrameOK(g)
  BY <1>1, <1>3 DEF FrameOK, Persists
<1>5. ~InSubshell(g)
  BY <1>1, <1>3 DEF InSubshell, FrameOK, Children
<1>6. Untouched(g) \subseteq Untouched(Top)
  BY <1>1, <1>3 DEF Untouched, GivenAway, Persists
<1>7. Quiet(Top, g)
  BY <1>3, <1>4, <1>5, <1>6 DEF Quiet
<1>8. Keeps([frames EXCEPT ![Len(frames)] = g], fds, leaked)
  BY <1>1, <1>7, QuietKeeps DEF RedirectionsInv, Top
<1> QED
  BY <1>1, <1>2, <1>8 DEF RedirectionsInv, Become, g

(* The end of a body, and exit in it, lead to the restoration.             *)
LEMMA EndsKeep ==
  ASSUME RedirectionsInv, EndBody \/ Exit
  PROVE  RedirectionsInv'
<1> DEFINE g == [Top EXCEPT !.phase = "restore", !.stays = @ \ SavedFor(Top.backups)]
<1>1. /\ frames # <<>> /\ Top.phase \in {"body", "called"} /\ FrameOK(Top)
      /\ UNCHANGED <<fds, leaked>> /\ Become(g)
  BY TopIs DEF EndBody, Exit, At
<1>2. /\ DOMAIN g = FrameFields
      /\ g.before = Top.before /\ g.backups = Top.backups
      /\ g.phase = "restore" /\ g.kind = Top.kind /\ g.redirs = Top.redirs /\ g.next = Top.next
      /\ g.stays = Top.stays \ SavedFor(Top.backups)
  BY <1>1 DEF FrameOK, FrameFields
<1> HIDE DEF g
<1>3. FrameOK(g)
  BY <1>1, <1>2 DEF FrameOK, Persists
<1>4. ~InSubshell(g)
  BY <1>2 DEF InSubshell
<1>5. Untouched(g) \subseteq Untouched(Top)
  BY <1>1, <1>2 DEF Untouched, GivenAway, Persists
<1>6. Quiet(Top, g)
  BY <1>2, <1>3, <1>4, <1>5 DEF Quiet
<1>7. Keeps([frames EXCEPT ![Len(frames)] = g], fds, leaked)
  BY <1>1, <1>6, QuietKeeps DEF RedirectionsInv, Top
<1> QED
  BY <1>1, <1>7 DEF RedirectionsInv, Become

(* A failed exec or special builtin keeps what it has applied: those       *)
(* descriptors stay.                                                       *)
LEMMA PersistentFailsKeeps ==
  ASSUME RedirectionsInv, PersistentFails
  PROVE  RedirectionsInv'
<1>1. /\ frames # <<>> /\ Top.phase = "apply" /\ Top.kind \in Persistent /\ FrameOK(Top)
      /\ UNCHANGED <<fds, leaked>>
      /\ Become([Top EXCEPT !.phase = "done", !.outcome = Reason, !.stays = @ \cup AppliedTargets])
  BY TopIs DEF PersistentFails, At
<1> DEFINE g == [Top EXCEPT !.phase = "done", !.outcome = Reason, !.stays = @ \cup AppliedTargets]
<1>2. /\ DOMAIN g = FrameFields
      /\ g.before = Top.before /\ g.backups = Top.backups
      /\ g.phase = "done" /\ g.kind = Top.kind /\ g.redirs = Top.redirs /\ g.next = Top.next
      /\ g.stays = Top.stays \cup AppliedTargets
  BY <1>1 DEF FrameOK, FrameFields
<1> HIDE DEF g
<1>3. FrameOK(g)
  BY <1>1, <1>2 DEF FrameOK, Persists
<1>4. ~InSubshell(g)
  BY <1>2 DEF InSubshell
<1>5. Untouched(g) \subseteq Untouched(Top)
  BY <1>1, <1>2 DEF Untouched, GivenAway, Persists, AppliedTargets
<1>6. Quiet(Top, g)
  BY <1>2, <1>3, <1>4, <1>5 DEF Quiet
<1>7. Keeps([frames EXCEPT ![Len(frames)] = g], fds, leaked)
  BY <1>1, <1>6, QuietKeeps DEF RedirectionsInv, Top
<1> QED
  BY <1>1, <1>7 DEF RedirectionsInv, Become, g

(* The redirections before a function call are applied once more by the    *)
(* call.                                                                   *)
LEMMA PrefixAppliedKeeps ==
  ASSUME RedirectionsInv, PrefixApplied
  PROVE  RedirectionsInv'
<1> DEFINE g == [Top EXCEPT !.phase = "values", !.next = 1]
<1>1. /\ frames # <<>> /\ Top.phase = "prefix" /\ FrameOK(Top)
      /\ UNCHANGED <<fds, leaked>> /\ Become(g)
  BY TopIs DEF PrefixApplied, At
<1>2. /\ DOMAIN g = FrameFields
      /\ g.before = Top.before /\ g.backups = Top.backups
      /\ g.phase = "values" /\ g.kind = Top.kind /\ g.redirs = Top.redirs /\ g.next = 1
      /\ g.stays = Top.stays
  BY <1>1 DEF FrameOK, FrameFields
<1> HIDE DEF g
<1>3. 1 \in 1 .. Len(Top.redirs) + 1
  <2>1. Len(Top.redirs) \in Nat
    BY <1>1 DEF FrameOK
  <2> QED
    BY <2>1
<1>4. FrameOK(g)
  BY <1>1, <1>2, <1>3 DEF FrameOK, Persists
<1>5. ~InSubshell(g)
  BY <1>2 DEF InSubshell
<1>6. Untouched(g) \subseteq Untouched(Top)
  BY <1>1, <1>2 DEF Untouched, GivenAway, Persists
<1>7. Quiet(Top, g)
  BY <1>2, <1>4, <1>5, <1>6 DEF Quiet
<1>8. Keeps([frames EXCEPT ![Len(frames)] = g], fds, leaked)
  BY <1>1, <1>7, QuietKeeps DEF RedirectionsInv, Top
<1> QED
  BY <1>1, <1>8 DEF RedirectionsInv, Become

(* All are applied: a subshell leaves its parent behind as it was.         *)
LEMMA AllAppliedKeeps ==
  ASSUME RedirectionsInv, AllApplied
  PROVE  RedirectionsInv'
<1>1. /\ frames # <<>> /\ Top.phase = "apply" /\ Top.next > Len(Top.redirs) /\ FrameOK(Top)
      /\ UNCHANGED <<fds, leaked>>
  BY TopIs DEF AllApplied, At
<1> DEFINE p == CASE Top.kind \in Persistent -> "done"
                  [] Top.kind \in Bodiless \ Persistent -> "restore"
                  [] OTHER -> "body"
           s == IF Top.kind \in Persistent THEN Top.stays \cup Targets(Top.redirs)
                                           ELSE Top.stays
           q == IF Top.kind = "subshell" THEN [fds |-> fds, leaked |-> leaked] ELSE Here
           g == [Top EXCEPT !.phase = p, !.outcome = "given", !.given = View(fds), !.stays = s,
                            !.parent = q]
<1>2. /\ p \in {"done", "restore", "body"}
      /\ Top.kind \in Persistent => p = "done" /\ s = Top.stays \cup Targets(Top.redirs)
      /\ Top.kind \notin Persistent => p \in {"restore", "body"} /\ s = Top.stays
      /\ Top.kind = "subshell" => q = [fds |-> fds, leaked |-> leaked]
  OBVIOUS
<1>4. Become(g)
  BY DEF AllApplied
<1> HIDE DEF p, s, q
<1>3. /\ DOMAIN g = FrameFields
      /\ g.before = Top.before /\ g.backups = Top.backups
      /\ g.phase = p /\ g.kind = Top.kind /\ g.redirs = Top.redirs /\ g.next = Top.next
      /\ g.stays = s /\ g.parent = q
  BY <1>1 DEF FrameOK, FrameFields
<1> HIDE DEF g
<1>5. Persists(Top) <=> Top.kind \in Persistent
  BY <1>1 DEF Persists
<1>6. FrameOK(g)
  BY <1>1, <1>2, <1>3, <1>5 DEF FrameOK, Persists
<1>7. Untouched(g) \subseteq Untouched(Top)
  <2>1. CASE Top.kind \in Persistent
    <3>1. GivenAway(Top) \subseteq Top.stays \cup Targets(Top.redirs)
      <4>1. Top.next = Len(Top.redirs) + 1 /\ Top.redirs \in Seq(Redirections)
            /\ Len(Top.redirs) \in Nat
        BY <1>1 DEF FrameOK
      <4>2. SubSeq(Top.redirs, 1, Top.next - 1) = Top.redirs
        BY <4>1
      <4> QED
        BY <4>2 DEF GivenAway
    <3> QED
      BY <1>2, <1>3, <2>1, <3>1 DEF Untouched, GivenAway
  <2>2. CASE Top.kind \notin Persistent
    BY <1>2, <1>3, <1>5, <2>2 DEF Untouched, GivenAway, Persists
  <2> QED
    BY <2>1, <2>2
<1>8. InSubshell(g) => /\ GivenAway(Top) = {}
                       /\ g.parent.fds = fds /\ g.parent.leaked = leaked
  <2> HAVE InSubshell(g)
  <2>1. Top.kind = "subshell" /\ ~Persists(Top)
    BY <1>3 DEF InSubshell, Persists, Persistent
  <2>2. GivenAway(Top) = {}
    BY <1>1, <2>1 DEF GivenAway, FrameOK
  <2> QED
    BY <1>2, <1>3, <2>1, <2>2
<1>9. Becomes(frames, frames', g)
  BY <1>1, <1>4, BecomeChanges DEF RedirectionsInv, Keeps, Become
<1>10. FramesOf(frames, fds) /\ DescriptorsOf(frames, fds, leaked)
  BY DEF RedirectionsInv, Keeps
<1> DEFINE fs == frames
           gs == frames'
<1>11. /\ g.before = fs[Len(fs)].before /\ g.backups = fs[Len(fs)].backups
       /\ Untouched(g) \subseteq Untouched(fs[Len(fs)])
       /\ InSubshell(g) => GivenAway(fs[Len(fs)]) = {}
                           /\ g.parent.fds = fds /\ g.parent.leaked = leaked
  BY <1>3, <1>7, <1>8 DEF Top
<1> HIDE DEF fs, gs
<1>12. FramesOf(gs, fds) /\ DescriptorsOf(gs, fds, leaked)
  <2>1. Becomes(fs, gs, g) /\ FramesOf(fs, fds) /\ DescriptorsOf(fs, fds, leaked)
    BY <1>9, <1>10 DEF fs, gs
  <2> QED
    BY <1>6, <1>11, <2>1, QuietStep
<1> QED
  BY <1>1, <1>9, <1>12 DEF RedirectionsInv, Keeps, Becomes, gs

(* The parent of a subshell goes on where the subshell was made.           *)
LEMMA EndSubshellKeeps ==
  ASSUME RedirectionsInv, EndSubshell
  PROVE  RedirectionsInv'
<1> DEFINE f == Top
           n == Len(frames)
           g == [f EXCEPT !.phase = "restore", !.stays = {}, !.parent = Here]
<1>1. /\ frames # <<>> /\ InSubshell(f) /\ FrameOK(f) /\ n \in Nat \ {0}
      /\ fds' = f.parent.fds /\ leaked' = f.parent.leaked /\ Become(g)
  BY TopIs DEF EndSubshell, At, InSubshell
<1>2. /\ DOMAIN g = FrameFields
      /\ g.before = f.before /\ g.backups = f.backups
      /\ g.phase = "restore" /\ g.kind = f.kind /\ g.redirs = f.redirs /\ g.next = f.next
      /\ g.stays = {}
  BY <1>1 DEF FrameOK, FrameFields
<1>3. Becomes(frames, frames', g)
  BY <1>1, BecomeChanges DEF RedirectionsInv, Keeps, Become
<1> HIDE DEF g
<1>4. ParentKept(frames, n) /\ f = frames[n] /\ n \in 1 .. n /\ n \in Nat
  <2>1. n \in 1 .. n /\ f = frames[n] /\ n \in Nat
    BY <1>1 DEF Top
  <2> QED
    BY <1>1, <2>1 DEF RedirectionsInv, Keeps, FramesOf
<1>5. FrameOK(g)
  BY <1>1, <1>2 DEF FrameOK, Persists
<1>6. SeesBefore(g, View(fds'))
  BY <1>1, <1>2, <1>4 DEF ParentKept, SeesBefore, Untouched, View
<1>7. SameSaved(frames, frames', n) /\ Len(frames') = n
  BY <1>2, <1>3, <1>4, BecomesSame DEF Becomes
<1> DEFINE gs == frames'
           u == fds'
           more == leaked'
<1> HIDE DEF gs, u, more
<1>8. Held(frames, u, more, n)
  BY <1>1, <1>4 DEF ParentKept, u, more
<1>9. Held(gs, u, more, n)
  BY <1>4, <1>7, <1>8, HeldSame DEF gs
<1>10. SavedOnce(gs)
  BY <1>7, OnceSame DEF RedirectionsInv, Keeps, DescriptorsOf, gs
<1>11. FramesOf(gs, u)
  <2>1. ~InSubshell(g) /\ Becomes(frames, gs, g) /\ SeesBefore(g, View(u))
    BY <1>2, <1>3, <1>6 DEF InSubshell, gs, u
  <2> QED
    BY <1>2, <1>4, <1>5, <2>1, FramesChange DEF RedirectionsInv, Keeps
<1> QED
  BY <1>3, <1>7, <1>9, <1>10, <1>11 DEF RedirectionsInv, Keeps, DescriptorsOf, Becomes, gs, u, more

(* One redirection is saved for, and perhaps applied.                      *)
LEMMA SaveKeeps ==
  ASSUME NEW fs, NEW gs, NEW t, NEW lk, NEW g, NEW r \in Redirections, NEW s,
         Keeps(fs, t, lk), Becomes(fs, gs, g), FrameOK(fs[Len(fs)]),
         fs[Len(fs)].phase \in {"prefix", "apply"}, ~Persists(fs[Len(fs)]),
         s = fd_backup_save(t, fs[Len(fs)].backups, r.target),
         g.before = fs[Len(fs)].before, g.backups = s.backups
  PROVE  /\ DescriptorsOf(gs, s.fds, lk)
         /\ g.backups \in Seq(Backups)
         /\ \A d \in Visible : s.fds[d] = t[d]
         /\ SavedFor(fs[Len(fs)].backups) \subseteq SavedFor(g.backups)
         /\ s.rc = 0 => r.target \in SavedFor(g.backups)
<1> DEFINE n == Len(fs)
           f == fs[n]
<1>1. /\ n \in Nat \ {0} /\ Len(gs) = n /\ n \in Nat /\ fs # <<>>
      /\ Held(fs, t, lk, n) /\ SavedOnce(fs) /\ SeesBefore(f, View(t))
  BY DEF Becomes, Keeps, DescriptorsOf, FramesOf
<1>2. t \in Tables /\ f.backups \in Seq(Backups) /\ r.target \in Visible
  BY <1>1, RedirectionWrites DEF Held, FrameOK
<1>3. TopSaves(fs, gs, n, s.backups)
  BY BecomesSame
<1>4. SavesNothing(t, f.backups, r.target, s) \/ \E b : SavesOne(t, f.backups, r.target, s, b)
  BY <1>2, SaveEffect
<1>5. CASE SavesNothing(t, f.backups, r.target, s)
  <2>1. s.fds = t /\ s.backups = f.backups /\ (s.rc = 0 => r.target \in SavedFor(f.backups))
    BY <1>5 DEF SavesNothing
  <2>2. SameSaved(fs, gs, n)
    BY <2>1, BecomesSame
  <2>3. Held(gs, s.fds, lk, n) /\ SavedOnce(gs)
    BY <1>1, <2>1, <2>2, HeldSame, OnceSame
  <2> QED
    BY <1>1, <1>2, <2>1, <2>3 DEF DescriptorsOf
<1>6. ASSUME NEW b, SavesOne(t, f.backups, r.target, s, b)
      PROVE  /\ DescriptorsOf(gs, s.fds, lk)
             /\ g.backups \in Seq(Backups)
             /\ \A d \in Visible : s.fds[d] = t[d]
             /\ SavedFor(f.backups) \subseteq SavedFor(g.backups)
             /\ r.target \in SavedFor(g.backups)
  <2>1. b \in Backups /\ s.backups = Append(f.backups, b) /\ b.fd = r.target
        /\ r.target \notin SavedFor(f.backups)
    BY <1>6 DEF SavesOne
  <2>2. SavedFor(s.backups) = SavedFor(f.backups) \cup {r.target} /\ s.backups \in Seq(Backups)
    BY <1>2, <2>1, SavedForAppend
  <2>3. Copy(t[r.target]) = f.before[r.target]
    <3>1. r.target \in Untouched(f)
      BY <1>2, <2>1 DEF Untouched, GivenAway, FrameOK
    <3> QED
      BY <1>1, <1>2, <3>1 DEF SeesBefore, View
  <2>4. Held(gs, s.fds, lk, n) /\ \A d \in Visible : s.fds[d] = t[d]
    <3> DEFINE fd == r.target
    <3>1. fd \in Visible /\ SavesOne(t, fs[n].backups, fd, s, b) /\ Unchanged(t, fs[n], fd)
      BY <1>2, <1>6, <2>3 DEF Unchanged
    <3>2. fs[n].backups \in Seq(Backups)
      BY <1>2
    <3> HIDE DEF fd, n
    <3>3. n \in Nat \ {0} /\ Held(fs, t, lk, n) /\ TopSaves(fs, gs, n, s.backups)
      BY <1>1, <1>3
    <3>4. Held(gs, s.fds, lk, n)
      BY <3>1, <3>2, <3>3, HeldSave
    <3>5. SeenAlike(t, s.fds)
      BY <3>1, <3>2, <3>3, HeldSave
    <3> QED
      BY <3>4, <3>5 DEF SeenAlike
  <2>5. SavedOnce(gs)
    BY <1>1, <1>2, <1>3, <1>6, OnceSave
  <2> QED
    BY <1>1, <2>2, <2>4, <2>5 DEF DescriptorsOf
<1> QED
  BY <1>4, <1>5, <1>6

(* What is to be applied next.                                             *)
LEMMA NextRedirection ==
  ASSUME NEW f, FrameOK(f), f.next <= Len(f.redirs)
  PROVE  /\ f.redirs[f.next] \in Redirections
         /\ f.next + 1 \in 1 .. Len(f.redirs) + 1
         /\ Targets(SubSeq(f.redirs, 1, f.next)) =
              Targets(SubSeq(f.redirs, 1, f.next - 1)) \cup {f.redirs[f.next].target}
<1> DEFINE s == f.redirs
           i == f.next
<1>1. s \in Seq(Redirections) /\ Len(s) \in Nat /\ i \in 1 .. Len(s) /\ i \in Nat
  BY DEF FrameOK
<1> HIDE DEF s, i
<1>2. s[i] \in Redirections /\ i + 1 \in 1 .. Len(s) + 1
  BY <1>1
<1>3. /\ SubSeq(s, 1, i) \in Seq(Redirections) /\ Len(SubSeq(s, 1, i)) = i
      /\ \A k \in 1 .. i : SubSeq(s, 1, i)[k] = s[k]
  BY <1>1
<1>4. /\ SubSeq(s, 1, i - 1) \in Seq(Redirections) /\ Len(SubSeq(s, 1, i - 1)) = i - 1
      /\ \A k \in 1 .. i - 1 : SubSeq(s, 1, i - 1)[k] = s[k]
  BY <1>1
<1>5. 1 .. i = (1 .. i - 1) \cup {i}
  BY <1>1
<1>6. DOMAIN SubSeq(s, 1, i) = 1 .. i /\ DOMAIN SubSeq(s, 1, i - 1) = 1 .. i - 1
  BY <1>3, <1>4
<1>7. Targets(SubSeq(s, 1, i)) = Targets(SubSeq(s, 1, i - 1)) \cup {s[i].target}
  BY <1>3, <1>4, <1>5, <1>6 DEF Targets
<1> QED
  BY <1>1, <1>2, <1>7 DEF s, i

(* Saving and applying one redirection keeps the invariant.                *)
LEMMA ApplyNextKeeps ==
  ASSUME RedirectionsInv, ApplyNext
  PROVE  RedirectionsInv'
<1> DEFINE f == Top
           n == Len(frames)
           r == f.redirs[f.next]
           s == Saved
           u == Applied.fds
           g == [f EXCEPT !.backups = s.backups, !.next = f.next + 1]
<1>1. /\ frames # <<>> /\ f.phase \in {"prefix", "apply"} /\ f.next <= Len(f.redirs)
      /\ FrameOK(f) /\ SeesBefore(f, View(fds)) /\ n \in Nat \ {0} /\ f = frames[n]
      /\ s.rc = 0 /\ fds' = u /\ leaked' = leaked
  BY TopIs DEF ApplyNext, Applying, At, Fails, Top
<1>2. /\ r \in Redirections /\ f.next + 1 \in 1 .. Len(f.redirs) + 1
      /\ Targets(SubSeq(f.redirs, 1, f.next)) =
           Targets(SubSeq(f.redirs, 1, f.next - 1)) \cup {r.target}
      /\ f.next \in Nat
  <2>1. f.next \in Nat
    BY <1>1 DEF FrameOK
  <2> QED
    BY <1>1, <2>1, NextRedirection
<1>3. /\ DOMAIN g = FrameFields
      /\ g.before = f.before /\ g.backups = s.backups
      /\ g.phase = f.phase /\ g.kind = f.kind /\ g.redirs = f.redirs /\ g.next = f.next + 1
      /\ g.stays = f.stays
  BY <1>1 DEF FrameOK, FrameFields
<1>4. Become(g)
  <2>1. [Step EXCEPT !.next = Top.next + 1] = g
    BY <1>1 DEF Step, FrameOK, FrameFields
  <2> QED
    BY <2>1 DEF ApplyNext
<1>5. Becomes(frames, frames', g)
  BY <1>1, <1>4, BecomeChanges DEF RedirectionsInv, Keeps, Become
<1>6. /\ Persists(f) => s.fds = fds /\ s.backups = <<>>
      /\ ~Persists(f) => s = fd_backup_save(fds, f.backups, r.target)
  BY DEF Saved, Persists
<1>7. u = apply_one_redirection(s.fds, present, session.noclobber, r).fds
  BY DEF Applied
<1> DEFINE gs == frames'
           w == s.fds
<1>8. Keeps(frames, fds, leaked) /\ fds \in Tables /\ f.backups \in Seq(Backups)
  BY <1>1 DEF RedirectionsInv, Keeps, DescriptorsOf, Held, FrameOK
<1> HIDE DEF f, n, r, s, u, g, gs, w
<1>9. /\ DescriptorsOf(gs, w, leaked)
      /\ g.backups \in Seq(Backups)
      /\ \A d \in Visible : w[d] = fds[d]
      /\ SavedFor(f.backups) \subseteq SavedFor(g.backups)
      /\ ~Persists(f) => r.target \in SavedFor(g.backups)
      /\ Persists(f) => g.backups = <<>>
  <2>1. CASE Persists(f)
    <3>1. f.backups = <<>>
      BY <1>1, <2>1 DEF FrameOK
    <3>2. w = fds /\ g.backups = f.backups
      BY <1>3, <1>6, <2>1, <3>1 DEF w
    <3>3. SameSaved(frames, gs, n) /\ Len(gs) = n
      BY <1>1, <1>3, <1>5, <3>2, BecomesSame DEF gs, n, Becomes
    <3>4. Held(gs, w, leaked, n) /\ SavedOnce(gs)
      <4>1. Held(frames, fds, leaked, n) /\ SavedOnce(frames) /\ n \in Nat /\ Len(frames) = n
        BY <1>1, <1>8 DEF Keeps, DescriptorsOf, n
      <4> QED
        BY <3>2, <3>3, <4>1, HeldSame, OnceSame
    <3> QED
      BY <1>8, <2>1, <3>1, <3>2, <3>3, <3>4 DEF DescriptorsOf
  <2>2. CASE ~Persists(f)
    <3>1. s = fd_backup_save(fds, f.backups, r.target)
      BY <1>6, <2>2
    <3>2. /\ Becomes(frames, gs, g) /\ FrameOK(frames[Len(frames)]) /\ f = frames[Len(frames)]
      BY <1>1, <1>5 DEF gs, n
    <3>3. /\ frames[Len(frames)].phase \in {"prefix", "apply"} /\ ~Persists(frames[Len(frames)])
          /\ s = fd_backup_save(fds, frames[Len(frames)].backups, r.target)
          /\ g.before = frames[Len(frames)].before /\ g.backups = s.backups
      BY <1>1, <1>3, <2>2, <3>1, <3>2
    <3>4. /\ DescriptorsOf(gs, s.fds, leaked)
          /\ g.backups \in Seq(Backups)
          /\ \A d \in Visible : s.fds[d] = fds[d]
          /\ SavedFor(frames[Len(frames)].backups) \subseteq SavedFor(g.backups)
          /\ s.rc = 0 => r.target \in SavedFor(g.backups)
      BY <1>2, <1>8, <3>2, <3>3, SaveKeeps
    <3> QED
      BY <1>1, <2>2, <3>2, <3>4 DEF w
  <2> QED
    BY <2>1, <2>2
<1>10. w \in Tables
  BY <1>9 DEF DescriptorsOf, Held
<1>11. r.target \in Visible /\ Writes(w, u, r.target)
  BY <1>2, <1>7, <1>10, RedirectionWrites DEF w
<1>12. DescriptorsOf(gs, u, leaked)
  <2>1. Len(gs) \in Nat
    BY <1>1, <1>5 DEF Becomes, gs
  <2> QED
    BY <1>9, <1>11, <2>1, HeldWrite DEF DescriptorsOf
<1>13. Persists(g) <=> Persists(f)
  BY <1>3 DEF Persists
<1>14. FrameOK(g)
  BY <1>1, <1>2, <1>3, <1>9, <1>13 DEF FrameOK
<1>15. SeesBefore(g, View(u))
  <2>1. GivenAway(f) \subseteq GivenAway(g) /\ (Persists(f) => r.target \in GivenAway(g))
    <3>1. f.next + 1 - 1 = f.next
      BY <1>2
    <3> QED
      BY <1>2, <1>3, <1>13, <3>1 DEF GivenAway
  <2>2. Untouched(g) \subseteq Untouched(f) \ {r.target}
    BY <1>9, <2>1 DEF Untouched
  <2>3. \A d \in Visible \ {r.target} : u[d] = fds[d]
    BY <1>9, <1>11, VisibleFds DEF Writes
  <2>4. Untouched(f) \subseteq Visible
    BY DEF Untouched
  <2> QED
    BY <1>1, <1>3, <2>2, <2>3, <2>4 DEF SeesBefore, View
<1>16. FramesOf(gs, u)
  <2>1. ~InSubshell(g) /\ Becomes(frames, gs, g) /\ g.before = frames[Len(frames)].before
    BY <1>1, <1>3, <1>5 DEF InSubshell, gs, n
  <2> QED
    BY <1>8, <1>14, <1>15, <2>1, FramesChange DEF Keeps
<1> QED
  BY <1>1, <1>5, <1>12, <1>16 DEF RedirectionsInv, Keeps, Becomes, gs

(* One cannot be applied: what is saved stays for the undoing.             *)
LEMMA ApplyFailsKeeps ==
  ASSUME RedirectionsInv, ApplyFails
  PROVE  RedirectionsInv'
<1> DEFINE f == Top
           r == f.redirs[f.next]
           s == Saved
           g == [f EXCEPT !.backups = s.backups, !.phase = "restore", !.outcome = Reason]
<1>1. /\ frames # <<>> /\ f.phase \in {"prefix", "apply"} /\ f.next <= Len(f.redirs)
      /\ FrameOK(f) /\ SeesBefore(f, View(fds)) /\ f = frames[Len(frames)]
      /\ fds' = s.fds /\ leaked' = leaked /\ ~Persists(f)
  BY TopIs DEF ApplyFails, At, Top, Persists
<1>2. r \in Redirections
  BY <1>1, NextRedirection
<1>3. /\ DOMAIN g = FrameFields
      /\ g.before = f.before /\ g.backups = s.backups
      /\ g.phase = "restore" /\ g.kind = f.kind /\ g.redirs = f.redirs /\ g.next = f.next
      /\ g.stays = f.stays
  BY <1>1 DEF FrameOK, FrameFields
<1>4. Become(g)
  <2>1. [Step EXCEPT !.phase = "restore", !.outcome = Reason] = g
    BY <1>1 DEF Step, FrameOK, FrameFields
  <2> QED
    BY <2>1 DEF ApplyFails
<1>5. Becomes(frames, frames', g)
  BY <1>1, <1>4, BecomeChanges DEF RedirectionsInv, Keeps, Become
<1>6. s = fd_backup_save(fds, frames[Len(frames)].backups, r.target)
  BY <1>1 DEF Saved, Persists
<1>7. Keeps(frames, fds, leaked)
  BY DEF RedirectionsInv
<1> DEFINE gs == frames'
           u == fds'
<1> HIDE DEF f, r, s, g, gs, u
<1>8. /\ DescriptorsOf(gs, s.fds, leaked)
      /\ g.backups \in Seq(Backups)
      /\ \A d \in Visible : s.fds[d] = fds[d]
      /\ SavedFor(frames[Len(frames)].backups) \subseteq SavedFor(g.backups)
  <2>1. /\ Becomes(frames, gs, g) /\ FrameOK(frames[Len(frames)])
        /\ frames[Len(frames)].phase \in {"prefix", "apply"} /\ ~Persists(frames[Len(frames)])
        /\ g.before = frames[Len(frames)].before
    BY <1>1, <1>3, <1>5 DEF gs
  <2> QED
    BY <1>2, <1>3, <1>6, <1>7, <2>1, SaveKeeps
<1>9. FrameOK(g)
  BY <1>1, <1>3, <1>8 DEF FrameOK, Persists
<1>10. SeesBefore(g, View(s.fds))
  <2>1. Untouched(g) \subseteq Untouched(f)
    BY <1>1, <1>3, <1>8 DEF Untouched, GivenAway, Persists
  <2> QED
    BY <1>1, <1>3, <1>8, <2>1 DEF SeesBefore, View, Untouched
<1>11. FramesOf(gs, s.fds)
  <2>1. /\ ~InSubshell(g) /\ Becomes(frames, gs, g) /\ g.before = frames[Len(frames)].before
        /\ FramesOf(frames, fds)
    BY <1>1, <1>3, <1>5, <1>7 DEF InSubshell, gs, Keeps
  <2> QED
    BY <1>9, <1>10, <2>1, FramesChange
<1> QED
  BY <1>1, <1>5, <1>8, <1>11 DEF RedirectionsInv, Keeps, Becomes, gs

(* What is abandoned is leaked, and what it was saved for stays changed.   *)
LEMMA ApplyAbandonedKeeps ==
  ASSUME RedirectionsInv, ApplyAbandoned
  PROVE  RedirectionsInv'
<1> DEFINE f == Top
           n == Len(frames)
           r == f.redirs[f.next]
           s == Saved
           e == [f EXCEPT !.backups = s.backups]
           ms == [frames EXCEPT ![n] = e]
           g == [f EXCEPT !.backups = <<>>, !.phase = "done", !.outcome = Reason,
                          !.stays = @ \cup SavedFor(s.backups)]
<1>1. /\ frames # <<>> /\ f.phase \in {"prefix", "apply"} /\ f.next <= Len(f.redirs)
      /\ FrameOK(f) /\ SeesBefore(f, View(fds)) /\ f = frames[n]
      /\ n \in Nat \ {0}
      /\ fds' = s.fds /\ leaked' = leaked \cup SavedFds(s.backups)
  BY TopIs DEF ApplyAbandoned, At, Top
<1>2. ~Persists(f)
  BY DEF ApplyAbandoned, At, Persists, Persistent
<1>3. r \in Redirections
  BY <1>1, NextRedirection
<1>4. /\ e.before = f.before /\ e.backups = s.backups
      /\ DOMAIN g = FrameFields
      /\ g.before = f.before /\ g.backups = <<>>
      /\ g.phase = "done" /\ g.kind = f.kind /\ g.redirs = f.redirs /\ g.next = f.next
      /\ g.stays = f.stays \cup SavedFor(s.backups)
  BY <1>1 DEF FrameOK, FrameFields
<1>5. Become(g)
  <2>1. [Step EXCEPT !.phase = "done", !.backups = <<>>, !.outcome = Reason,
                     !.stays = @ \cup SavedFor(Saved.backups)] = g
    BY <1>1 DEF Step, FrameOK, FrameFields
  <2> QED
    BY <2>1 DEF ApplyAbandoned
<1>6. Becomes(frames, frames', g) /\ Becomes(frames, ms, e)
  BY <1>1, <1>5, BecomeChanges DEF RedirectionsInv, Keeps, Become
<1>7. s = fd_backup_save(fds, f.backups, r.target)
  BY <1>2 DEF Saved, Persists
<1>8. Keeps(frames, fds, leaked)
  BY DEF RedirectionsInv
<1> DEFINE gs == frames'
<1> HIDE DEF f, n, r, s, e, ms, g, gs
<1>9. /\ DescriptorsOf(ms, s.fds, leaked)
      /\ e.backups \in Seq(Backups)
      /\ \A d \in Visible : s.fds[d] = fds[d]
      /\ SavedFor(f.backups) \subseteq SavedFor(e.backups)
  <2>1. f = frames[Len(frames)]
    BY <1>1 DEF n
  <2>2. /\ FrameOK(frames[Len(frames)])
        /\ frames[Len(frames)].phase \in {"prefix", "apply"} /\ ~Persists(frames[Len(frames)])
        /\ e.before = frames[Len(frames)].before
        /\ s = fd_backup_save(fds, frames[Len(frames)].backups, r.target)
    BY <1>1, <1>2, <1>4, <1>7, <2>1
  <2>3. /\ DescriptorsOf(ms, s.fds, leaked)
        /\ e.backups \in Seq(Backups)
        /\ \A d \in Visible : s.fds[d] = fds[d]
        /\ SavedFor(frames[Len(frames)].backups) \subseteq SavedFor(e.backups)
    BY <1>3, <1>4, <1>6, <1>8, <2>2, SaveKeeps
  <2> QED
    BY <2>1, <2>3
<1>10. Len(ms) = n /\ Len(gs) = n /\ Len(frames) = n /\ ms[n] = e /\ gs[n] = g
  BY <1>6 DEF Becomes, n, gs
<1>11. TopSaves(ms, gs, n, <<>>)
  BY <1>4, <1>6, <1>10 DEF Becomes, TopSaves, SameSaved, gs
<1>12. DescriptorsOf(gs, s.fds, leaked \cup SavedFds(s.backups))
  <2>1. Held(ms, s.fds, leaked, n) /\ SavedOnce(ms) /\ ms[n].backups = s.backups
        /\ ms[n].backups \in Seq(Backups)
    BY <1>4, <1>9, <1>10 DEF DescriptorsOf
  <2>2. Held(gs, s.fds, leaked \cup SavedFds(ms[n].backups), n) /\ SavedOnce(gs)
    BY <1>1, <1>10, <1>11, <2>1, HeldAbandon
  <2> QED
    BY <1>10, <2>1, <2>2 DEF DescriptorsOf
<1>13. FrameOK(g)
  <2>1. <<>> \in Seq(Backups)
    OBVIOUS
  <2> QED
    BY <1>1, <1>4, <2>1 DEF FrameOK, Persists
<1>14. SeesBefore(g, View(s.fds))
  <2>1. SavedFor(f.backups) \subseteq SavedFor(s.backups)
    BY <1>4, <1>9
  <2>2. Untouched(g) \subseteq Untouched(f)
    BY <1>2, <1>4, <2>1 DEF Untouched, GivenAway
  <2>3. Untouched(g) \subseteq Visible
    BY DEF Untouched
  <2> QED
    BY <1>1, <1>4, <1>9, <2>2, <2>3 DEF SeesBefore, View
<1>15. FramesOf(gs, s.fds)
  <2>1. /\ ~InSubshell(g) /\ Becomes(frames, gs, g) /\ g.before = frames[Len(frames)].before
        /\ FramesOf(frames, fds)
    BY <1>1, <1>4, <1>6, <1>8, <1>10 DEF InSubshell, gs, Keeps
  <2> QED
    BY <1>13, <1>14, <2>1, FramesChange
<1> QED
  BY <1>1, <1>6, <1>12, <1>15 DEF RedirectionsInv, Keeps, Becomes, gs

(* What was saved last is undone.                                          *)
LEMMA RestoreNextKeeps ==
  ASSUME RedirectionsInv, RestoreNext
  PROVE  RedirectionsInv'
<1> DEFINE f == Top
           n == Len(frames)
           last == Len(f.backups)
           b == f.backups[last]
           rest == SubSeq(f.backups, 1, last - 1)
           u == fd_backup_undo(fds, b)
           g == [f EXCEPT !.backups = rest]
<1>1. /\ frames # <<>> /\ f.phase \in {"restore", "unprefix"} /\ f.backups # <<>>
      /\ FrameOK(f) /\ SeesBefore(f, View(fds)) /\ f = frames[n]
      /\ n \in Nat \ {0} /\ fds' = u /\ leaked' = leaked
      /\ f.backups \in Seq(Backups)
  BY TopIs DEF RestoreNext, At, Top, FrameOK
<1>2. Become(g)
  <2>1. Become([Top EXCEPT !.backups = SubSeq(@, 1, last - 1)])
    BY DEF RestoreNext
  <2>2. "backups" \in DOMAIN Top
    BY <1>1 DEF FrameOK, FrameFields
  <2>3. [Top EXCEPT !.backups = SubSeq(@, 1, last - 1)] = g
    BY <2>2
  <2> QED
    BY <2>1, <2>3
<1>3. /\ DOMAIN g = FrameFields
      /\ g.before = f.before /\ g.backups = rest
      /\ g.phase = f.phase /\ g.kind = f.kind /\ g.redirs = f.redirs /\ g.next = f.next
      /\ g.stays = f.stays
  BY <1>1 DEF FrameOK, FrameFields
<1>4. /\ rest \in Seq(Backups) /\ SavedFor(f.backups) = SavedFor(rest) \cup {b.fd}
  BY <1>1, SavedForPop
<1>5. Becomes(frames, frames', g)
  BY <1>1, <1>2, BecomeChanges DEF RedirectionsInv, Keeps, Become
<1>6. /\ TopSaves(frames, frames', n, rest) /\ Len(frames') = n
  <2>1. g.before = frames[n].before
    BY <1>1, <1>3
  <2> HIDE DEF g, f
  <2>2. TopSaves(frames, frames', n, g.backups)
    BY <1>5, <2>1, BecomesSame
  <2> QED
    BY <1>3, <1>5, <2>2 DEF Becomes
<1> DEFINE gs == frames'
<1>7. /\ Held(gs, u, leaked, n)
      /\ SavedOnce(gs)
      /\ b.fd \in Visible /\ Copy(u[b.fd]) = f.before[b.fd]
      /\ \A d \in Visible : d # b.fd => u[d] = fds[d]
  <2> DEFINE fs == frames
             t == fds
             lk == leaked
             m == n
  <2>1. /\ Held(fs, t, lk, m) /\ SavedOnce(fs) /\ Len(fs) = m /\ Len(gs) = m
        /\ m \in Nat \ {0}
        /\ fs[m].backups \in Seq(Backups) /\ fs[m].backups # <<>>
        /\ TopSaves(fs, gs, m, SubSeq(fs[m].backups, 1, Len(fs[m].backups) - 1))
    BY <1>1, <1>6 DEF RedirectionsInv, Keeps, DescriptorsOf
  <2>2. f = fs[m]
    BY <1>1
  <2> HIDE DEF fs, t, lk, gs, m
  <2>3. LET c == fs[m].backups[Len(fs[m].backups)]
            w == fd_backup_undo(t, c)
        IN  /\ Held(gs, w, lk, m)
            /\ SavedOnce(gs)
            /\ c.fd \in Visible /\ Copy(w[c.fd]) = fs[m].before[c.fd]
            /\ \A d \in Visible : d # c.fd => w[d] = t[d]
    BY <2>1, HeldUndo
  <2> QED
    BY <2>2, <2>3 DEF t, lk, m
<1> HIDE DEF f, n, last, b, rest, u, g, gs
<1>8. FrameOK(g)
  BY <1>1, <1>3, <1>4 DEF FrameOK, Persists
<1>9. SeesBefore(g, View(u))
  <2>1. \A d \in Untouched(g) : d \in Untouched(f) \/ d = b.fd
    BY <1>1, <1>3, <1>4 DEF Untouched, GivenAway, Persists
  <2>2. Untouched(g) \subseteq Visible
    BY DEF Untouched
  <2> QED
    BY <1>1, <1>3, <1>7, <2>1, <2>2 DEF SeesBefore, View
<1>10. FramesOf(gs, u)
  <2>1. /\ ~InSubshell(g) /\ Becomes(frames, gs, g) /\ g.before = frames[Len(frames)].before
        /\ FramesOf(frames, fds)
    BY <1>1, <1>3, <1>5 DEF InSubshell, gs, n, RedirectionsInv, Keeps
  <2> QED
    BY <1>8, <1>9, <2>1, FramesChange
<1> QED
  BY <1>1, <1>5, <1>6, <1>7, <1>10 DEF RedirectionsInv, Keeps, DescriptorsOf, Becomes, gs

(* A command begins.                                                       *)
LEMMA FrameIsFresh ==
  ASSUME NEW kind, NEW prefix, NEW redirs \in Seq(Redirections)
  PROVE  Fresh(Frame(kind, prefix, redirs), fds)
<1> DEFINE h == Frame(kind, prefix, redirs)
<1>1. /\ DOMAIN h = FrameFields
      /\ h.kind = kind /\ h.redirs = redirs /\ h.next = 1 /\ h.backups = <<>>
      /\ h.before = View(fds) /\ h.stays = {}
      /\ h.phase = IF kind = "empty" THEN "spawn" ELSE "operands"
  BY DEF Frame, FrameFields
<1>2. /\ 1 \in 1 .. Len(redirs) + 1 /\ <<>> \in Seq(Backups)
  <2>1. Len(redirs) \in Nat
    OBVIOUS
  <2> QED
    BY <2>1
<1> HIDE DEF h
<1>3. FrameOK(h)
  BY <1>1, <1>2 DEF FrameOK, Persists, Children
<1> QED
  BY <1>1, <1>3 DEF Fresh, InSubshell, h

(* The lists of redirections of a session are sequences of redirections.   *)
LEMMA ListsOfRedirections ==
  ASSUME session \in Sessions, NEW redirs \in RedirectionLists
  PROVE  redirs \in Seq(Redirections)
<1>1. session.written \subseteq Redirections /\ MaxRedirs \in Nat
  BY SessionsAssumption
<1>2. PICK n \in 0 .. MaxRedirs : redirs \in [1 .. n -> session.written]
  BY DEF RedirectionLists
<1>3. n \in Nat /\ redirs \in [1 .. n -> Redirections]
  BY <1>1, <1>2
<1> QED
  BY <1>3

(* A command starts with nothing saved and with the descriptors it finds.  *)
LEMMA StartKeeps ==
  ASSUME RedirectionsInv, session \in Sessions, NEW kind, NEW prefix,
         NEW redirs \in RedirectionLists, Start(kind, prefix, redirs)
  PROVE  RedirectionsInv'
<1> DEFINE h == Frame(kind, prefix, redirs)
           gs == Append(frames, h)
<1>1. Fresh(h, fds)
  BY ListsOfRedirections, FrameIsFresh
<1>2. frames # <<>> => frames[Len(frames)].phase \in {"body", "called"}
  BY DEF Start, MayStart, Top
<1>3. frames' = gs /\ fds' = fds /\ leaked' = leaked
  BY DEF Start
<1> HIDE DEF h
<1>4. Keeps(gs, fds, leaked)
  BY <1>1, <1>2, PushStep DEF RedirectionsInv
<1> QED
  BY <1>3, <1>4 DEF RedirectionsInv

(* A function is called.                                                   *)
LEMMA CallFunctionKeeps ==
  ASSUME RedirectionsInv, session \in Sessions, NEW redirs \in RedirectionLists,
         At("body"), Top.kind = "function", CallFunction(redirs)
  PROVE  RedirectionsInv'
<1> DEFINE h == Frame("definition", FALSE, redirs)
           f == Top
           g == [f EXCEPT !.phase = "called"]
           ms == [frames EXCEPT ![Len(frames)] = g]
<1>1. frames # <<>> /\ f.phase = "body" /\ f.kind = "function" /\ FrameOK(f)
      /\ f = frames[Len(frames)] /\ Len(frames) \in Nat \ {0}
  BY TopIs DEF At, Top
<1>2. frames' = Append(ms, h) /\ fds' = fds /\ leaked' = leaked
  <2>1. [frames EXCEPT ![Len(frames)].phase = "called"] = ms
    <3>1. PICK S : frames \in Seq(S)
      BY DEF RedirectionsInv, Keeps, IsStack
    <3>2. Len(frames) \in DOMAIN frames
      BY <1>1, <3>1
    <3> QED
      BY <1>1, <3>2
  <2> QED
    BY <2>1 DEF CallFunction
<1>3. MayGo(f, "called")
  BY <1>1 DEF MayGo, Persists
<1>4. Quiet(f, g)
  BY <1>1, <1>3, GoIsQuiet
<1>5. g.phase = "called"
  BY <1>1 DEF FrameOK, FrameFields
<1>6. Fresh(h, fds)
  BY ListsOfRedirections, FrameIsFresh
<1> HIDE DEF g, h, f
<1>7. Becomes(frames, ms, g)
  BY <1>1, BecomeChanges DEF RedirectionsInv, Keeps
<1>8. Keeps(ms, fds, leaked)
  BY <1>1, <1>4, QuietKeeps DEF RedirectionsInv
<1> HIDE DEF ms
<1>9. ms # <<>> => ms[Len(ms)].phase \in {"body", "called"}
  BY <1>5, <1>7 DEF Becomes
<1>10. Keeps(Append(ms, h), fds, leaked)
  BY <1>6, <1>8, <1>9, PushStep
<1> QED
  BY <1>2, <1>10 DEF RedirectionsInv

(* A command returns.                                                      *)
LEMMA AllButLast ==
  ASSUME NEW S, NEW s \in Seq(S), s # <<>>
  PROVE  LET n == Len(s)
             m == n - 1
             less == SubSeq(s, 1, m)
         IN  /\ n \in Nat \ {0} /\ m \in Nat
             /\ less \in Seq(S) /\ Len(less) = m /\ DOMAIN less = 1 .. m
             /\ \A i \in 1 .. m : less[i] = s[i]
             /\ m = 0 => less = <<>>
             /\ m # 0 => m \in 1 .. m /\ m \in 1 .. n
<1> DEFINE n == Len(s)
           m == n - 1
           less == SubSeq(s, 1, m)
<1>1. n \in Nat \ {0}
  OBVIOUS
<1>2. m \in Nat /\ m <= n /\ (m # 0 => m \in 1 .. m /\ m \in 1 .. n)
  <2> HIDE DEF n
  <2> QED
    BY <1>1
<1>3. \A i \in 1 .. n : s[i] \in S
  OBVIOUS
<1> HIDE DEF n
<1>4. /\ less \in Seq(S) /\ Len(less) = m
      /\ \A i \in 1 .. m : less[i] = s[i]
  <2>1. \A i \in 1 .. m : s[i] \in S /\ 1 + i - 1 = i
    BY <1>1, <1>3
  <2>2. 1 \in Int /\ m \in Int /\ m - 1 + 1 = m /\ (1 <= m \/ m = 0)
    BY <1>1
  <2> HIDE DEF m
  <2>3. /\ less \in Seq(S) /\ Len(less) = IF 1 <= m THEN m - 1 + 1 ELSE 0
        /\ \A i \in 1 .. m - 1 + 1 : less[i] = s[1 + i - 1]
    BY <2>1, <2>2, SubSeqProperties
  <2> QED
    BY <2>1, <2>2, <2>3
<1> HIDE DEF less, m
<1>5. DOMAIN less = 1 .. m
  BY <1>4
<1>6. m = 0 => less = <<>>
  BY <1>4
<1> QED
  BY <1>1, <1>2, <1>4, <1>5, <1>6 DEF less, m, n

(* Finishing returns to the command around it.                             *)
LEMMA FinishReturns ==
  ASSUME RedirectionsInv, Finish
  PROVE  /\ Returns(frames, frames') /\ UNCHANGED <<fds, leaked>>
         /\ frames # <<>> /\ frames[Len(frames)].phase = "done"
<1>1. PICK S : frames \in Seq(S)
  BY DEF RedirectionsInv, Keeps, IsStack
<1> DEFINE n == Len(frames)
           m == n - 1
<1>2. /\ frames # <<>> /\ n \in Nat \ {0} /\ m \in Nat /\ frames[n].phase = "done"
      /\ fds' = fds /\ leaked' = leaked
  BY <1>1 DEF Finish, At, Top
<1>3. /\ Below \in Seq(S) /\ Len(Below) = m /\ \A i \in 1 .. m : Below[i] = frames[i]
      /\ DOMAIN Below = 1 .. m
      /\ m = 0 => Below = <<>>
      /\ m # 0 => m \in 1 .. m /\ m \in 1 .. n
  BY <1>1, <1>2, AllButLast DEF Below
<1>4. Returns(frames, frames')
  <2>1. CASE m = 0
    <3>1. Below = <<>>
      BY <1>3, <2>1 DEF m
    <3> QED
      BY <2>1, <3>1 DEF Finish, Returns
  <2>2. CASE m # 0
    <3> DEFINE e == Below[m]
               g == [e EXCEPT !.stays = @ \cup Top.stays]
               gs == [Below EXCEPT ![Len(Below)] = g]
    <3>1. Below # <<>> /\ IsStack(Below)
      BY <1>3, <2>2 DEF IsStack
    <3>2. frames' = [Below EXCEPT ![Len(Below)].stays = @ \cup Top.stays]
      BY <3>1 DEF Finish
    <3>3. m \in DOMAIN Below
      BY <1>2, <1>3, <2>2
    <3>4. frames' = gs
      <4>1. "stays" \in DOMAIN Below[m]
        <5>1. FrameOK(frames[m])
          <6>1. m \in 1 .. Len(frames)
            BY <1>3, <2>2
          <6> QED
            BY <6>1 DEF RedirectionsInv, Keeps, FramesOf
        <5> QED
          BY <1>3, <3>3, <5>1 DEF FrameOK, FrameFields
      <4> QED
        BY <1>3, <3>2, <3>3, <4>1
    <3>5. e = frames[m] /\ Top = frames[m + 1]
      BY <1>2, <1>3, <3>3 DEF Top
    <3> HIDE DEF g
    <3>6. Becomes(Below, gs, g)
      BY <3>1, BecomeChanges
    <3>7. /\ IsStack(gs) /\ Len(gs) = m /\ gs # <<>> /\ gs[m] = g
          /\ \A i \in 1 .. m - 1 : gs[i] = frames[i]
      <4>1. 1 .. m - 1 \subseteq 1 .. m
        BY <1>2
      <4> HIDE DEF gs, m
      <4> QED
        BY <1>3, <3>6, <4>1 DEF Becomes
    <3> HIDE DEF gs
    <3>8. gs[m] = [frames[m] EXCEPT !.stays = @ \cup frames[m + 1].stays]
      BY <3>5, <3>7 DEF g
    <3> QED
      BY <2>2, <3>4, <3>7, <3>8 DEF Returns
  <2> QED
    BY <2>1, <2>2
<1> QED
  BY <1>2, <1>4

(* A command that finishes has nothing saved any more.                     *)
LEMMA FinishKeeps ==
  ASSUME RedirectionsInv, Finish
  PROVE  RedirectionsInv'
<1>1. /\ Returns(frames, frames') /\ UNCHANGED <<fds, leaked>>
      /\ frames # <<>> /\ frames[Len(frames)].phase = "done"
  BY FinishReturns
<1>2. Keeps(frames', fds, leaked)
  BY <1>1, PopStep DEF RedirectionsInv
<1> QED
  BY <1>1, <1>2 DEF RedirectionsInv

-----------------------------------------------------------------------------
(* The invariant holds at the start and every action keeps it.             *)

(* The shell starts with no command running.                               *)
LEMMA InitHolds == Init => RedirectionsInv /\ session \in Sessions
<1> SUFFICES ASSUME Init PROVE RedirectionsInv /\ session \in Sessions
  OBVIOUS
<1>1. frames = <<>> /\ Len(frames) = 0 /\ leaked = {} /\ session \in Sessions
  BY DEF Init
<1>2. IsStack(frames)
  <2>1. <<>> \in Seq({})
    OBVIOUS
  <2> QED
    BY <1>1, <2>1 DEF IsStack
<1>3. fds \in Tables /\ \A d \in Fds \ Visible : fds[d] = Closed
  <2>1. Open(Terminal, "rw") \in OpenFiles
    BY DEF Open, OpenFiles, Modes
  <2> QED
    BY <2>1 DEF Init, Tables
<1>4. FramesOf(frames, fds)
  BY <1>1 DEF FramesOf, Waiting
<1>5. DescriptorsOf(frames, fds, leaked)
  BY <1>1, <1>3 DEF DescriptorsOf, Held, SavedOnce
<1> QED
  BY <1>1, <1>2, <1>4, <1>5 DEF RedirectionsInv, Keeps

(* Every step keeps the invariant.                                         *)
LEMMA NextKeeps ==
  ASSUME RedirectionsInv, session \in Sessions, Next
  PROVE  RedirectionsInv'
<1>1. ASSUME NEW kind \in Kinds, NEW prefix \in BOOLEAN, NEW redirs \in RedirectionLists,
             Start(kind, prefix, redirs)
      PROVE  RedirectionsInv'
  BY <1>1, StartKeeps
<1>2. ASSUME At("body"), Top.kind = "function", NEW redirs \in RedirectionLists,
             CallFunction(redirs)
      PROVE  RedirectionsInv'
  BY <1>2, CallFunctionKeeps
<1>3. CASE OperandsExpand
  BY <1>3, OperandsExpandKeeps
<1>4. CASE \/ OperandsFail \/ ValuesExpand \/ ValuesFail \/ Assign \/ AssignFails \/ SpawnFails
           \/ AllRestored
  BY <1>4, GoesKeep
<1>5. CASE ApplyNext
  BY <1>5, ApplyNextKeeps
<1>6. CASE ApplyFails
  BY <1>6, ApplyFailsKeeps
<1>7. CASE PersistentFails
  BY <1>7, PersistentFailsKeeps
<1>8. CASE ApplyAbandoned
  BY <1>8, ApplyAbandonedKeeps
<1>9. CASE PrefixApplied
  BY <1>9, PrefixAppliedKeeps
<1>10. CASE AllApplied
  BY <1>10, AllAppliedKeeps
<1>11. CASE Spawn
  BY <1>11, SpawnKeeps
<1>12. CASE EndBody \/ Exit
  BY <1>12, EndsKeep
<1>13. CASE EndSubshell
  BY <1>13, EndSubshellKeeps
<1>14. CASE RestoreNext
  BY <1>14, RestoreNextKeeps
<1>15. CASE Finish
  BY <1>15, FinishKeeps
<1> QED
  BY <1>1, <1>2, <1>3, <1>4, <1>5, <1>6, <1>7, <1>8, <1>9, <1>10, <1>11, <1>12, <1>13, <1>14,
     <1>15 DEF Next

(* The session's options never change.                                     *)
LEMMA SessionStays ==
  ASSUME session \in Sessions, [Next]_vars
  PROVE  session' \in Sessions
<1>1. session' = session
  BY DEF Next, vars, Start, OperandsExpand, OperandsFail, ApplyNext, ApplyFails, PersistentFails,
         ApplyAbandoned, PrefixApplied, AllApplied, ValuesExpand, ValuesFail, Assign,
         AssignFails, Spawn, SpawnFails, CallFunction, EndBody, Exit, EndSubshell, RestoreNext,
         AllRestored, Finish
<1> QED
  BY <1>1

(* The descriptors of every waiting command are saved for it at all times. *)
THEOREM InvariantHolds == Spec => [](RedirectionsInv /\ session \in Sessions)
<1>1. ASSUME RedirectionsInv /\ session \in Sessions, [Next]_vars
      PROVE  (RedirectionsInv /\ session \in Sessions)'
  <2>1. CASE Next
    BY <1>1, <2>1, NextKeeps, SessionStays
  <2>2. CASE UNCHANGED vars
    BY <1>1, <2>2 DEF vars, RedirectionsInv
  <2> QED
    BY <1>1, <2>1, <2>2
<1> QED
  BY InitHolds, <1>1, PTL DEF Spec

(* A descriptor from FirstSaved on is open if and only if it is leaked or  *)
(* one command under way has saved one descriptor in it (fd_backup_save,   *)
(* fd_backup_restore and their callers), however deep commands nest and    *)
(* wherever they fail.                                                     *)
THEOREM SavedOnceAndOwned == Spec => []SavedAreOwned
<1>1. ASSUME RedirectionsInv
      PROVE  SavedAreOwned
  <2> DEFINE n == Len(frames)
  <2>1. /\ Held(frames, fds, leaked, n) /\ SavedOnce(frames)
        /\ \A i \in 1 .. n : FrameOK(frames[i])
    BY <1>1 DEF RedirectionsInv, Keeps, DescriptorsOf, FramesOf
  <2>2. DOMAIN frames = 1 .. n
    BY <1>1 DEF RedirectionsInv, Keeps, IsStack
  <2>3. \A i \in 1 .. n : DOMAIN frames[i].backups = 1 .. Len(frames[i].backups)
    BY <2>1 DEF FrameOK
  <2> HIDE DEF n
  <2>4. ASSUME NEW i \in 1 .. n, NEW d \in Fds \ Visible
        PROVE  d \in Owned(i) <=>
                 \E k \in 1 .. Len(frames[i].backups) : frames[i].backups[k].saved_fd = d
    BY <2>3, VisibleFds DEF Owned, SavedFds
  <2>5. ASSUME NEW d \in Fds \ Visible, NEW i \in 1 .. n, d \in Owned(i)
        PROVE  d \notin leaked /\ fds[d] # Closed
    <3>1. PICK k \in 1 .. Len(frames[i].backups) : frames[i].backups[k].saved_fd = d
      BY <2>4, <2>5
    <3>2. Holds(fds, leaked, frames[i], frames[i].backups[k])
      BY <2>1 DEF Held
    <3> QED
      BY <3>1, <3>2, VisibleFds DEF Holds
  <2>6. ASSUME NEW d \in Fds \ Visible
        PROVE  fds[d] # Closed <=> d \in leaked \/ \E i \in 1 .. n : d \in Owned(i)
    BY <2>1, <2>4, <2>5 DEF Held
  <2>7. ASSUME NEW d \in Fds \ Visible, NEW i \in 1 .. n, NEW j \in 1 .. n,
               NEW k \in DOMAIN frames[i].backups, NEW l \in DOMAIN frames[j].backups,
               frames[i].backups[k].saved_fd = d, frames[j].backups[l].saved_fd = d
        PROVE  i = j /\ k = l
    <3>1. k \in 1 .. Len(frames[i].backups) /\ l \in 1 .. Len(frames[j].backups) /\ d # -1
      BY <2>3, VisibleFds
    <3> QED
      BY <2>1, <2>7, <3>1 DEF SavedOnce, n
  <2> QED
    BY <2>2, <2>5, <2>6, <2>7 DEF SavedAreOwned
<1> QED
  BY <1>1, InvariantHolds, PTL

(* When a command is over the shell has the descriptors it had before, but *)
(* for those that stay changed for good (simple_command.c, ast_exec.c):    *)
(* after every failure, in every nesting of functions, groups and          *)
(* subshells.                                                              *)
THEOREM CommandsRestore == Spec => []Restored
<1>1. ASSUME RedirectionsInv
      PROVE  Restored
  <2> SUFFICES ASSUME At("done"), NEW d \in Visible \ Top.stays
               PROVE  View(fds)[d] = Top.before[d]
    BY DEF Restored
  <2>1. FrameOK(Top) /\ SeesBefore(Top, View(fds)) /\ Top.phase = "done"
    BY <1>1, TopIs DEF At
  <2>2. Top.backups = <<>> /\ ~Persists(Top)
    BY <2>1 DEF FrameOK, Persists
  <2>3. d \in Untouched(Top)
    BY <2>2 DEF Untouched, GivenAway, SavedFor
  <2> QED
    BY <2>1, <2>3 DEF SeesBefore
<1> QED
  BY <1>1, InvariantHolds, PTL

-----------------------------------------------------------------------------
(* What redirections mean.  The recursive functions in Meaning and         *)
(* apply_redirections are unfolded here: they exist because there is no    *)
(* least number of redirections for which they do not.                     *)

(* What begins with x and is carried on by next.                           *)
IsRun(run, X, x, n, next) ==
  /\ run \in [0 .. n -> X]
  /\ run[0] = x
  /\ \A i \in 1 .. n : run[i] = next[<<run[i - 1], i>>]

(* A function defined by recursion on 0 .. n exists. Without induction:    *)
(* the least number up to which there is none would have one.              *)
LEMMA RunExists ==
  ASSUME NEW X, NEW x \in X, NEW n \in Nat, NEW next \in [X \X (1 .. n) -> X]
  PROVE  \E run : IsRun(run, X, x, n, next)
<1> DEFINE bad == {k \in 0 .. n : ~\E run : IsRun(run, X, x, k, next)}
<1>1. ASSUME bad # {}
      PROVE  FALSE
  <2>1. bad \in SUBSET Nat
    OBVIOUS
  <2>2. PICK k \in bad : \A j \in bad : k <= j
    BY <1>1, <2>1, LeastOf
  <2>3. k \in Nat /\ k <= n /\ ~\E run : IsRun(run, X, x, k, next)
    BY <2>2
  <2>4. CASE k = 0
    <3> DEFINE run == [i \in 0 .. 0 |-> x]
    <3>1. run \in [0 .. 0 -> X] /\ run[0] = x /\ \A i \in 1 .. 0 : run[i] = next[<<run[i - 1], i>>]
      OBVIOUS
    <3> HIDE DEF run
    <3> QED
      BY <2>3, <2>4, <3>1 DEF IsRun
  <2>5. CASE k # 0
    <3>1. k - 1 \in 0 .. n /\ k \in 1 .. n /\ ~(k <= k - 1)
      BY <2>3, <2>5
    <3>2. PICK old : IsRun(old, X, x, k - 1, next)
      <4>1. k - 1 \notin bad
        BY <2>2, <3>1
      <4> QED
        BY <3>1, <4>1
    <3> DEFINE last == next[<<old[k - 1], k>>]
               run == [i \in 0 .. k |-> IF i = k THEN last ELSE old[i]]
    <3>3. old \in [0 .. k - 1 -> X] /\ old[0] = x
          /\ \A i \in 1 .. k - 1 : old[i] = next[<<old[i - 1], i>>]
      BY <3>2 DEF IsRun
    <3>4. k - 1 \in 0 .. k - 1 /\ \A i \in 0 .. k : i = k \/ i \in 0 .. k - 1
      BY <2>3, <2>5
    <3>5. last \in X
      <4>1. <<old[k - 1], k>> \in X \X (1 .. n)
        BY <3>1, <3>3, <3>4
      <4> QED
        BY <4>1
    <3> HIDE DEF last
    <3>6. run \in [0 .. k -> X]
      BY <3>3, <3>4, <3>5
    <3>7. run[0] = x /\ run[k] = last /\ \A i \in 0 .. k - 1 : run[i] = old[i]
      BY <2>3, <2>5, <3>3
    <3> HIDE DEF run
    <3>8. ASSUME NEW i \in 1 .. k
          PROVE  run[i] = next[<<run[i - 1], i>>]
      <4>1. CASE i = k
        <5>1. run[k - 1] = old[k - 1]
          BY <3>4, <3>7
        <5> QED
          BY <3>7, <4>1, <5>1 DEF last
      <4>2. CASE i # k
        <5>1. i \in 1 .. k - 1 /\ i \in 0 .. k - 1 /\ i - 1 \in 0 .. k - 1
          BY <2>3, <4>2
        <5>2. run[i] = old[i] /\ run[i - 1] = old[i - 1]
          BY <3>7, <5>1
        <5> QED
          BY <3>3, <5>1, <5>2
      <4> QED
        BY <4>1, <4>2
    <3> QED
      BY <2>3, <3>6, <3>7, <3>8 DEF IsRun
  <2> QED
    BY <2>4, <2>5
<1>2. n \in 0 .. n
  OBVIOUS
<1> QED
  BY <1>1, <1>2

(* The meaning of one redirection, as in Meaning.                          *)
RefusedBy(v, there, noclobber, r) ==
  CASE r.kind \in Opening -> \/ ~CanOpen(there, r)
                             \/ Clobbers(there, noclobber, r)
    [] r.kind \in {"dup_in", "dup_out"} -> Refused(v, r)
    [] OTHER -> FALSE

EffectOf(v, r) ==
  CASE r.kind \in Opening -> Open(r.path, ModeOf(r.kind))
    [] r.kind = "heredoc" -> Open(Text, "rw")
    [] r.kind = "close"   -> Closed
    [] OTHER              -> v[r.source]

MeaningStep(m, noclobber, r) ==
  IF m.rc # 0 \/ RefusedBy(m.view, m.present, noclobber, r)
  THEN [m EXCEPT !.rc = 1]
  ELSE [rc |-> 0, view |-> [m.view EXCEPT ![r.target] = EffectOf(m.view, r)],
        present |-> IF r.kind \in Opening THEN m.present \cup {r.path} ELSE m.present]

MeaningBody(v, there, noclobber, redirs, run) ==
  [i \in 0 .. Len(redirs) |->
     IF i = 0 THEN [rc |-> 0, view |-> v, present |-> there]
     ELSE MeaningStep(run[i - 1], noclobber, redirs[i])]

MeaningRun(v, there, noclobber, redirs) ==
  CHOOSE run : run = MeaningBody(v, there, noclobber, redirs, run)

(* The meaning of a list of redirections is the last state of its run.     *)
LEMMA MeaningIs ==
  ASSUME NEW v, NEW there, NEW noclobber, NEW redirs
  PROVE  Meaning(v, there, noclobber, redirs) =
           MeaningRun(v, there, noclobber, redirs)[Len(redirs)]
BY DEF Meaning, MeaningRun, MeaningBody, MeaningStep, RefusedBy, EffectOf

(* One step keeps its types.                                               *)
MeaningStates == [rc : {0, 1}, view : [Visible -> Behind], present : SUBSET Files]

(* The four kinds of redirection and what each names.                      *)
LEMMA RedirectionKinds ==
  ASSUME NEW r \in Redirections
  PROVE  /\ r.target \in Visible
         /\ \/ r.kind \in Opening /\ r.path \in Files /\ Open(r.path, ModeOf(r.kind)) \in OpenFiles
            \/ r.kind = "heredoc"
            \/ r.kind \in {"dup_in", "dup_out"} /\ r.source \in Visible
            \/ r.kind = "close"
<1>1. CASE r.kind \in Opening
  <2>1. r.path \in Files /\ r.target \in Visible
    BY <1>1 DEF Redirections, Opening
  <2>2. ModeOf(r.kind) \in Modes
    BY <1>1 DEF ModeOf, Modes, Opening
  <2> QED
    BY <1>1, <2>1, <2>2 DEF Open, OpenFiles
<1>2. CASE r.kind \notin Opening
  BY <1>2 DEF Redirections, Opening
<1> QED
  BY <1>1, <1>2

(* What a redirection puts behind its target is something a descriptor can *)
(* have.                                                                   *)
LEMMA EffectTyped ==
  ASSUME NEW v \in [Visible -> Behind], NEW r \in Redirections
  PROVE  EffectOf(v, r) \in Behind
<1>1. CASE r.kind \in Opening
  BY <1>1, RedirectionKinds DEF EffectOf, Behind, Opening
<1>2. CASE r.kind = "heredoc"
  <2>1. Open(Text, "rw") \in OpenFiles
    BY DEF Open, OpenFiles, Modes
  <2> QED
    BY <1>2, <2>1 DEF EffectOf, Behind, Opening
<1>3. CASE r.kind \in {"dup_in", "dup_out"} /\ r.source \in Visible
  BY <1>3 DEF EffectOf, Opening
<1>4. CASE r.kind = "close"
  BY <1>4 DEF EffectOf, Behind, Opening
<1> QED
  BY <1>1, <1>2, <1>3, <1>4, RedirectionKinds

(* One step of the meaning: a failure is final, files are only ever added, *)
(* and what is refused fails.                                              *)
LEMMA MeaningStepTyped ==
  ASSUME NEW m \in MeaningStates, NEW noclobber, NEW r \in Redirections
  PROVE  /\ MeaningStep(m, noclobber, r) \in MeaningStates
         /\ m.rc # 0 => MeaningStep(m, noclobber, r).rc # 0
         /\ m.present \subseteq MeaningStep(m, noclobber, r).present
         /\ m.rc = 0 /\ RefusedBy(m.view, m.present, noclobber, r)
              => MeaningStep(m, noclobber, r).rc # 0
         /\ m.rc = 0 /\ ~RefusedBy(m.view, m.present, noclobber, r)
              => /\ MeaningStep(m, noclobber, r).rc = 0
                 /\ MeaningStep(m, noclobber, r).view =
                      [m.view EXCEPT ![r.target] = EffectOf(m.view, r)]
                 /\ MeaningStep(m, noclobber, r).present =
                      IF r.kind \in Opening THEN m.present \cup {r.path} ELSE m.present
<1> DEFINE next == MeaningStep(m, noclobber, r)
           more == IF r.kind \in Opening THEN m.present \cup {r.path} ELSE m.present
           v == [m.view EXCEPT ![r.target] = EffectOf(m.view, r)]
<1>1. m.view \in [Visible -> Behind] /\ m.present \in SUBSET Files /\ m.rc \in {0, 1}
  BY DEF MeaningStates
<1>2. more \in SUBSET Files /\ m.present \subseteq more
  BY <1>1, RedirectionKinds DEF Opening
<1>3. v \in [Visible -> Behind]
  BY <1>1, EffectTyped, RedirectionKinds
<1> HIDE DEF more, v
<1>4. CASE m.rc # 0 \/ RefusedBy(m.view, m.present, noclobber, r)
  <2>1. next = [m EXCEPT !.rc = 1]
    BY <1>4 DEF MeaningStep
  <2>2. next \in MeaningStates /\ next.rc = 1 /\ next.present = m.present
    BY <2>1 DEF MeaningStates
  <2> HIDE DEF next
  <2>3. 1 # 0
    OBVIOUS
  <2> QED
    BY <1>4, <2>2, <2>3 DEF next
<1>5. CASE ~(m.rc # 0 \/ RefusedBy(m.view, m.present, noclobber, r))
  <2>1. next = [rc |-> 0, view |-> v, present |-> more]
    BY <1>5 DEF MeaningStep, v, more
  <2>2. next.rc = 0 /\ next.view = v /\ next.present = more /\ next \in MeaningStates
    BY <1>2, <1>3, <2>1 DEF MeaningStates
  <2> HIDE DEF next
  <2> QED
    BY <1>2, <1>5, <2>2 DEF v, more, next
<1> QED
  BY <1>4, <1>5

(* The run of Meaning, step by step.                                       *)
Steps(run, v, there, noclobber, redirs) ==
  /\ run \in [0 .. Len(redirs) -> MeaningStates]
  /\ run[0].rc = 0 /\ run[0].view = v /\ run[0].present = there
  /\ \A i \in 1 .. Len(redirs) : run[i] = MeaningStep(run[i - 1], noclobber, redirs[i])

(* The meaning of a list goes through well typed states, one per           *)
(* redirection.                                                            *)
LEMMA MeaningRuns ==
  ASSUME NEW v \in [Visible -> Behind], NEW there \in SUBSET Files, NEW noclobber,
         NEW redirs \in Seq(Redirections)
  PROVE  Steps(MeaningRun(v, there, noclobber, redirs), v, there, noclobber, redirs)
<1> DEFINE n == Len(redirs)
           x == [rc |-> 0, view |-> v, present |-> there]
           X == MeaningStates
           next == [p \in X \X (1 .. n) |-> MeaningStep(p[1], noclobber, redirs[p[2]])]
           R == MeaningRun(v, there, noclobber, redirs)
           Body(run) == MeaningBody(v, there, noclobber, redirs, run)
<1>1. n \in Nat /\ \A i \in 1 .. n : redirs[i] \in Redirections
  OBVIOUS
<1>2. x \in X
  BY DEF MeaningStates
<1> HIDE DEF n, X
<1>3. next \in [X \X (1 .. n) -> X]
  <2>1. ASSUME NEW p \in X \X (1 .. n)
        PROVE  MeaningStep(p[1], noclobber, redirs[p[2]]) \in X
    <3>1. p[1] \in MeaningStates /\ redirs[p[2]] \in Redirections
      BY <1>1 DEF X
    <3> QED
      BY <3>1, MeaningStepTyped DEF X
  <2> QED
    BY <2>1
<1>4. \A m \in X : \A i \in 1 .. n : next[<<m, i>>] = MeaningStep(m, noclobber, redirs[i])
  OBVIOUS
<1> HIDE DEF next, x
<1>5. PICK run : IsRun(run, X, x, n, next)
  BY <1>1, <1>2, <1>3, RunExists
<1>6. run \in [0 .. n -> X] /\ run[0] = x /\ \A i \in 1 .. n : run[i] = next[<<run[i - 1], i>>]
  BY <1>5 DEF IsRun
<1>7. \A i \in 1 .. n : run[i] = MeaningStep(run[i - 1], noclobber, redirs[i])
  <2>1. \A i \in 1 .. n : i - 1 \in 0 .. n
    BY <1>1
  <2> QED
    BY <1>4, <1>6, <2>1
<1>8. run = Body(run)
  <2>1. DOMAIN Body(run) = 0 .. n
    BY DEF MeaningBody, n
  <2>2. \A i \in 0 .. n : Body(run)[i] = IF i = 0 THEN x ELSE MeaningStep(run[i - 1], noclobber, redirs[i])
    BY DEF MeaningBody, n, x
  <2>3. Body(run) = [i \in 0 .. n |-> Body(run)[i]]
    BY DEF MeaningBody, n
  <2>4. \A i \in 0 .. n : i = 0 \/ i \in 1 .. n
    BY <1>1
  <2>5. \A i \in 0 .. n : run[i] = Body(run)[i]
    BY <1>6, <1>7, <2>2, <2>4
  <2> HIDE DEF Body
  <2> QED
    BY <1>6, <2>1, <2>3, <2>5
<1>9. R = Body(R)
  <2>1. \E s : s = Body(s)
    BY <1>8
  <2>2. (CHOOSE s : s = Body(s)) = Body(CHOOSE s : s = Body(s))
    BY <2>1, Zenon
  <2> QED
    BY <2>2 DEF MeaningRun
<1>10. /\ DOMAIN R = 0 .. n /\ R = [i \in 0 .. n |-> R[i]]
       /\ R[0] = x
       /\ \A i \in 1 .. n : R[i] = MeaningStep(R[i - 1], noclobber, redirs[i])
  <2>1. DOMAIN Body(R) = 0 .. n /\ Body(R) = [i \in 0 .. n |-> Body(R)[i]]
    BY DEF MeaningBody, n
  <2>2. \A i \in 0 .. n : Body(R)[i] = IF i = 0 THEN x ELSE MeaningStep(R[i - 1], noclobber, redirs[i])
    BY DEF MeaningBody, n, x
  <2>3. \A i \in 1 .. n : i \in 0 .. n /\ i # 0
    BY <1>1
  <2>4. 0 \in 0 .. n
    BY <1>1
  <2> HIDE DEF Body, R
  <2> QED
    BY <1>9, <2>1, <2>2, <2>3, <2>4
<1> HIDE DEF R
<1>11. \A i \in 0 .. n : R[i] \in X
  <2> DEFINE bad == {i \in 0 .. n : R[i] \notin X}
  <2>1. ASSUME bad # {} PROVE FALSE
    <3>1. bad \in SUBSET Nat
      BY <1>1
    <3>2. PICK k \in bad : \A j \in bad : k <= j
      BY <2>1, <3>1, LeastOf
    <3>3. k # 0 /\ k \in 1 .. n
      BY <1>1, <1>2, <1>10, <3>2
    <3>4. k - 1 \in 0 .. n /\ ~(k <= k - 1)
      BY <1>1, <3>3
    <3>5. R[k - 1] \in X
      BY <3>2, <3>4
    <3>6. R[k] \in X
      BY <1>1, <1>10, <3>3, <3>5, MeaningStepTyped DEF X
    <3> QED
      BY <3>2, <3>6
  <2> QED
    BY <2>1
<1>12. R \in [0 .. n -> X]
  BY <1>10, <1>11
<1>13. R[0].rc = 0 /\ R[0].view = v /\ R[0].present = there
  BY <1>10 DEF x
<1> QED
  BY <1>10, <1>12, <1>13 DEF Steps, R, n, X

(* Once refused, refused for good; files are never removed.                *)
LEMMA MeaningGoesOn ==
  ASSUME NEW run, NEW v, NEW there, NEW noclobber, NEW redirs \in Seq(Redirections),
         Steps(run, v, there, noclobber, redirs), NEW k \in 0 .. Len(redirs)
  PROVE  /\ run[Len(redirs)].rc = 0 => run[k].rc = 0
         /\ run[k].present \subseteq run[Len(redirs)].present
<1> DEFINE n == Len(redirs)
           bad == {i \in k .. n : \/ run[k].rc # 0 /\ run[i].rc = 0
                                  \/ ~(run[k].present \subseteq run[i].present)}
<1>1. n \in Nat /\ k \in Nat /\ k <= n /\ \A i \in 1 .. n : redirs[i] \in Redirections
  OBVIOUS
<1>2. /\ run \in [0 .. n -> MeaningStates]
      /\ \A i \in 1 .. n : run[i] = MeaningStep(run[i - 1], noclobber, redirs[i])
  BY DEF Steps
<1> HIDE DEF n
<1>3. ASSUME bad # {} PROVE FALSE
  <2>1. bad \in SUBSET Nat
    BY <1>1
  <2>2. PICK i \in bad : \A j \in bad : i <= j
    BY <1>3, <2>1, LeastOf
  <2>3. i # k
    BY <2>2
  <2>4. i - 1 \in k .. n /\ i - 1 \in 0 .. n /\ i \in 1 .. n /\ ~(i <= i - 1)
    BY <1>1, <2>2, <2>3
  <2>5. i - 1 \notin bad
    BY <2>2, <2>4
  <2>6. /\ run[k].rc # 0 => run[i - 1].rc # 0
        /\ run[k].present \subseteq run[i - 1].present
    BY <2>4, <2>5
  <2>7. /\ run[i - 1].rc # 0 => run[i].rc # 0
        /\ run[i - 1].present \subseteq run[i].present
    <3> DEFINE m == run[i - 1]
               r == redirs[i]
    <3>1. m \in MeaningStates /\ r \in Redirections /\ run[i] = MeaningStep(m, noclobber, r)
      BY <1>1, <1>2, <2>4
    <3> HIDE DEF m, r
    <3>2. /\ m.rc # 0 => MeaningStep(m, noclobber, r).rc # 0
          /\ m.present \subseteq MeaningStep(m, noclobber, r).present
      BY <3>1, MeaningStepTyped
    <3> QED
      BY <3>1, <3>2 DEF m
  <2> QED
    BY <2>2, <2>6, <2>7
<1>4. n \in k .. n
  BY <1>1
<1> QED
  BY <1>3, <1>4 DEF n

(* The view of a table after a redirection.                                *)
TextOnly(t) == \A d \in Visible : t[d].cloexec => t[d].file = Text

(* Installing needs one free descriptor; with one, the target is the file  *)
(* opened.                                                                 *)
LEMMA InstallSeen ==
  ASSUME NEW t \in Tables, NEW there, NEW target \in Visible, NEW what \in OpenFiles
  PROVE  LET res == Install(t, there, target, what)
         IN  /\ FreeFrom(t, 0) = {} => res = Result(1, t, there)
             /\ FreeFrom(t, 0) # {} => /\ res.rc = 0 /\ res.present = there
                                       /\ res.fds[target] \in {what, Copy(what)}
<1> DEFINE free == FreeFrom(t, 0)
           d == Lowest(free)
           opened == [t EXCEPT ![d] = what]
           closed == [Dup2(opened, d, target) EXCEPT ![d] = Closed]
           res == Install(t, there, target, what)
<1>1. CASE free = {}
  BY <1>1 DEF Install
<1>2. CASE free # {}
  <2>1. free \subseteq Fds
    BY DEF FreeFrom, Fds
  <2>2. d \in free
    BY <1>2, <2>1, LowestIs
  <2>3. /\ res.rc = 0 /\ res.present = there
        /\ res.fds = IF d = target THEN opened ELSE closed
    BY <1>2 DEF Install, Result
  <2> HIDE DEF d, res
  <2>4. d \in Fds /\ target \in Fds /\ what \in Behind /\ Closed \in Behind
    BY <2>1, <2>2, VisibleFds DEF Behind
  <2>5. opened \in Tables /\ opened[d] = what
    BY <2>4, Typed
  <2>6. CASE d = target
    BY <1>2, <2>3, <2>5, <2>6 DEF res
  <2>7. CASE d # target
    <3> HIDE DEF opened
    <3>1. Dup2(opened, d, target) \in Tables /\ Dup2(opened, d, target)[target] = Copy(what)
      BY <2>4, <2>5, <2>7, Dup2Writes
    <3>2. closed[target] = Copy(what)
      BY <2>4, <2>7, <3>1, Typed
    <3> HIDE DEF closed
    <3> QED
      BY <1>2, <2>3, <2>7, <3>2 DEF res
  <2> QED
    BY <2>6, <2>7
<1> QED
  BY <1>1, <1>2

(* What apply_one_redirection does to what is seen, when it succeeds; and  *)
(* why it fails, when there is a descriptor left.                          *)
LEMMA ViewIs ==
  ASSUME NEW t \in Tables
  PROVE  /\ View(t) \in [Visible -> Behind]
         /\ \A d \in Visible : View(t)[d] = Copy(t[d])
<1>1. \A d \in Visible : Copy(t[d]) \in Behind
  BY Typed, Copies, VisibleFds
<1> QED
  BY <1>1 DEF View

(* A duplicate is the same file in the same mode, and is not closed on     *)
(* exec.                                                                   *)
LEMMA CopyFields ==
  ASSUME NEW w \in Behind
  PROVE  /\ Copy(w).file = w.file /\ Copy(w).mode = w.mode /\ Copy(w).cloexec = FALSE
         /\ ~w.cloexec => Copy(w) = w
<1> DEFINE Everything == [file : Files \cup {Terminal, Text, "none"},
                          mode : Modes \cup {"closed"}, cloexec : BOOLEAN]
<1>1. w \in Everything
  <2>1. Closed \in Everything
    BY DEF Closed, Open
  <2> QED
    BY <2>1 DEF Behind, OpenFiles
<1> QED
  BY <1>1 DEF Copy

Applies(t, there, noclobber, r, res) ==
  /\ res.rc \in {0, 1} /\ res.present \in SUBSET Files /\ there \subseteq res.present
  /\ Writes(t, res.fds, r.target)
  /\ res.rc = 0 => /\ ~RefusedBy(View(t), there, noclobber, r)
                   /\ View(res.fds)[r.target] = EffectOf(View(t), r)
                   /\ res.present = IF r.kind \in Opening THEN there \cup {r.path} ELSE there
  /\ res.rc # 0 => res.fds = t /\ res.present = there
  /\ res.rc # 0 /\ FreeFrom(t, 0) # {} => RefusedBy(View(t), there, noclobber, r)
  /\ TextOnly(t) => TextOnly(res.fds)

(* apply_one_redirection does to the descriptors what the redirection      *)
(* means.                                                                  *)
LEMMA RedirectionApplies ==
  ASSUME NEW t \in Tables, NEW there \in SUBSET Files, NEW noclobber, NEW r \in Redirections
  PROVE  Applies(t, there, noclobber, r, apply_one_redirection(t, there, noclobber, r))
<1> DEFINE res == apply_one_redirection(t, there, noclobber, r)
           v == View(t)
<1>1. r.target \in Visible /\ r.target \in Fds /\ Writes(t, res.fds, r.target)
  BY RedirectionWrites, VisibleFds
<1>2. /\ v \in [Visible -> Behind] /\ \A d \in Visible : v[d] = Copy(t[d])
      /\ \A d \in Fds : t[d] \in Behind
  BY ViewIs, Typed
<1>3. ASSUME res.rc = 1, res.fds = t, res.present = there,
             FreeFrom(t, 0) # {} => RefusedBy(v, there, noclobber, r)
      PROVE  Applies(t, there, noclobber, r, res)
  BY <1>1, <1>3 DEF Applies
<1>4. ASSUME res.rc = 0, ~RefusedBy(v, there, noclobber, r),
             Copy(res.fds[r.target]) = EffectOf(v, r),
             res.present = IF r.kind \in Opening THEN there \cup {r.path} ELSE there,
             TextOnly(t) /\ res.fds[r.target].cloexec => res.fds[r.target].file = Text
      PROVE  Applies(t, there, noclobber, r, res)
  <2>1. res.present \in SUBSET Files /\ there \subseteq res.present
    BY <1>4, RedirectionKinds DEF Opening
  <2>2. View(res.fds)[r.target] = EffectOf(v, r)
    BY <1>1, <1>4 DEF View
  <2>3. TextOnly(t) => TextOnly(res.fds)
    BY <1>1, <1>4, VisibleFds DEF TextOnly, Writes
  <2> QED
    BY <1>1, <1>4, <2>1, <2>2, <2>3 DEF Applies
<1>5. ASSUME NEW what \in OpenFiles, NEW files, FreeFrom(t, 0) # {},
             res = Install(t, files, r.target, what)
      PROVE  /\ res.rc = 0 /\ res.present = files
             /\ Copy(res.fds[r.target]) = Copy(what)
             /\ res.fds[r.target].file = what.file
             /\ res.fds[r.target].cloexec => what.cloexec
  <2>1. res.rc = 0 /\ res.present = files /\ res.fds[r.target] \in {what, Copy(what)}
    BY <1>1, <1>5, InstallSeen
  <2>2. what \in Behind
    BY DEF Behind
  <2> HIDE DEF res
  <2>3. Copy(Copy(what)) = Copy(what) /\ Copy(what).file = what.file /\ Copy(what).cloexec = FALSE
    BY <2>2, Copies, CopyFields
  <2> QED
    BY <2>1, <2>3
<1>6. ASSUME r.kind \in Opening
      PROVE  Applies(t, there, noclobber, r, res)
  <2> DEFINE what == Open(r.path, ModeOf(r.kind))
  <2>1. res = apply_opening(t, there, noclobber, r)
    BY <1>6 DEF apply_one_redirection, Opening
  <2>2. RefusedBy(v, there, noclobber, r) <=>
          ~CanOpen(there, r) \/ Clobbers(there, noclobber, r)
    BY <1>6 DEF RefusedBy, Opening
  <2>3. CASE RefusedBy(v, there, noclobber, r) \/ FreeFrom(t, 0) = {}
    <3>1. res = Result(1, t, there)
      BY <2>1, <2>2, <2>3 DEF apply_opening
    <3>2. res.rc = 1 /\ res.fds = t /\ res.present = there
      BY <3>1 DEF Result
    <3> HIDE DEF res, v
    <3> QED
      BY <1>3, <2>3, <3>2
  <2>4. CASE ~RefusedBy(v, there, noclobber, r) /\ FreeFrom(t, 0) # {}
    <3>1. res = Install(t, there \cup {r.path}, r.target, what)
      BY <2>1, <2>2, <2>4 DEF apply_opening
    <3>2. what \in OpenFiles /\ what.cloexec = FALSE
      BY <1>6, RedirectionKinds DEF Open, Opening
    <3>3. Copy(what) = what
      BY <3>2, CopyFields DEF Behind
    <3>4. EffectOf(v, r) = what
      BY <1>6 DEF EffectOf, Opening
    <3> HIDE DEF res, v, what
    <3>5. /\ res.rc = 0 /\ res.present = there \cup {r.path}
          /\ Copy(res.fds[r.target]) = Copy(what)
          /\ res.fds[r.target].file = what.file
          /\ res.fds[r.target].cloexec => what.cloexec
      BY <1>5, <2>4, <3>1, <3>2
    <3> QED
      BY <1>4, <1>6, <2>4, <3>2, <3>3, <3>4, <3>5
  <2> QED
    BY <2>3, <2>4
<1>7. ASSUME r.kind = "heredoc"
      PROVE  Applies(t, there, noclobber, r, res)
  <2> DEFINE what == [Open(Text, "rw") EXCEPT !.cloexec = TRUE]
  <2>1. res = Install(t, there, r.target, what)
    BY <1>7 DEF apply_one_redirection, Opening, apply_heredoc
  <2>2. what \in OpenFiles /\ what.file = Text /\ Copy(what) = Open(Text, "rw")
    <3> DEFINE Everything == [file : Files \cup {Terminal, Text}, mode : Modes, cloexec : BOOLEAN]
               o == Open(Text, "rw")
    <3>1. what \in OpenFiles /\ what.file = Text /\ what.mode = "rw"
      BY DEF Open, OpenFiles, Modes
    <3>2. o \in Everything /\ o.file = Text /\ o.mode = "rw" /\ o.cloexec = FALSE
      BY DEF Open, Modes
    <3> HIDE DEF what, o
    <3>3. Copy(what) \in Everything /\ Copy(what).file = Text /\ Copy(what).mode = "rw"
          /\ Copy(what).cloexec = FALSE
      BY <3>1 DEF Copy, OpenFiles
    <3>4. Copy(what) = o
      BY <3>2, <3>3
    <3> QED
      BY <3>1, <3>4 DEF o
  <2>3. /\ EffectOf(v, r) = Open(Text, "rw") /\ ~RefusedBy(v, there, noclobber, r)
        /\ r.kind \notin Opening
    BY <1>7 DEF EffectOf, RefusedBy, Opening
  <2> HIDE DEF v, what
  <2>4. CASE FreeFrom(t, 0) = {}
    <3>1. res = Result(1, t, there)
      BY <1>1, <2>1, <2>2, <2>4, InstallSeen
    <3>2. res.rc = 1 /\ res.fds = t /\ res.present = there
      BY <3>1 DEF Result
    <3> HIDE DEF res
    <3> QED
      BY <1>3, <2>4, <3>2
  <2>5. CASE FreeFrom(t, 0) # {}
    <3> HIDE DEF res
    <3>1. /\ res.rc = 0 /\ res.present = there
          /\ Copy(res.fds[r.target]) = Copy(what)
          /\ res.fds[r.target].file = what.file
          /\ res.fds[r.target].cloexec => what.cloexec
      BY <1>5, <2>1, <2>2, <2>5
    <3> QED
      BY <1>4, <2>2, <2>3, <2>5, <3>1
  <2> QED
    BY <2>4, <2>5
<1>8. ASSUME r.kind \in {"dup_in", "dup_out"}, r.source \in Visible
      PROVE  Applies(t, there, noclobber, r, res)
  <2>1. res = apply_dup(t, there, r)
    BY <1>8 DEF apply_one_redirection, Opening
  <2>2. /\ EffectOf(v, r) = v[r.source] /\ r.kind \notin Opening
        /\ RefusedBy(v, there, noclobber, r) <=> Refused(v, r)
    BY <1>8 DEF EffectOf, RefusedBy, Opening
  <2>3. Refused(v, r) <=> Refused(t, r)
    <3>1. v[r.source] = Copy(t[r.source]) /\ t[r.source] \in Behind
      BY <1>2, <1>8, VisibleFds
    <3>2. /\ v[r.source].mode = t[r.source].mode
          /\ v[r.source] = Closed <=> t[r.source] = Closed
      BY <3>1, Copies, CopyFields
    <3> HIDE DEF v
    <3> QED
      BY <3>2 DEF Refused
  <2>4. CASE Refused(t, r)
    <3>1. res = Result(1, t, there)
      BY <2>1, <2>4 DEF apply_dup
    <3>2. res.rc = 1 /\ res.fds = t /\ res.present = there
      BY <3>1 DEF Result
    <3> HIDE DEF res, v
    <3> QED
      BY <1>3, <2>2, <2>3, <2>4, <3>2
  <2>5. CASE ~Refused(t, r)
    <3> DEFINE u == Dup2(t, r.source, r.target)
    <3>1. res.rc = 0 /\ res.fds = u /\ res.present = there
      BY <2>1, <2>5 DEF apply_dup, Result
    <3>2. u[r.target] \in {t[r.source], Copy(t[r.source])}
      <4>1. CASE r.source = r.target
        BY <4>1 DEF Dup2
      <4>2. CASE r.source # r.target
        <5>1. r.source \in Fds
          BY <1>8, VisibleFds
        <5> QED
          BY <1>1, <4>2, <5>1, Dup2Writes
      <4> QED
        BY <4>1, <4>2
    <3>3. /\ Copy(u[r.target]) = v[r.source]
          /\ u[r.target].cloexec => t[r.source].cloexec
          /\ u[r.target].file = t[r.source].file
      <4>1. t[r.source] \in Behind /\ v[r.source] = Copy(t[r.source])
        BY <1>2, <1>8, VisibleFds
      <4> HIDE DEF u, v
      <4>2. /\ Copy(Copy(t[r.source])) = Copy(t[r.source])
            /\ Copy(t[r.source]).cloexec = FALSE
            /\ Copy(t[r.source]).file = t[r.source].file
        BY <4>1, Copies, CopyFields
      <4> QED
        BY <3>2, <4>1, <4>2
    <3> HIDE DEF res, v, u
    <3>4. TextOnly(t) /\ u[r.target].cloexec => u[r.target].file = Text
      BY <1>8, <3>3 DEF TextOnly
    <3> QED
      BY <1>4, <2>2, <2>3, <2>5, <3>1, <3>3, <3>4
  <2> QED
    BY <2>4, <2>5
<1>9. ASSUME r.kind = "close"
      PROVE  Applies(t, there, noclobber, r, res)
  <2>1. res.rc = 0 /\ res.fds = [t EXCEPT ![r.target] = Closed] /\ res.present = there
    BY <1>9 DEF apply_one_redirection, Opening, Result
  <2>2. res.fds[r.target] = Closed
    BY <1>1, <2>1, Typed
  <2>3. /\ EffectOf(v, r) = Closed /\ ~RefusedBy(v, there, noclobber, r) /\ r.kind \notin Opening
    BY <1>9 DEF EffectOf, RefusedBy, Opening
  <2>4. Closed.cloexec = FALSE /\ Copy(Closed) = Closed
    BY Copies DEF Closed, Open, Behind
  <2> HIDE DEF res, v
  <2> QED
    BY <1>4, <2>1, <2>2, <2>3, <2>4
<1> QED
  BY <1>6, <1>7, <1>8, <1>9, RedirectionKinds

(* A round of redirections under way: k have been applied, and what is     *)
(* seen is what they mean.  Those of a command with assignments before it  *)
(* are applied twice, the second time with the files there that the first  *)
(* time has created.                                                       *)
InRound(run, t, here, n, k, second) ==
  /\ run[k].rc = 0
  /\ View(t) = run[k].view
  /\ second => run[n].rc = 0 /\ here = run[n].present
  /\ ~second => here = run[k].present

Going(run, redirs, t, here, k, second) == InRound(run, t, here, Len(redirs), k, second)

Went(run, redirs, noclobber, t, res, k, second) ==
  /\ res.rc = 0 => InRound(run, res.fds, res.present, Len(redirs), k, second)
  /\ res.rc # 0 /\ FreeFrom(t, 0) # {} /\ ~(second /\ noclobber) => run[Len(redirs)].rc # 0

(* One redirection applied takes the table one state further along the run *)
(* of the meaning, the first time round and the second.                    *)
LEMMA RoundStep ==
  ASSUME NEW run, NEW v, NEW there, NEW noclobber \in BOOLEAN, NEW redirs \in Seq(Redirections),
         Steps(run, v, there, noclobber, redirs), NEW k \in 1 .. Len(redirs),
         NEW t \in Tables, NEW here \in SUBSET Files, NEW second \in BOOLEAN,
         Going(run, redirs, t, here, k - 1, second),
         NEW res, Applies(t, here, noclobber, redirs[k], res)
  PROVE  Went(run, redirs, noclobber, t, res, k, second)
<1> SUFFICES /\ res.rc = 0 => InRound(run, res.fds, res.present, Len(redirs), k, second)
             /\ res.rc # 0 /\ FreeFrom(t, 0) # {} /\ ~(second /\ noclobber)
                  => run[Len(redirs)].rc # 0
  BY DEF Went
<1> DEFINE n == Len(redirs)
           r == redirs[k]
           m == run[k - 1]
<1>1. n \in Nat /\ k - 1 \in 0 .. n /\ k \in 0 .. n /\ r \in Redirections
  OBVIOUS
<1>2. m \in MeaningStates /\ run[k] = MeaningStep(m, noclobber, r)
  BY <1>1 DEF Steps
<1>3. /\ run[n].rc = 0 => run[k].rc = 0
      /\ run[k].present \subseteq run[n].present
      /\ m.present \subseteq run[n].present
  BY <1>1, MeaningGoesOn
<1>4. /\ m.rc = 0 /\ View(t) = m.view
      /\ second => run[n].rc = 0 /\ here = run[n].present
      /\ ~second => here = m.present
  BY DEF InRound, Going
<1> HIDE DEF n, r, m
<1>5. /\ RefusedBy(m.view, m.present, noclobber, r) => run[k].rc # 0
      /\ ~RefusedBy(m.view, m.present, noclobber, r)
              => /\ run[k].rc = 0
                 /\ run[k].view = [m.view EXCEPT ![r.target] = EffectOf(m.view, r)]
                 /\ run[k].present =
                      IF r.kind \in Opening THEN m.present \cup {r.path} ELSE m.present
  BY <1>1, <1>2, <1>4, MeaningStepTyped
<1>6. Applies(t, here, noclobber, r, res)
  BY DEF r
<1>7. ASSUME res.rc = 0, ~RefusedBy(m.view, m.present, noclobber, r)
      PROVE  View(res.fds) = run[k].view
  <2> DEFINE w == [m.view EXCEPT ![r.target] = EffectOf(m.view, r)]
  <2>1. /\ r.target \in Visible /\ Writes(t, res.fds, r.target)
        /\ View(res.fds)[r.target] = EffectOf(m.view, r)
    BY <1>1, <1>4, <1>6, <1>7, RedirectionKinds DEF Applies
  <2>2. m.view \in [Visible -> Behind] /\ EffectOf(m.view, r) \in Behind
    BY <1>1, <1>2, EffectTyped DEF MeaningStates
  <2>3. /\ w \in [Visible -> Behind] /\ w[r.target] = EffectOf(m.view, r)
        /\ \A d \in Visible : d # r.target => w[d] = View(t)[d]
    BY <1>4, <2>1, <2>2
  <2>4. /\ View(res.fds) \in [Visible -> Behind]
        /\ \A d \in Visible : d # r.target => View(res.fds)[d] = View(t)[d]
    <3>1. res.fds \in Tables /\ \A d \in Visible : d # r.target => res.fds[d] = t[d]
      BY <2>1, VisibleFds DEF Writes
    <3> QED
      BY <3>1, ViewIs
  <2> HIDE DEF w
  <2>5. View(res.fds) = w
    BY <2>1, <2>3, <2>4
  <2> QED
    BY <1>5, <1>7, <2>5 DEF w
<1>8. CASE ~second
  <2>1. RefusedBy(View(t), here, noclobber, r) <=> RefusedBy(m.view, m.present, noclobber, r)
    BY <1>4, <1>8
  <2>2. ASSUME res.rc = 0
        PROVE  InRound(run, res.fds, res.present, n, k, second)
    <3>1. ~RefusedBy(m.view, m.present, noclobber, r)
          /\ res.present = IF r.kind \in Opening THEN here \cup {r.path} ELSE here
      BY <1>6, <2>1, <2>2 DEF Applies
    <3> QED
      BY <1>4, <1>5, <1>7, <1>8, <2>2, <3>1 DEF InRound
  <2>3. res.rc # 0 /\ FreeFrom(t, 0) # {} => run[n].rc # 0
    BY <1>3, <1>5, <1>6, <2>1 DEF Applies
  <2> QED
    BY <2>2, <2>3 DEF n
<1>9. CASE second
  <2>1. run[k].rc = 0 /\ run[n].rc = 0 /\ here = run[n].present
    BY <1>3, <1>4, <1>9
  <2>2. ~RefusedBy(m.view, m.present, noclobber, r)
    BY <1>5, <2>1
  <2>3. m.present \subseteq here /\ (r.kind \in Opening => r.path \in here)
    BY <1>3, <1>5, <2>1, <2>2
  <2>4. ASSUME res.rc = 0
        PROVE  InRound(run, res.fds, res.present, n, k, second)
    <3>1. res.present = here
      BY <1>6, <2>3, <2>4 DEF Applies
    <3> QED
      BY <1>7, <1>9, <2>1, <2>2, <2>4, <3>1 DEF InRound
  <2>5. noclobber \/ ~RefusedBy(View(t), here, noclobber, r)
    BY <1>4, <2>2, <2>3 DEF RefusedBy, CanOpen, Clobbers
  <2>6. res.rc # 0 /\ FreeFrom(t, 0) # {} => noclobber
    BY <1>6, <2>5 DEF Applies
  <2> QED
    BY <1>9, <2>4, <2>6 DEF n
<1> QED
  BY <1>8, <1>9

(* The child of a utility applies them in one go.                          *)
ApplyStates == [rc : {0, 1}, fds : Tables, present : SUBSET Files]

ApplyStep(a, noclobber, r) ==
  IF a.rc # 0 THEN a ELSE apply_one_redirection(a.fds, a.present, noclobber, r)

ApplyBody(t, here, noclobber, redirs, run) ==
  [i \in 0 .. Len(redirs) |->
     IF i = 0 THEN Result(0, t, here) ELSE ApplyStep(run[i - 1], noclobber, redirs[i])]

ApplyRun(t, here, noclobber, redirs) ==
  CHOOSE run : run = ApplyBody(t, here, noclobber, redirs, run)

(* apply_redirections is the last state of its run.                        *)
LEMMA ApplyIs ==
  ASSUME NEW t, NEW here, NEW noclobber, NEW redirs
  PROVE  apply_redirections(t, here, noclobber, redirs) =
           ApplyRun(t, here, noclobber, redirs)[Len(redirs)]
BY DEF apply_redirections, ApplyRun, ApplyBody, ApplyStep

(* One step of apply_redirections: after a failure nothing more is         *)
(* applied.                                                                *)
LEMMA ApplyStepTyped ==
  ASSUME NEW a \in ApplyStates, NEW noclobber, NEW r \in Redirections
  PROVE  /\ ApplyStep(a, noclobber, r) \in ApplyStates
         /\ a.rc # 0 => ApplyStep(a, noclobber, r) = a
         /\ a.rc = 0 => Applies(a.fds, a.present, noclobber, r, ApplyStep(a, noclobber, r))
<1> DEFINE b == apply_one_redirection(a.fds, a.present, noclobber, r)
<1>1. a.fds \in Tables /\ a.present \in SUBSET Files
  BY DEF ApplyStates
<1>2. Applies(a.fds, a.present, noclobber, r, b)
  BY <1>1, RedirectionApplies
<1>3. b \in ApplyStates
  <2>1. \E rc, t, files : b = Result(rc, t, files)
    <3>1. \E rc, t, files : Install(a.fds, a.present, r.target, [Open(Text, "rw") EXCEPT !.cloexec = TRUE]) = Result(rc, t, files)
      BY DEF Install
    <3>2. \E rc, t, files : Install(a.fds, a.present \cup {r.path}, r.target, Open(r.path, ModeOf(r.kind))) = Result(rc, t, files)
      BY DEF Install
    <3> QED
      BY <3>1, <3>2, RedirectionKinds
         DEF apply_one_redirection, apply_opening, apply_heredoc, apply_dup, Opening
  <2>2. PICK rc, t, files : b = Result(rc, t, files)
    BY <2>1
  <2>3. b = [rc |-> rc, fds |-> t, present |-> files]
    BY <2>2 DEF Result
  <2> HIDE DEF b
  <2>4. b.rc = rc /\ b.fds = t /\ b.present = files
    BY <2>3
  <2>5. rc \in {0, 1} /\ t \in Tables /\ files \in SUBSET Files
    BY <1>2, <2>4 DEF Applies, Writes
  <2> QED
    BY <2>3, <2>5 DEF ApplyStates
<1> HIDE DEF b
<1> QED
  BY <1>2, <1>3 DEF ApplyStep, b

ApplySteps(run, t, here, noclobber, redirs) ==
  /\ run \in [0 .. Len(redirs) -> ApplyStates]
  /\ run[0].rc = 0 /\ run[0].fds = t /\ run[0].present = here
  /\ \A i \in 1 .. Len(redirs) : run[i] = ApplyStep(run[i - 1], noclobber, redirs[i])

(* apply_redirections goes through well typed states, one per redirection. *)
LEMMA ApplyRuns ==
  ASSUME NEW t \in Tables, NEW here \in SUBSET Files, NEW noclobber,
         NEW redirs \in Seq(Redirections)
  PROVE  ApplySteps(ApplyRun(t, here, noclobber, redirs), t, here, noclobber, redirs)
<1> DEFINE n == Len(redirs)
           x == Result(0, t, here)
           X == ApplyStates
           next == [p \in X \X (1 .. n) |-> ApplyStep(p[1], noclobber, redirs[p[2]])]
           R == ApplyRun(t, here, noclobber, redirs)
           Body(run) == ApplyBody(t, here, noclobber, redirs, run)
<1>1. n \in Nat /\ \A i \in 1 .. n : redirs[i] \in Redirections
  OBVIOUS
<1>2. x \in X /\ x.rc = 0 /\ x.fds = t /\ x.present = here
  BY DEF ApplyStates, Result
<1> HIDE DEF n, X
<1>3. next \in [X \X (1 .. n) -> X]
  <2>1. ASSUME NEW p \in X \X (1 .. n)
        PROVE  ApplyStep(p[1], noclobber, redirs[p[2]]) \in X
    <3>1. p[1] \in ApplyStates /\ redirs[p[2]] \in Redirections
      BY <1>1 DEF X
    <3> QED
      BY <3>1, ApplyStepTyped DEF X
  <2> QED
    BY <2>1
<1>4. \A m \in X : \A i \in 1 .. n : next[<<m, i>>] = ApplyStep(m, noclobber, redirs[i])
  OBVIOUS
<1> HIDE DEF next, x
<1>5. PICK run : IsRun(run, X, x, n, next)
  BY <1>1, <1>2, <1>3, RunExists
<1>6. run \in [0 .. n -> X] /\ run[0] = x /\ \A i \in 1 .. n : run[i] = next[<<run[i - 1], i>>]
  BY <1>5 DEF IsRun
<1>7. \A i \in 1 .. n : run[i] = ApplyStep(run[i - 1], noclobber, redirs[i])
  <2>1. \A i \in 1 .. n : i - 1 \in 0 .. n
    BY <1>1
  <2> QED
    BY <1>4, <1>6, <2>1
<1>8. run = Body(run)
  <2>1. DOMAIN Body(run) = 0 .. n
    BY DEF ApplyBody, n
  <2>2. \A i \in 0 .. n : Body(run)[i] = IF i = 0 THEN x ELSE ApplyStep(run[i - 1], noclobber, redirs[i])
    BY DEF ApplyBody, n, x
  <2>3. Body(run) = [i \in 0 .. n |-> Body(run)[i]]
    BY DEF ApplyBody, n
  <2>4. \A i \in 0 .. n : i = 0 \/ i \in 1 .. n
    BY <1>1
  <2>5. \A i \in 0 .. n : run[i] = Body(run)[i]
    BY <1>6, <1>7, <2>2, <2>4
  <2> HIDE DEF Body
  <2> QED
    BY <1>6, <2>1, <2>3, <2>5
<1>9. R = Body(R)
  <2>1. \E s : s = Body(s)
    BY <1>8
  <2>2. (CHOOSE s : s = Body(s)) = Body(CHOOSE s : s = Body(s))
    BY <2>1, Zenon
  <2> QED
    BY <2>2 DEF ApplyRun
<1>10. /\ DOMAIN R = 0 .. n /\ R = [i \in 0 .. n |-> R[i]]
       /\ R[0] = x
       /\ \A i \in 1 .. n : R[i] = ApplyStep(R[i - 1], noclobber, redirs[i])
  <2>1. DOMAIN Body(R) = 0 .. n /\ Body(R) = [i \in 0 .. n |-> Body(R)[i]]
    BY DEF ApplyBody, n
  <2>2. \A i \in 0 .. n : Body(R)[i] = IF i = 0 THEN x ELSE ApplyStep(R[i - 1], noclobber, redirs[i])
    BY DEF ApplyBody, n, x
  <2>3. \A i \in 1 .. n : i \in 0 .. n /\ i # 0
    BY <1>1
  <2>4. 0 \in 0 .. n
    BY <1>1
  <2> HIDE DEF Body, R
  <2> QED
    BY <1>9, <2>1, <2>2, <2>3, <2>4
<1> HIDE DEF R
<1>11. \A i \in 0 .. n : R[i] \in X
  <2> DEFINE bad == {i \in 0 .. n : R[i] \notin X}
  <2>1. ASSUME bad # {} PROVE FALSE
    <3>1. bad \in SUBSET Nat
      BY <1>1
    <3>2. PICK k \in bad : \A j \in bad : k <= j
      BY <2>1, <3>1, LeastOf
    <3>3. k # 0 /\ k \in 1 .. n
      BY <1>1, <1>2, <1>10, <3>2
    <3>4. k - 1 \in 0 .. n /\ ~(k <= k - 1)
      BY <1>1, <3>3
    <3>5. R[k - 1] \in X
      BY <3>2, <3>4
    <3>6. R[k] \in X
      BY <1>1, <1>10, <3>3, <3>5, ApplyStepTyped DEF X
    <3> QED
      BY <3>2, <3>6
  <2> QED
    BY <2>1
<1>12. R \in [0 .. n -> X]
  BY <1>10, <1>11
<1> QED
  BY <1>2, <1>10, <1>12 DEF ApplySteps, R, n, X

(* What the child has in the end.                                          *)
ChildOK(run, n, second, noclobber, t, k, a) ==
  /\ TextOnly(t) => TextOnly(a.fds)
  /\ a.rc = 0 => InRound(run, a.fds, a.present, n, k, second)
  /\ a.rc # 0 /\ FreeFrom(a.fds, 0) # {} /\ ~(second /\ noclobber) => run[n].rc # 0

ChildDone(run, redirs, second, noclobber, t, child) ==
  /\ child.fds \in Tables /\ child.present \in SUBSET Files
  /\ ChildOK(run, Len(redirs), second, noclobber, t, Len(redirs), child)

(* A child that applies a whole list ends up with what the list means.     *)
LEMMA ChildApplies ==
  ASSUME NEW run, NEW v, NEW there, NEW noclobber \in BOOLEAN, NEW redirs \in Seq(Redirections),
         Steps(run, v, there, noclobber, redirs),
         NEW t \in Tables, NEW here \in SUBSET Files, NEW second \in BOOLEAN,
         Going(run, redirs, t, here, 0, second),
         NEW child, child = apply_redirections(t, here, noclobber, redirs)
  PROVE  ChildDone(run, redirs, second, noclobber, t, child)
<1> DEFINE n == Len(redirs)
           a == ApplyRun(t, here, noclobber, redirs)
<1>1. n \in Nat /\ \A i \in 1 .. n : redirs[i] \in Redirections
  OBVIOUS
<1>2. ApplySteps(a, t, here, noclobber, redirs)
  BY ApplyRuns
<1>3. child = a[n]
  BY ApplyIs
<1> HIDE DEF a, n
<1>4. /\ \A i \in 0 .. n : a[i] \in ApplyStates
      /\ a[0].rc = 0 /\ a[0].fds = t /\ a[0].present = here
      /\ \A i \in 1 .. n : a[i] = ApplyStep(a[i - 1], noclobber, redirs[i])
  BY <1>2 DEF ApplySteps, n
<1>5. ChildOK(run, n, second, noclobber, t, 0, a[0])
  BY <1>4 DEF ChildOK, Going, n
<1>6. ASSUME NEW k \in 1 .. n, ChildOK(run, n, second, noclobber, t, k - 1, a[k - 1])
      PROVE  ChildOK(run, n, second, noclobber, t, k, a[k])
  <2> DEFINE b == a[k - 1]
             c == a[k]
             r == redirs[k]
  <2>1. k - 1 \in 0 .. n /\ r \in Redirections /\ b \in ApplyStates /\ c = ApplyStep(b, noclobber, r)
    BY <1>1, <1>4
  <2>2. ChildOK(run, n, second, noclobber, t, k - 1, b)
    BY <1>6
  <2> HIDE DEF b, c
  <2>3. CASE b.rc # 0
    <3>1. c = b
      BY <2>1, <2>3, ApplyStepTyped
    <3> QED
      BY <2>2, <2>3, <3>1 DEF ChildOK, c
  <2>4. CASE b.rc = 0
    <3>1. Applies(b.fds, b.present, noclobber, r, c)
      BY <2>1, <2>4, ApplyStepTyped
    <3>2. b.fds \in Tables /\ b.present \in SUBSET Files
      BY <2>1 DEF ApplyStates
    <3>3. InRound(run, b.fds, b.present, n, k - 1, second)
      BY <2>2, <2>4 DEF ChildOK
    <3>4. /\ c.rc = 0 => InRound(run, c.fds, c.present, n, k, second)
          /\ c.rc # 0 /\ FreeFrom(b.fds, 0) # {} /\ ~(second /\ noclobber) => run[n].rc # 0
      <4> DEFINE u == b.fds
                 files == b.present
      <4>1. /\ Applies(u, files, noclobber, redirs[k], c) /\ u \in Tables /\ files \in SUBSET Files
            /\ Going(run, redirs, u, files, k - 1, second) /\ k \in 1 .. Len(redirs)
        BY <3>1, <3>2, <3>3 DEF n, Going
      <4> HIDE DEF u, files, r
      <4>2. Went(run, redirs, noclobber, u, c, k, second)
        BY <4>1, RoundStep
      <4> QED
        BY <4>2 DEF n, u, Went
    <3>5. /\ c.rc # 0 => c.fds = b.fds
          /\ TextOnly(b.fds) => TextOnly(c.fds)
      BY <3>1 DEF Applies
    <3> QED
      BY <2>2, <3>4, <3>5 DEF ChildOK, c
  <2> QED
    BY <2>3, <2>4
<1>7. \A k \in 0 .. n : ChildOK(run, n, second, noclobber, t, k, a[k])
  <2> DEFINE bad == {k \in 0 .. n : ~ChildOK(run, n, second, noclobber, t, k, a[k])}
  <2>1. ASSUME bad # {} PROVE FALSE
    <3>1. bad \in SUBSET Nat
      BY <1>1
    <3>2. PICK k \in bad : \A j \in bad : k <= j
      BY <2>1, <3>1, LeastOf
    <3>3. k # 0 /\ k \in 1 .. n
      BY <1>1, <1>5, <3>2
    <3>4. k - 1 \in 0 .. n /\ ~(k <= k - 1)
      BY <1>1, <3>3
    <3>5. ChildOK(run, n, second, noclobber, t, k - 1, a[k - 1])
      BY <3>2, <3>4
    <3> QED
      BY <1>6, <3>2, <3>3, <3>5
  <2> QED
    BY <2>1
<1>8. n \in 0 .. n /\ a[n] \in ApplyStates
  BY <1>1, <1>4
<1>9. a[n].fds \in Tables /\ a[n].present \in SUBSET Files
  BY <1>8 DEF ApplyStates
<1> QED
  BY <1>3, <1>7, <1>8, <1>9 DEF ChildDone, n

-----------------------------------------------------------------------------
(* What the redirections of the commands under way have come to.           *)

RunOf(f, noclobber) == MeaningRun(f.before, f.there, noclobber, f.redirs)

(* Those of a command with assignments before it are applied twice.        *)
Twice(f) == f.prefix /\ f.kind \notin Special

(* What comes of them is what they mean.                                   *)
GivenBy(m, f) ==
  /\ m.rc = 0
  /\ \A d \in Visible : \/ f.given[d] = m.view[d]
                        \/ /\ f.kind = "external"
                           /\ f.given[d] = Closed
                           /\ m.view[d].file = Text

FrameMeant(f, noclobber) ==
  /\ f.before \in [Visible -> Behind]
  /\ f.there \in SUBSET Files
  /\ f.prefix \in BOOLEAN
  /\ f.prefix => f.kind \in Prefixable
  /\ f.outcome = "given" => GivenBy(RunOf(f, noclobber)[Len(f.redirs)], f)
  /\ f.outcome = "refused" /\ ~(f.prefix /\ noclobber)
       => RunOf(f, noclobber)[Len(f.redirs)].rc # 0
  /\ InSubshell(f) => TextOnly(f.parent.fds)

(* Before they are applied, for the first and for the second time; and     *)
(* while they are.                                                         *)
Between == {"values", "unprefix", "assign", "spawn"}

ToBegin(f, here) ==
  /\ f.phase \in {"operands"} \cup Between => f.next = 1
  /\ f.phase = "operands" \/ (f.phase \in Between /\ ~Twice(f)) => here = f.there

OnceOver(f, run, here) ==
  f.phase \in Between /\ Twice(f)
    => run[Len(f.redirs)].rc = 0 /\ here = run[Len(f.redirs)].present

UnderWay(f, run, t, here) ==
  /\ f.phase = "prefix" =>
       Twice(f) /\ InRound(run, t, here, Len(f.redirs), f.next - 1, FALSE)
  /\ f.phase = "apply" => InRound(run, t, here, Len(f.redirs), f.next - 1, Twice(f))

TopMeant(f, noclobber, t, here) ==
  /\ ToBegin(f, here)
  /\ OnceOver(f, RunOf(f, noclobber), here)
  /\ UnderWay(f, RunOf(f, noclobber), t, here)

AllMeant(fs, noclobber, t, here) ==
  /\ \A i \in 1 .. Len(fs) : FrameMeant(fs[i], noclobber)
  /\ fs # <<>> => TopMeant(fs[Len(fs)], noclobber, t, here)
  /\ here \in SUBSET Files
  /\ TextOnly(t)

MeantInv ==
  /\ session.noclobber \in BOOLEAN
  /\ AllMeant(frames, session.noclobber, fds, present)

(* What is claimed of the innermost command, all of it.                    *)
LEMMA MeantTop ==
  ASSUME RedirectionsInv, MeantInv, frames # <<>>
  PROVE  LET nc == session.noclobber
         IN  /\ FrameOK(Top) /\ FrameMeant(Top, nc) /\ TopMeant(Top, nc, fds, present)
             /\ Top = frames[Len(frames)]
             /\ fds \in Tables /\ present \in SUBSET Files /\ TextOnly(fds) /\ nc \in BOOLEAN
             /\ Steps(RunOf(Top, nc), Top.before, Top.there, nc, Top.redirs)
<1>1. FrameOK(Top) /\ Len(frames) \in 1 .. Len(frames) /\ Top = frames[Len(frames)]
  BY TopIs DEF Top
<1>2. /\ FrameMeant(Top, session.noclobber) /\ TopMeant(Top, session.noclobber, fds, present)
      /\ present \in SUBSET Files /\ TextOnly(fds) /\ session.noclobber \in BOOLEAN
  BY <1>1 DEF MeantInv, AllMeant
<1>3. fds \in Tables
  BY DEF RedirectionsInv, Keeps, DescriptorsOf, Held
<1>4. Steps(RunOf(Top, session.noclobber), Top.before, Top.there, session.noclobber, Top.redirs)
  BY <1>1, <1>2, MeaningRuns DEF FrameMeant, FrameOK, RunOf
<1> QED
  BY <1>1, <1>2, <1>3, <1>4

(* Where nothing is saved or given away yet, the command sees what it saw  *)
(* at its beginning.                                                       *)
LEMMA SeesAllBefore ==
  ASSUME RedirectionsInv, MeantInv, frames # <<>>,
         Top.phase \in {"operands", "assign", "spawn"}
  PROVE  View(fds) = Top.before
<1>1. /\ FrameOK(Top) /\ SeesBefore(Top, View(fds)) /\ fds \in Tables
      /\ Top.before \in [Visible -> Behind]
  BY TopIs, MeantTop DEF FrameMeant
<1>2. Top.backups = <<>> /\ Top.stays = {} /\ ~Persists(Top)
  BY <1>1 DEF FrameOK, Persists
<1>3. Untouched(Top) = Visible
  BY <1>2 DEF Untouched, GivenAway, SavedFor
<1>4. \A d \in Visible : View(fds)[d] = Top.before[d]
  BY <1>1, <1>3 DEF SeesBefore
<1>5. View(fds) \in [Visible -> Behind]
  BY <1>1, ViewIs
<1> DEFINE v == View(fds)
           w == Top.before
<1> HIDE DEF v, w
<1>6. v \in [Visible -> Behind] /\ w \in [Visible -> Behind] /\ \A d \in Visible : v[d] = w[d]
  BY <1>1, <1>4, <1>5 DEF v, w
<1>7. v = w
  BY <1>6
<1> QED
  BY <1>7 DEF v, w

(* The innermost command changes; the claims about the others stay.        *)
LEMMA TopChanges ==
  ASSUME NEW fs, NEW gs, NEW g, NEW nc, NEW t, NEW u, NEW here, NEW more \in SUBSET Files,
         AllMeant(fs, nc, t, here), Becomes(fs, gs, g),
         FrameMeant(g, nc), TopMeant(g, nc, u, more), TextOnly(u)
  PROVE  AllMeant(gs, nc, u, more)
<1>1. /\ Len(gs) = Len(fs) /\ gs[Len(gs)] = g
      /\ \A i \in 1 .. Len(fs) - 1 : gs[i] = fs[i]
      /\ Len(fs) \in Nat \ {0}
  BY DEF Becomes
<1>2. \A i \in 1 .. Len(gs) : i \in 1 .. Len(fs) - 1 \/ i = Len(gs)
  BY <1>1
<1>3. \A i \in 1 .. Len(fs) - 1 : FrameMeant(fs[i], nc)
  BY <1>1 DEF AllMeant
<1>4. \A i \in 1 .. Len(gs) : FrameMeant(gs[i], nc)
  BY <1>1, <1>2, <1>3
<1> QED
  BY <1>1, <1>4 DEF AllMeant

(* The invariant is kept when the running command changes and is still     *)
(* where the meaning says.                                                 *)
LEMMA BecomeMeant ==
  ASSUME RedirectionsInv, MeantInv, frames # <<>>, NEW g, Become(g), session' = session,
         FrameMeant(g, session.noclobber),
         TopMeant(g, session.noclobber, fds', present'),
         TextOnly(fds'), present' \in SUBSET Files
  PROVE  MeantInv'
<1>1. Becomes(frames, frames', g)
  BY BecomeChanges DEF RedirectionsInv, Keeps, Become
<1>2. AllMeant(frames, session.noclobber, fds, present) /\ session.noclobber \in BOOLEAN
  BY DEF MeantInv
<1> DEFINE fs == frames
           gs == frames'
           nc == session.noclobber
           t == fds
           u == fds'
           here == present
           more == present'
<1>3. /\ AllMeant(fs, nc, t, here) /\ Becomes(fs, gs, g) /\ more \in SUBSET Files
      /\ FrameMeant(g, nc) /\ TopMeant(g, nc, u, more) /\ TextOnly(u)
  BY <1>1, <1>2
<1> HIDE DEF fs, gs, nc, t, u, here, more
<1>4. AllMeant(gs, nc, u, more)
  BY <1>3, TopChanges
<1> QED
  BY <1>2, <1>4 DEF gs, nc, u, more, MeantInv

(* Steps that leave alone what is claimed of a command.                    *)
AsClaimed(f, g) ==
  /\ g.before = f.before /\ g.there = f.there /\ g.prefix = f.prefix /\ g.kind = f.kind
  /\ g.redirs = f.redirs /\ g.outcome = f.outcome /\ g.given = f.given
  /\ InSubshell(g) => InSubshell(f) /\ g.parent = f.parent

(* What is claimed of a command depends on its redirections and its kind.  *)
LEMMA ClaimsStay ==
  ASSUME NEW f, NEW g, NEW nc, FrameMeant(f, nc), AsClaimed(f, g)
  PROVE  FrameMeant(g, nc) /\ RunOf(g, nc) = RunOf(f, nc) /\ (Twice(g) <=> Twice(f))
<1>1. RunOf(g, nc) = RunOf(f, nc)
  BY DEF AsClaimed, RunOf
<1>2. \A m : GivenBy(m, g) <=> GivenBy(m, f)
  BY DEF AsClaimed, GivenBy
<1> QED
  BY <1>1, <1>2 DEF AsClaimed, FrameMeant, Twice

(* Nothing is claimed of the redirections of a command that is past them.  *)
Past == {"body", "called", "restore", "done"}

(* Nothing is claimed of the descriptors once the command restores them.   *)
LEMMA PastIsMeant ==
  ASSUME NEW g, NEW nc, NEW t, NEW here, g.phase \in Past
  PROVE  TopMeant(g, nc, t, here)
BY DEF Past, TopMeant, ToBegin, OnceOver, UnderWay, Between

-----------------------------------------------------------------------------
(* Every action keeps what is claimed.                                     *)

(* A command goes on, with nothing changed but where it is.                *)
LEMMA GoMeant ==
  ASSUME RedirectionsInv, MeantInv, frames # <<>>, NEW phase, Go(phase), phase # "body",
         UNCHANGED <<session, fds, present>>,
         \A g : /\ AsClaimed(Top, g) /\ g.phase = phase /\ g.next = Top.next
                => TopMeant(g, session.noclobber, fds, present)
  PROVE  MeantInv'
<1> DEFINE g == [Top EXCEPT !.phase = phase]
<1>1. FrameOK(Top) /\ FrameMeant(Top, session.noclobber)
      /\ TextOnly(fds) /\ present \in SUBSET Files
  BY MeantTop
<1>2. AsClaimed(Top, g) /\ g.phase = phase /\ g.next = Top.next
  BY <1>1 DEF FrameOK, FrameFields, AsClaimed, InSubshell
<1>3. Become(g) /\ session' = session /\ fds' = fds /\ present' = present
  BY DEF Go
<1> HIDE DEF g
<1>4. FrameMeant(g, session.noclobber) /\ TopMeant(g, session.noclobber, fds, present)
  BY <1>1, <1>2, ClaimsStay
<1> QED
  BY <1>1, <1>3, <1>4, BecomeMeant

(* Going on to the restoration keeps the invariant.                        *)
LEMMA GoPastMeant ==
  ASSUME RedirectionsInv, MeantInv, frames # <<>>, NEW phase \in {"restore", "done"}, Go(phase),
         UNCHANGED <<session, fds, present>>
  PROVE  MeantInv'
<1>1. phase \in Past /\ phase # "body"
  BY DEF Past
<1>2. \A g : g.phase = phase => TopMeant(g, session.noclobber, fds, present)
  BY <1>1, PastIsMeant
<1> QED
  BY <1>1, <1>2, GoMeant

(* Between the two times that the redirections are applied, and before the *)
(* only one.                                                               *)
LEMMA GoBetweenMeant ==
  ASSUME RedirectionsInv, MeantInv, frames # <<>>, NEW phase \in Between, Go(phase),
         UNCHANGED <<session, fds, present>>,
         Top.phase \in Between \/ (Top.phase = "operands" /\ ~Twice(Top))
  PROVE  MeantInv'
<1> DEFINE nc == session.noclobber
           f == Top
<1>1. FrameMeant(f, nc) /\ TopMeant(f, nc, fds, present)
  BY MeantTop
<1>2. phase # "body"
  BY DEF Between
<1> HIDE DEF f, nc
<1>3. ASSUME NEW g, AsClaimed(f, g), g.phase = phase, g.next = f.next
      PROVE  TopMeant(g, nc, fds, present)
  <2>1. RunOf(g, nc) = RunOf(f, nc) /\ (Twice(g) <=> Twice(f))
    BY <1>1, <1>3, ClaimsStay
  <2>2. ToBegin(f, present) /\ OnceOver(f, RunOf(f, nc), present)
    BY <1>1 DEF TopMeant
  <2>3. /\ g.there = f.there /\ g.redirs = f.redirs /\ g.next = f.next /\ g.phase \in Between
        /\ f.phase \in Between \/ (f.phase = "operands" /\ ~Twice(f))
    BY <1>3 DEF AsClaimed, f
  <2>4. ToBegin(g, present)
    BY <2>1, <2>2, <2>3 DEF ToBegin, Between
  <2>5. OnceOver(g, RunOf(g, nc), present)
    BY <2>1, <2>2, <2>3 DEF OnceOver
  <2>6. UnderWay(g, RunOf(g, nc), fds, present)
    BY <1>3 DEF UnderWay, Between
  <2> QED
    BY <2>4, <2>5, <2>6 DEF TopMeant
<1> QED
  BY <1>2, <1>3, GoMeant DEF f, nc

(* The redirections begin to be applied.                                   *)
LEMMA GoApplyMeant ==
  ASSUME RedirectionsInv, MeantInv, frames # <<>>, NEW phase \in {"prefix", "apply"}, Go(phase),
         UNCHANGED <<session, fds, present>>,
         \/ Top.phase = "operands" /\ phase = "prefix" /\ Twice(Top)
         \/ Top.phase = "operands" /\ phase = "apply" /\ ~Twice(Top)
         \/ Top.phase = "assign" /\ phase = "apply"
  PROVE  MeantInv'
<1> DEFINE nc == session.noclobber
           f == Top
           run == RunOf(f, nc)
           n == Len(f.redirs)
<1>1. FrameMeant(f, nc) /\ TopMeant(f, nc, fds, present)
      /\ Steps(run, f.before, f.there, nc, f.redirs) /\ View(fds) = f.before
  BY MeantTop, SeesAllBefore
<1>2. f.next = 1 /\ run[0].rc = 0 /\ run[0].view = View(fds) /\ run[0].present = f.there
  BY <1>1 DEF Steps, TopMeant, ToBegin, Between
<1>3. /\ ~(Top.phase = "assign" /\ Twice(f)) => present = f.there
      /\ Top.phase = "assign" /\ Twice(f) => run[n].rc = 0 /\ present = run[n].present
  BY <1>1 DEF TopMeant, ToBegin, OnceOver, Between
<1> HIDE DEF run, n
<1>4. InRound(run, fds, present, n, 0, phase = "apply" /\ Twice(f))
  BY <1>2, <1>3 DEF InRound, f
<1> HIDE DEF f, nc
<1>5. ASSUME NEW g, AsClaimed(f, g), g.phase = phase, g.next = f.next
      PROVE  TopMeant(g, nc, fds, present)
  <2>1. RunOf(g, nc) = run /\ (Twice(g) <=> Twice(f)) /\ Len(g.redirs) = n /\ g.next - 1 = 0
    BY <1>1, <1>2, <1>5, ClaimsStay DEF run, n, AsClaimed
  <2>2. ToBegin(g, present) /\ OnceOver(g, run, present)
    BY <1>5 DEF ToBegin, OnceOver, Between
  <2>3. UnderWay(g, run, fds, present)
    <3>1. CASE phase = "prefix"
      <4>1. InRound(run, fds, present, n, 0, FALSE) /\ Twice(g)
        BY <1>4, <2>1, <3>1 DEF f
      <4> QED
        BY <1>5, <2>1, <3>1, <4>1 DEF UnderWay
    <3>2. CASE phase = "apply"
      <4>1. CASE Twice(f)
        <5>1. InRound(run, fds, present, n, 0, TRUE)
          BY <1>4, <3>2, <4>1
        <5> QED
          BY <1>5, <2>1, <3>2, <4>1, <5>1 DEF UnderWay, InRound
      <4>2. CASE ~Twice(f)
        <5>1. InRound(run, fds, present, n, 0, FALSE)
          BY <1>4, <3>2, <4>2
        <5> QED
          BY <1>5, <2>1, <3>2, <4>2, <5>1 DEF UnderWay, InRound
      <4> QED
        BY <4>1, <4>2
    <3> QED
      BY <3>1, <3>2
  <2> QED
    BY <2>1, <2>2, <2>3 DEF TopMeant
<1>6. phase # "body"
  OBVIOUS
<1> QED
  BY <1>5, <1>6, GoMeant DEF f, nc

(* The actions that only change the phase keep the invariant.              *)
LEMMA GoesMean ==
  ASSUME RedirectionsInv, MeantInv,
         \/ OperandsExpand \/ OperandsFail \/ ValuesExpand \/ ValuesFail \/ Assign
         \/ AssignFails \/ SpawnFails \/ AllRestored
  PROVE  MeantInv'
<1>1. frames # <<>> /\ UNCHANGED <<session, fds, present>>
  BY DEF OperandsExpand, OperandsFail, ValuesExpand, ValuesFail, Assign, AssignFails, SpawnFails,
         AllRestored, At
<1>2. CASE OperandsFail \/ ValuesFail \/ AssignFails \/ SpawnFails
  BY <1>1, <1>2, GoPastMeant DEF OperandsFail, ValuesFail, AssignFails, SpawnFails
<1>3. CASE ValuesExpand
  BY <1>1, <1>3, GoBetweenMeant DEF ValuesExpand, At, Between
<1>4. CASE AllRestored
  <2>1. CASE Top.phase = "restore"
    BY <1>1, <1>4, <2>1, GoPastMeant DEF AllRestored
  <2>2. CASE Top.phase = "unprefix"
    BY <1>1, <1>4, <2>2, GoBetweenMeant DEF AllRestored, Between
  <2> QED
    BY <1>4, <2>1, <2>2 DEF AllRestored, At
<1>5. CASE Assign
  <2>1. CASE Top.kind = "external"
    BY <1>1, <1>5, <2>1, GoBetweenMeant DEF Assign, At, Between
  <2>2. CASE Top.kind # "external"
    BY <1>1, <1>5, <2>2, GoApplyMeant DEF Assign, At
  <2> QED
    BY <2>1, <2>2
<1>6. CASE OperandsExpand
  <2>1. Top.phase = "operands" /\ Go(AfterOperands(Top))
    BY <1>6 DEF OperandsExpand, At
  <2>2. Top.prefix \in BOOLEAN /\ (Top.prefix => Top.kind \in Prefixable)
    BY <1>1, MeantTop DEF FrameMeant
  <2>3. \/ AfterOperands(Top) \in {"values", "spawn"} /\ ~Twice(Top)
        \/ AfterOperands(Top) = "prefix" /\ Twice(Top)
        \/ AfterOperands(Top) = "apply" /\ ~Twice(Top)
    <3>1. CASE Top.kind = "assignment"
      BY <2>2, <3>1 DEF AfterOperands, Twice, Prefixable, Special
    <3>2. CASE Top.kind # "assignment" /\ Top.prefix /\ Top.kind \in Special
      BY <3>2 DEF AfterOperands, Twice
    <3>3. CASE Top.kind # "assignment" /\ Top.prefix /\ Top.kind \notin Special
      BY <3>3 DEF AfterOperands, Twice
    <3>4. CASE Top.kind # "assignment" /\ ~Top.prefix
      BY <3>4 DEF AfterOperands, Twice
    <3> QED
      BY <2>2, <3>1, <3>2, <3>3, <3>4
  <2>4. CASE AfterOperands(Top) \in {"values", "spawn"} /\ ~Twice(Top)
    BY <1>1, <2>1, <2>4, GoBetweenMeant DEF Between
  <2>5. CASE AfterOperands(Top) = "prefix" /\ Twice(Top)
    BY <1>1, <2>1, <2>5, GoApplyMeant
  <2>6. CASE AfterOperands(Top) = "apply" /\ ~Twice(Top)
    BY <1>1, <2>1, <2>6, GoApplyMeant
  <2> QED
    BY <2>3, <2>4, <2>5, <2>6
<1> QED
  BY <1>2, <1>3, <1>4, <1>5, <1>6

(* All are in force, for the expansion of the values.                      *)
LEMMA PrefixAppliedMeant ==
  ASSUME RedirectionsInv, MeantInv, PrefixApplied
  PROVE  MeantInv'
<1> DEFINE nc == session.noclobber
           f == Top
           g == [f EXCEPT !.phase = "values", !.next = 1]
           run == RunOf(f, nc)
           n == Len(f.redirs)
<1>1. /\ frames # <<>> /\ f.phase = "prefix" /\ f.next > n /\ Become(g)
      /\ UNCHANGED <<session, fds, present>>
  BY DEF PrefixApplied, At
<1>2. FrameOK(f) /\ FrameMeant(f, nc) /\ TopMeant(f, nc, fds, present)
      /\ TextOnly(fds) /\ present \in SUBSET Files
  BY <1>1, MeantTop
<1>3. AsClaimed(f, g) /\ g.phase = "values" /\ g.next = 1
  BY <1>1, <1>2 DEF FrameOK, FrameFields, AsClaimed, InSubshell
<1>4. f.next - 1 = n
  <2>1. n \in Nat /\ f.next \in 1 .. n + 1
    BY <1>2 DEF FrameOK
  <2> HIDE DEF n
  <2> QED
    BY <1>1, <2>1
<1>5. Twice(f) /\ InRound(run, fds, present, n, n, FALSE)
  BY <1>1, <1>2, <1>4 DEF TopMeant, UnderWay
<1> HIDE DEF f, g, run, n, nc
<1>6. /\ FrameMeant(g, nc) /\ RunOf(g, nc) = run /\ Twice(g) /\ Len(g.redirs) = n
  BY <1>2, <1>3, <1>5, ClaimsStay DEF run, n, AsClaimed
<1>7. run[n].rc = 0 /\ present = run[n].present
  BY <1>5 DEF InRound
<1>8. TopMeant(g, nc, fds, present)
  BY <1>3, <1>6, <1>7 DEF TopMeant, ToBegin, OnceOver, UnderWay
<1> QED
  BY <1>1, <1>2, <1>6, <1>8, BecomeMeant DEF nc

(* The command is given its descriptors.                                   *)
LEMMA AllAppliedMeant ==
  ASSUME RedirectionsInv, MeantInv, AllApplied
  PROVE  MeantInv'
<1> DEFINE nc == session.noclobber
           f == Top
           next == CASE f.kind \in Persistent -> "done"
                     [] f.kind \in Bodiless \ Persistent -> "restore"
                     [] OTHER -> "body"
           mine == IF f.kind = "subshell" THEN [fds |-> fds, leaked |-> leaked] ELSE Here
           g == [f EXCEPT !.phase = next, !.outcome = "given", !.given = View(fds),
                          !.stays = IF f.kind \in Persistent THEN @ \cup Targets(f.redirs) ELSE @,
                          !.parent = mine]
           run == RunOf(f, nc)
           n == Len(f.redirs)
<1>1. /\ frames # <<>> /\ f.phase = "apply" /\ f.next > n
      /\ UNCHANGED <<session, fds, present>>
  BY DEF AllApplied, At
<1>2. FrameOK(f) /\ FrameMeant(f, nc) /\ TopMeant(f, nc, fds, present)
      /\ TextOnly(fds) /\ present \in SUBSET Files
  BY <1>1, MeantTop
<1>3. Become(g)
  BY DEF AllApplied
<1>4. /\ g.before = f.before /\ g.there = f.there /\ g.prefix = f.prefix /\ g.kind = f.kind
      /\ g.redirs = f.redirs /\ g.outcome = "given" /\ g.given = View(fds)
      /\ g.phase = next /\ g.parent = mine
  BY <1>2 DEF FrameOK, FrameFields
<1>5. f.next - 1 = n
  <2>1. n \in Nat /\ f.next \in 1 .. n + 1
    BY <1>2 DEF FrameOK
  <2> HIDE DEF n
  <2> QED
    BY <1>1, <2>1
<1>6. run[n].rc = 0 /\ View(fds) = run[n].view
  BY <1>1, <1>2, <1>5 DEF TopMeant, UnderWay, InRound
<1>7. next \in Past
  BY DEF Past
<1>8. f.kind = "subshell" => mine.fds = fds
  OBVIOUS
<1> HIDE DEF f, g, run, n, nc, next, mine
<1>9. RunOf(g, nc) = run /\ Len(g.redirs) = n
  BY <1>4 DEF run, n, RunOf
<1>10. GivenBy(run[n], g)
  BY <1>4, <1>6 DEF GivenBy
<1>11. FrameMeant(g, nc)
  BY <1>2, <1>4, <1>8, <1>9, <1>10 DEF FrameMeant, InSubshell
<1>12. TopMeant(g, nc, fds, present)
  BY <1>4, <1>7, PastIsMeant
<1> QED
  BY <1>1, <1>2, <1>3, <1>11, <1>12, BecomeMeant DEF nc

(* The body is over.                                                       *)
LEMMA EndsMean ==
  ASSUME RedirectionsInv, MeantInv, EndBody \/ Exit
  PROVE  MeantInv'
<1> DEFINE nc == session.noclobber
           f == Top
           g == [f EXCEPT !.phase = "restore", !.stays = @ \ SavedFor(f.backups)]
<1>1. /\ frames # <<>> /\ Become(g) /\ UNCHANGED <<session, fds, present>>
  BY DEF EndBody, Exit, At
<1>2. FrameOK(f) /\ FrameMeant(f, nc) /\ TextOnly(fds) /\ present \in SUBSET Files
  BY <1>1, MeantTop
<1>3. AsClaimed(f, g) /\ g.phase \in Past
  BY <1>2 DEF FrameOK, FrameFields, AsClaimed, InSubshell, Past
<1> HIDE DEF f, g, nc
<1>4. FrameMeant(g, nc) /\ TopMeant(g, nc, fds, present)
  BY <1>2, <1>3, ClaimsStay, PastIsMeant
<1> QED
  BY <1>1, <1>2, <1>4, BecomeMeant DEF nc

(* The parent of a subshell goes on with its own table.                    *)
LEMMA EndSubshellMeant ==
  ASSUME RedirectionsInv, MeantInv, EndSubshell
  PROVE  MeantInv'
<1> DEFINE nc == session.noclobber
           f == Top
           u == f.parent.fds
           g == [f EXCEPT !.phase = "restore", !.stays = {}, !.parent = Here]
<1>1. /\ frames # <<>> /\ Become(g) /\ UNCHANGED <<session, present>> /\ fds' = u
      /\ InSubshell(f)
  BY DEF EndSubshell, At, InSubshell
<1>2. FrameOK(f) /\ FrameMeant(f, nc) /\ present \in SUBSET Files
  BY <1>1, MeantTop
<1>3. AsClaimed(f, g) /\ g.phase \in Past
  BY <1>2 DEF FrameOK, FrameFields, AsClaimed, InSubshell, Past
<1>4. TextOnly(u)
  BY <1>1, <1>2 DEF FrameMeant
<1> HIDE DEF f, g, nc, u
<1>5. FrameMeant(g, nc) /\ TopMeant(g, nc, u, present)
  BY <1>2, <1>3, ClaimsStay, PastIsMeant
<1> QED
  BY <1>1, <1>2, <1>4, <1>5, BecomeMeant DEF nc

(* One descriptor is restored: a copy is one that exec leaves open.        *)
LEMMA UndoText ==
  ASSUME NEW t \in Tables, NEW b \in Backups, TextOnly(t),
         b.was_open => b.saved_fd \in Fds \ Visible
  PROVE  TextOnly(fd_backup_undo(t, b))
<1> DEFINE u == fd_backup_undo(t, b)
<1>1. b.fd \in Visible /\ b.fd \in Fds
  BY VisibleFds DEF Backups
<1>2. ASSUME ~b.was_open PROVE TextOnly(u)
  <2>1. u = [t EXCEPT ![b.fd] = Closed]
    BY <1>2 DEF fd_backup_undo
  <2>2. \A d \in Visible : u[d] = t[d] \/ u[d] = Closed
    BY <1>1, <2>1, VisibleFds, Typed
  <2>3. Closed.cloexec = FALSE
    BY DEF Closed, Open
  <2> HIDE DEF u
  <2> QED
    BY <2>2, <2>3 DEF TextOnly
<1>3. ASSUME b.was_open PROVE TextOnly(u)
  <2> DEFINE w == Dup2(t, b.saved_fd, b.fd)
             c == t[b.saved_fd]
  <2>1. /\ b.saved_fd \in Fds \ Visible /\ b.saved_fd # b.fd
    BY <1>1, <1>3
  <2>2. w \in Tables /\ w[b.fd] = Copy(c) /\ \A d \in Fds : d # b.fd => w[d] = t[d]
    BY <1>1, <2>1, Dup2Writes
  <2>3. Copy(c).cloexec = FALSE
    BY <2>1, Typed, CopyFields
  <2>4. u = [w EXCEPT ![b.saved_fd] = Closed]
    BY <1>3 DEF fd_backup_undo
  <2> HIDE DEF w, c
  <2>5. \A d \in Visible : u[d] = w[d]
    BY <2>1, <2>2, <2>4, VisibleFds, Typed
  <2>6. \A d \in Visible : d \in Fds
    BY VisibleFds
  <2> HIDE DEF u
  <2> QED
    BY <2>2, <2>3, <2>5, <2>6 DEF TextOnly
<1> QED
  BY <1>2, <1>3

(* Restoring keeps it: nothing is claimed any more.                        *)
LEMMA RestoreNextMeant ==
  ASSUME RedirectionsInv, MeantInv, RestoreNext
  PROVE  MeantInv'
<1> DEFINE nc == session.noclobber
           f == Top
           last == Len(f.backups)
           b == f.backups[last]
           u == fd_backup_undo(fds, b)
           g == [f EXCEPT !.backups = SubSeq(@, 1, last - 1)]
<1>1. /\ frames # <<>> /\ f.phase \in {"restore", "unprefix"} /\ f.backups # <<>>
      /\ Become(g) /\ UNCHANGED <<session, present>> /\ fds' = u
  BY DEF RestoreNext, At
<1>2. /\ FrameOK(f) /\ FrameMeant(f, nc) /\ TopMeant(f, nc, fds, present)
      /\ TextOnly(fds) /\ present \in SUBSET Files /\ fds \in Tables
  BY <1>1, MeantTop
<1>3. AsClaimed(f, g) /\ g.phase = f.phase /\ g.next = f.next
  BY <1>1, <1>2 DEF FrameOK, FrameFields, AsClaimed, InSubshell
<1>4. b \in Backups /\ last \in 1 .. Len(f.backups) /\ f.backups \in Seq(Backups)
  BY <1>1, <1>2 DEF FrameOK
<1>5. b.was_open => b.saved_fd \in Fds \ Visible
  <2>1. Held(frames, fds, leaked, Len(frames)) /\ Len(frames) \in 1 .. Len(frames)
        /\ f = frames[Len(frames)]
    BY <1>1, TopIs DEF RedirectionsInv, Keeps, DescriptorsOf, Top
  <2>2. Holds(fds, leaked, f, b)
    BY <1>4, <2>1 DEF Held
  <2> QED
    BY <2>2 DEF Holds
<1>6. TextOnly(u)
  BY <1>2, <1>4, <1>5, UndoText
<1> HIDE DEF f, g, nc, u
<1>7. FrameMeant(g, nc) /\ RunOf(g, nc) = RunOf(f, nc) /\ (Twice(g) <=> Twice(f))
  BY <1>2, <1>3, ClaimsStay
<1>8. ToBegin(g, present) /\ OnceOver(g, RunOf(g, nc), present)
  BY <1>2, <1>3, <1>7 DEF ToBegin, OnceOver, AsClaimed, TopMeant
<1>9. TopMeant(g, nc, u, present)
  BY <1>1, <1>3, <1>8 DEF TopMeant, UnderWay
<1> QED
  BY <1>1, <1>2, <1>6, <1>7, <1>9, BecomeMeant DEF nc

(* Saving a descriptor changes nothing that programs see.                  *)
LEMMA SavedIsUnseen ==
  ASSUME RedirectionsInv, frames # <<>>, Top.next <= Len(Top.redirs), FrameOK(Top), fds \in Tables
  PROVE  /\ Saved.fds \in Tables /\ View(Saved.fds) = View(fds)
         /\ TextOnly(fds) => TextOnly(Saved.fds)
<1> DEFINE f == Top
           r == f.redirs[f.next]
           s == fd_backup_save(fds, f.backups, r.target)
<1>1. r.target \in Visible /\ f.backups \in Seq(Backups)
  BY NextRedirection, RedirectionKinds DEF FrameOK
<1>2. SavesNothing(fds, f.backups, r.target, s) \/ \E b : SavesOne(fds, f.backups, r.target, s, b)
  BY <1>1, SaveEffect
<1> DEFINE Alike(u) == u \in Tables /\ \A d \in Visible : u[d] = fds[d]
<1>3. Alike(s.fds)
  <2> HIDE DEF s, f, r
  <2>1. CASE SavesNothing(fds, f.backups, r.target, s)
    BY <2>1 DEF SavesNothing
  <2>2. ASSUME NEW b, SavesOne(fds, f.backups, r.target, s, b)
        PROVE  Alike(s.fds)
    <3>1. CASE s.fds = fds
      BY <3>1
    <3>2. CASE b.saved_fd \in Fds \ Visible /\ s.fds = [fds EXCEPT ![b.saved_fd] = Copy(fds[r.target])]
      <4>1. fds[r.target] \in Behind
        BY <1>1, Typed, VisibleFds
      <4>2. Copy(fds[r.target]) \in Behind
        BY <4>1, Copies
      <4>3. s.fds \in Tables
        BY <3>2, <4>2, Typed
      <4>4. \A d \in Visible : s.fds[d] = fds[d]
        BY <3>2, VisibleFds, Typed
      <4> QED
        BY <4>3, <4>4
    <3> QED
      BY <2>2, <3>1, <3>2 DEF SavesOne
  <2> QED
    BY <1>2, <2>1, <2>2
<1>4. Saved.fds = fds \/ Saved.fds = s.fds
  BY DEF Saved
<1> DEFINE u == Saved.fds
<1>5. Alike(u)
  <2> HIDE DEF u
  <2> QED
    BY <1>3, <1>4 DEF u
<1> HIDE DEF u, s, f, r
<1>6. View(u) = View(fds)
  BY <1>5 DEF View
<1>7. TextOnly(fds) => TextOnly(u)
  BY <1>5 DEF TextOnly
<1> QED
  BY <1>5, <1>6, <1>7 DEF u

(* The next redirection is applied as it is meant, or fails as it should.  *)
Again(f) == f.phase = "apply" /\ Twice(f)

(* Saving a descriptor and applying the next redirection is a step of the  *)
(* meaning, and one that fails fails in the meaning too.                   *)
LEMMA AppliedWell ==
  ASSUME RedirectionsInv, MeantInv, frames # <<>>, Top.phase \in {"prefix", "apply"},
         Top.next <= Len(Top.redirs)
  PROVE  LET nc == session.noclobber
             run == RunOf(Top, nc)
         IN  /\ Saved.fds \in Tables /\ TextOnly(Saved.fds)
             /\ Applies(Saved.fds, present, nc, Top.redirs[Top.next], Applied)
             /\ Went(run, Top.redirs, nc, Saved.fds, Applied, Top.next, Again(Top))
             /\ Fails /\ Reason = "refused" /\ ~(Top.prefix /\ nc) => run[Len(Top.redirs)].rc # 0
<1> DEFINE nc == session.noclobber
           f == Top
           run == RunOf(f, nc)
           redirs == f.redirs
           k == f.next
           t == Saved.fds
           v == f.before
           there == f.there
           second == Again(f)
           res == Applied
           here == present
<1>1. /\ FrameOK(f) /\ FrameMeant(f, nc) /\ TopMeant(f, nc, fds, present)
      /\ fds \in Tables /\ here \in SUBSET Files /\ TextOnly(fds) /\ nc \in BOOLEAN
      /\ Steps(run, v, there, nc, redirs)
  BY MeantTop
<1>2. /\ t \in Tables /\ View(t) = View(fds) /\ TextOnly(t)
  BY <1>1, SavedIsUnseen
<1>3. /\ redirs \in Seq(Redirections) /\ k \in 1 .. Len(redirs) /\ redirs[k] \in Redirections
      /\ second \in BOOLEAN
  <2>1. redirs \in Seq(Redirections) /\ k \in 1 .. Len(redirs) + 1 /\ Len(redirs) \in Nat
    BY <1>1 DEF FrameOK
  <2>2. k <= Len(redirs) /\ redirs[k] \in Redirections
    BY <1>1, NextRedirection
  <2>3. second \in BOOLEAN
    BY DEF Again, Twice
  <2> HIDE DEF redirs, k, second
  <2> QED
    BY <2>1, <2>2, <2>3
<1>4. res = apply_one_redirection(t, here, nc, redirs[k])
  BY DEF Applied
<1>5. Going(run, redirs, t, here, k - 1, second)
  <2>1. InRound(run, fds, here, Len(redirs), k - 1, second)
    <3>1. CASE f.phase = "prefix"
      <4>1. ~second /\ InRound(run, fds, here, Len(redirs), k - 1, FALSE)
        BY <1>1, <3>1 DEF TopMeant, UnderWay, Again
      <4> HIDE DEF run, redirs, k, second, here, f
      <4> QED
        BY <4>1 DEF InRound
    <3>2. CASE f.phase = "apply"
      <4>1. (second <=> Twice(f)) /\ InRound(run, fds, here, Len(redirs), k - 1, Twice(f))
        BY <1>1, <3>2 DEF TopMeant, UnderWay, Again
      <4> HIDE DEF run, redirs, k, second, here, f
      <4> QED
        BY <4>1 DEF InRound
    <3> QED
      BY <3>1, <3>2
  <2> HIDE DEF t, run, redirs, k, second, here, f
  <2>2. InRound(run, t, here, Len(redirs), k - 1, second)
    BY <1>2, <2>1 DEF InRound
  <2> QED
    BY <2>2 DEF Going
<1>6. /\ Fails <=> Saved.rc # 0 \/ res.rc # 0
      /\ Reason = "refused" => Saved.rc = 0 /\ FreeFrom(t, 0) # {}
      /\ second => f.prefix
  BY DEF Fails, Reason, Again, Twice
<1> HIDE DEF nc, f, run, redirs, k, t, v, there, second, res, here
<1>7. Applies(t, here, nc, redirs[k], res)
  BY <1>1, <1>2, <1>3, <1>4, RedirectionApplies
<1>8. Went(run, redirs, nc, t, res, k, second)
  BY <1>1, <1>2, <1>3, <1>5, <1>7, RoundStep
<1>9. Fails /\ Reason = "refused" /\ ~(f.prefix /\ nc) => run[Len(redirs)].rc # 0
  BY <1>6, <1>8 DEF Went
<1> QED
  BY <1>2, <1>7, <1>8, <1>9 DEF nc, f, run, redirs, k, t, second, res, here

(* Applying the next redirection keeps the invariant.                      *)
LEMMA ApplyNextMeant ==
  ASSUME RedirectionsInv, MeantInv, ApplyNext
  PROVE  MeantInv'
<1> DEFINE nc == session.noclobber
           f == Top
           b == Saved.backups
           r == f.redirs[f.next]
           res == Applied
           t == Saved.fds
           u == res.fds
           more == res.present
           run == RunOf(f, nc)
           g == [f EXCEPT !.backups = b, !.next = f.next + 1]
<1>1. /\ frames # <<>> /\ f.phase \in {"prefix", "apply"} /\ f.next <= Len(f.redirs)
      /\ res.rc = 0 /\ fds' = u /\ present' = more /\ session' = session
  BY DEF ApplyNext, Applying, At, Fails
<1>2. FrameOK(f) /\ FrameMeant(f, nc) /\ TopMeant(f, nc, fds, present)
  BY <1>1, MeantTop
<1>3. Become(g)
  <2>1. [Step EXCEPT !.next = Top.next + 1] = g
    BY <1>2 DEF Step, FrameOK, FrameFields
  <2> QED
    BY <2>1 DEF ApplyNext
<1>4. AsClaimed(f, g) /\ g.phase = f.phase /\ g.next = f.next + 1 /\ g.redirs = f.redirs
  BY <1>1, <1>2 DEF FrameOK, FrameFields, AsClaimed, InSubshell
<1>5. /\ Applies(t, present, nc, r, res) /\ TextOnly(t)
      /\ Went(run, f.redirs, nc, t, res, f.next, Again(f))
  BY <1>1, AppliedWell
<1>6. f.next \in Nat /\ f.next + 1 - 1 = f.next
  BY <1>2 DEF FrameOK
<1> HIDE DEF nc, f, b, r, res, t, run, g
<1>7. TextOnly(u) /\ more \in SUBSET Files /\ InRound(run, u, more, Len(f.redirs), f.next, Again(f))
  BY <1>1, <1>5 DEF Applies, Went
<1> HIDE DEF u, more
<1>8. /\ FrameMeant(g, nc) /\ RunOf(g, nc) = run /\ (Twice(g) <=> Twice(f))
  BY <1>2, <1>4, ClaimsStay DEF run
<1>9. ToBegin(g, more) /\ OnceOver(g, run, more)
  BY <1>1, <1>4 DEF ToBegin, OnceOver, Between
<1>10. UnderWay(g, run, u, more)
  <2>1. g.next - 1 = f.next
    BY <1>4, <1>6
  <2>2. f.phase = "prefix" => Twice(f)
    BY <1>2 DEF TopMeant, UnderWay
  <2> QED
    BY <1>1, <1>4, <1>7, <1>8, <2>1, <2>2 DEF UnderWay, Again, InRound
<1>11. TopMeant(g, nc, u, more)
  BY <1>8, <1>9, <1>10 DEF TopMeant
<1> QED
  BY <1>1, <1>3, <1>7, <1>8, <1>11, BecomeMeant DEF nc

(* One fails: the command is past its redirections.                        *)
Failed(f, g) ==
  /\ g.before = f.before /\ g.there = f.there /\ g.prefix = f.prefix /\ g.kind = f.kind
  /\ g.redirs = f.redirs /\ g.outcome = Reason
  /\ g.phase \in {"restore", "done"}

(* A redirection that fails leaves a command of which nothing more is      *)
(* claimed.                                                                *)
LEMMA FailedIsMeant ==
  ASSUME RedirectionsInv, MeantInv, frames # <<>>, Top.phase \in {"prefix", "apply"},
         Top.next <= Len(Top.redirs), Fails, NEW g, Become(g), Failed(Top, g),
         fds' \in {fds, Saved.fds}, UNCHANGED <<session, present>>
  PROVE  MeantInv'
<1> DEFINE nc == session.noclobber
           f == Top
           n == Len(f.redirs)
           run == RunOf(f, nc)
<1>1. /\ FrameMeant(f, nc) /\ TextOnly(fds) /\ present \in SUBSET Files
      /\ TextOnly(Saved.fds)
      /\ Reason = "refused" /\ ~(f.prefix /\ nc) => run[n].rc # 0
  BY MeantTop, AppliedWell
<1>2. RunOf(g, nc) = run /\ Len(g.redirs) = n
  BY DEF Failed, RunOf
<1>3. Reason # "given"
  BY DEF Reason
<1>4. ~InSubshell(g) /\ g.phase \in Past
  BY DEF Failed, InSubshell, Past
<1> HIDE DEF run, n, nc, f
<1>5. FrameMeant(g, nc)
  BY <1>1, <1>2, <1>3, <1>4 DEF FrameMeant, Failed, f
<1>6. TopMeant(g, nc, fds', present')
  BY <1>4, PastIsMeant
<1>7. TextOnly(fds')
  BY <1>1
<1> QED
  BY <1>1, <1>5, <1>6, <1>7, BecomeMeant DEF nc

(* The three ways to fail keep the invariant.                              *)
LEMMA FailuresMean ==
  ASSUME RedirectionsInv, MeantInv, ApplyFails \/ PersistentFails \/ ApplyAbandoned
  PROVE  MeantInv'
<1> DEFINE f == Top
<1>1. /\ frames # <<>> /\ f.phase \in {"prefix", "apply"} /\ f.next <= Len(f.redirs) /\ Fails
      /\ UNCHANGED <<session, present>> /\ fds' \in {fds, Saved.fds}
  BY DEF ApplyFails, PersistentFails, ApplyAbandoned, At
<1>2. FrameOK(f)
  BY <1>1, MeantTop
<1>3. ASSUME NEW g, Become(g), Failed(f, g)
      PROVE  MeantInv'
  BY <1>1, <1>3, FailedIsMeant
<1> DEFINE g1 == [Step EXCEPT !.phase = "restore", !.outcome = Reason]
           g2 == [Top EXCEPT !.phase = "done", !.outcome = Reason, !.stays = @ \cup AppliedTargets]
           g3 == [Step EXCEPT !.phase = "done", !.backups = <<>>, !.outcome = Reason,
                              !.stays = @ \cup SavedFor(Saved.backups)]
<1>4. Failed(f, g1) /\ Failed(f, g2) /\ Failed(f, g3)
  BY <1>2 DEF Failed, Step, FrameOK, FrameFields
<1> HIDE DEF f
<1>5. CASE ApplyFails
  BY <1>3, <1>4, <1>5 DEF ApplyFails
<1>6. CASE PersistentFails
  BY <1>3, <1>4, <1>6 DEF PersistentFails
<1>7. CASE ApplyAbandoned
  BY <1>3, <1>4, <1>7 DEF ApplyAbandoned
<1> QED
  BY <1>5, <1>6, <1>7

(* A child is made: it applies the redirections in one go, and a utility   *)
(* loses what exec closes, which is nothing but text.                      *)
LEMMA ExecMeant ==
  ASSUME NEW t \in Tables, TextOnly(t)
  PROVE  \A d \in Visible : \/ View(AfterExec(t))[d] = View(t)[d]
                            \/ View(AfterExec(t))[d] = Closed /\ View(t)[d].file = Text
<1> SUFFICES ASSUME NEW d \in Visible
             PROVE  \/ View(AfterExec(t))[d] = View(t)[d]
                    \/ View(AfterExec(t))[d] = Closed /\ View(t)[d].file = Text
  OBVIOUS
<1>1. d \in Fds /\ t[d] \in Behind /\ View(t)[d] = Copy(t[d])
  BY Typed, VisibleFds, ViewIs
<1>2. View(AfterExec(t))[d] = Copy(IF t[d].cloexec THEN Closed ELSE t[d])
  BY <1>1 DEF View, AfterExec
<1>3. Copy(Closed) = Closed
  BY Copies DEF Behind
<1>4. Copy(t[d]).file = t[d].file
  BY <1>1, CopyFields
<1> QED
  BY <1>1, <1>2, <1>3, <1>4 DEF TextOnly

(* A child that was started has its redirections as they are meant.        *)
LEMMA SpawnMeant ==
  ASSUME RedirectionsInv, MeantInv, Spawn
  PROVE  MeantInv'
<1> DEFINE nc == session.noclobber
           f == Top
           redirs == f.redirs
           n == Len(redirs)
           run == RunOf(f, nc)
           v == f.before
           there == f.there
           t == fds
           here == present
           second == Twice(f)
           child == apply_redirections(t, here, nc, redirs)
           table == IF f.kind = "external" THEN AfterExec(child.fds) ELSE child.fds
           what == CASE child.rc = 0 -> "given"
                     [] child.rc # 0 /\ FreeFrom(child.fds, 0) = {} -> "no room"
                     [] OTHER -> "refused"
           g == [f EXCEPT !.phase = "body", !.outcome = what, !.given = View(table)]
<1>1. /\ frames # <<>> /\ f.phase = "spawn" /\ Become(g)
      /\ UNCHANGED <<session, fds>> /\ present' = child.present
  BY DEF Spawn, At
<1>2. /\ FrameOK(f) /\ FrameMeant(f, nc) /\ TopMeant(f, nc, t, here)
      /\ t \in Tables /\ here \in SUBSET Files /\ TextOnly(t) /\ nc \in BOOLEAN
      /\ Steps(run, v, there, nc, redirs)
      /\ View(t) = v
  BY <1>1, MeantTop, SeesAllBefore
<1>3. /\ g.before = f.before /\ g.there = f.there /\ g.prefix = f.prefix /\ g.kind = f.kind
      /\ g.redirs = f.redirs /\ g.outcome = what /\ g.given = View(table) /\ g.phase = "body"
  BY <1>2 DEF FrameOK, FrameFields
<1>4. f.kind \in Children /\ redirs \in Seq(Redirections) /\ second \in BOOLEAN
      /\ (second => f.prefix)
  BY <1>1, <1>2 DEF FrameOK, Twice
<1>5. InRound(run, t, here, n, 0, second)
  <2>1. run[0].rc = 0 /\ run[0].view = v /\ run[0].present = there
    BY <1>2 DEF Steps
  <2>2. /\ second => run[n].rc = 0 /\ here = run[n].present
        /\ ~second => here = there
    BY <1>1, <1>2 DEF TopMeant, ToBegin, OnceOver, Between
  <2> HIDE DEF run, n, second, v, there, t, here
  <2> QED
    BY <1>2, <2>1, <2>2 DEF InRound
<1>6. /\ child.rc = 0 => what = "given"
      /\ child.rc # 0 => what # "given"
      /\ what = "refused" => child.rc # 0 /\ FreeFrom(child.fds, 0) # {}
      /\ f.kind = "external" => table = AfterExec(child.fds)
      /\ f.kind # "external" => table = child.fds
  <2> HIDE DEF child
  <2> QED
    OBVIOUS
<1> HIDE DEF nc, f, redirs, run, v, there, t, here, second, table, what, g, child
<1>7. /\ child.fds \in Tables /\ child.present \in SUBSET Files
      /\ ChildOK(run, n, second, nc, t, n, child)
  <2>1. Going(run, redirs, t, here, 0, second) /\ child = apply_redirections(t, here, nc, redirs)
    BY <1>5 DEF Going, n, child
  <2>2. ChildDone(run, redirs, second, nc, t, child)
    BY <1>2, <1>4, <2>1, ChildApplies
  <2> QED
    BY <2>2 DEF ChildDone, n
<1> HIDE DEF n
<1>8. /\ TextOnly(child.fds)
      /\ child.rc = 0 => run[n].rc = 0 /\ View(child.fds) = run[n].view
      /\ child.rc # 0 /\ FreeFrom(child.fds, 0) # {} /\ ~(second /\ nc) => run[n].rc # 0
  BY <1>2, <1>7 DEF ChildOK, InRound
<1>9. RunOf(g, nc) = run /\ Len(g.redirs) = n
  BY <1>3 DEF run, n, redirs, RunOf
<1>10. what = "given" => GivenBy(run[n], g)
  <2> SUFFICES ASSUME child.rc = 0
               PROVE  GivenBy(run[n], g)
    BY <1>6
  <2>1. \A d \in Visible : \/ g.given[d] = run[n].view[d]
                           \/ g.kind = "external" /\ g.given[d] = Closed /\ run[n].view[d].file = Text
    <3>1. CASE f.kind = "external"
      BY <1>3, <1>6, <1>7, <1>8, <3>1, ExecMeant
    <3>2. CASE f.kind # "external"
      BY <1>3, <1>6, <1>8, <3>2
    <3> QED
      BY <3>1, <3>2
  <2> QED
    BY <1>8, <2>1 DEF GivenBy
<1>11. ~InSubshell(g)
  BY <1>3, <1>4 DEF InSubshell, Children
<1>12. FrameMeant(g, nc)
  BY <1>2, <1>3, <1>4, <1>6, <1>8, <1>9, <1>10, <1>11 DEF FrameMeant
<1>13. TopMeant(g, nc, t, child.present)
  BY <1>3, PastIsMeant DEF Past
<1> QED
  BY <1>1, <1>2, <1>7, <1>12, <1>13, BecomeMeant DEF nc, t

(* A command begins.                                                       *)
LEMMA FrameIsMeant ==
  ASSUME RedirectionsInv, MeantInv, NEW kind, NEW prefix \in BOOLEAN, NEW redirs,
         prefix => kind \in Prefixable
  PROVE  /\ FrameMeant(Frame(kind, prefix, redirs), session.noclobber)
         /\ TopMeant(Frame(kind, prefix, redirs), session.noclobber, fds, present)
<1> DEFINE h == Frame(kind, prefix, redirs)
           nc == session.noclobber
<1>1. /\ h.kind = kind /\ h.prefix = prefix /\ h.redirs = redirs /\ h.next = 1
      /\ h.before = View(fds) /\ h.there = present /\ h.outcome = "open"
      /\ h.phase = IF kind = "empty" THEN "spawn" ELSE "operands"
  BY DEF Frame
<1>2. fds \in Tables /\ present \in SUBSET Files
  BY DEF RedirectionsInv, Keeps, DescriptorsOf, Held, MeantInv, AllMeant
<1>3. View(fds) \in [Visible -> Behind]
  BY <1>2, ViewIs
<1> HIDE DEF h, nc
<1>4. FrameMeant(h, nc)
  BY <1>1, <1>2, <1>3 DEF FrameMeant, InSubshell
<1>5. kind = "empty" => ~Twice(h)
  BY <1>1 DEF Twice, Prefixable, Special
<1>6. TopMeant(h, nc, fds, present)
  BY <1>1, <1>5 DEF TopMeant, ToBegin, OnceOver, UnderWay, Between
<1> QED
  BY <1>4, <1>6 DEF h, nc

(* A command that starts adds its own claim to those of the commands       *)
(* around it.                                                              *)
LEMMA PushMeant ==
  ASSUME NEW fs, NEW h, NEW nc, NEW t, NEW here, IsStack(fs), AllMeant(fs, nc, t, here),
         FrameMeant(h, nc), TopMeant(h, nc, t, here)
  PROVE  AllMeant(Append(fs, h), nc, t, here)
<1>1. PICK S : fs \in Seq(S)
  BY DEF IsStack
<1> DEFINE n == Len(fs)
           gs == Append(fs, h)
<1>2. /\ n \in Nat /\ Len(gs) = n + 1 /\ gs[n + 1] = h
      /\ \A i \in 1 .. n : gs[i] = fs[i]
  BY <1>1
<1> HIDE DEF gs
<1>3. \A i \in 1 .. Len(gs) : i \in 1 .. n \/ i = n + 1
  BY <1>2
<1>4. \A i \in 1 .. n : FrameMeant(fs[i], nc)
  BY DEF AllMeant
<1> HIDE DEF n
<1>5. \A i \in 1 .. Len(gs) : FrameMeant(gs[i], nc)
  BY <1>2, <1>3, <1>4
<1>6. TopMeant(gs[Len(gs)], nc, t, here)
  BY <1>2
<1> QED
  BY <1>5, <1>6 DEF AllMeant, gs

(* A command that starts has applied none of its redirections.             *)
LEMMA StartMeant ==
  ASSUME RedirectionsInv, MeantInv, NEW kind, NEW prefix \in BOOLEAN,
         NEW redirs, Start(kind, prefix, redirs)
  PROVE  MeantInv'
<1> DEFINE h == Frame(kind, prefix, redirs)
           gs == Append(frames, h)
           nc == session.noclobber
<1>1. frames' = gs /\ UNCHANGED <<session, fds, present>> /\ (prefix => kind \in Prefixable)
  BY DEF Start
<1>2. FrameMeant(h, nc) /\ TopMeant(h, nc, fds, present)
  BY <1>1, FrameIsMeant
<1> HIDE DEF h
<1>3. AllMeant(gs, nc, fds, present)
  BY <1>2, PushMeant DEF RedirectionsInv, Keeps, MeantInv
<1> HIDE DEF gs
<1> QED
  BY <1>1, <1>3 DEF MeantInv

(* A function call starts with the redirections after its name.            *)
LEMMA CallFunctionMeant ==
  ASSUME RedirectionsInv, MeantInv, NEW redirs, At("body"), Top.kind = "function",
         CallFunction(redirs)
  PROVE  MeantInv'
<1> DEFINE h == Frame("definition", FALSE, redirs)
           f == Top
           g == [f EXCEPT !.phase = "called"]
           ms == [frames EXCEPT ![Len(frames)] = g]
           nc == session.noclobber
<1>1. frames # <<>> /\ f.phase = "body" /\ f.kind = "function" /\ FrameOK(f)
      /\ f = frames[Len(frames)] /\ Len(frames) \in Nat \ {0}
  BY TopIs DEF At, Top
<1>2. frames' = Append(ms, h) /\ UNCHANGED <<session, fds, present>>
  <2>1. [frames EXCEPT ![Len(frames)].phase = "called"] = ms
    <3>1. PICK S : frames \in Seq(S)
      BY DEF RedirectionsInv, Keeps, IsStack
    <3>2. Len(frames) \in DOMAIN frames
      BY <1>1, <3>1
    <3> QED
      BY <1>1, <3>2
  <2> QED
    BY <2>1 DEF CallFunction
<1>3. AsClaimed(f, g) /\ g.phase \in Past
  BY <1>1 DEF FrameOK, FrameFields, AsClaimed, InSubshell, Past
<1>4. FrameMeant(f, nc) /\ TextOnly(fds) /\ present \in SUBSET Files
  BY <1>1, MeantTop
<1>5. FrameMeant(h, nc) /\ TopMeant(h, nc, fds, present)
  BY FrameIsMeant
<1>6. AllMeant(frames, nc, fds, present)
  BY DEF MeantInv
<1>7. Becomes(frames, ms, g)
  BY <1>1, BecomeChanges DEF RedirectionsInv, Keeps
<1> HIDE DEF f, g, h, ms
<1>8. FrameMeant(g, nc) /\ TopMeant(g, nc, fds, present)
  BY <1>3, <1>4, ClaimsStay, PastIsMeant
<1> DEFINE fs == frames
           t == fds
           here == present
<1> HIDE DEF fs, t, here, nc
<1>9. AllMeant(ms, nc, t, here)
  BY <1>4, <1>6, <1>7, <1>8, TopChanges DEF fs, t, here
<1>10. AllMeant(Append(ms, h), nc, t, here)
  BY <1>5, <1>7, <1>9, PushMeant DEF Becomes, t, here
<1> QED
  BY <1>2, <1>10 DEF MeantInv, nc, t, here

(* A command returns to one whose redirections are over.                   *)
LEMMA PopMeant ==
  ASSUME NEW fs, NEW gs, NEW nc, NEW t, NEW here, NEW lk, Keeps(fs, t, lk), fs # <<>>,
         AllMeant(fs, nc, t, here), Returns(fs, gs)
  PROVE  AllMeant(gs, nc, t, here)
<1> DEFINE n == Len(fs)
           m == n - 1
<1>1. PICK S : fs \in Seq(S)
  BY DEF Keeps, IsStack
<1>2. n \in Nat \ {0} /\ m \in Nat /\ (m # 0 => m \in 1 .. n - 1 /\ m \in 1 .. n)
  <2>1. n \in Nat \ {0}
    BY <1>1
  <2> HIDE DEF n
  <2> QED
    BY <2>1
<1>3. TextOnly(t) /\ here \in SUBSET Files /\ \A i \in 1 .. n : FrameMeant(fs[i], nc)
  BY DEF AllMeant
<1>4. CASE m = 0
  <2>1. gs = <<>> /\ Len(gs) = 0
    BY <1>4 DEF Returns
  <2> QED
    BY <1>3, <2>1 DEF AllMeant
<1>5. CASE m # 0
  <2> DEFINE f == fs[m]
             g == [f EXCEPT !.stays = @ \cup fs[m + 1].stays]
  <2>1. /\ Len(gs) = m /\ gs # <<>> /\ gs[m] = g
        /\ \A i \in 1 .. m - 1 : gs[i] = fs[i]
    BY <1>5 DEF Returns
  <2>2. FrameOK(f) /\ f.phase \in {"body", "called"}
    BY <1>2, <1>5 DEF Keeps, FramesOf, Waiting
  <2>3. AsClaimed(f, g) /\ g.phase \in Past
    BY <2>2 DEF FrameOK, FrameFields, AsClaimed, InSubshell, Past
  <2>4. FrameMeant(f, nc)
    BY <1>2, <1>3, <1>5
  <2> HIDE DEF f, g, n
  <2>5. FrameMeant(g, nc) /\ TopMeant(g, nc, t, here)
    BY <2>3, <2>4, ClaimsStay, PastIsMeant
  <2>6. \A i \in 1 .. m : i = m \/ (i \in 1 .. m - 1 /\ i \in 1 .. n)
    BY <1>2
  <2> HIDE DEF m
  <2>7. \A i \in 1 .. Len(gs) : FrameMeant(gs[i], nc)
    BY <1>3, <2>1, <2>5, <2>6
  <2>8. TopMeant(gs[Len(gs)], nc, t, here)
    BY <2>1, <2>5
  <2> QED
    BY <1>3, <2>7, <2>8 DEF AllMeant
<1> QED
  BY <1>4, <1>5

(* A command that finishes takes its claim along.                          *)
LEMMA FinishMeant ==
  ASSUME RedirectionsInv, MeantInv, Finish
  PROVE  MeantInv'
<1>1. Returns(frames, frames') /\ frames # <<>> /\ UNCHANGED <<session, fds, present>>
  BY FinishReturns DEF Finish
<1>2. Keeps(frames, fds, leaked) /\ AllMeant(frames, session.noclobber, fds, present)
  BY DEF RedirectionsInv, MeantInv
<1> DEFINE fs == frames
           gs == frames'
           nc == session.noclobber
           t == fds
           here == present
           lk == leaked
<1>3. Returns(fs, gs) /\ Keeps(fs, t, lk) /\ AllMeant(fs, nc, t, here) /\ fs # <<>>
  BY <1>1, <1>2
<1> HIDE DEF fs, gs, nc, t, here, lk
<1>4. AllMeant(gs, nc, t, here)
  BY <1>3, PopMeant
<1> QED
  BY <1>1, <1>4 DEF MeantInv, gs, nc, t, here

(* The claims hold at the start and every action keeps them.               *)
LEMMA InitMeant == Init => MeantInv
<1> SUFFICES ASSUME Init PROVE MeantInv
  OBVIOUS
<1>1. frames = <<>> /\ Len(frames) = 0 /\ session \in Sessions /\ present = session.present
  BY DEF Init
<1>2. session.noclobber \in BOOLEAN /\ present \in SUBSET Files
  BY <1>1, SessionsAssumption
<1>3. TextOnly(fds)
  <2>1. \A d \in Visible : fds[d] = Open(Terminal, "rw")
    BY VisibleFds DEF Init
  <2>2. Open(Terminal, "rw").cloexec = FALSE
    BY DEF Open
  <2> QED
    BY <2>1, <2>2 DEF TextOnly
<1> QED
  BY <1>1, <1>2, <1>3 DEF MeantInv, AllMeant

(* Every step keeps the invariant.                                         *)
LEMMA NextMeant ==
  ASSUME RedirectionsInv, MeantInv, Next
  PROVE  MeantInv'
<1>1. ASSUME NEW kind \in Kinds, NEW prefix \in BOOLEAN, NEW redirs \in RedirectionLists,
             Start(kind, prefix, redirs)
      PROVE  MeantInv'
  BY <1>1, StartMeant
<1>2. ASSUME At("body"), Top.kind = "function", NEW redirs \in RedirectionLists,
             CallFunction(redirs)
      PROVE  MeantInv'
  BY <1>2, CallFunctionMeant
<1>3. CASE \/ OperandsExpand \/ OperandsFail \/ ValuesExpand \/ ValuesFail \/ Assign
           \/ AssignFails \/ SpawnFails \/ AllRestored
  BY <1>3, GoesMean
<1>4. CASE ApplyNext
  BY <1>4, ApplyNextMeant
<1>5. CASE ApplyFails \/ PersistentFails \/ ApplyAbandoned
  BY <1>5, FailuresMean
<1>6. CASE PrefixApplied
  BY <1>6, PrefixAppliedMeant
<1>7. CASE AllApplied
  BY <1>7, AllAppliedMeant
<1>8. CASE Spawn
  BY <1>8, SpawnMeant
<1>9. CASE EndBody \/ Exit
  BY <1>9, EndsMean
<1>10. CASE EndSubshell
  BY <1>10, EndSubshellMeant
<1>11. CASE RestoreNext
  BY <1>11, RestoreNextMeant
<1>12. CASE Finish
  BY <1>12, FinishMeant
<1> QED
  BY <1>1, <1>2, <1>3, <1>4, <1>5, <1>6, <1>7, <1>8, <1>9, <1>10, <1>11, <1>12 DEF Next

(* Whatever is redirected, saved and restored around it, however often and *)
(* wherever something fails, a command is run with the descriptors that    *)
(* its redirections mean, and is refused only if they mean nothing         *)
(* (apply_one_redirection, fd_backup_save, spawn.c).                       *)
THEOREM AppliedAsWritten == Spec => []AppliedAsMeant
<1>1. ASSUME RedirectionsInv /\ session \in Sessions, MeantInv, [Next]_vars
      PROVE  MeantInv'
  <2>1. CASE Next
    BY <1>1, <2>1, NextMeant
  <2>2. CASE UNCHANGED vars
    BY <1>1, <2>2 DEF vars, MeantInv
  <2> QED
    BY <1>1, <2>1, <2>2
<1>2. ASSUME RedirectionsInv, MeantInv
      PROVE  AppliedAsMeant
  <2> SUFFICES ASSUME NEW i \in DOMAIN frames
               PROVE  /\ frames[i].outcome = "given" => GivenAsMeant(frames[i])
                      /\ frames[i].outcome = "refused" /\ ~(frames[i].prefix /\ session.noclobber)
                           => Meant(frames[i]).rc # 0
    BY DEF AppliedAsMeant
  <2> DEFINE f == frames[i]
             n == Len(f.redirs)
  <2>1. i \in 1 .. Len(frames)
    BY <1>2 DEF RedirectionsInv, Keeps, IsStack
  <2>2. FrameMeant(f, session.noclobber)
    BY <1>2, <2>1 DEF MeantInv, AllMeant
  <2>3. Meant(f) = RunOf(f, session.noclobber)[n]
    BY MeaningIs DEF Meant, RunOf
  <2> DEFINE m == Meant(f)
  <2>4. /\ f.outcome = "given" => GivenBy(m, f)
        /\ f.outcome = "refused" /\ ~(f.prefix /\ session.noclobber) => m.rc # 0
    BY <2>2, <2>3 DEF FrameMeant
  <2> HIDE DEF f
  <2>5. GivenBy(m, f) => GivenAsMeant(f)
    BY DEF GivenBy, GivenAsMeant
  <2> QED
    BY <2>4, <2>5 DEF f
<1> QED
  BY InvariantHolds, InitMeant, <1>1, <1>2, PTL DEF Spec

-----------------------------------------------------------------------------
(* Types.  What RedirectionsInv and MeantInv say of the table and of the   *)
(* frames is not repeated: a step that changes the innermost frame leaves  *)
(* it one when the fields that they do not tell of are as they should be.  *)
StackTyped ==
  /\ frames \in Seq(Frames)
  /\ should_exit \in BOOLEAN
  /\ size \in 0 .. session.size

StateOK == RedirectionsInv /\ MeantInv /\ session \in Sessions

(* The types of what the frames remember.                                  *)
LEMMA StateTypes ==
  ASSUME StateOK
  PROVE  /\ fds \in Tables /\ present \in SUBSET Files /\ leaked \subseteq Fds \ Visible
         /\ View(fds) \in Views
         /\ session.size \in Nat
<1>1. fds \in Tables /\ leaked \subseteq Fds \ Visible
  BY DEF StateOK, RedirectionsInv, Keeps, DescriptorsOf, Held
<1>2. present \in SUBSET Files
  BY DEF StateOK, MeantInv, AllMeant
<1> QED
  BY <1>1, <1>2, ViewIs, SessionsAssumption DEF StateOK, Views, Behind

(* A command begins as a frame.                                            *)
LEMMA FrameTyped ==
  ASSUME StateOK, NEW kind \in Kinds, NEW prefix \in BOOLEAN, NEW redirs \in Seq(Redirections)
  PROVE  Frame(kind, prefix, redirs) \in Frames
<1> DEFINE phase == IF kind = "empty" THEN "spawn" ELSE "operands"
           view == View(fds)
<1>1. phase \in Phases /\ "open" \in Outcomes /\ <<>> \in Seq(Backups)
  BY DEF Phases, Outcomes
<1>2. view \in Views /\ present \in SUBSET Files
  BY StateTypes
<1>3. Frame(kind, prefix, redirs) =
        [kind |-> kind, prefix |-> prefix, redirs |-> redirs, phase |-> phase, next |-> 1,
         backups |-> <<>>, before |-> view, there |-> present, outcome |-> "open",
         given |-> view, stays |-> {}, parent |-> Here]
  BY DEF Frame
<1> HIDE DEF phase, view
<1> QED
  BY <1>1, <1>2, <1>3 DEF Frames

(* The innermost frame is one.                                             *)
LEMMA TopTyped ==
  ASSUME frames \in Seq(Frames), frames # <<>>
  PROVE  Top \in Frames /\ Len(frames) \in 1 .. Len(frames)
BY DEF Top

(* A step replaces the innermost frame.                                    *)
LEMMA BecomeTyped ==
  ASSUME frames \in Seq(Frames), frames # <<>>, NEW g \in Frames, Become(g)
  PROVE  frames' \in Seq(Frames)
BY TopTyped, ExceptSeq DEF Become

(* Going on to another phase.                                              *)
LEMMA GoTyped ==
  ASSUME frames \in Seq(Frames), frames # <<>>, NEW phase \in Phases, Go(phase)
  PROVE  frames' \in Seq(Frames)
<1> DEFINE f == Top
           g == [f EXCEPT !.phase = phase]
<1>1. f \in Frames
  BY TopTyped
<1>2. Become(g)
  BY DEF Go
<1> HIDE DEF f
<1>3. g \in Frames
  BY <1>1 DEF Frames
<1> HIDE DEF g
<1> QED
  BY <1>2, <1>3, BecomeTyped

(* A step that only changes the phase keeps the type of the frame.         *)
LEMMA GoesTyped ==
  ASSUME frames \in Seq(Frames),
         \/ OperandsExpand \/ OperandsFail \/ ValuesExpand \/ ValuesFail \/ Assign
         \/ AssignFails \/ SpawnFails \/ AllRestored
  PROVE  frames' \in Seq(Frames)
<1>1. frames # <<>>
  BY DEF OperandsExpand, OperandsFail, ValuesExpand, ValuesFail, Assign, AssignFails, SpawnFails,
         AllRestored, At
<1>2. AfterOperands(Top) \in Phases
  BY DEF AfterOperands, Phases
<1>3. \E phase \in Phases : Go(phase)
  <2>1. CASE OperandsExpand
    BY <1>2, <2>1 DEF OperandsExpand
  <2>2. CASE OperandsFail \/ AssignFails \/ SpawnFails
    <3>1. Go("done") /\ "done" \in Phases
      BY <2>2 DEF OperandsFail, AssignFails, SpawnFails, Phases
    <3> QED
      BY <3>1
  <2>3. CASE ValuesExpand
    <3>1. Go("unprefix") /\ "unprefix" \in Phases
      BY <2>3 DEF ValuesExpand, Phases
    <3> QED
      BY <3>1
  <2>4. CASE ValuesFail
    <3>1. Go("restore") /\ "restore" \in Phases
      BY <2>4 DEF ValuesFail, Phases
    <3> QED
      BY <3>1
  <2>5. CASE Assign
    <3> DEFINE phase == IF Top.kind = "external" THEN "spawn" ELSE "apply"
    <3>1. Go(phase) /\ phase \in Phases
      BY <2>5 DEF Assign, Phases
    <3> HIDE DEF phase
    <3> QED
      BY <3>1
  <2>6. CASE AllRestored
    <3> DEFINE phase == IF Top.phase = "restore" THEN "done" ELSE "assign"
    <3>1. Go(phase) /\ phase \in Phases
      BY <2>6 DEF AllRestored, Phases
    <3> HIDE DEF phase
    <3> QED
      BY <3>1
  <2> QED
    BY <2>1, <2>2, <2>3, <2>4, <2>5, <2>6
<1> QED
  BY <1>1, <1>3, GoTyped

(* What is saved has the type of a backup, and is saved for descriptors    *)
(* that a script can name.                                                 *)
LEMMA SavedVisible ==
  ASSUME NEW backups \in Seq(Backups)
  PROVE  SavedFor(backups) \subseteq Visible
<1>1. \A k \in DOMAIN backups : backups[k] \in Backups
  OBVIOUS
<1> QED
  BY <1>1 DEF SavedFor, Backups

(* What redirections name is a descriptor that a script can name.          *)
LEMMA TargetsVisible ==
  ASSUME NEW redirs \in Seq(Redirections)
  PROVE  Targets(redirs) \subseteq Visible
<1>1. \A k \in DOMAIN redirs : redirs[k] \in Redirections
  OBVIOUS
<1> QED
  BY <1>1 DEF Targets, Redirections

(* Saving adds a backup at most.                                           *)
LEMMA SavedTyped ==
  ASSUME StateOK, frames \in Seq(Frames), frames # <<>>, Top.next <= Len(Top.redirs)
  PROVE  Saved.backups \in Seq(Backups) /\ Step \in Frames
<1> DEFINE f == Top
           r == f.redirs[f.next]
           s == fd_backup_save(fds, f.backups, r.target)
<1>1. f \in Frames /\ FrameOK(f) /\ fds \in Tables
  BY TopTyped, TopIs, StateTypes DEF StateOK
<1>2. r.target \in Visible /\ f.backups \in Seq(Backups)
  BY <1>1, NextRedirection, RedirectionWrites DEF FrameOK
<1>3. Saved.backups \in {<<>>, s.backups}
  BY DEF Saved
<1> HIDE DEF f, r
<1>4. s.backups \in Seq(Backups)
  <2>1. SavesNothing(fds, f.backups, r.target, s) \/ \E b : SavesOne(fds, f.backups, r.target, s, b)
    BY <1>1, <1>2, SaveEffect
  <2> HIDE DEF s
  <2>2. CASE SavesNothing(fds, f.backups, r.target, s)
    BY <1>2, <2>2 DEF SavesNothing
  <2>3. ASSUME NEW b, SavesOne(fds, f.backups, r.target, s, b)
        PROVE  s.backups \in Seq(Backups)
    BY <1>2, <2>3, SavedForAppend DEF SavesOne
  <2> QED
    BY <2>1, <2>2, <2>3
<1> HIDE DEF s
<1> DEFINE backups == Saved.backups
           whole == s.backups
<1>5. backups \in Seq(Backups)
  <2>1. backups \in {<<>>, whole} /\ whole \in Seq(Backups) /\ <<>> \in Seq(Backups)
    BY <1>3, <1>4
  <2> HIDE DEF backups, whole
  <2> QED
    BY <2>1
<1>6. Step = [f EXCEPT !.backups = backups]
  BY DEF Step, f
<1> HIDE DEF backups
<1>7. Step \in Frames
  BY <1>1, <1>5, <1>6 DEF Frames
<1> QED
  BY <1>5, <1>7 DEF backups

(* Nothing saved is a list of backups.                                     *)
LEMMA NothingSaved == <<>> \in Seq(Backups)
OBVIOUS

(* Applying redirections, whatever comes of it.                            *)
LEMMA ApplyingTyped ==
  ASSUME StateOK, frames \in Seq(Frames), frames # <<>>,
         ApplyNext \/ ApplyFails \/ PersistentFails \/ ApplyAbandoned
  PROVE  frames' \in Seq(Frames)
<1> DEFINE f == Top
           s == Step
           kept == SavedFor(Saved.backups)
           some == AppliedTargets
           why == Reason
           step == f.next + 1
<1>1. f \in Frames /\ FrameOK(f) /\ f.next <= Len(f.redirs)
  BY TopTyped, TopIs DEF StateOK, ApplyNext, ApplyFails, PersistentFails, ApplyAbandoned
<1>2. s \in Frames /\ Saved.backups \in Seq(Backups)
  BY <1>1, SavedTyped
<1>3. kept \subseteq Visible
  BY <1>2, SavedVisible
<1>4. some \subseteq Visible
  <2>1. f.redirs \in Seq(Redirections) /\ f.next - 1 \in Int /\ f.next - 1 <= Len(f.redirs)
    BY <1>1 DEF FrameOK
  <2>2. SubSeq(f.redirs, 1, f.next - 1) \in Seq(Redirections)
    BY <2>1
  <2> QED
    BY <2>2, TargetsVisible DEF AppliedTargets
<1>5. why \in {"no room", "refused"}
  BY DEF Reason
<1>6. step \in Nat
  BY <1>1 DEF FrameOK
<1>7. \/ Become([s EXCEPT !.next = step])
      \/ Become([s EXCEPT !.phase = "restore", !.outcome = why])
      \/ Become([f EXCEPT !.phase = "done", !.outcome = why, !.stays = @ \cup some])
      \/ Become([s EXCEPT !.phase = "done", !.backups = <<>>, !.outcome = why,
                          !.stays = @ \cup kept])
  BY DEF ApplyNext, ApplyFails, PersistentFails, ApplyAbandoned
<1> HIDE DEF f, s, kept, some, why, step
<1>8. /\ "restore" \in Phases /\ "done" \in Phases
      /\ why \in Outcomes
      /\ <<>> \in Seq(Backups)
  <2>1. "restore" \in Phases /\ "done" \in Phases
    BY DEF Phases
  <2>2. why \in Outcomes
    BY <1>5 DEF Outcomes
  <2>3. <<>> \in Seq(Backups)
    BY NothingSaved
  <2> QED
    BY <2>1, <2>2, <2>3
<1>9. /\ s.stays \cup kept \subseteq Visible /\ f.stays \cup some \subseteq Visible
  BY <1>1, <1>2, <1>3, <1>4 DEF Frames
<1>10. /\ [s EXCEPT !.next = step] \in Frames
       /\ [s EXCEPT !.phase = "restore", !.outcome = why] \in Frames
  BY <1>2, <1>6, <1>8 DEF Frames
<1>11. [f EXCEPT !.phase = "done", !.outcome = why, !.stays = @ \cup some] \in Frames
  BY <1>1, <1>8, <1>9 DEF Frames
<1>12. [s EXCEPT !.phase = "done", !.backups = <<>>, !.outcome = why, !.stays = @ \cup kept] \in Frames
  BY <1>2, <1>8, <1>9 DEF Frames
<1> QED
  BY <1>7, <1>10, <1>11, <1>12, BecomeTyped

(* All of them are in force.                                               *)
LEMMA AppliedTyped ==
  ASSUME StateOK, frames \in Seq(Frames), frames # <<>>, PrefixApplied \/ AllApplied
  PROVE  frames' \in Seq(Frames)
<1> DEFINE f == Top
           view == View(fds)
           phase == CASE f.kind \in Persistent -> "done"
                      [] f.kind \in Bodiless \ Persistent -> "restore"
                      [] OTHER -> "body"
           stays == IF f.kind \in Persistent THEN f.stays \cup Targets(f.redirs) ELSE f.stays
           parent == IF f.kind = "subshell" THEN [fds |-> fds, leaked |-> leaked] ELSE Here
<1>1. f \in Frames /\ f.redirs \in Seq(Redirections)
  BY TopTyped, TopIs DEF StateOK, FrameOK
<1>2. view \in Views /\ fds \in Tables /\ leaked \subseteq Fds
  BY StateTypes
<1>3. \/ Become([f EXCEPT !.phase = "values", !.next = 1])
      \/ Become([f EXCEPT !.phase = phase, !.outcome = "given", !.given = view, !.stays = stays,
                          !.parent = parent])
  <2>1. CASE PrefixApplied
    BY <2>1 DEF PrefixApplied
  <2>2. CASE AllApplied
    <3>1. stays = IF f.kind \in Persistent THEN f.stays \cup Targets(f.redirs) ELSE f.stays
      OBVIOUS
    <3> QED
      BY <2>2 DEF AllApplied
  <2> QED
    BY <2>1, <2>2
<1>4. phase \in Phases /\ "given" \in Outcomes /\ "values" \in Phases
  BY DEF Phases, Outcomes
<1>5. parent \in {Here} \cup [fds : Tables, leaked : SUBSET Fds]
  BY <1>2
<1>6. Targets(f.redirs) \subseteq Visible
  BY <1>1, TargetsVisible
<1> HIDE DEF f, view, phase, parent
<1>7. stays \subseteq Visible
  BY <1>1, <1>6 DEF Frames
<1> HIDE DEF stays
<1>8. [f EXCEPT !.phase = "values", !.next = 1] \in Frames
  BY <1>1, <1>4 DEF Frames
<1>9. [f EXCEPT !.phase = phase, !.outcome = "given", !.given = view, !.stays = stays,
                !.parent = parent] \in Frames
  BY <1>1, <1>2, <1>4, <1>5, <1>7 DEF Frames
<1> QED
  BY <1>3, <1>8, <1>9, BecomeTyped

(* What a child has is a table without what exec closes.                   *)
LEMMA AfterExecTyped ==
  ASSUME NEW t \in Tables
  PROVE  AfterExec(t) \in Tables
BY DEF AfterExec, Tables

(* A child is made.                                                        *)
LEMMA SpawnTyped ==
  ASSUME StateOK, frames \in Seq(Frames), frames # <<>>, Spawn
  PROVE  frames' \in Seq(Frames)
<1> DEFINE f == Top
           nc == session.noclobber
           child == apply_redirections(fds, present, nc, f.redirs)
           table == IF f.kind = "external" THEN AfterExec(child.fds) ELSE child.fds
           what == CASE child.rc = 0 -> "given"
                     [] child.rc # 0 /\ FreeFrom(child.fds, 0) = {} -> "no room"
                     [] OTHER -> "refused"
           view == View(table)
<1>1. f \in Frames /\ f.redirs \in Seq(Redirections)
  BY TopTyped, TopIs DEF StateOK, FrameOK
<1>2. Become([f EXCEPT !.phase = "body", !.outcome = what, !.given = view])
  BY DEF Spawn
<1>3. child.fds \in Tables
  <2> DEFINE redirs == f.redirs
             run == ApplyRun(fds, present, nc, redirs)
             n == Len(redirs)
  <2>1. fds \in Tables /\ present \in SUBSET Files
    BY StateTypes
  <2>2. redirs \in Seq(Redirections) /\ n \in 0 .. n
    BY <1>1
  <2> HIDE DEF redirs, nc
  <2>3. ApplySteps(run, fds, present, nc, redirs)
    BY <2>1, <2>2, ApplyRuns
  <2>4. apply_redirections(fds, present, nc, redirs) = run[n]
    BY ApplyIs
  <2> HIDE DEF run
  <2>5. run[n] \in ApplyStates
    BY <2>2, <2>3 DEF ApplySteps, n
  <2>6. child = run[n]
    BY <2>4 DEF redirs
  <2> QED
    BY <2>5, <2>6 DEF ApplyStates
<1>4. what \in Outcomes /\ "body" \in Phases
  BY DEF Outcomes, Phases
<1> HIDE DEF child, what
<1>5. view \in Views
  <2>1. table \in Tables
    BY <1>3, AfterExecTyped
  <2> HIDE DEF table
  <2> QED
    BY <2>1, ViewIs DEF Views, Behind
<1> HIDE DEF f, view
<1>6. [f EXCEPT !.phase = "body", !.outcome = what, !.given = view] \in Frames
  BY <1>1, <1>4, <1>5 DEF Frames
<1> QED
  BY <1>2, <1>6, BecomeTyped

(* A body, or a subshell, is over, or a descriptor is restored.            *)
LEMMA EndsTyped ==
  ASSUME StateOK, frames \in Seq(Frames), frames # <<>>,
         EndBody \/ Exit \/ EndSubshell \/ RestoreNext
  PROVE  frames' \in Seq(Frames)
<1> DEFINE f == Top
           kept == SavedFor(f.backups)
           fewer == SubSeq(f.backups, 1, Len(f.backups) - 1)
<1>1. f \in Frames /\ f.backups \in Seq(Backups)
  BY TopTyped, TopIs DEF StateOK, FrameOK
<1>2. \/ Become([f EXCEPT !.phase = "restore", !.stays = @ \ kept])
      \/ Become([f EXCEPT !.phase = "restore", !.stays = {}, !.parent = Here])
      \/ f.backups # <<>> /\ Become([f EXCEPT !.backups = fewer])
  BY DEF EndBody, Exit, EndSubshell, RestoreNext
<1>3. f.backups # <<>> => fewer \in Seq(Backups)
  BY <1>1, AllButLast
<1>4. "restore" \in Phases
  BY DEF Phases
<1> HIDE DEF f, kept, fewer
<1>5. [f EXCEPT !.phase = "restore", !.stays = @ \ kept] \in Frames
  <2>1. f.stays \ kept \subseteq Visible
    BY <1>1 DEF Frames
  <2> QED
    BY <1>1, <1>4, <2>1 DEF Frames
<1>6. [f EXCEPT !.phase = "restore", !.stays = {}, !.parent = Here] \in Frames
  BY <1>1, <1>4 DEF Frames
<1>7. f.backups # <<>> => [f EXCEPT !.backups = fewer] \in Frames
  BY <1>1, <1>3 DEF Frames
<1> QED
  BY <1>2, <1>5, <1>6, <1>7, BecomeTyped

(* A command returns, and what it has changed for good is told of the one  *)
(* around it.                                                              *)
LEMMA FinishTyped ==
  ASSUME frames \in Seq(Frames), frames # <<>>, Finish
  PROVE  frames' \in Seq(Frames)
<1> DEFINE m == Len(frames) - 1
           rest == Below
           e == rest[m]
           more == Top.stays
           g == [e EXCEPT !.stays = @ \cup more]
<1>1. /\ rest \in Seq(Frames) /\ Len(rest) = m /\ m \in Nat /\ DOMAIN rest = 1 .. m
      /\ m = 0 => rest = <<>>
      /\ m # 0 => m \in 1 .. m
  BY AllButLast DEF Below
<1>2. more \subseteq Visible
  BY TopTyped DEF Frames
<1>3. frames' = IF rest = <<>> THEN <<>> ELSE [rest EXCEPT ![Len(rest)].stays = @ \cup more]
  BY DEF Finish
<1> HIDE DEF m, rest, more
<1>4. CASE m = 0
  BY <1>1, <1>3, <1>4
<1>5. CASE m # 0
  <2>1. e \in Frames /\ rest # <<>>
    BY <1>1, <1>5
  <2>2. frames' = [rest EXCEPT ![m] = g]
    BY <1>1, <1>3, <1>5, <2>1
  <2> HIDE DEF e
  <2>3. e.stays \cup more \subseteq Visible
    BY <1>2, <2>1 DEF Frames
  <2>4. g \in Frames
    BY <2>1, <2>3 DEF Frames
  <2> HIDE DEF g
  <2> QED
    BY <1>1, <1>5, <2>2, <2>4, ExceptSeq
<1> QED
  BY <1>4, <1>5

(* A command or a function starts.                                         *)
LEMMA StartsTyped ==
  ASSUME StateOK, StackTyped, NEW redirs \in RedirectionLists,
         \/ \E kind \in Kinds, prefix \in BOOLEAN : Start(kind, prefix, redirs)
         \/ At("body") /\ CallFunction(redirs)
  PROVE  frames' \in Seq(Frames) /\ size' \in 0 .. session'.size
<1>1. redirs \in Seq(Redirections) /\ Len(redirs) \in Nat /\ size \in Nat /\ session.size \in Nat
  BY ListsOfRedirections, StateTypes DEF StateOK, StackTyped
<1>2. size' \in 0 .. session'.size
  <2> DEFINE more == Len(redirs)
             most == session.size
  <2>1. session' = session
    BY DEF Start, CallFunction
  <2>2. \/ size + 1 + more <= most /\ size' = size + 1 + more
        \/ size + more <= most /\ size' = size + more
    BY DEF Start, CallFunction
  <2>3. more \in Nat /\ size \in Nat /\ most \in Nat
    BY <1>1
  <2> HIDE DEF more, most
  <2>4. size' \in 0 .. most
    BY <2>2, <2>3
  <2> QED
    BY <2>1, <2>4 DEF most
<1>3. ASSUME NEW kind \in Kinds, NEW prefix \in BOOLEAN, Start(kind, prefix, redirs)
      PROVE  frames' \in Seq(Frames)
  <2> DEFINE h == Frame(kind, prefix, redirs)
  <2>1. h \in Frames /\ frames' = Append(frames, h)
    BY <1>1, <1>3, FrameTyped DEF Start
  <2> HIDE DEF h
  <2> QED
    BY <2>1 DEF StackTyped
<1>4. ASSUME At("body"), CallFunction(redirs)
      PROVE  frames' \in Seq(Frames)
  <2> DEFINE h == Frame("definition", FALSE, redirs)
             n == Len(frames)
             f == Top
             g == [f EXCEPT !.phase = "called"]
             ms == [frames EXCEPT ![n] = g]
  <2>1. h \in Frames
    BY <1>1, FrameTyped DEF Kinds, Compound
  <2>2. f \in Frames /\ n \in 1 .. n /\ frames \in Seq(Frames) /\ "called" \in Phases
    BY <1>4, TopTyped DEF StackTyped, At, Phases
  <2>3. frames' = Append([frames EXCEPT ![n].phase = "called"], h)
    BY <1>4 DEF CallFunction
  <2>4. [frames EXCEPT ![n].phase = "called"] = ms
    BY <2>2 DEF Top
  <2> HIDE DEF f, h, n
  <2>5. g \in Frames
    BY <2>2 DEF Frames
  <2> HIDE DEF g
  <2>6. ms \in Seq(Frames)
    BY <2>2, <2>5, ExceptSeq DEF n
  <2>7. frames' = Append(ms, h)
    BY <2>3, <2>4, Zenon
  <2> HIDE DEF ms
  <2> QED
    BY <2>1, <2>6, <2>7
<1> QED
  BY <1>2, <1>3, <1>4

(* Every step keeps the types.                                             *)
LEMMA StackStays ==
  ASSUME StateOK, StackTyped, Next
  PROVE  StackTyped'
<1>1. frames \in Seq(Frames) /\ should_exit \in BOOLEAN
  BY DEF StackTyped
<1>2. should_exit' \in BOOLEAN
  <2>1. /\ EndsShell(Top) \in BOOLEAN
    BY DEF EndsShell
  <2> QED
    BY <1>1, <2>1 DEF Next, Start, OperandsExpand, OperandsFail, ApplyNext, ApplyFails,
       PersistentFails, ApplyAbandoned, PrefixApplied, AllApplied, ValuesExpand, ValuesFail,
       Assign, AssignFails, Spawn, SpawnFails, CallFunction, EndBody, Exit, EndSubshell,
       RestoreNext, AllRestored, Finish
<1>3. ASSUME NEW redirs \in RedirectionLists,
             \/ \E kind \in Kinds, prefix \in BOOLEAN : Start(kind, prefix, redirs)
             \/ At("body") /\ CallFunction(redirs)
      PROVE  StackTyped'
  BY <1>2, <1>3, StartsTyped DEF StackTyped
<1>4. ASSUME \/ OperandsExpand \/ OperandsFail \/ ApplyNext \/ ApplyFails \/ PersistentFails
             \/ ApplyAbandoned \/ PrefixApplied \/ AllApplied \/ ValuesExpand \/ ValuesFail
             \/ Assign \/ AssignFails \/ Spawn \/ SpawnFails \/ EndBody \/ Exit \/ EndSubshell
             \/ RestoreNext \/ AllRestored \/ Finish
      PROVE  StackTyped'
  <2>1. /\ UNCHANGED <<session, size>> /\ frames # <<>>
    BY <1>4 DEF OperandsExpand, OperandsFail, ApplyNext, ApplyFails, PersistentFails,
       ApplyAbandoned, PrefixApplied, AllApplied, ValuesExpand, ValuesFail, Assign, AssignFails,
       Spawn, SpawnFails, EndBody, Exit, EndSubshell, RestoreNext, AllRestored, Finish, At,
       Applying
  <2>2. frames' \in Seq(Frames)
    BY <1>1, <1>4, <2>1, GoesTyped, ApplyingTyped, AppliedTyped, SpawnTyped, EndsTyped,
       FinishTyped
  <2> QED
    BY <1>2, <2>1, <2>2 DEF StackTyped
<1> QED
  BY <1>3, <1>4 DEF Next

(* Every variable has its type, for every session, every depth of nesting  *)
(* and every limit of open files.                                          *)
THEOREM TypeCorrect == Spec => []TypeOK
<1>1. Init => StateOK /\ StackTyped
  <2> SUFFICES ASSUME Init PROVE StateOK /\ StackTyped
    OBVIOUS
  <2>1. StateOK
    BY InitHolds, InitMeant DEF StateOK
  <2>2. StackTyped
    <3>1. session.size \in Nat /\ frames = <<>> /\ should_exit = FALSE /\ size = 0
      BY <2>1, StateTypes DEF Init
    <3> HIDE DEF StateOK
    <3>2. frames \in Seq(Frames) /\ should_exit \in BOOLEAN
      <4> DEFINE all == Frames
      <4>1. <<>> \in Seq(all)
        <5> HIDE DEF all
        <5> QED
          OBVIOUS
      <4> QED
        BY <3>1, <4>1
    <3>3. size \in 0 .. session.size
      BY <3>1
    <3> QED
      BY <3>2, <3>3 DEF StackTyped
  <2> QED
    BY <2>1, <2>2
<1>2. ASSUME StateOK, StackTyped, [Next]_vars
      PROVE  StateOK' /\ StackTyped'
  <2>1. CASE Next
    BY <1>2, <2>1, NextKeeps, NextMeant, SessionStays, StackStays DEF StateOK
  <2>2. CASE UNCHANGED vars
    BY <1>2, <2>2 DEF vars, StateOK, StackTyped, RedirectionsInv, MeantInv
  <2> QED
    BY <1>2, <2>1, <2>2
<1>3. StateOK /\ StackTyped => TypeOK
  BY StateTypes DEF StateOK, StackTyped, TypeOK
<1> QED
  BY <1>1, <1>2, <1>3, PTL DEF Spec
=============================================================================
