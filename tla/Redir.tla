------------------------------- MODULE Redir -------------------------------
(***************************************************************************)
(* The functions of redir.c as operators on a descriptor table.  The table *)
(* gives for each descriptor the open file behind it or Closed; the kernel *)
(* gives out the lowest free descriptor, fcntl(F_DUPFD) the lowest free    *)
(* one from FirstSaved on.  Programs name descriptors below FirstSaved     *)
(* (Visible); those from there on are the shell's own.                     *)
(***************************************************************************)
EXTENDS Integers, FiniteSets, Sequences

CONSTANTS FirstSaved,   \* the 10 of redir.c:79
          LastFd,       \* the limit of open files
          Files,        \* names of regular files
          Unreachable   \* those that cannot be opened or created

ASSUME DescriptorsAssumption ==
  /\ FirstSaved \in Nat \ {0}
  /\ LastFd \in Nat
  /\ FirstSaved < LastFd
  /\ Unreachable \subseteq Files

Fds == 0..LastFd
Visible == 0..(FirstSaved - 1)

(* What is behind a descriptor: a file, the terminal or the text of a here-*)
(* document, how it may be used, and whether exec closes it.               *)
Modes == {"r", "w", "rw"}
Terminal == "terminal"
Text == "here-document"
Open(file, mode) == [file |-> file, mode |-> mode, cloexec |-> FALSE]
Closed == Open("none", "closed")
OpenFiles == [file : Files \cup {Terminal, Text}, mode : Modes, cloexec : BOOLEAN]
Tables == [Fds -> OpenFiles \cup {Closed}]

(* A copy of a descriptor is one that exec leaves open.                    *)
Copy(what) == [what EXCEPT !.cloexec = FALSE]

(* struct redir_spec: kind, target_fd, source_fd, path, force_clobber.     *)
Opening == {"read", "rdwr", "write", "append"}
Redirections ==
  [kind : Opening, target : Visible, path : Files, force : BOOLEAN]
    \cup [kind : {"dup_in", "dup_out"}, target : Visible, source : Visible]
    \cup [kind : {"close", "heredoc"}, target : Visible]

-----------------------------------------------------------------------------
(* The kernel.                                                             *)

FreeFrom(fds, first) == {d \in first..LastFd : fds[d] = Closed}
Lowest(S) == CHOOSE d \in S : \A e \in S : d <= e

(* What open makes: for reading the file has to be there, otherwise it is  *)
(* created.                                                                *)
CanOpen(present, r) ==
  /\ r.path \notin Unreachable
  /\ r.kind = "read" => r.path \in present

ModeOf(kind) ==
  CASE kind = "read" -> "r"
    [] kind = "rdwr" -> "rw"
    [] kind \in {"write", "append"} -> "w"

(* dup2 does nothing if its target is the source itself.                   *)
Dup2(fds, source, target) ==
  IF source = target THEN fds ELSE [fds EXCEPT ![target] = Copy(fds[source])]

(* What is left of a table after exec.                                     *)
AfterExec(fds) == [d \in Fds |-> IF fds[d].cloexec THEN Closed ELSE fds[d]]

-----------------------------------------------------------------------------
(* apply_one_redirection: the result has the status, the table and the     *)
(* files that exist afterwards.                                            *)

Result(rc, fds, present) == [rc |-> rc, fds |-> fds, present |-> present]

(* Mutant: the opened descriptor is closed although it is the target.      *)
Install_ClosesTarget(fds, present, target, what) ==
  LET d == Lowest(FreeFrom(fds, 0))
  IN  IF FreeFrom(fds, 0) = {} THEN Result(1, fds, present)
      ELSE Result(0, [Dup2([fds EXCEPT ![d] = what], d, target) EXCEPT ![d] = Closed], present)

(* The file is opened at the lowest free descriptor and moved to the       *)
(* target, if it is not there already.                                     *)
Install(fds, present, target, what) ==
  LET free == FreeFrom(fds, 0)
      d == Lowest(free)
      opened == [fds EXCEPT ![d] = what]
  IN  IF free = {} THEN Result(1, fds, present)
      ELSE IF d = target THEN Result(0, opened, present)
      ELSE Result(0, [Dup2(opened, d, target) EXCEPT ![d] = Closed], present)

Clobbers(present, noclobber, r) ==
  r.kind = "write" /\ noclobber /\ ~r.force /\ r.path \in present

(* Mutant: the file is created before it is tested.                        *)
apply_opening_CreatesFirst(fds, present, noclobber, r) ==
  IF Clobbers(present \cup {r.path}, noclobber, r) \/ ~CanOpen(present, r)
  THEN Result(1, fds, present)
  ELSE Install(fds, present \cup {r.path}, r.target, Open(r.path, ModeOf(r.kind)))

(* open takes a descriptor first: when there is none it makes no file.     *)
apply_opening(fds, present, noclobber, r) ==
  IF Clobbers(present, noclobber, r) \/ ~CanOpen(present, r) \/ FreeFrom(fds, 0) = {}
  THEN Result(1, fds, present)
  ELSE Install(fds, present \cup {r.path}, r.target, Open(r.path, ModeOf(r.kind)))

(* materialize_heredoc_fd: the text is in a file that exec closes.         *)
apply_heredoc(fds, present, r) ==
  Install(fds, present, r.target, [Open(Text, "rw") EXCEPT !.cloexec = TRUE])

Refused(fds, r) ==
  \/ fds[r.source] = Closed
  \/ r.kind = "dup_in" /\ fds[r.source].mode = "w"
  \/ r.kind = "dup_out" /\ fds[r.source].mode = "r"

apply_dup(fds, present, r) ==
  IF Refused(fds, r) THEN Result(1, fds, present)
  ELSE Result(0, Dup2(fds, r.source, r.target), present)

apply_one_redirection(fds, present, noclobber, r) ==
  CASE r.kind \in Opening             -> apply_opening(fds, present, noclobber, r)
    [] r.kind = "heredoc"             -> apply_heredoc(fds, present, r)
    [] r.kind \in {"dup_in", "dup_out"} -> apply_dup(fds, present, r)
    [] r.kind = "close"               -> Result(0, [fds EXCEPT ![r.target] = Closed], present)

(* apply_redirections without saving: it ends at the first that fails.     *)
apply_redirections(fds, present, noclobber, redirs) ==
  LET run[i \in 0..Len(redirs)] ==
        IF i = 0 THEN Result(0, fds, present)
        ELSE LET before == run[i - 1]
             IN  IF before.rc # 0 THEN before
                 ELSE apply_one_redirection(before.fds, before.present, noclobber, redirs[i])
  IN  run[Len(redirs)]

-----------------------------------------------------------------------------
(* struct fd_backup and fd_backup_vec.                                     *)

Backups == [fd : Visible, saved_fd : (Fds \ Visible) \cup {-1}, was_open : BOOLEAN]

SavedFds(backups) == {b.saved_fd : b \in {backups[i] : i \in DOMAIN backups}} \ {-1}
SavedFor(backups) == {backups[i].fd : i \in DOMAIN backups}

(* Mutant: dup instead of F_DUPFD.                                         *)
fd_backup_save_Dup(fds, backups, fd) ==
  LET d == Lowest(FreeFrom(fds, 0))
  IN  IF fd \in SavedFor(backups) \/ FreeFrom(fds, 0) = {} \/ fds[fd] = Closed
      THEN [rc |-> 0, fds |-> fds, backups |-> backups]
      ELSE [rc |-> 0, fds |-> Dup2(fds, fd, d),
            backups |-> Append(backups, [fd |-> fd, saved_fd |-> d, was_open |-> TRUE])]

(* fd_backup_save: a descriptor is saved once; -1 stands for saved_fd < 0. *)
(* It fails if there is no descriptor left.                                *)
fd_backup_save(fds, backups, fd) ==
  LET free == FreeFrom(fds, FirstSaved)
      d == Lowest(free)
      keep(b, table) == [rc |-> 0, fds |-> table, backups |-> Append(backups, b)]
  IN  IF fd \in SavedFor(backups)
      THEN [rc |-> 0, fds |-> fds, backups |-> backups]
      ELSE IF fds[fd] = Closed
      THEN keep([fd |-> fd, saved_fd |-> -1, was_open |-> FALSE], fds)
      ELSE IF free = {}
      THEN [rc |-> 1, fds |-> fds, backups |-> backups]
      ELSE keep([fd |-> fd, saved_fd |-> d, was_open |-> TRUE],
                [fds EXCEPT ![d] = Copy(fds[fd])])

(* Mutant: the saved descriptor stays open.                                *)
fd_backup_undo_KeepsSaved(fds, b) ==
  IF b.was_open THEN Dup2(fds, b.saved_fd, b.fd)
  ELSE [fds EXCEPT ![b.fd] = Closed]

(* One round of the loop of fd_backup_restore.                             *)
fd_backup_undo(fds, b) ==
  IF b.was_open
  THEN [Dup2(fds, b.saved_fd, b.fd) EXCEPT ![b.saved_fd] = Closed]
  ELSE [fds EXCEPT ![b.fd] = Closed]

-----------------------------------------------------------------------------
(* What redirections mean, without the shell's own descriptors: from left  *)
(* to right, each changes its target.  The reference for the operators     *)
(* above.                                                                  *)
Meaning(view, present, noclobber, redirs) ==
  LET refused(v, there, r) ==
        CASE r.kind \in Opening -> \/ ~CanOpen(there, r)
                                   \/ Clobbers(there, noclobber, r)
          [] r.kind \in {"dup_in", "dup_out"} -> Refused(v, r)
          [] OTHER -> FALSE
      effect(v, r) ==
        CASE r.kind \in Opening -> Open(r.path, ModeOf(r.kind))
          [] r.kind = "heredoc" -> Open(Text, "rw")
          [] r.kind = "close"   -> Closed
          [] OTHER              -> v[r.source]
      run[i \in 0..Len(redirs)] ==
        IF i = 0 THEN [rc |-> 0, view |-> view, present |-> present]
        ELSE LET m == run[i - 1]
                 r == redirs[i]
             IN  IF m.rc # 0 \/ refused(m.view, m.present, r)
                 THEN [m EXCEPT !.rc = 1]
                 ELSE [rc |-> 0, view |-> [m.view EXCEPT ![r.target] = effect(m.view, r)],
                       present |-> IF r.kind \in Opening THEN m.present \cup {r.path}
                                                         ELSE m.present]
  IN  run[Len(redirs)]

(* The part of a table that commands of the shell see.                     *)
View(fds) == [d \in Visible |-> Copy(fds[d])]
=============================================================================
