--------------------------- MODULE SimpleCommand ---------------------------
(***************************************************************************)
(* Commands with redirections and what they do to the descriptor table of  *)
(* the shell: simple_command.c, and the places in ast_exec.c, exec.c and   *)
(* spawn.c that apply redirections.  Commands nest: functions, groups,     *)
(* subshells, eval, and traps that run while the shell waits for a child.  *)
(* `frames' are the calls under way.  What a script does is free: any      *)
(* command may come next, and expansions and assignments may fail.         *)
(***************************************************************************)
EXTENDS Redir

CONSTANTS Sessions,   \* kinds of scripts, see SessionsAssumption
          MaxRedirs,  \* bound: redirections of one command
          MaxDepth    \* bound: nested commands

(* A session: the options of the shell, the files that exist, the          *)
(* redirections that the script may contain, and a bound on its commands   *)
(* and redirections.                                                       *)
ASSUME SessionsAssumption ==
  /\ MaxRedirs \in Nat
  /\ MaxDepth \in Nat
  /\ \A s \in Sessions : /\ {s.interactive, s.noclobber} \subseteq BOOLEAN
                          /\ s.present \subseteq Files \ Unreachable
                          /\ s.written \subseteq Redirections
                          /\ s.size \in Nat

VARIABLES
  session,      \* state->interactive and noclobber, and the bounds
  should_exit,  \* state->should_exit of the process that runs
  fds,          \* its descriptor table
  present,      \* the files that exist
  frames,       \* the commands under way, innermost last
  leaked,       \* history: saved descriptors that nothing will restore
  size          \* commands and redirections so far

vars == <<session, should_exit, fds, present, frames, leaked, size>>

(***************************************************************************)
(* Kinds of commands: a utility, redirections alone, words that expand to  *)
(* nothing, assignments alone; builtins: regular, special (special_name),  *)
(* `exec' and `command exec' (persist_builtin_redirs); a function and the  *)
(* body of its definition with the redirections written there; a compound  *)
(* command; a subshell.                                                    *)
(***************************************************************************)
Special == {"special", "exec"}
Persistent == {"exec", "command_exec"}
Children == {"external", "empty"}
Prefixable == {"external", "builtin", "function", "command_exec"} \cup Special
Compound == {"compound", "subshell"}
Kinds == Children \cup Prefixable \cup Compound \cup {"nothing", "assignment", "definition"}

(* Inside these, commands of this shell run: the body, or traps during the *)
(* wait for the child.                                                     *)
Nesting == Children \cup Compound \cup {"special", "definition"}
Bodiless == {"nothing", "assignment"} \cup Persistent

Phases == {"operands", "prefix", "values", "unprefix", "assign", "apply", "spawn",
           "body", "called", "restore", "done"}

(* What comes of the redirections: nothing yet, the command is given its   *)
(* descriptors, one is refused, or there is no descriptor left.            *)
Views == [Visible -> OpenFiles \cup {Closed}]
Outcomes == {"open", "given", "refused", "no room"}

Here == [fds |-> <<>>, leaked |-> {}]

Frame(kind, prefix, redirs) ==
  [kind    |-> kind,
   prefix  |-> prefix,         \* are there assignments before the command?
   redirs  |-> redirs,
   phase   |-> IF kind = "empty" THEN "spawn" ELSE "operands",
   next    |-> 1,              \* the redirection to apply next
   backups |-> <<>>,           \* pre_expand_backups, then fd_backups
   before  |-> View(fds),      \* history: descriptors and files at the start
   there   |-> present,
   outcome |-> "open",         \* history: what came of the redirections,
   given   |-> View(fds),      \* and the descriptors the command was given
   stays   |-> {},             \* history: descriptors changed for good inside
   parent  |-> Here]           \* the parent of a subshell while that runs

Top == frames[Len(frames)]
Below == SubSeq(frames, 1, Len(frames) - 1)
At(phase) == frames # <<>> /\ Top.phase = phase
Become(frame) == frames' = [frames EXCEPT ![Len(frames)] = frame]
Go(phase) == Become([Top EXCEPT !.phase = phase])
Targets(redirs) == {redirs[i].target : i \in DOMAIN redirs}

RedirectionLists == UNION {[1..n -> session.written] : n \in 0..MaxRedirs}

-----------------------------------------------------------------------------
Init ==
  /\ session \in Sessions
  /\ present = session.present
  /\ should_exit = FALSE
  /\ fds = [d \in Fds |-> IF d \in Visible THEN Open(Terminal, "rw") ELSE Closed]
  /\ frames = <<>>
  /\ leaked = {}
  /\ size = 0

(* execute_ast_node or simple_command_execute_parts is called.             *)
MayStart ==
  /\ ~should_exit
  /\ frames # <<>> => Top.phase = "body" /\ Top.kind \in Nesting
  /\ Len(frames) < MaxDepth
  /\ size < session.size

Start(kind, prefix, redirs) ==
  /\ MayStart
  /\ kind # "definition"
  /\ prefix => kind \in Prefixable
  /\ kind = "empty" => redirs # <<>>
  /\ size + 1 + Len(redirs) <= session.size
  /\ size' = size + 1 + Len(redirs)
  /\ frames' = Append(frames, Frame(kind, prefix, redirs))
  /\ UNCHANGED <<session, should_exit, fds, present, leaked>>

(* prepare_runtime_redirections and redir_expand_operands.  Redirections   *)
(* before whose command there are assignments are then put in force for    *)
(* the expansion of the values, unless the command is a special builtin.   *)
AfterOperands(f) ==
  CASE f.kind = "assignment"               -> "values"
    [] f.prefix /\ f.kind \in Special      -> "values"
    [] f.prefix /\ f.kind \notin Special   -> "prefix"
    [] ~f.prefix /\ f.kind = "external"    -> "spawn"
    [] OTHER                               -> "apply"

OperandsExpand ==
  /\ At("operands")
  /\ Go(AfterOperands(Top))
  /\ UNCHANGED <<session, should_exit, fds, present, leaked, size>>

OperandsFail ==
  /\ At("operands")
  /\ Go("done")
  /\ UNCHANGED <<session, should_exit, fds, present, leaked, size>>

(***************************************************************************)
(* One round of the loop of apply_redirections: save, then apply.  What a  *)
(* failure leads to is told apart below.                                   *)
(***************************************************************************)
Applying == At("prefix") \/ At("apply")

Saved == IF Top.kind \in Persistent /\ Top.phase = "apply"
         THEN [rc |-> 0, fds |-> fds, backups |-> <<>>]
         ELSE fd_backup_save(fds, Top.backups, Top.redirs[Top.next].target)

Applied == apply_one_redirection(Saved.fds, present, session.noclobber, Top.redirs[Top.next])

Step == [Top EXCEPT !.backups = Saved.backups]
Fails == Saved.rc # 0 \/ Applied.rc # 0
Reason == IF Saved.rc # 0 \/ FreeFrom(Saved.fds, 0) = {} THEN "no room" ELSE "refused"
AppliedTargets == Targets(SubSeq(Top.redirs, 1, Top.next - 1))

ApplyNext ==
  /\ Applying
  /\ Top.next <= Len(Top.redirs)
  /\ ~Fails
  /\ fds' = Applied.fds
  /\ present' = Applied.present
  /\ Become([Step EXCEPT !.next = Top.next + 1])
  /\ UNCHANGED <<session, should_exit, leaked, size>>

(* A special builtin whose redirection fails ends a non-interactive shell. *)
EndsShell(f) == f.kind \in Special /\ f.phase = "apply" /\ ~session.interactive

(* Most callers restore what has been saved.                               *)
ApplyFails ==
  /\ At("apply")
  /\ Top.kind \notin Persistent \cup {"definition"}
  /\ Top.next <= Len(Top.redirs)
  /\ Fails
  /\ fds' = Saved.fds
  /\ should_exit' = EndsShell(Top)
  /\ Become([Step EXCEPT !.phase = "restore", !.outcome = Reason])
  /\ UNCHANGED <<session, present, leaked, size>>

(* `exec' keeps what came before the one that fails.                       *)
PersistentFails ==
  /\ At("apply")
  /\ Top.kind \in Persistent
  /\ Top.next <= Len(Top.redirs)
  /\ Fails
  /\ should_exit' = EndsShell(Top)
  /\ Become([Top EXCEPT !.phase = "done", !.outcome = Reason, !.stays = @ \cup AppliedTargets])
  /\ UNCHANGED <<session, fds, present, leaked, size>>

(* simple_command.c:428 and :711: nothing restores what has been saved for *)
(* a command with assignments before it or for a function's own            *)
(* redirections.                                                           *)
ApplyAbandoned ==
  /\ At("prefix") \/ (At("apply") /\ Top.kind = "definition")
  /\ Top.next <= Len(Top.redirs)
  /\ Fails
  /\ fds' = Saved.fds
  /\ leaked' = leaked \cup SavedFds(Saved.backups)
  /\ Become([Step EXCEPT !.phase = "done", !.backups = <<>>, !.outcome = Reason,
                         !.stays = @ \cup SavedFor(Saved.backups)])
  /\ UNCHANGED <<session, should_exit, present, size>>

(* All are in force.                                                       *)
PrefixApplied ==
  /\ At("prefix")
  /\ Top.next > Len(Top.redirs)
  /\ Become([Top EXCEPT !.phase = "values", !.next = 1])
  /\ UNCHANGED <<session, should_exit, fds, present, leaked, size>>

AllApplied ==
  /\ At("apply")
  /\ Top.next > Len(Top.redirs)
  /\ Become([Top EXCEPT !.phase = CASE Top.kind \in Persistent -> "done"
                                    [] Top.kind \in Bodiless \ Persistent -> "restore"
                                    [] OTHER -> "body",
                        !.outcome = "given", !.given = View(fds),
                        !.stays = IF Top.kind \in Persistent THEN @ \cup Targets(Top.redirs) ELSE @,
                        !.parent = IF Top.kind = "subshell"
                                   THEN [fds |-> fds, leaked |-> leaked] ELSE Here])
  /\ UNCHANGED <<session, should_exit, fds, present, leaked, size>>

-----------------------------------------------------------------------------
(* Assignments: their values are expanded while the redirections are in    *)
(* force, which are undone before the assignment.  done: undoes them too.  *)
ValuesExpand ==
  /\ At("values")
  /\ Go("unprefix")
  /\ UNCHANGED <<session, should_exit, fds, present, leaked, size>>

(* Mutant: done: does not restore.                                         *)
ValuesFail_NoRestore ==
  /\ At("values")
  /\ Go("done")
  /\ UNCHANGED <<session, should_exit, fds, present, leaked, size>>

ValuesFail ==
  /\ At("values")
  /\ Go("restore")
  /\ UNCHANGED <<session, should_exit, fds, present, leaked, size>>

Assign ==
  /\ At("assign")
  /\ Go(IF Top.kind = "external" THEN "spawn" ELSE "apply")
  /\ UNCHANGED <<session, should_exit, fds, present, leaked, size>>

(* A read-only variable.                                                   *)
AssignFails ==
  /\ At("assign")
  /\ Go("done")
  /\ UNCHANGED <<session, should_exit, fds, present, leaked, size>>

-----------------------------------------------------------------------------
(* spawn_run_external_argv and simple_command_run_redirs_only_child: the   *)
(* child applies the redirections to its own table, a utility then loses   *)
(* what exec closes.  The files it makes stay.                             *)
Spawn ==
  LET child == apply_redirections(fds, present, session.noclobber, Top.redirs)
      table == IF Top.kind = "external" THEN AfterExec(child.fds) ELSE child.fds
  IN  /\ At("spawn")
      /\ present' = child.present
      /\ Become([Top EXCEPT !.phase = "body",
                            !.outcome = CASE child.rc = 0 -> "given"
                                          [] child.rc # 0 /\ FreeFrom(child.fds, 0) = {}
                                               -> "no room"
                                          [] OTHER -> "refused",
                            !.given = View(table)])
      /\ UNCHANGED <<session, should_exit, fds, leaked, size>>

(* The utility is not found, the child cannot be made, or it cannot expand *)
(* the operands.                                                           *)
SpawnFails ==
  /\ At("spawn")
  /\ Go("done")
  /\ UNCHANGED <<session, should_exit, fds, present, leaked, size>>

(* A function is called: the redirections of its definition are applied to *)
(* each call.                                                              *)
CallFunction(redirs) ==
  /\ At("body")
  /\ Top.kind = "function"
  /\ size + Len(redirs) <= session.size
  /\ size' = size + Len(redirs)
  /\ frames' = Append([frames EXCEPT ![Len(frames)].phase = "called"],
                      Frame("definition", FALSE, redirs))
  /\ UNCHANGED <<session, should_exit, fds, present, leaked>>

(* The body is over.  A subshell ends with its table.                      *)
EndBody ==
  /\ \/ At("body") /\ Top.kind \notin {"function", "subshell"}
     \/ At("called")
  /\ Become([Top EXCEPT !.phase = "restore", !.stays = @ \ SavedFor(Top.backups)])
  /\ UNCHANGED <<session, should_exit, fds, present, leaked, size>>

(* exit, or exec that finds no utility: the callers unwind.                *)
Exit ==
  /\ At("body")
  /\ Top.kind = "special"
  /\ should_exit' = TRUE
  /\ Become([Top EXCEPT !.phase = "restore", !.stays = @ \ SavedFor(Top.backups)])
  /\ UNCHANGED <<session, fds, present, leaked, size>>

EndSubshell ==
  /\ At("body")
  /\ Top.kind = "subshell"
  /\ fds' = Top.parent.fds
  /\ leaked' = Top.parent.leaked
  /\ should_exit' = FALSE
  /\ Become([Top EXCEPT !.phase = "restore", !.stays = {}, !.parent = Here])
  /\ UNCHANGED <<session, present, size>>

(* One round of the loop of fd_backup_restore, from the last to the first. *)
RestoreNext ==
  /\ At("restore") \/ At("unprefix")
  /\ Top.backups # <<>>
  /\ LET last == Len(Top.backups)
     IN  /\ fds' = fd_backup_undo(fds, Top.backups[last])
         /\ Become([Top EXCEPT !.backups = SubSeq(@, 1, last - 1)])
  /\ UNCHANGED <<session, should_exit, present, leaked, size>>

AllRestored ==
  /\ At("restore") \/ At("unprefix")
  /\ Top.backups = <<>>
  /\ Go(IF Top.phase = "restore" THEN "done" ELSE "assign")
  /\ UNCHANGED <<session, should_exit, fds, present, leaked, size>>

(* The command returns.                                                    *)
Finish ==
  /\ At("done")
  /\ frames' = IF Below = <<>> THEN <<>>
               ELSE [Below EXCEPT ![Len(Below)].stays = @ \cup Top.stays]
  /\ UNCHANGED <<session, should_exit, fds, present, leaked, size>>

Next ==
  \/ /\ MayStart
     /\ \E kind \in Kinds, prefix \in BOOLEAN, redirs \in RedirectionLists :
          Start(kind, prefix, redirs)
  \/ OperandsExpand \/ OperandsFail
  \/ ApplyNext \/ ApplyFails \/ PersistentFails \/ ApplyAbandoned
  \/ PrefixApplied \/ AllApplied
  \/ ValuesExpand \/ ValuesFail \/ Assign \/ AssignFails
  \/ Spawn \/ SpawnFails
  \/ /\ At("body") /\ Top.kind = "function"
     /\ \E redirs \in RedirectionLists : CallFunction(redirs)
  \/ EndBody \/ Exit \/ EndSubshell
  \/ RestoreNext \/ AllRestored \/ Finish

Spec == Init /\ [][Next]_vars
-----------------------------------------------------------------------------
(* Every variable has its type.                                            *)
Frames ==
  [kind : Kinds, prefix : BOOLEAN, redirs : Seq(Redirections), phase : Phases,
   next : Nat, backups : Seq(Backups), before : Views, there : SUBSET Files,
   outcome : Outcomes, given : Views, stays : SUBSET Visible,
   parent : {Here} \cup [fds : Tables, leaked : SUBSET Fds]]

TypeOK ==
  /\ session \in Sessions
  /\ should_exit \in BOOLEAN
  /\ fds \in Tables
  /\ present \subseteq Files
  /\ frames \in Seq(Frames)
  /\ leaked \subseteq Fds \ Visible
  /\ size \in 0..session.size

(* A descriptor from FirstSaved on is open if and only if one command      *)
(* under way has saved something in it, or it has been abandoned: nothing  *)
(* is saved over what another command has saved, restored twice or closed  *)
(* before it is restored (fd_backup_save, fd_backup_restore and their      *)
(* callers).                                                               *)
Owned(i) == SavedFds(frames[i].backups)

SavedAreOwned ==
  \A d \in Fds \ Visible :
    /\ fds[d] # Closed <=> d \in leaked \/ \E i \in DOMAIN frames : d \in Owned(i)
    /\ \A i \in DOMAIN frames : d \in Owned(i) => d \notin leaked
    /\ \A i, j \in DOMAIN frames :
         \A k \in DOMAIN frames[i].backups, l \in DOMAIN frames[j].backups :
           frames[i].backups[k].saved_fd = d /\ frames[j].backups[l].saved_fd = d
             => i = j /\ k = l

(* When a command is over, however it ended, the shell has the descriptors *)
(* it had before, but for those that `exec' or an abandoned command inside *)
(* has changed and the command itself had not redirected.                  *)
Restored ==
  At("done") => \A d \in Visible \ Top.stays : View(fds)[d] = Top.before[d]

(* Commands, groups and functions are run with the descriptors that their  *)
(* redirections mean, whatever descriptors the shell needs to bring that   *)
(* about, and are refused only if their redirections mean nothing.  Left   *)
(* out: a here-document that lands on a closed descriptor without being    *)
(* moved, which exec closes, and refusals of commands with assignments     *)
(* before them under `set -C'.                                             *)
Meant(f) == Meaning(f.before, f.there, session.noclobber, f.redirs)

GivenAsMeant(f) ==
  /\ Meant(f).rc = 0
  /\ \A d \in Visible : \/ f.given[d] = Meant(f).view[d]
                        \/ /\ f.kind = "external"
                           /\ f.given[d] = Closed
                           /\ Meant(f).view[d].file = Text

AppliedAsMeant ==
  \A i \in DOMAIN frames :
    LET f == frames[i]
    IN  /\ f.outcome = "given" => GivenAsMeant(f)
        /\ f.outcome = "refused" /\ ~(f.prefix /\ session.noclobber) => Meant(f).rc # 0
=============================================================================
