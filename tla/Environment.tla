----------------------------- MODULE Environment -----------------------------
(***************************************************************************)
(* The commands that change variables, the current directory and the       *)
(* remembered paths, and those that use them: assignments before nothing,  *)
(* before a function or builtin (temporary, simple_command.c) and by       *)
(* getopts, export, readonly, unset, set -a, cd, and utilities, which are  *)
(* searched for and get the environment (spawn.c).  Before each of them    *)
(* the shell itself assigns LINENO.                                        *)
(*                                                                         *)
(* Calls with temporary assignments nest: the commands of a function run   *)
(* between applying and restoring.  Outside the shell, files of the one    *)
(* command name come and go.  before, made and astray are history.         *)
(*                                                                         *)
(* Left out: options and CDPATH of cd, names that are no names, subshells  *)
(* (a fork copies everything).                                             *)
(***************************************************************************)
EXTENDS Vars

CONSTANTS Dirs,            \* directories, and the values that name them
          Scripts,         \* what a shell is given to run, see script
          MaxCommands,     \* bound on the commands
          MaxCalls,        \* bound on nested calls
          MaxAssignments   \* bound on the assignments before a command

Here == "."                \* the place that depends on the current directory

ASSUME DirsAssumption == Dirs \subseteq Values \ {Empty} /\ Places = Dirs \cup {Here} /\ Here \notin Dirs
ASSUME ScriptsAssumption ==
  Scripts \subseteq [commands : SUBSET {"assign", "getopts", "export", "readonly", "unset",
                                        "allexport", "call", "cd", "run"},
                     values : SUBSET (Names \X Values),   \* the assignments it has
                     lines : SUBSET Values,               \* the lines it stands on
                     environ : SUBSET [Names -> Texts],   \* what it may be started with
                     files : SUBSET Dirs]                 \* directories that may have the command
ASSUME BoundsAssumption == {MaxCommands, MaxCalls, MaxAssignments} \subseteq Nat

VARIABLES script, interactive,
          v,               \* variables and caches (Vars)
          allexport, should_exit,
          cwd,             \* the current directory
          files,           \* the directories that have the command
          frames,          \* the calls under way, innermost last
          ran,             \* the last utility: its place and its environment
          commands,        \* commands so far
          numbered,        \* LINENO was assigned for the next
          made,            \* directories that got the command since PATH was
                           \* assigned or cd succeeded
          astray           \* a cd failed after it had changed the directory

vars == <<script, interactive, v, allexport, should_exit, cwd, files, frames, ran, commands,
          numbered, made, astray>>

Restores == [name : Names, old : Texts, was_exported : BOOLEAN]
Frames == [todo : Seq(Names \X Values), saved : Seq(Restores),
           phase : {"applying", "body", "restoring"},
           before : [Names -> Entries], names : SUBSET Names]

NotRun == [place |-> Nowhere, env |-> NoTexts]

Top == frames[Len(frames)]
Below == SubSeq(frames, 1, Len(frames) - 1)
InPhase(phase) == frames # <<>> /\ Top.phase = phase
SetTop(frame) == frames' = Append(Below, frame)

Present == {p \in Places : (IF p = Here THEN cwd ELSE p) \in files}

(* In the script, or in the body of the innermost call.                    *)
BetweenCommands == /\ ~should_exit
                   /\ commands < MaxCommands
                   /\ frames # <<>> => Top.phase = "body"

(* A command there, once its line is noted.                                *)
Command(kind) == /\ kind \in script.commands
                 /\ BetweenCommands /\ numbered
                 /\ numbered' = FALSE
                 /\ commands' = commands + 1
                 /\ UNCHANGED <<script, interactive>>

(* What an operation on the variables returned is in force; an error of a  *)
(* special builtin or an assignment ends a shell that is not interactive.  *)
Takes(result) == v' = result.v
EndsOnError(result) == should_exit' = (should_exit \/ (result.rc # 0 /\ ~interactive))
Assigned(n, result) == made' = IF n = "PATH" /\ result.rc = 0 THEN {} ELSE made

Outside == <<cwd, files, astray>>

-----------------------------------------------------------------------------
Init ==
  /\ script \in Scripts
  /\ interactive \in BOOLEAN
  /\ \E environ \in script.environ : v = vars_init(environ)
  /\ allexport = FALSE /\ should_exit = FALSE
  /\ cwd \in Dirs
  /\ v.table["PWD"].value \in {NoValue, cwd}
  /\ files \in SUBSET script.files
  /\ frames = <<>>
  /\ ran = NotRun
  /\ commands = 0 /\ numbered = FALSE
  /\ made = {} /\ astray = FALSE

(* Before it executes a command the shell assigns its line to LINENO,      *)
(* read-only or not, and not to be exported (set_lineno_for_command does   *)
(* the same for commands that are cut from text).                          *)
set_lineno_for_ast_node(line) ==
  /\ BetweenCommands /\ ~numbered
  /\ v' = vars_set_with_mode(v, "LINENO", line, FALSE, FALSE).v
  /\ numbered' = TRUE
  /\ UNCHANGED <<script, interactive, allexport, should_exit, frames, ran, commands, made, Outside>>

(* n=value (apply_persistent_assignments), also for, read and $((n=value)). *)
Assign(n, value) ==
  /\ Command("assign")
  /\ LET r == vars_set_assignment(v, n, value, TRUE, allexport)
     IN  Takes(r) /\ EndsOnError(r) /\ Assigned(n, r)
  /\ UNCHANGED <<allexport, frames, ran, Outside>>

(* getopts_set_var: not exported.                                          *)
Getopts(n, value) ==
  /\ Command("getopts")
  /\ LET r == vars_set_with_mode(v, n, value, TRUE, FALSE) IN Takes(r) /\ Assigned(n, r)
  /\ UNCHANGED <<allexport, should_exit, frames, ran, Outside>>

(* export n and export n=value (builtin_export).                           *)
Export(n) ==
  /\ Command("export")
  /\ v' = vars_mark_exported(v, n)
  /\ UNCHANGED <<allexport, should_exit, frames, ran, made, Outside>>

ExportValue(n, value) ==
  /\ Command("export")
  /\ LET r == vars_set_with_mode(v, n, value, TRUE, TRUE)
     IN  Takes(r) /\ EndsOnError(r) /\ Assigned(n, r)
  /\ UNCHANGED <<allexport, frames, ran, Outside>>

(* readonly n and readonly n=value (builtin_readonly).                     *)
Readonly(n) ==
  /\ Command("readonly")
  /\ v' = vars_mark_readonly(v, n)
  /\ UNCHANGED <<allexport, should_exit, frames, ran, made, Outside>>

ReadonlyValue(n, value) ==
  /\ Command("readonly")
  /\ LET r == vars_mark_readonly_with_value(v, n, value)
     IN  Takes(r) /\ EndsOnError(r) /\ Assigned(n, r)
  /\ UNCHANGED <<allexport, frames, ran, Outside>>

Unset(n) ==
  /\ Command("unset")
  /\ LET r == vars_unset(v, n) IN Takes(r) /\ EndsOnError(r)
  /\ UNCHANGED <<allexport, frames, ran, made, Outside>>

SetAllexport(on) ==
  /\ Command("allexport")
  /\ allexport' = on
  /\ UNCHANGED <<v, should_exit, frames, ran, made, Outside>>

-----------------------------------------------------------------------------
(* A function or builtin with assignments before it                        *)
(* (apply_temporary_assignments): they are applied one by one, ...         *)
Call(assignments) ==
  /\ Command("call")
  /\ Len(frames) < MaxCalls
  /\ frames' = Append(frames, [todo |-> assignments, saved |-> <<>>, phase |-> "applying",
                               before |-> v.table, names |-> {}])
  /\ UNCHANGED <<v, allexport, should_exit, ran, made, Outside>>

(* ... each after what it replaces was saved; when one fails, those before *)
(* it are undone and nothing is called.                                    *)
ApplyAssignment ==
  /\ InPhase("applying") /\ Top.todo # <<>>
  /\ LET n == Top.todo[1][1]
         value == Top.todo[1][2]
         w == vars_lookup_entry(v, n)
         restore == [name |-> n, old |-> w.table[n].value, was_exported |-> w.table[n].exported]
         r == vars_set(w, n, value, TRUE)
     IN  /\ Takes(r) /\ EndsOnError(r) /\ Assigned(n, r)
         /\ IF r.rc = 0
            THEN SetTop([Top EXCEPT !.todo = Tail(@), !.saved = Append(@, restore),
                                    !.names = @ \cup {n}])
            ELSE SetTop([Top EXCEPT !.phase = "restoring"])
  /\ UNCHANGED <<script, interactive, allexport, ran, commands, numbered, Outside>>

StartBody ==
  /\ InPhase("applying") /\ Top.todo = <<>>
  /\ SetTop([Top EXCEPT !.phase = "body"])
  /\ UNCHANGED <<script, interactive, v, allexport, should_exit, ran, commands, numbered, made,
                 Outside>>

(* The body ends, perhaps with a command that does nothing.                *)
EndBody ==
  /\ InPhase("body")
  /\ SetTop([Top EXCEPT !.phase = "restoring"])
  /\ numbered' = FALSE
  /\ UNCHANGED <<script, interactive, v, allexport, should_exit, ran, commands, made, Outside>>

(* Mutant: the assignments are undone in the order in which they were made.*)
restore_temporary_assignments_Forwards ==
  /\ InPhase("restoring") /\ Top.saved # <<>>
  /\ LET restore == Top.saved[1]
         n == restore.name
         r == IF restore.old # NoValue
              THEN vars_set_with_mode(v, n, restore.old, FALSE, restore.was_exported)
              ELSE vars_unset(v, n)
     IN  Takes(r) /\ IF restore.old # NoValue THEN Assigned(n, r) ELSE UNCHANGED made
  /\ SetTop([Top EXCEPT !.saved = Tail(@)])
  /\ UNCHANGED <<script, interactive, allexport, should_exit, ran, commands, numbered, Outside>>

(* One turn of the loop that goes backwards.                               *)
restore_temporary_assignments ==
  /\ InPhase("restoring") /\ Top.saved # <<>>
  /\ LET restore == Top.saved[Len(Top.saved)]
         n == restore.name
         r == IF restore.old # NoValue
              THEN vars_set_with_mode(v, n, restore.old, FALSE, restore.was_exported)
              ELSE vars_unset(v, n)
     IN  Takes(r) /\ IF restore.old # NoValue THEN Assigned(n, r) ELSE UNCHANGED made
  /\ SetTop([Top EXCEPT !.saved = SubSeq(@, 1, Len(@) - 1)])
  /\ UNCHANGED <<script, interactive, allexport, should_exit, ran, commands, numbered, Outside>>

Return ==
  /\ InPhase("restoring") /\ Top.saved = <<>>
  /\ frames' = Below
  /\ UNCHANGED <<script, interactive, v, allexport, should_exit, ran, commands, numbered, made,
                 Outside>>

-----------------------------------------------------------------------------
(* cd changes the directory first and the variables afterwards.  A target  *)
(* relative to the current directory is looked for there, and then the     *)
(* directory PWD makes of it, which may not exist.                         *)
builtin_cd(dir, relative) ==
  LET pwd == v.table["PWD"].value
      old_pwd == IF pwd = NoValue THEN cwd ELSE pwd
      looked_up == vars_lookup_entry(v, "PWD")
      logical_fails == relative /\ old_pwd \notin Dirs
      r == vars_set(looked_up, "OLDPWD", old_pwd, TRUE)
      s == vars_set(r.v, "PWD", dir, TRUE)
  IN  /\ cwd' = dir
      /\ v' = IF logical_fails THEN looked_up ELSE IF r.rc # 0 THEN r.v ELSE s.v
      /\ IF ~logical_fails /\ r.rc = 0 /\ s.rc = 0
         THEN astray' = FALSE /\ made' = {}
         ELSE astray' = TRUE /\ UNCHANGED made

Cd(dir, relative) ==
  /\ Command("cd")
  /\ builtin_cd(dir, relative)
  /\ UNCHANGED <<allexport, should_exit, files, frames, ran>>

(* A utility is searched for (command -p: in the standard path) and gets   *)
(* the environment.  The vfork child uses the vector the shell keeps; any  *)
(* other child makes its own (spawn_run_external_argv, run_utility).       *)
RunUtility(use_standard_path, vfork) ==
  /\ Command("run")
  /\ vfork => ~interactive /\ ~use_standard_path
  /\ LET r == path_resolve_command(v, use_standard_path, Present)
         w == vars_build_envp(r.v)
     IN  /\ ran' = IF r.place = Nowhere THEN NotRun ELSE [place |-> r.place, env |-> w.envp]
         /\ v' = IF r.place # Nowhere /\ vfork THEN w ELSE r.v
  /\ UNCHANGED <<allexport, should_exit, frames, made, Outside>>

(* The command appears in a directory, or is removed from it.              *)
FileChanges(dir) ==
  /\ "run" \in script.commands
  /\ dir \in script.files
  /\ commands < MaxCommands
  /\ commands' = commands + 1
  /\ IF dir \in files THEN files' = files \ {dir} /\ UNCHANGED made
                      ELSE files' = files \cup {dir} /\ made' = made \cup {dir}
  /\ UNCHANGED <<script, interactive, v, allexport, should_exit, cwd, frames, ran, numbered,
                 astray>>

Assignments == UNION {[1..k -> script.values] : k \in 1..MaxAssignments}

Next ==
  \/ \E line \in script.lines : set_lineno_for_ast_node(line)
  \/ \E n \in Names, value \in Values :
       /\ <<n, value>> \in script.values
       /\ Assign(n, value) \/ Getopts(n, value) \/ ExportValue(n, value) \/ ReadonlyValue(n, value)
  \/ \E n \in Names :
       /\ \E value \in Values : <<n, value>> \in script.values
       /\ Export(n) \/ Readonly(n) \/ Unset(n)
  \/ \E on \in BOOLEAN : SetAllexport(on)
  \/ \E assignments \in Assignments : Call(assignments)
  \/ ApplyAssignment \/ StartBody \/ EndBody \/ restore_temporary_assignments \/ Return
  \/ \E dir \in Dirs, relative \in BOOLEAN : Cd(dir, relative)
  \/ \E use_standard_path, vfork \in BOOLEAN : RunUtility(use_standard_path, vfork)
  \/ \E dir \in Dirs : FileChanges(dir)

Spec == Init /\ [][Next]_vars

-----------------------------------------------------------------------------
TypeOK ==
  /\ script \in Scripts /\ interactive \in BOOLEAN
  /\ v \in Stores
  /\ \A n \in Names :
       /\ v.table[n] = vars_sync_export_text(v.table[n])
       /\ v.table[n].value = NoValue => v.table[n] = Absent
  /\ allexport \in BOOLEAN /\ should_exit \in BOOLEAN /\ astray \in BOOLEAN
  /\ cwd \in Dirs /\ files \subseteq Dirs /\ made \subseteq Dirs
  /\ frames \in Seq(Frames)
  /\ ran \in [place : Places \cup {Nowhere}, env : [Names -> Texts]]
  /\ commands \in Nat /\ numbered \in BOOLEAN

Environ(table) == [n \in Names |-> IF table[n].exported THEN table[n].value ELSE NoValue]

(* While the vector of exec is not marked dirty its pointers lead to the   *)
(* present texts of exactly the exported variables: every path that        *)
(* assigns, exports, un-exports or unsets one marks it, and so a utility   *)
(* never gets a stale or freed text.                                       *)
EnvpIsCurrent == v.built /\ ~v.dirty => v.envp = Environ(v.table)

(* The lookup cache never points at an entry that was freed.               *)
MruIsLive == v.mru # NoName => v.table[v.mru].value # NoValue

(* When a call with assignments returns, also one whose assignments failed *)
(* half-way, each name it assigned is as it was before, in value and in    *)
(* export, whatever the body and the calls in it did; a name that was not  *)
(* set and is read-only now cannot be unset.                               *)
TemporariesUndone ==
  InPhase("restoring") /\ Top.saved = <<>> =>
    \A n \in Top.names :
      \/ /\ v.table[n].value = Top.before[n].value
         /\ v.table[n].exported = Top.before[n].exported
      \/ Top.before[n].value = NoValue /\ v.table[n].readonly

(* A remembered place that would be used now is the one a search would     *)
(* find, unless a file was made since: neither cd nor assignments to PATH  *)
(* leave places behind that mean something else now ("running command in   *)
(* different directory with relative path in $PATH", "assignment to $PATH  *)
(* removes all remembered command paths", tests/posix/simple-p.tst).  A cd *)
(* that fails half-way does (see README).                                  *)
PathCacheIsFresh ==
  \A use_standard_path \in BOOLEAN :
    LET value == IF use_standard_path THEN StandardPath ELSE v.table["PATH"].value
        found == path_search_command_in_path(value, Present)
    IN  ~astray /\ value \notin {NoValue, Empty}
          /\ path_cache_hit(v, <<value, use_standard_path>>, Present) =>
            \/ v.paths[<<value, use_standard_path>>] = found
            \/ (IF found = Here THEN cwd ELSE found) \in made

(* A read-only variable stays so and keeps its value, with two exceptions: *)
(* when temporary assignments are undone, and for LINENO, which            *)
(* set_lineno_for_ast_node writes before every command whether it is       *)
(* read-only or not (see README).  No command writes any of them, LINENO   *)
(* included.                                                               *)
ReadonlyKeepsItsValue ==
  [][\A n \in Names :
       v.table[n].readonly =>
         /\ v'.table[n].readonly
         /\ \/ v'.table[n].value = v.table[n].value
            \/ InPhase("restoring")
            \/ n = "LINENO" /\ ~numbered /\ numbered']_vars
=============================================================================
