----------------------------- MODULE Lifetimes -----------------------------
(***************************************************************************)
(* Which memory the commands of a shell use while they run, and when it is *)
(* released: shell_run_command (shell.c), simple commands, texts           *)
(* (program_text.c), functions with their parsed programs (functions.c),   *)
(* files that are read, and the children that forks start.                 *)
(*                                                                         *)
(*   arenas     script and cmd of the shell, and the cache of each         *)
(*              function.  arena_perm is never released and left out, as   *)
(*              are strings on the heap.                                   *)
(*   current    g_current_arena                                            *)
(*   functions  the table: [set, attempted, program], where the program    *)
(*              is the address of cached_program, or Nowhere               *)
(*   frames     the C functions under way, innermost last: the arena a     *)
(*              frame has marked ("" for none), the mark, the arena that   *)
(*              was current, and the addresses it goes on using            *)
(*                                                                         *)
(* Memory is that of one process; a fork goes on as the child.             *)
(***************************************************************************)
EXTENDS Arena, FiniteSets

CONSTANTS Functions,     \* names of functions
          Sizes,         \* what is asked of an arena
          MaxFrames,     \* bound on nesting
          MaxBlocks,     \* bound on the blocks of an arena
          MaxHeld        \* bound on what one frame allocates

Own == {"script", "cmd"}

ASSUME FunctionsAssumption == Functions \cap (Own \cup {"perm", ""}) = {}
ASSUME SizesAssumption == Sizes \subseteq Nat \ {0}
ASSUME LifetimesBoundsAssumption == {MaxFrames, MaxBlocks, MaxHeld} \subseteq Nat

VARIABLES arenas, current, functions, frames
vars == <<arenas, current, functions, frames>>

Top == Last(frames)
InFrame(kinds) == frames # <<>> /\ Top.k \in kinds

WithinBounds == \A a \in DOMAIN arenas : Len(arenas[a].chain \o arenas[a].free) <= MaxBlocks

Nowhere == [arena |-> "", block |-> 0, end |-> 0]

(* Mutant: only the arena of programs counts as that of a command.         *)
top_level_command_ScriptOnly == current # "script"

top_level_command == current \notin Own

Frame(k, arena, holds) ==
  [k |-> k, arena |-> arena, mark |-> IF arena = "" THEN NoMark ELSE arena_mark_take(arenas[arena]),
   saved |-> current, holds |-> holds]
Push(frame) == Len(frames) < MaxFrames /\ frames' = Append(frames, frame)
Pop == frames' = Front(frames)

ClearedOf(all) == [a \in DOMAIN all |-> IF a \in Own THEN arena_reset(all[a]) ELSE all[a]]
With(all, a, n) == [all EXCEPT ![a] = arena_alloc_in(@, n)]

-----------------------------------------------------------------------------
(* shell_run_command: a command of the input, of eval, of a trap.  One     *)
(* that starts when none is under way empties both arenas, is parsed in    *)
(* script and runs in cmd; any other uses what is current.                 *)
StartTop(n) ==
  /\ top_level_command
  /\ arenas' = With(ClearedOf(arenas), "script", n)
  /\ current' = "cmd"
  /\ Push(Frame("command", "", {Allocated("script", arenas'["script"])}))
  /\ WithinBounds'
  /\ UNCHANGED functions

StartNested(n) ==
  /\ ~top_level_command
  /\ arenas' = With(arenas, current, n)
  /\ Push(Frame("command", current, {Allocated(current, arenas'[current])}))
  /\ WithinBounds'
  /\ UNCHANGED <<current, functions>>

(* A text that cannot be parsed, or is not to be run (set -n).             *)
RefuseTop(n) ==
  /\ top_level_command
  /\ LET parsed == With(ClearedOf(arenas), "script", n) IN arenas' \in {parsed, ClearedOf(parsed)}
  /\ WithinBounds'
  /\ UNCHANGED <<current, functions, frames>>

RefuseNested(n) ==
  /\ ~top_level_command
  /\ arenas' = [arenas EXCEPT ![current] =
                  arena_mark_rewind(arena_alloc_in(@, n), arena_mark_take(@))]
  /\ WithinBounds'
  /\ UNCHANGED <<current, functions, frames>>

EndCommand ==
  /\ InFrame({"command"})
  /\ arenas' = IF Top.arena = "" THEN ClearedOf(arenas)
               ELSE [arenas EXCEPT ![Top.arena] = arena_mark_rewind(@, Top.mark)]
  /\ current' = Top.saved
  /\ Pop
  /\ UNCHANGED functions

-----------------------------------------------------------------------------
(* What a program consists of: simple commands (marked in cmd only), and   *)
(* texts that execute_program_text cuts into commands.                     *)
Running == InFrame({"command", "call", "text", "child"})

StartSimple ==
  /\ Running
  /\ Push(Frame("simple", IF current = "cmd" THEN "cmd" ELSE "", {}))
  /\ UNCHANGED <<arenas, current, functions>>

StartText ==
  /\ Running
  /\ Push(Frame("text", current, {}))
  /\ UNCHANGED <<arenas, current, functions>>

EndPart ==
  /\ InFrame({"simple", "text"})
  /\ arenas' = IF Top.arena = "" THEN arenas
               ELSE [arenas EXCEPT ![Top.arena] = arena_mark_rewind(@, Top.mark)]
  /\ current' = IF Top.k = "text" THEN Top.saved ELSE current
  /\ Pop
  /\ UNCHANGED functions

(* arena_xmalloc: expanded words, what a program has cut out, the text     *)
(* that eval has put together.                                             *)
Allocate(n) ==
  /\ Running \/ InFrame({"simple"})
  /\ Cardinality({h \in Top.holds : h.arena = current}) < MaxHeld
  /\ arenas' = With(arenas, current, n)
  /\ frames' = [frames EXCEPT ![Len(frames)].holds = @ \cup {Allocated(current, arenas'[current])}]
  /\ WithinBounds'
  /\ UNCHANGED <<current, functions>>

-----------------------------------------------------------------------------
(* functions.c.  A definition is a command of a program, unset -f and      *)
(* calls are simple commands.                                              *)
Unparsed == [set |-> TRUE, attempted |-> FALSE, program |-> Nowhere]
Absent == [set |-> FALSE, attempted |-> FALSE, program |-> Nowhere]

functions_set(f) ==
  /\ Running
  /\ arenas' = [arenas EXCEPT ![f] = arena_reset(@)]
  /\ functions' = [functions EXCEPT ![f] = Unparsed]
  /\ UNCHANGED <<current, frames>>

functions_remove(f) ==
  /\ InFrame({"simple"})
  /\ arenas' = [arenas EXCEPT ![f] = NoBlocks]
  /\ functions' = [functions EXCEPT ![f] = Absent]
  /\ UNCHANGED <<current, frames>>

Call(f) ==
  /\ InFrame({"simple"}) /\ functions[f].set /\ functions[f].attempted
  /\ Push(Frame("call", "", {functions[f].program} \ {Nowhere}))
  /\ UNCHANGED <<arenas, current, functions>>

(* Mutant: the arena of the function stays current.                        *)
AfterParsing_Left(f) == f

AfterParsing(f) == current

(* Mutant: the program is put where commands are.                          *)
CacheArena_Current(f) == current

CacheArena(f) == f

(* functions_get_cached_program at the first call.  A body that cannot be  *)
(* parsed is run as a text.                                                *)
FirstCall(f, n, parsed) ==
  LET a == CacheArena(f) IN
  /\ InFrame({"simple"}) /\ functions[f].set /\ ~functions[f].attempted
  /\ arenas' = [arenas EXCEPT ![a] = IF parsed THEN arena_alloc_in(@, n)
                                     ELSE arena_reset(arena_alloc_in(@, n))]
  /\ functions' = [functions EXCEPT ![f] =
       [set |-> TRUE, attempted |-> TRUE,
        program |-> IF parsed THEN Allocated(a, arenas'[a]) ELSE Nowhere]]
  /\ current' = AfterParsing(f)
  /\ WithinBounds'
  /\ Push(Frame("call", "", {functions'[f].program} \ {Nowhere}))

Return ==
  /\ InFrame({"call"})
  /\ Pop
  /\ UNCHANGED <<arenas, current, functions>>

-----------------------------------------------------------------------------
(* dot: the path is current_source_name as long as the file is read.       *)
Dot(n) ==
  /\ InFrame({"simple"})
  /\ arenas' = With(arenas, current, n)
  /\ Push(Frame("file", "", {Allocated(current, arenas'[current])}))
  /\ WithinBounds'
  /\ UNCHANGED <<current, functions>>

(* merge_need_more_with_alias_preview looks at a line of input: outside    *)
(* commands it borrows cmd.                                                *)
Preview(n) ==
  /\ frames = <<>> \/ InFrame({"file"})
  /\ arenas' = [arenas EXCEPT !["cmd"] =
                  IF current = "cmd" THEN arena_alloc_in(@, n)
                  ELSE arena_mark_rewind(arena_alloc_in(@, n), arena_mark_take(@))]
  /\ WithinBounds'
  /\ UNCHANGED <<current, functions, frames>>

EndFile ==
  /\ InFrame({"file"})
  /\ Pop
  /\ UNCHANGED <<arenas, current, functions>>

-----------------------------------------------------------------------------
(* Children start with empty arenas of their own and never return to the  *)
(* frames of their parent, but run on in its functions.  That of a command *)
(* substitution is given a text, outside commands (command_subst_run); any *)
(* other a part of the program (spawn_exec_child_payload).                 *)
Fresh == [a \in DOMAIN arenas |-> IF a \in Own THEN NoBlocks ELSE arenas[a]]

SubstitutionChild ==
  /\ Running \/ InFrame({"simple"})
  /\ arenas' = Fresh
  /\ current' = "perm"
  /\ frames' = <<>>
  /\ UNCHANGED functions

PayloadChild ==
  /\ Running
  /\ arenas' = Fresh
  /\ current' = "cmd"
  /\ frames' = <<[Frame("child", "", {h \in Top.holds : h.arena \in Functions}) EXCEPT !.saved = "cmd"]>>
  /\ UNCHANGED functions

Init ==
  /\ arenas = [a \in Own \cup Functions |-> NoBlocks]
  /\ current = "perm"
  /\ functions = [f \in Functions |-> Absent]
  /\ frames = <<>>

Next ==
  \/ \E n \in Sizes : \/ StartTop(n) \/ StartNested(n) \/ RefuseTop(n) \/ RefuseNested(n)
                      \/ Allocate(n) \/ Dot(n) \/ Preview(n)
  \/ EndCommand \/ StartSimple \/ StartText \/ EndPart
  \/ \E f \in Functions : \/ functions_set(f) \/ functions_remove(f) \/ Call(f)
                          \/ \E n \in Sizes, parsed \in BOOLEAN : FirstCall(f, n, parsed)
  \/ Return \/ EndFile \/ SubstitutionChild \/ PayloadChild

Spec == Init /\ [][Next]_vars

-----------------------------------------------------------------------------
Addresses == [arena : Own \cup Functions, block : Nat \ {0}, end : Nat]
FunctionStates == [set : BOOLEAN, attempted : BOOLEAN, program : Addresses \cup {Nowhere}]
Frames == [k : {"command", "simple", "text", "call", "file", "child"}, arena : Own \cup {""},
           mark : Marks, saved : {"perm", "cmd"}, holds : SUBSET Addresses]

(* Every variable has its type.                                            *)
TypeOK ==
  /\ arenas \in [Own \cup Functions -> Arenas]
  /\ current \in {"perm", "cmd"}
  /\ functions \in [Functions -> FunctionStates]
  /\ frames \in Seq(Frames)

(* What a C function goes on using of the arenas of commands is not        *)
(* released, and, as no block is in two places, not given to anyone else,  *)
(* however commands, traps, calls and files are nested in it.              *)
UsedIsLive ==
  /\ \A a \in DOMAIN arenas : Intact(arenas[a])
  /\ \A i \in DOMAIN frames : \A h \in frames[i].holds : h.arena \in Own => IsLive(arenas[h.arena], h)

(* The parsed program of a function, kept for later calls or being run by  *)
(* some, is released only by a definition or removal of this function      *)
(* (functions.c:155, 183), never by the ends of commands around it.        *)
ProgramsOf(f) ==
  ({functions[f].program} \ {Nowhere}) \cup {h \in UNION {frames[i].holds : i \in DOMAIN frames} : h.arena = f}

ProgramsLast ==
  [][\A f \in Functions : functions'[f] = functions[f] =>
       \A p \in ProgramsOf(f) : IsLive(arenas[p.arena], p) => IsLive(arenas'[p.arena], p)]_vars

(* A command, a simple command or a text that ends leaves the arena it     *)
(* used as it has found it, so that a loop or a trap that runs again and   *)
(* again needs no more memory each time.                                   *)
MarksAreRestored ==
  [][(EndCommand \/ EndPart) /\ Top.arena # "" => arena_mark_take(arenas'[Top.arena]) = Top.mark]_vars
=============================================================================
