# posish: specifications, model checks and proofs

This directory holds TLA+ models of posish, the POSIX shell under `src/`, the TLC
configurations that check them, and theorems about them checked by TLAPS. Every
definition follows the C source; `PROJECT.json` names the lines each one stands for.
Where the code does something else than its documents and tests say, the model follows
the code, and a run or section 5 shows the disagreement.

Paths below are relative to `src/` (so `exec.c` is `src/exec.c` of the repository,
`tests/` its test suite).

## 1. The system

posish is a single-threaded process. Its concurrency comes from the kernel: children that
stop and end while the shell is elsewhere, signals whose handler runs between any two
steps, and forks that inherit half-changed state. Its other difficulty is that one
`struct shell_state` carries everything from command to command: flow control, options,
traps, jobs, caches.

| component | sources | state | operations | hard behaviour |
|---|---|---|---|---|
| job table | `jobs.c` | `jobs[]`: id, process group, per-process flags and statuses, recency serial, `stopped` | track, note status, mark running, find by jobspec, forget | swap-with-last removal, cached flags, `%+` and `%-` |
| job control | `exec.c`, `spawn.c`, `program_text.c`, `regular.c` | process groups, what `waitpid` returned | lists with `&`, pipelines (two executors), `wait`, `fg`, `bg`, `kill %n`, `set -m` | children change state in any order between the shell's steps |
| command execution | `ast_exec.c`, `exec.c`, `special.c` | `break_levels`, `continue_levels`, `return_requested`, `should_exit`, `errexit_ignored`, depths | sequences, and-or lists, `!`, braces, subshells, `if`, loops, functions, `break`, `continue`, `return`, `exit`, `set -e` | flow control travels in counters that each structure must consume exactly once |
| signal policy | `signals.c`, `shell.c`, `special.c`, `spawn.c`, `command_subst.c` | dispositions, trap table, inherited ignores, `g_policy_ignored` | `trap`, `set -m`, forks of every kind, exec | inheritance through nested forks |
| trap engine | `signals.c`, `shell.c`, `main.c`, `regular.c` | `g_pending[]`, `g_any_pending`, `last_handled_signal`, `running_signal_trap` | the handler, `shell_run_pending_traps`, `wait`, the end of the shell | the handler interleaves with the scans of its flags |
| simple commands | `simple_command.c` | temporary assignments, positional parameters, redirections in force | expand, assign, redirect, dispatch, undo | the order of applying and undoing, with failures in between |
| redirections | `redir.c` | the descriptor table, saved descriptors | apply, save, restore | partial failure; saved descriptors share the table with the user's |
| variables, environment | `vars.c`, `symbols.c` | the table, `var_mru`, `long_cache`, `exec_envp` | assign, export, readonly, unset, build the environment | three caches over one table |
| command paths | `path.c` | `path_cache` | resolve, remember, invalidate | staleness after `cd`, `PATH=`, `rm` |
| functions, arenas | `functions.c`, `arena.c` | definitions with cached programs, bump allocators, which of them is current | define, remove, call; allocate, mark, rewind, reset | lifetimes nest as C functions do, except where a command changes what is running |
| command substitution | `command_subst.c` | traps and signals of the child | fork, read, strip, status | traps kept for printing |
| parser | `parser.c`, `lexer.c`, `compound_parse.c`, `case_command.c`, `program_text.c` | none between commands | text to tree; program text to commands | five scanners find the ends of commands in the text, each in its own way |
| aliases | `alias.c` | table | substitution by tokens | recursion through other aliases |
| input, here-documents | `shell.c`, `input.c`, `heredoc_command.c` | the command text read so far | read lines until a command is complete | a scanner beside the parser must agree with it |
| expansion, arithmetic | `expand.c`, `field_split.c`, `arith.c` | the variables it assigns, `last_cmdsub_status` | words to fields, expressions to values | quoting travels as marker bytes in the text; each word may change what the next is expanded with; one pass parses and evaluates |
| options, prompts, diagnostics | `options.c`, `prompt.c`, `trace.c`, `error*.c`, `text_helpers.c` | the option flags | printing | none |
| other builtins | `builtins/*.c` | `umask`, `OPTIND`, cwd | `cd`, `getopts`, `read`, `test`, ... | sequences of calls (`getopts`), partial failure (`cd`) |
| startup, shutdown | `main.c`, `shell.c` | initial options and variables | startup files, drain of traps, EXIT trap | order at the end |

How they interact. `shell_run_stream_command` reads a command, parses it and calls
`execute_ast_node`, which calls itself for compound commands and
`simple_command_execute_parts` for simple ones. Those apply redirections and assignments
and dispatch to a function, a builtin or `spawn_*`, which forks. Children are filed in the
job table, and every `waitpid` in the shell has to note what it learns there. Signals set
flags; `shell_run_pending_traps` is called after commands and interrupted waits and calls
the executor again. `cd` and assignments reach into the path cache, unset into the variable
cache, fork into the signal policy.

What makes each part correct:
- job table: names of jobs stay unambiguous; flags agree with the processes; a completed
  job has a status; removal does not disturb the other jobs.
- job control: the table agrees with what the kernel reported, in every order of events; no
  child is lost; `fg` and `wait` return the rightmost status; the prompt comes back.
- command execution: a program runs the commands its meaning names, ends the shell exactly
  when it should, and leaves no flag behind.
- signal policy: the matrix of `tests/posix/signal.sh`, for every nesting; ignores
  inherited by a non-interactive shell stick.
- trap engine: no caught signal is lost, unless its trap is replaced or the signal policy
  refreshed; none is run twice, each is taken eventually.
- redirections: a command has the descriptors its redirections mean; afterwards the shell has
  its own again, however the command ended.
- parser and reader: the commands that run are those the text means, each run when it is
  complete and not before, wherever lines end and whichever scanner cuts the text.
- expansion: a command gets the fields, and leaves the assignments and failures, that its words
  mean; an operand that is not to be evaluated has no effect.
- functions and arenas: what a C function still uses of the arenas of commands is not released
  under it, what has ended is released, and programs of functions last from call to call, as
  long as their function is not defined anew or removed.
- variables and paths: a utility gets exactly the exported variables; no cache outlives what
  it was made from; temporary assignments are undone; read-only variables keep their value, except `LINENO`.

## 2. Modules

| module | what it is |
|---|---|
| `Jobs` | the functions of `jobs.c` as operators on a table value |
| `JobBook` | the abstract job list: who is known, stopped, finished, newer than whom |
| `JobTable` | a machine that makes every call of `jobs.h` in any order, as the callers make them; implements `JobBook` |
| `JobTable_proofs` | its inductive invariant and five theorems, the refinement of `JobBook` among them |
| `Kernel` | external: processes with states, groups and unreported changes, `waitpid`, `kill`, `fork` |
| `JobControl` | the shell's commands over `Jobs` and `Kernel`, one step per fork and per return of `waitpid` |
| `JobControl_proofs` | three invariants, one on top of the other, and nine theorems |
| `Programs` | the trees that commands are, and the places in which commands stand in each other |
| `AstExec` | the executor: operators that take and return `struct shell_state` as a record |
| `PosixExec` | the meaning of a command as the tests tell it, without flags: the reference for `AstExec` |
| `Script` | the read-and-run loop over a script |
| `PortableScript` | which commands may stand in which places, so that the two agree; scripts of such commands; compares the two after every command |
| `Script_proofs` | that they agree, for every script of such commands: three theorems |
| `SignalPolicy` | one signal's disposition in one process followed through traps, options, forks and exec |
| `SignalPolicy_proofs` | six theorems |
| `TrapEngine` | handler, pending flags, their scans step by step, the callers |
| `TrapEngine_proofs` | four theorems |
| `Vars` | `vars.c` and `path.c` as operators on one record: the table and the caches over it |
| `Environment` | the commands that change or use it, nested calls with temporary assignments, `cd`, files that come and go |
| `Environment_proofs` | its inductive invariant and six theorems |
| `Redir` | `redir.c` as operators on a descriptor table, and what redirections mean: the reference for them |
| `SimpleCommand` | commands with redirections, nested in each other, over one table; every step of applying and undoing |
| `SimpleCommand_proofs` | its inductive invariant and five theorems |
| `Arith` | `arith.c`: tokens of an expression to a value, assigning on the way |
| `WordExpansion` | `expand.c` and `field_split.c`: the parts of a word to fields |
| `ArithMeaning`, `ExpansionMeaning` | what expressions and words mean: the references for the two |
| `CommandWords` | the items of one command expanded in turn; compares each with its meaning |
| `Arena` | `arena.c` as operators on the blocks of one allocator |
| `Lifetimes` | the C functions under way, the arenas they mark and the addresses they go on using |
| `Lifetimes_proofs` | what allocation, rewinds and resets do to what is live and to the order of places; the inductive invariant and four theorems |
| `ShellText` | the scanning of text that the parser and the reader have in common, and `needs_more_input` |
| `Parser` | `parser.c` and `compound_parse.c` as operators from a text to a tree |
| `ProgramText` | how the text kept for groups, subshells and functions is cut into commands when it runs |
| `Grammar` | trees and the ways to write them down: the reference for the parser |
| `Reader` | the loop that reads lines, decides whether a command is complete, parses and runs it |
| `MC*` | values of the constants for TLC (`MCPrograms`: the programs of `MCScript`); `Lifetimes` and `SignalPolicy` get theirs in the `.cfg` |

`JobControl` composes `Jobs` (through `Kernel`) with the kernel: the shell's table and the
kernel's truth are separate variables, so "the table agrees with the kernel" is a
statement about two pieces of state. `PortableScript` composes `Script` (over `AstExec`) with `PosixExec`.
`CommandWords` composes `WordExpansion` (over `Arith`) with `ExpansionMeaning`, `Lifetimes`
the arenas of a shell with those of its functions.

Correspondence, where it is not one to one:
- `Jobs`: arrays are sequences, `memmove` and swap-removal are kept because they decide
  the order of later searches. Command text is one abstract value; `%string` and
  `%?string` become a set of the commands that match.
- `JobTable`: `TrackStopped` is the call that follows the stop of a member, under the
  pipeline's group or, without monitor mode, the member's own pid. `due` are the notes that the
  same C function has still to make before it returns; `shared` is history: the pids of
  pipelines without a group of which several members stopped, so that several jobs list them.
- `JobControl`: `pc` is the place in the C function and `frame` its locals. A foreground
  command is fork plus wait loop; a pipeline forks its members one step each and collects
  them left to right. `executor` chooses between `execute_ast_pipeline` (`exec.c`) and the
  pipeline of `program_text.c`, which differ in what they note. `session` is chosen at the
  start: which executors run, monitor mode, whether forks fail, whether `set -m` is used.
- `AstExec`: leaves of programs (`utility`, `pipeline`, `count`) stand for commands whose
  control is elsewhere; `count` is a condition that holds `Fuel` times, so loops end. The
  executor calls itself through `Execution[n]`, a function from calls to results that follows
  `n` nested calls, of which a list takes one per item and a loop one per turn. `Patience` bounds
  them; a call at the bound does nothing (`NotFollowed`), in the meaning, too. With
  `Patience = 40` no program of the runs meets it: a variant that adds a mark to the trace
  there agrees with the meaning at 40 and differs at 8.
- `SignalPolicy`: the loops over signal numbers are independent of each other, so one signal
  is followed, chosen at the start from one of each class. `outside`, `inside` and `past`
  are history, named as in the test matrix.
- `Vars`: the hash table is a function from names to entries, `NoValue` where there is none;
  a pointer into an export text is the text, so that a stale pointer shows as a stale text.
  `Environment`: one command name stands for all in the path cache; `frames` are the calls
  under way with the array of `struct env_restore` of each. `numbered` says that `LINENO` was
  written for the command that comes next (`set_lineno_for_ast_node`).
- `Redir`: a descriptor holds an open file (its name, mode and close-on-exec flag); offsets
  and contents are left out. `FirstSaved` is the 10 of `fcntl(fd, F_DUPFD, 10)`.
- `SimpleCommand`: a frame is a call of `simple_command_execute_parts`, of one of the
  functions of `ast_exec.c`, or the body of a function's definition, with its
  `fd_backup_vec` and the place it has come to (`phase`). One step applies or restores one
  descriptor. A child's table is computed in one step; of a subshell, which runs
  commands, the parent's table is kept in the frame until it ends. `before`, `given` and
  `stays` are history.
- `Arith`: a text is a sequence of tokens, a long has `Width` bits. Each `parse_*` is one
  level of precedence; `eval` is passed down as in the code, and `right_eval` is where it is
  turned off. `Unread` texts are given as they are, others are written down from a tree.
- `WordExpansion`: a word is given as its parts. The marker bytes of the code, which protect a
  quoted character or stand for a pair of quotes or the end of a parameter, are kept as such
  (`q` of a character, two characters of their own), because what the code does with them
  decides about fields, patterns and tildes. The references know no markers: there a
  character remembers where it comes from.
- `CommandWords`: one step expands one item of a command, in the order of
  `prepared_command_expand_runtime_parts`.
- `Arena`, `Lifetimes`: an allocation is its end in its block, so that a released address is
  not taken for live when the space is given away again at other sizes. A frame is a C
  function under way with the mark it has taken (`shell_run_command`,
  `simple_command_execute_parts`, `program_text_execute_internal`, calls of functions, dot);
  `Allocate` stands for every `arena_xmalloc` in them. Memory is one process's; a fork continues
  as the child, which has the parent's function arenas and new ones of its own.
- `ShellText`, `Parser`: a text is a sequence of tokens; the scanners look at characters, but
  what they ask of one is only to which token it belongs, as long as words are plain (no quotes,
  expansions, comments, here-documents, line continuations). Each `parse_simple_*` keeps its
  own rules: which words count as reserved where, what is counted inside of brackets,
  whether `done` needs a separator before it. `Depths` and `After` stand for the five counters
  that every scanner keeps.
- `TrapEngine`: `signo` and `scan` are the loop counters of `signals_take_next_pending` (or of
  `shell_refresh_signal_policy`) and `refresh_any_pending`; the handler may run between any two
  iterations. Clearing a flag twice with nothing that reads it in between is one step.

## 3. Runs

Passing:
- **job_table** — `JobTable` under every sequence of calls for three processes and pipelines of
  up to two, with and without a process group of their own. Checks the type, distinct keys
  (ids, groups, serials), that two jobs have a process in common only if they are those of one
  pipeline without a group, the cached `stopped` flag of all other jobs once what was collected is noted, statuses
  of completed jobs and that it implements `JobBook`. The serial is capped at 5: enough for two jobs to be
  created, touched and removed in both orders, so that ids skip and serials reorder.
- **job_control** — three processes, pipelines of up to three, five commands, two stops
  or continues from outside, under `FairSpec`. Three processes are the least at which
  the middle member of a pipeline can differ from both ends; two outside signals allow
  stop and continue of one member, or stops of two. Checks in
  every session: the table never claims an end the kernel did not report, and a job that is
  given up returns the status of its rightmost member. In orderly sessions
  (monitor mode throughout, text executor, forks succeed) also: table and kernel agree at
  every prompt on ends and on stops, every child is tracked and every job has a child, `fg`
  never fails. In monitor mode: `wait %n` finds its child and the prompt returns.
- **script** — 4,229 programs of nested loops, functions, subshells and conditions
  with `break`, `continue` and `return`, and some 6,000 with `set -e`; each is run and
  compared with its meaning (`AgreesWithMeaning`), and nothing is left pending between commands.
  `PlacesAssumption` and `InputsAssumption`, from which the theorems about scripts follow, are
  evaluated on these programs, so they hold of some 10,000 of them.
- **signal_policy** — five signals (one per class and both that interrupt jobs), all four
  kinds of forks nested to depth three, `trap` and `set -m` anywhere, interactive or not.
  Depth three is where a context below a context below a reset first occurs.
- **trap_engine** — two signals delivered up to twice each, in lists, loops and and-or
  lists, with `wait`, foreground children, `trap` and `set -m`, after startup files and without.
  Two signals are what the scans need
  to pass one while the other is set; two deliveries are what a lost or doubled one needs.
- **environment** — five kinds of sessions of up to five commands, with calls nested two
  deep and two assignments before each: variables with every builtin that changes them;
  `LINENO` on two lines, assigned, exported, unset and read-only; `set -a`; calls with `PATH` before them; commands in directories that come and go. Two
  nested calls with two assignments each are what it takes to save a name twice and in two
  frames; five commands are what a stale cache needs (fill, invalidate wrongly, use).
- **redirections** — five kinds of scripts of up to six commands and redirections, nested
  three deep (four with functions), with three visible descriptors and two more: six
  redirections of every kind in one, `set -C`, an interactive shell, failures only, and
  closing, where the table fills and saving fails. Two saved descriptors in two frames are
  what one frame needs to disturb another's.
- **parser** — 18,196 scripts for `Reader`. `Grammar` writes a tree down in three layouts (on
  one line, on lines, the outer command on lines and the inner ones on one line); the trees are
  every compound command around every kind of list, joined in every way, and every two
  compound commands one in the other. Each is given whole, with another command after it on the
  same line, and cut off at the end of each of its lines. `RanAsWritten` compares what
  reaches the executor with the tree, command by command while the script is being read;
  `RunsAsParsed` parses the text that the executor keeps the way it is parsed when it runs.
  Two compound commands are what it takes for one scanner's counters to meet the other
  command's words; the layouts decide which newlines are separators. `Misread` in `MCParser`
  names the programs left out because the code does read them differently (section 5).

- **expansion** — 277,290 pairs of a command and a shell: words of one and two parts of every kind and
  three of those that split; braces with every operator, in words, quotes and here-documents,
  under `set -u`, interactive or not, with read-only variables; assignments and operands;
  commands whose items change the variables, the IFS or the status that the next see;
  arithmetic trees of two levels with every operator, and every text of up to five of eight
  tokens. `FieldsAsMeant`, `EffectsAsMeant` and `ArithmeticAsMeant` compare with the references.
  `Width` is 3: the least at which shifts, both signs and wrapping of products differ; two
  parts meet at every boundary where quoting, splitting and tildes change.
- **lifetimes** — commands, simple commands, texts, calls, files, previews and children nested four
  deep in any order, over arenas of two blocks, with small allocations and ones that need a
  larger block. Two blocks are what it takes to rewind past one and to take one from the
  free list; four frames are a command, a simple command, a call or file in it, and a
  command in that, which is where ends, definitions and marks of different owners meet.

Violations (each checks what a document or test says; TLC shows how the code breaks it):
- **jc_ast** — `fg` of a job whose members ended while another was stopped fails with ECHILD.
- **errexit_sticky** — after `false && true` a shell with `-e` survives failures.

The passing runs leave out the programs and sessions in which these are known to happen
(`Orderly`, `Fits` in `PortableScript`, "pipeline" in `TrapsEndAtForks`); each such
restriction is named where it stands. `ExpansionMeaning` says in its comments which words it leaves undefined.

Fairness. `TrapEngine` assumes weak fairness of the shell's steps (it is a running process)
and that children end; nothing of signals. `JobControl` assumes the same; weak fairness
of the shell is written `[]<>~ShellReady \/ []<><<RunningStep>>_vars`, `WF_vars(RunningStep)`
with its ENABLED spelt out, because TLC evaluates the nested ENABLED too slowly. No fairness
is assumed of signals from outside or of the user's commands.

`CHECK_DEADLOCK FALSE` where the bounds on commands, signals or calls end a behaviour, and
where the shell has ended.

## 4. Theorems

All for every value of the constants.

- `JobTable_proofs`. `Inv` is `Core` (distinct keys and serials, each pid once in a job, counters above
  all of them, completed jobs with a status), `Apart` (which jobs may share processes) and
  `FlagsRight` (each job's `stopped` flag agrees with its processes, or the note that makes it agree is
  due, or the job is one of several of an ungrouped pipeline). `KeysDistinct` alone is not inductive: a new job takes `next_id` and
  `next_serial`, which must exceed all present ones. Each operation of `Jobs` has a lemma
  that it keeps `Core`; `TrackAgain`, where a group is tracked a second time, needs the
  most. For the refinement each call of the table is a step of `JobBook` or a stutter: a
  search from either end finds the same job because the keys are distinct, and what was
  tracked last is the newest because `next_serial` is larger than every serial. Theorems:
  `TypeCorrect`, `KeysStayDistinct`, `FlagsStayRight`, `CompletedJobsHaveStatus`,
  `BookIsImplemented`.
- `JobControl_proofs`. Three invariants, each inductive with the ones before it:
  - `GeneralInv`, in every session: the table is an array with one job per process group,
    the status of a job is that of its last process, no process is taken for done before it
    is reaped, and what a pipeline has collected so far is what the kernel has reported.
  - `MonitorInv`, while monitor mode stays on: a job is a process group of the kernel, each
    process in it once, the leader among them, and the members already forked of a pipeline
    under way are the group it will be. Without it nothing says that `waitpid(-pgid)`
    returns a process of the job.
  - `OrderlyInv`, in the sessions `Orderly` names: the table knows all that `waitpid` has
    told, and each child is in a job or in the hand of the command under way. While a pipeline
    is collected that is false of the table alone: its processes are in no job as long as
    those collected have all ended, and make up one as soon as a member has stopped
    (`PipelineKnown`).

  The actions are not unfolded in these proofs: each is first described by what it does to the
  *set* of jobs and to the processes (`Notes`, `Marks`, `Tracks`, `Forgets`, `Reported`,
  `Born`, `Moves`, then the lemmas `...Does`), and the invariants are proved from these
  descriptions. Theorems: `TypeCorrect`, `GeneralInvHolds`, `GivenUpAsRightmost` and
  `FgIsInOrder` (action properties), `JobsAreGroups`, `ChildrenAreFound` (an action
  property), `TableIsInformed`, `TableAgrees`, `ChildrenAreTracked`. TLC checked the three
  together on the instance of `job_control` first.
- `SignalPolicy_proofs`. `Locked`: an inherited ignore of a non-interactive shell is ignored,
  not trapped and not marked as cleared; every operation keeps that. `Installed`: a handler
  has its command and a command its handler. `OfThisContext`: a handler below a fork is for a
  command set since, because every fork but that of a pipeline's members resets what it
  inherits; it needs `Installed`, as only what the table knows is reset. `AsyncInv`: in an
  asynchronous list that nobody has touched the signal is ignored and the table has no
  command, which is what further forks and `exec` need to leave it so. `MatrixInv`: what the
  disposition, table and cleared flag are as a function of the trap set outside and inside;
  from it the matrix follows for subshells and command substitutions at any depth and for
  asynchronous lists of the main shell. Theorems: `TypesHold`, `InheritedIgnoresHold`,
  `HandlersHaveCommands`, `NoTrapCrossesAFork`, `ListsIgnoreInterrupts`, `MatrixHolds`.
- `TrapEngine_proofs`. `IInv` joins the type, `Control` (what the program counter says of
  the flags: a trap is only in hand between take and run), the counts (deliveries are at
  least runs plus pending plus in hand) and `Drained` (during the drain of
  `main` all that is pending below the scan is late). The property about the EXIT trap is
  not inductive without what the scan has already passed. `NoneIsLost` is proved on top of it,
  with the steps that drop a pending signal taken out of `owed`: replacing a trap and
  `shell_refresh_signal_policy`. Theorems: `TypesHold`,
  `TrapsRunOncePerDelivery`, `ExitTrapComesLast`, `NoDeliveryIsLost`.
- `Environment_proofs`. `Sound` says of the store that entries agree with their export texts,
  that a clean vector is the environment and that the lookup cache points at a set entry; each
  operation of `Vars` has a lemma. `SavedBefore` says of a frame that what it saved *first* for
  a name is what the name held before the call: the order of restoring matters because
  later entries of the same name hold values of the call itself. `Leads` says of a
  remembered place that a search would come to it unless a new file is in front. Theorems:
  `TypeCorrect`, `EnvpCurrent`, `MruLive`, `TemporaryUndone`, `PathCacheFresh` and
  `ReadonlyKept` (an action property).
- `SimpleCommand_proofs`. `RedirectionsInv` says of the descriptor table that the saved
  descriptors in it are those the frames own (`Held`), each once (`SavedOnce`), and hold what was
  behind the descriptor when the owner began. What a frame has neither saved nor given away
  for good (`Untouched`) is in the frame above it, and for the innermost in the table itself, as
  it was at the beginning (`SeesBefore`). A subshell under way has its parent's table put
  aside, so the same is said again of every table put aside, with the frames below it.
  `Restored` is what is left of that when nothing is saved any more. For `AppliedAsMeant` the
  redirections applied so far give, round by round, the table that the same number of rounds
  of their meaning gives (`MeantInv`); the recursive functions of `Redir` are unfolded
  there, and that they agree is shown by the least round in which they would not. Theorems:
  `InvariantHolds`, `SavedOnceAndOwned`, `CommandsRestore`, `AppliedAsWritten` and
  `TypeCorrect`.
- `Lifetimes_proofs`. The argument is about order: places of an arena are
  ordered by block and end, a rewind to a mark releases exactly what does not precede the
  mark, and a frame takes its mark when all that the frames below it use is already there.
  `LifetimesInv` says that (`StackKept`), which frames lie on which (`FramesNest`), that
  the blocks of an arena and of its free list are distinct, and where the programs of
  functions are. That a new block, of the default size doubled until the request
  fits, exists at all rests on n <= 2 ^ n, which follows from the number of subsets of a set.
  `UsedStaysLive` is about `script` and `cmd` only; `EndsRestoreMarks` and `ProgramsStayLive` (about
  the programs of functions that stay as they are) prove action properties from the invariant. Theorems: `TypeCorrect`, `UsedStaysLive`,
  `EndsRestoreMarks`, `ProgramsStayLive`.

- `Script_proofs`. A place (`Programs`) is a command with what holds where it stands: how many
  loops a `break` may leave, whether a `return` or `exit` may stand there and whether it gives
  its status at once, whether a failure there ends the shell, and whether `errexit_ignored` may be
  left set. `Related` says which states of the shell meet which contexts of the meaning in a
  place, at the start of a command or in the course of a list or loop; `Agrees` relates what the
  executor leaves, flag by flag, to the flow, status and store of the meaning: a pending
  `break n` is exactly a break of n levels, no more than the place allows; a failure the parent
  is to act on is told from one it is to ignore; `errexit` and `errexit_ignored` are as the
  place promises to what follows. There is one lemma per construct (`SimpleAgrees`,
  `SequenceAgrees`, `TextAgrees`, `AndOrAgrees`, `NotAgrees`, `IfAgrees`, `WhileAgrees`,
  `ForAgrees`, `SubshellAgrees`, `CallAgrees`), and `ExecutorKeepsPromise` follows by
  induction over the number of nested calls followed, which stands for the induction over
  trees that the provers cannot do. `AgreesWithMeaning` is not inductive: `errexit_ignored`
  lives on between commands. `ScriptInvariant` adds that a script either never has `errexit` on
  or has none of its commands but the last leave `errexit_ignored` set. TLC checked
  `ScriptInvariant` on the programs of `script` first. Assumed are the form of the trees
  (`CommandsAssumption`), that every command stands in a place it fits (`PlacesAssumption`) and
  that scripts are made of such (`InputsAssumption`); any set of trees, of any depth and length,
  with any fuel is covered. Theorems: `ExecutorKeepsPromise`, `ScriptSafety`,
  `CommandsDoWhatTheyMean`.

Where a proof would use induction over a sequence or over numbers, it takes the least number of the set of
counterexamples (`LeastOf`, from `WellFoundedInduction`) and shows that there is none.

Only model-checked:
- liveness (`PromptReturns`): fairness and ENABLED are out of the prover's reach;
- `RanAsWritten`, `RunsAsParsed`, `FieldsAsMeant`, `EffectsAsMeant`, `ArithmeticAsMeant`: the
  parser and expansion modules use RECURSIVE operators over texts and syntax trees, about
  which the provers cannot reason;
- that `Patience` suffices: the theorems hold for every value of it, but that a
  program is followed to its end is a matter of the program.

Theorems about monitored or orderly sessions carry that hypothesis because in the others the
properties are false (`jc_ast`, section 5), as those about arenas and signals leave out the
cases of section 5.

## 5. Where the code differs and no run shows it

Seen while modelling, reproduced with the built shell or read from the source; the models
follow the code or leave the case out as said.
- An interactive shell's asynchronous list loses the ignored SIGINT and SIGQUIT below a
  further fork (`signals.c:260`); `AsyncIgnoresInterrupts` leaves interactive shells out.
- `trap - TSTP` in a script with `set -m` restores the default (`special.c:1909`).
- `set -m` in a command substitution reinstalls the traps kept for printing
  (`command_subst.c:294`); `TrapsEndAtForks` leaves that path out.
- `set -m; set +m` leaves SIGTSTP ignored (`signals.c:76`).
- Members of pipelines keep the ignores of an interactive shell (`spawn.c:336`).
- `set -m`, `set +m` and `set -i` drop every pending signal, and so does the shell after its startup
  files: `shell_refresh_signal_policy` clears each flag though the trap stays in force
  (`shell.c:1787`). After `trap 'echo T' USR1`, `kill -USR1 $$ && set -m` prints nothing.
  `NoneIsLost` counts such a signal as answered.
- In a loop that replaces a trap or refreshes the policy, the last `refresh_any_pending` can overwrite a flag the
  handler set, which is then only noticed at the next list (`signals.c:25`).
- Without monitor mode an asynchronous list is filed under a group that does not exist and
  `wait %1` returns 127 (`spawn.c:504`).
- Without monitor mode each member of a pipeline that stops opens a job under its own pid with
  all the members in it (`exec.c:1118`, `program_text.c:1028`); later statuses reach only the first of these
  jobs (`jobs.c:95`), and the others stay stopped whatever their processes do. `KeysDistinct`
  names these jobs as the only ones that share processes; `StoppedFlagAgrees` leaves them out.
- `set -e` or `set +e` in a condition is undone after it (`ast_exec.c:92`).
- `set -e; n=0; { if while n=$((n+1)); if test $n -gt 1; then exit 3; fi; do false; done; then :; fi; }`
  exits with 1, the status of the loop's body: the brace group takes it for a failure of its
  own and overwrites the 3 (`program_text.c:1737`); `exits` of a place leaves such programs out.
- `break n` with more levels than loops skips later commands of the script
  (`special.c:629`); `LeafFits` leaves such programs out.
- A `cd` that fails after `chdir` (read-only `OLDPWD`, a `PWD` that names no directory) leaves
  `PWD` and the path cache as they were (`regular.c:365`); `PathCacheIsFresh` leaves the time
  after it out (`astray`).
- `f() { readonly q; }; q=5 f` leaves `q` set and read-only if it was unset before; in an
  interactive shell too (`simple_command.c:1221`).
- `LINENO` is written before every command without regard to `readonly` and to `export`
  (`exec.c:85`, `program_text.c:123`): after `readonly LINENO` it goes on changing, and after `export LINENO` the
  next command is no longer given it. `ReadonlyKeepsItsValue` names this write as its exception.
- `while break; do x; done` runs `x` once; the parser rejects a loop as the first command of a
  loop's condition.
- A pipeline whose fork fails leaves its first members unreaped and untracked (`exec.c:1009`).
- `set -e; f() { false; true; }; f || true` ends the shell inside `f`: the earlier operands of
  a list are not marked while they run (`exec.c:1195`, `tests/posix/errexit-p.tst:158`).
- A second signal of the same number does not interrupt `wait` again: the loop compares
  `last_handled_signal`, a number and not a count (`regular.c:1904`).
- When a redirection of a command with assignments before it fails, or one of a function's own
  redirections, the earlier ones stay in force (`simple_command.c:428`, `:711`): after
  `x=1 cat >ok </nonexistent` the shell writes to `ok`. `ApplyAbandoned` is this step, and
  `Restored` and `SavedAreOwned` count what it leaves behind.
- A here-document that lands on its target without being moved keeps close-on-exec
  (`redir.c:238`, `:460`): after `exec <&-`, `cat <<E` fails. `AppliedAsMeant` leaves it out.
- Redirections of a utility that is not found are not performed (`spawn.c:193`).
- Saved descriptors are inherited by children, so a substitution can wait for a background
  process that has nothing to do with it (`redir.c:79`); a program that uses descriptors from 10
  on can overwrite a saved one, and `SimpleCommand` leaves such programs out.
- Traps run while the foreground child is alive, between an interrupted `waitpid` and its
  repetition (`spawn.c:243`); `tests/posix/trap-p.tst:187` has the trap wait for the child.
- The parser refuses or misreads some programs; the first six are the ones that `Misread` leaves
  out, the others cannot be written in `Grammar`:
  - `! if`, `! while`, `! for`, `! case`: what follows `!` is no place for a reserved word
    (`parser.c:80`);
  - `! {` over several lines, or on one line in a group over several: `needs_more_input`
    does not count the brace (`shell.c:1150`);
  - a loop right after `while` or `until` on the same line;
  - an and-or list with a `for`, `while` or `until` that has a redirection: it is taken for one
    loop (`compound_parse.c:974`);
  - a function behind `||` or `;` on its line whose body starts on the next;
  - a `case` in a subshell whose patterns have no `(`;
  - `}`, `fi` or `done` behind `done` or `esac` without a separator, `{` behind `then` or
    `do` on one line in a group over several, `echo }` in a group, `echo then` in a condition,
    `case x in esac`, and a comment behind the `{` of a group.
- The parser accepts some texts that are no programs: `if; then fi`, `; x`, `a; ; b`, `( )`, and takes
  `if a; then a | fi` for a conditional.
- The redirections of a command with assignments before it are applied for the expansion of the
  values and then again (`simple_command.c:428`), so that under `set -C` it cannot create a file:
  the second time the file is there (`tests/posix/redir-p.tst:118`).
- Members of a pipeline keep the handlers and the trap table and run the shell's trap commands
  (`spawn.c:336`, `tests/posix/signal.sh:139`); `TrapsEndAtForks` leaves pipelines out.
- `set` with an invalid option leaves the options before it changed, `-m` without the signal
  policy that belongs to it (`special.c:536`).
- Fields. IFS characters written in a word are split like those of its expansions
  (`IFS=o; x=1; echo foo$x`, against `tests/posix/fsplit-p.tst:50`). `"$@"$x` with no parameters
  and an empty `x` is one empty field. Unquoted `$@` keeps empty parameters. `$*` is joined
  before it is split. `x="$@"`, and `x=$*` with an empty IFS, become several words.
- Patterns and tildes. What has been split, and words with quotes or backslashes, are not
  matched with files. A tilde behind quotes, an expansion or a backslash is expanded
  (`$x~`, `y=$x~`), and so is one that a default's value brings (`y='~'; ${nope-$y}`).
- Markers. In a here-document `$@` with several parameters, and `$*` with an empty IFS, leave a marker byte
  in the text; so does `"${@#a}"`. Bytes 0x81 to 0x89 of a value are taken for markers.
- Order. The assignments before a command are all expanded before any is made: `x=1 y=$x`
  leaves `y` empty. `$(exit 3) >f$((1)); echo $?` prints 0. `${y#$((y=1))}` reads the value of
  `y` after it was freed (`expand.c:1533`).
- Failures. Under `set -u`, `$1` without parameters is empty where `${1}` is an error, `${@}`
  without parameters is an error, an empty variable counts as unset in arithmetic, and the left side of
  `a==...` is exempt; `$((nope))` prints 0 before the shell ends (`arith.c:500`). An arithmetic error, or an assignment of
  `${x=w}` that fails, does not end the shell. `$((a=5 b))` fails and leaves `a` at 5.
  `$((x / -1))` of the least long ends the shell with SIGFPE. `expand_heredoc_text_isolated` is never called.
- Memory. `f() { f() { echo new; }; f; echo old; echo old2; }; f` runs the end of the old body from
  memory that holds the new one (it prints `new`, `old` and an error); `unset -f f` inside `f` frees what goes on
  running, and a body that is run as text is freed likewise (`functions.c:155`, `:183`). `ProgramsLast` leaves these steps out. After
  a dot command `current_source_name` points at released memory (`shell.c:2221`), as it does
  while ENV's file is read (`shell.c:1867`). Alias previews outside of commands are allocated in
  `arena_perm` and never released.

## 6. Not modelled

`PROJECT.json` lists every component with its status. Left out for good: prompts,
diagnostics, tracing. Of expansion: finding the parts of a word, `$'...'`, `~user`, line
continuations, cutting arithmetic into tokens, directories in patterns. Of memory: what lies on the heap
or in `arena_perm`. Of the parser: quoting, comments,
here-documents, line continuations, aliases, `;&` and the legacy executor. Inside the modelled
parts: the terminal's foreground group, several operands of one builtin, `case` and `until`
(their control is that of `if` and `while`), what trap commands do beyond `exit`.

## 7. Plan

1. (done) `Vars`, `Environment`: variables, their caches, the path cache, temporary assignments.
2. (done) `Redir`, `SimpleCommand`: redirections of nested commands.
3. (done) `Arena`, `Lifetimes`: what is released when.
4. (done) `Arith`, `WordExpansion`, `CommandWords` against references. Left: `getopts`, symbolic
   `umask`, alias substitution.
5. (done) `ShellText`, `Parser`, `ProgramText`, `Grammar`, `Reader`: what is read is what was
   written. Left: here-documents and alias substitution in the reader.
6. (done) Proofs of the invariants and action properties of `JobTable`, `JobControl`,
   `SignalPolicy`, `TrapEngine`, `Environment`, `SimpleCommand`, `Lifetimes` and `Script`, and
   the refinement of `JobBook`. Left: recursive functions instead of RECURSIVE operators in
   `Arith`, whose tokens are few enough to be proved about.
