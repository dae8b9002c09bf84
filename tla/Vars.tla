-------------------------------- MODULE Vars --------------------------------
(***************************************************************************)
(* The shell variables (vars.c) and the remembered command paths (path.c): *)
(* one table and three caches, in a record                                 *)
(*   table       what each name holds; NoValue if it is not set            *)
(*   mru         state->var_mru, the entry looked up last                  *)
(*   envp        state->exec_envp: the texts its pointers lead to; built   *)
(*               is FALSE while it is NULL                                 *)
(*   dirty       state->exec_envp_dirty                                    *)
(*   paths       where a command was found, by the value of PATH and by    *)
(*               whether the standard path was searched                    *)
(* Every operator that can fail returns [rc, v].                           *)
(*                                                                         *)
(* One command name stands for all.  Left out: the cached number of a      *)
(* variable, which every assignment computes anew from its value.          *)
(***************************************************************************)
EXTENDS Integers, Sequences

CONSTANTS Names,        \* names of variables
          Values,       \* what they can hold
          NoValue,
          FirstLine,    \* the value "1", of LINENO at the start
          Empty,        \* the value ""
          Places,       \* where a command can be found: directories of PATH
          Nowhere,
          SearchPath,   \* the directories a value of PATH names, in order
          StandardPath  \* the value "/bin:/usr/bin"

ASSUME NamesAssumption == {"PATH", "PWD", "OLDPWD", "LINENO"} \subseteq Names
ASSUME ValuesAssumption == {Empty, StandardPath, FirstLine} \subseteq Values /\ NoValue \notin Values
ASSUME PlacesAssumption == Nowhere \notin Places /\ SearchPath \in [Values -> Seq(Places)]

NoName == "none"
ASSUME NoNameAssumption == NoName \notin Names

Texts == Values \cup {NoValue}
Entries == [value : Texts, exported : BOOLEAN, readonly : BOOLEAN, text : Texts]
Keys == Values \X BOOLEAN
Stores == [table : [Names -> Entries], mru : Names \cup {NoName},
           built : BOOLEAN, envp : [Names -> Texts], dirty : BOOLEAN,
           paths : [Keys -> Places \cup {Nowhere}]]

Absent == [value |-> NoValue, exported |-> FALSE, readonly |-> FALSE, text |-> NoValue]
NoPaths == [key \in Keys |-> Nowhere]
NoTexts == [n \in Names |-> NoValue]

Done(store) == [rc |-> 0, v |-> store]
Failed(store) == [rc |-> 1, v |-> store]

-----------------------------------------------------------------------------
(* vars_lookup_entry_n trusts var_mru before it looks in the table.        *)
vars_found(v, n) == v.mru = n \/ v.table[n].value # NoValue
vars_lookup_entry(v, n) == IF vars_found(v, n) THEN [v EXCEPT !.mru = n] ELSE v

vars_mark_exec_envp_dirty(v) == [v EXCEPT !.dirty = TRUE, !.built = FALSE]

path_cache_invalidate(v) == [v EXCEPT !.paths = NoPaths]

(* Mutant: PWD does not matter.                                            *)
vars_maybe_invalidate_path_cache_PathOnly(v, n) ==
  IF n \in {"PATH"} THEN path_cache_invalidate(v) ELSE v

vars_maybe_invalidate_path_cache(v, n) ==
  IF n \in {"PATH", "PWD"} THEN path_cache_invalidate(v) ELSE v

vars_sync_export_text(e) == [e EXCEPT !.text = IF e.exported THEN e.value ELSE NoValue]

(* Mutant: only a variable that is exported now changes the environment.   *)
vars_put_NewOnly(v, n, value, exported, readonly) ==
  LET e == [v.table[n] EXCEPT !.value = value, !.exported = exported,
                              !.readonly = @ \/ readonly]
      w == [v EXCEPT !.table[n] = vars_sync_export_text(e), !.mru = n]
      x == vars_maybe_invalidate_path_cache(w, n)
  IN  IF exported THEN vars_mark_exec_envp_dirty(x) ELSE x

(* A new or an existing entry takes a value (vars_append_new_n,            *)
(* vars_store_n).                                                          *)
vars_put(v, n, value, exported, readonly) ==
  LET e == [v.table[n] EXCEPT !.value = value, !.exported = exported,
                              !.readonly = @ \/ readonly]
      w == [v EXCEPT !.table[n] = vars_sync_export_text(e), !.mru = n]
      x == vars_maybe_invalidate_path_cache(w, n)
  IN  IF v.table[n].exported \/ exported THEN vars_mark_exec_envp_dirty(x) ELSE x

(* Mutant: a read-only variable can be assigned to.                        *)
vars_store_Unchecked(v, n, value, check_readonly, exported, readonly) ==
  Done(vars_put(v, n, value, exported, readonly))

vars_store(v, n, value, check_readonly, exported, readonly) ==
  IF vars_found(v, n) /\ check_readonly /\ v.table[n].readonly
  THEN Failed(vars_lookup_entry(v, n))
  ELSE Done(vars_put(v, n, value, exported, readonly))

vars_set_with_mode(v, n, value, check_readonly, exported) ==
  vars_store(v, n, value, check_readonly, exported, FALSE)

vars_set(v, n, value, check_readonly) == vars_set_with_mode(v, n, value, check_readonly, TRUE)

(* Also vars_set_assignment_long_n, for the value of an arithmetic         *)
(* assignment.                                                             *)
vars_set_assignment(v, n, value, check_readonly, allexport) ==
  vars_store(v, n, value, check_readonly, v.table[n].exported \/ n = "PATH" \/ allexport, FALSE)

(* Mutant: an exported variable keeps no text for the environment.         *)
vars_mark_exported_NoText(v, n) ==
  IF vars_found(v, n)
  THEN vars_mark_exec_envp_dirty(
         vars_maybe_invalidate_path_cache([v EXCEPT !.table[n].exported = TRUE, !.mru = n], n))
  ELSE vars_put(v, n, Empty, TRUE, FALSE)

vars_mark_exported(v, n) ==
  IF vars_found(v, n)
  THEN LET e == [v.table[n] EXCEPT !.exported = TRUE]
           w == [v EXCEPT !.table[n] = vars_sync_export_text(e), !.mru = n]
       IN  vars_mark_exec_envp_dirty(vars_maybe_invalidate_path_cache(w, n))
  ELSE vars_put(v, n, Empty, TRUE, FALSE)

vars_mark_readonly(v, n) ==
  IF vars_found(v, n) THEN [v EXCEPT !.table[n].readonly = TRUE, !.mru = n]
                      ELSE vars_put(v, n, Empty, FALSE, TRUE)

vars_mark_readonly_with_value(v, n, value) ==
  vars_store(v, n, value, TRUE, v.table[n].exported, TRUE)

(* Mutant: the entry looked up last is not forgotten.                      *)
vars_unset_KeepsMru(v, n) ==
  LET e == v.table[n]
      w == [v EXCEPT !.table[n] = Absent, !.mru = n]
      x == IF e.exported THEN vars_mark_exec_envp_dirty(w) ELSE w
  IN  IF ~vars_found(v, n) THEN Done(v)
      ELSE IF e.readonly THEN Failed(vars_lookup_entry(v, n))
      ELSE Done(vars_maybe_invalidate_path_cache(x, n))

vars_unset(v, n) ==
  LET e == v.table[n]
      w == [v EXCEPT !.table[n] = Absent, !.mru = NoName]
      x == IF e.exported THEN vars_mark_exec_envp_dirty(w) ELSE w
  IN  IF ~vars_found(v, n) THEN Done(v)
      ELSE IF e.readonly THEN Failed(vars_lookup_entry(v, n))
      ELSE Done(vars_maybe_invalidate_path_cache(x, n))

vars_build_envp(v) ==
  IF ~v.dirty /\ v.built THEN v
  ELSE [v EXCEPT !.envp = [n \in Names |-> v.table[n].text], !.built = TRUE, !.dirty = FALSE]

(* The variables at the start: those of environ, exported, and LINENO.     *)
vars_init(environ) ==
  [table |-> [n \in Names |->
     IF n = "LINENO"
     THEN [value |-> FirstLine, exported |-> FALSE, readonly |-> FALSE, text |-> NoValue]
     ELSE [value |-> environ[n], exported |-> environ[n] # NoValue,
           readonly |-> FALSE, text |-> environ[n]]],
   mru |-> NoName, built |-> FALSE, envp |-> NoTexts, dirty |-> TRUE, paths |-> NoPaths]

-----------------------------------------------------------------------------
(* The first directory that has the command; present are those that do.    *)
path_search_command_in_path(value, present) ==
  LET path == SearchPath[value]
      hits == {i \in DOMAIN path : path[i] \in present}
  IN  IF hits = {} THEN Nowhere
      ELSE path[CHOOSE i \in hits : \A j \in hits : i <= j]

(* A remembered place counts as long as there is an executable file.       *)
path_cache_hit(v, key, present) == v.paths[key] \in present

(* The command's place, and the variables with what is remembered now.     *)
path_resolve_command(v, use_standard_path, present) ==
  LET w == IF use_standard_path THEN v ELSE vars_lookup_entry(v, "PATH")
      value == IF use_standard_path THEN StandardPath ELSE v.table["PATH"].value
      key == <<value, use_standard_path>>
      found == path_search_command_in_path(value, present)
  IN  IF value \in {NoValue, Empty} THEN [place |-> Nowhere, v |-> w]
      ELSE IF path_cache_hit(v, key, present) THEN [place |-> v.paths[key], v |-> w]
      ELSE [place |-> found, v |-> [w EXCEPT !.paths[key] = found]]
=============================================================================
