------------------------- MODULE Environment_proofs -------------------------
(***************************************************************************)
(* What holds of variables, caches and temporary assignments for every set *)
(* of names and values and every nesting of calls.                         *)
(***************************************************************************)
EXTENDS Environment, SequenceTheorems, WellFoundedInduction, TLAPS

(* A sound store: entries agree with their export texts, an unset name has *)
(* nothing, and the two caches over the table are right.                   *)
Synced(table) ==
  \A n \in Names : /\ table[n].text = IF table[n].exported THEN table[n].value ELSE NoValue
                   /\ table[n].value = NoValue => table[n] = Absent

Sound(w) == /\ w \in Stores
            /\ Synced(w.table)
            /\ w.built /\ ~w.dirty => w.envp = Environ(w.table)
            /\ w.mru # NoName => w.table[w.mru].value # NoValue

Entry(value, exported, readonly) ==
  [value |-> value, exported |-> exported, readonly |-> readonly,
   text |-> IF exported THEN value ELSE NoValue]

(* w and x have the same entries except for n.                             *)
SameBut(w, x, n) == \A k \in Names \ {n} : x.table[k] = w.table[k]

(* What is remembered is as before or gone; it is gone after PATH and PWD. *)
Forgets(w, x, n) == /\ x.paths \in {w.paths, NoPaths}
                    /\ n \in {"PATH", "PWD"} => x.paths = NoPaths

(* What is read-only stays so, with its value.                             *)
KeepsReadonly(w, x) ==
  \A n \in Names : w.table[n].readonly => /\ x.table[n].readonly
                                         /\ x.table[n].value = w.table[n].value

(* What an operation on n returned: nothing was done, or n was set.        *)
Outcome(w, n, r, new) ==
  /\ Sound(r.v)
  /\ SameBut(w, r.v, n)
  /\ \/ r.rc = 1 /\ r.v.table = w.table /\ r.v.paths = w.paths /\ w.table[n].readonly
     \/ r.rc = 0 /\ r.v.table[n] = new /\ Forgets(w, r.v, n)

(* An operation that respects read-only variables.                         *)
Kept(w, x) == Sound(x) /\ x.paths \in {w.paths, NoPaths} /\ KeepsReadonly(w, x)

-----------------------------------------------------------------------------
(* A named entry is found exactly if it is set.                            *)
LEMMA Found ==
  ASSUME NEW w, Sound(w), NEW n \in Names
  PROVE  /\ vars_found(w, n) <=> w.table[n].value # NoValue
         /\ w.table[n] \in Entries
         /\ w.table[n].readonly => vars_found(w, n)
<1>1. vars_found(w, n) <=> w.table[n].value # NoValue
  BY NoNameAssumption DEF Sound, vars_found
<1>2. w.table[n] \in Entries
  BY DEF Sound, Stores
<1>3. ASSUME w.table[n].value = NoValue
      PROVE  ~w.table[n].readonly
  <2>1. w.table[n] = Absent
    BY <1>3 DEF Sound, Synced
  <2>2. ~Absent.readonly
    BY DEF Absent
  <2> QED
    BY <2>1, <2>2
<1> QED
  BY <1>1, <1>2, <1>3

(* A lookup caches a text; it changes no variable.                         *)
LEMMA LookupKeeps ==
  ASSUME NEW w, Sound(w), NEW n \in Names
  PROVE  /\ Sound(vars_lookup_entry(w, n))
         /\ vars_lookup_entry(w, n).table = w.table
         /\ vars_lookup_entry(w, n).paths = w.paths
<1>1. CASE vars_found(w, n)
  <2> DEFINE x == [w EXCEPT !.mru = n]
  <2>1. x \in Stores /\ x.table = w.table /\ x.paths = w.paths /\ x.built = w.built
        /\ x.dirty = w.dirty /\ x.envp = w.envp /\ x.mru = n
    BY DEF Sound, Stores
  <2>2. w.table[n].value # NoValue
    BY Found, <1>1
  <2>3. Sound(x)
    BY <2>1, <2>2 DEF Sound
  <2> QED
    BY <1>1, <2>1, <2>3 DEF vars_lookup_entry
<1> QED
  BY <1>1 DEF vars_lookup_entry

(* Updating an entry keeps the text that the environment may point to.     *)
LEMMA Updated ==
  ASSUME NEW e \in Entries, NEW value, NEW exported, NEW readonly
  PROVE  [e EXCEPT !.value = value, !.exported = exported, !.readonly = readonly]
           = [value |-> value, exported |-> exported, readonly |-> readonly, text |-> e.text]
<1> DEFINE x == [e EXCEPT !.value = value, !.exported = exported, !.readonly = readonly]
<1>1. e \in [value : {e.value}, exported : {e.exported}, readonly : {e.readonly}, text : {e.text}]
  BY DEF Entries
<1>2. x \in [value : {value}, exported : {exported}, readonly : {readonly}, text : {e.text}]
  BY <1>1
<1> HIDE DEF x
<1>3. x = [value |-> value, exported |-> exported, readonly |-> readonly, text |-> e.text]
  BY <1>2
<1> QED
  BY <1>3 DEF x

(* An entry takes a value: it alone changes, and the environment is marked *)
(* whenever it was or becomes part of it.                                  *)
LEMMA PutKeeps ==
  ASSUME NEW w, Sound(w), NEW n \in Names, NEW value \in Values,
         NEW exported \in BOOLEAN, NEW readonly \in BOOLEAN
  PROVE  LET x == vars_put(w, n, value, exported, readonly)
         IN  /\ Sound(x)
             /\ SameBut(w, x, n)
             /\ x.table[n] = Entry(value, exported, w.table[n].readonly \/ readonly)
             /\ Forgets(w, x, n)
<1> DEFINE e == [w.table[n] EXCEPT !.value = value, !.exported = exported,
                                   !.readonly = @ \/ readonly]
           new == Entry(value, exported, w.table[n].readonly \/ readonly)
           y == [w EXCEPT !.table[n] = new, !.mru = n]
           z == vars_maybe_invalidate_path_cache(y, n)
           x == vars_put(w, n, value, exported, readonly)
<1>1. w \in Stores /\ w.table[n] \in Entries
  BY DEF Sound, Stores
<1>2. vars_sync_export_text(e) = new
  <2>1. e = [value |-> value, exported |-> exported, readonly |-> w.table[n].readonly \/ readonly,
             text |-> w.table[n].text]
    <3>1. (w.table[n].readonly \/ readonly) \in BOOLEAN
      OBVIOUS
    <3> QED
      BY <1>1, <3>1, Updated, ZenonT(60)
  <2> HIDE DEF e
  <2> QED
    BY <2>1 DEF vars_sync_export_text, Entry
<1>3. new \in Entries /\ new.value # NoValue
  BY <1>1, ValuesAssumption DEF Entry, Entries, Texts
<1>4. /\ y \in Stores
      /\ y.table = [w.table EXCEPT ![n] = new] /\ y.mru = n /\ y.paths = w.paths
      /\ y.built = w.built /\ y.dirty = w.dirty /\ y.envp = w.envp
  BY <1>1, <1>3 DEF Stores
<1>5. /\ z \in Stores /\ z.table = y.table /\ z.mru = n
      /\ z.built = w.built /\ z.dirty = w.dirty /\ z.envp = w.envp
      /\ Forgets(w, z, n)
  BY <1>4 DEF vars_maybe_invalidate_path_cache, path_cache_invalidate, Stores, NoPaths, Forgets
<1>6. /\ x \in Stores /\ x.table = y.table /\ x.mru = n /\ x.paths = z.paths /\ x.envp = w.envp
      /\ IF w.table[n].exported \/ exported THEN ~x.built
         ELSE x.built = w.built /\ x.dirty = w.dirty
  BY <1>2, <1>5, ZenonT(60) DEF vars_put, vars_mark_exec_envp_dirty, Stores
<1>7. SameBut(w, x, n) /\ x.table[n] = new
  BY <1>1, <1>4, <1>6 DEF SameBut, Stores
<1>8. Synced(x.table)
  <2> SUFFICES ASSUME NEW k \in Names
               PROVE  /\ x.table[k].text = IF x.table[k].exported THEN x.table[k].value ELSE NoValue
                      /\ x.table[k].value = NoValue => x.table[k] = Absent
    BY DEF Synced
  <2>1. CASE k = n
    BY <2>1, <1>3, <1>7 DEF Entry
  <2>2. CASE k # n
    BY <2>2, <1>7 DEF Sound, Synced, SameBut
  <2> QED
    BY <2>1, <2>2
<1>9. x.built /\ ~x.dirty => x.envp = Environ(x.table)
  <2> SUFFICES ASSUME x.built, ~x.dirty
               PROVE  x.envp = Environ(x.table)
    OBVIOUS
  <2>1. ~w.table[n].exported /\ ~exported /\ w.built /\ ~w.dirty
    BY <1>6
  <2>2. ASSUME NEW k \in Names
        PROVE  (IF w.table[k].exported THEN w.table[k].value ELSE NoValue)
                 = (IF x.table[k].exported THEN x.table[k].value ELSE NoValue)
    <3>1. CASE k = n
      <4>1. ~w.table[k].exported /\ ~x.table[k].exported
        BY <3>1, <2>1, <1>7 DEF Entry
      <4> QED
        BY <4>1
    <3>2. CASE k # n
      <4>1. w.table[k] = x.table[k]
        BY <3>2, <1>7 DEF SameBut
      <4> QED
        BY <4>1
    <3> QED
      BY <3>1, <3>2
  <2>3. w.envp = Environ(w.table)
    BY <2>1 DEF Sound
  <2> QED
    BY <2>2, <2>3, <1>6 DEF Environ
<1> QED
  BY <1>3, <1>5, <1>6, <1>7, <1>8, <1>9 DEF Sound, Forgets

(* vars_store leaves a read-only entry alone if it is asked to check.      *)
LEMMA StoreKeeps ==
  ASSUME NEW w, Sound(w), NEW n \in Names, NEW value \in Values,
         NEW check_readonly \in BOOLEAN, NEW exported \in BOOLEAN, NEW readonly \in BOOLEAN
  PROVE  LET r == vars_store(w, n, value, check_readonly, exported, readonly)
         IN  /\ Outcome(w, n, r, Entry(value, exported, w.table[n].readonly \/ readonly))
             /\ r.rc = 1 <=> check_readonly /\ w.table[n].readonly
<1> DEFINE r == vars_store(w, n, value, check_readonly, exported, readonly)
<1>1. w.table[n].readonly => vars_found(w, n)
  BY Found
<1>2. CASE check_readonly /\ w.table[n].readonly
  <2>1. r = Failed(vars_lookup_entry(w, n))
    BY <1>1, <1>2 DEF vars_store
  <2>2. /\ r.v = vars_lookup_entry(w, n) /\ r.rc = 1
    BY <2>1 DEF Failed
  <2>3. Sound(r.v) /\ r.v.table = w.table /\ r.v.paths = w.paths
    BY <2>2, LookupKeeps
  <2> QED
    BY <1>2, <2>2, <2>3 DEF Outcome, SameBut
<1>3. CASE ~(check_readonly /\ w.table[n].readonly)
  <2>1. r = Done(vars_put(w, n, value, exported, readonly))
    BY <1>3 DEF vars_store
  <2>2. r.v = vars_put(w, n, value, exported, readonly) /\ r.rc = 0
    BY <2>1 DEF Done
  <2>3. /\ Sound(r.v)
        /\ SameBut(w, r.v, n)
        /\ r.v.table[n] = Entry(value, exported, w.table[n].readonly \/ readonly)
        /\ Forgets(w, r.v, n)
    BY <2>2, PutKeeps
  <2> QED
    BY <1>3, <2>2, <2>3 DEF Outcome
<1> QED
  BY <1>2, <1>3

(* A store that heeds readonly changes no readonly variable.               *)
LEMMA StoreKeepsReadonly ==
  ASSUME NEW w, Sound(w), NEW n \in Names, NEW value \in Values,
         NEW exported \in BOOLEAN, NEW readonly \in BOOLEAN
  PROVE  KeepsReadonly(w, vars_store(w, n, value, TRUE, exported, readonly).v)
<1> DEFINE r == vars_store(w, n, value, TRUE, exported, readonly)
<1>1. /\ Outcome(w, n, r, Entry(value, exported, w.table[n].readonly \/ readonly))
      /\ r.rc = 1 <=> TRUE /\ w.table[n].readonly
  <2>1. TRUE \in BOOLEAN
    OBVIOUS
  <2> QED
    BY <2>1, StoreKeeps, ZenonT(60)
<1> HIDE DEF r
<1>2. ASSUME NEW k \in Names, w.table[k].readonly
      PROVE  r.v.table[k] = w.table[k]
  BY <1>1, <1>2 DEF Outcome, SameBut
<1> QED
  BY <1>2 DEF KeepsReadonly, r

(* unset: a read-only entry stays.                                         *)
LEMMA UnsetKeeps ==
  ASSUME NEW w, Sound(w), NEW n \in Names
  PROVE  LET r == vars_unset(w, n)
         IN  /\ Sound(r.v)
             /\ SameBut(w, r.v, n)
             /\ r.v.paths \in {w.paths, NoPaths}
             /\ \/ r.rc = 1 /\ r.v.table = w.table /\ w.table[n].readonly
                \/ r.rc = 0 /\ r.v.table[n] = Absent /\ ~w.table[n].readonly
             /\ KeepsReadonly(w, r.v)
<1> DEFINE r == vars_unset(w, n)
           y == [w EXCEPT !.table[n] = Absent, !.mru = NoName]
           z == IF w.table[n].exported THEN vars_mark_exec_envp_dirty(y) ELSE y
           x == vars_maybe_invalidate_path_cache(z, n)
<1>1. w.table[n].readonly => vars_found(w, n)
  BY Found
<1>2. CASE ~vars_found(w, n)
  <2>1. r = Done(w)
    BY <1>2 DEF vars_unset
  <2>2. w.table[n] = Absent
    BY <1>2, Found DEF Sound, Synced
  <2> QED
    BY <2>1, <2>2 DEF Done, SameBut, KeepsReadonly, Absent
<1>3. CASE vars_found(w, n) /\ w.table[n].readonly
  <2>1. r = Failed(vars_lookup_entry(w, n))
    BY <1>3 DEF vars_unset
  <2> QED
    BY <1>3, <2>1, LookupKeeps DEF Failed, SameBut, KeepsReadonly
<1>4. CASE vars_found(w, n) /\ ~w.table[n].readonly
  <2>1. r = Done(x)
    BY <1>4 DEF vars_unset
  <2>2. w \in Stores /\ Absent \in Entries
    BY DEF Sound, Absent, Entries, Texts
  <2>3. /\ y \in Stores /\ y.table = [w.table EXCEPT ![n] = Absent] /\ y.mru = NoName
        /\ y.paths = w.paths /\ y.built = w.built /\ y.dirty = w.dirty /\ y.envp = w.envp
    BY <2>2 DEF Stores
  <2>4. /\ z \in Stores /\ z.table = y.table /\ z.mru = NoName /\ z.paths = w.paths
        /\ z.envp = w.envp
        /\ IF w.table[n].exported THEN ~z.built ELSE z.built = w.built /\ z.dirty = w.dirty
    BY <2>3 DEF vars_mark_exec_envp_dirty, Stores
  <2>5. /\ x \in Stores /\ x.table = y.table /\ x.mru = NoName /\ x.envp = w.envp
        /\ x.paths \in {w.paths, NoPaths}
        /\ IF w.table[n].exported THEN ~x.built ELSE x.built = w.built /\ x.dirty = w.dirty
    BY <2>4 DEF vars_maybe_invalidate_path_cache, path_cache_invalidate, Stores, NoPaths
  <2>6. SameBut(w, x, n) /\ x.table[n] = Absent
    BY <2>2, <2>3, <2>5 DEF SameBut, Stores
  <2>7. Synced(x.table)
    <3> SUFFICES ASSUME NEW k \in Names
                 PROVE  /\ x.table[k].text = IF x.table[k].exported THEN x.table[k].value ELSE NoValue
                        /\ x.table[k].value = NoValue => x.table[k] = Absent
      BY DEF Synced
    <3>1. CASE k = n
      BY <3>1, <2>6 DEF Absent
    <3>2. CASE k # n
      BY <3>2, <2>6 DEF Sound, Synced, SameBut
    <3> QED
      BY <3>1, <3>2
  <2>8. x.built /\ ~x.dirty => x.envp = Environ(x.table)
    <3> SUFFICES ASSUME x.built, ~x.dirty
                 PROVE  x.envp = Environ(x.table)
      OBVIOUS
    <3>1. ~w.table[n].exported /\ w.built /\ ~w.dirty
      BY <2>5
    <3>2. ASSUME NEW k \in Names
          PROVE  (IF w.table[k].exported THEN w.table[k].value ELSE NoValue)
                   = (IF x.table[k].exported THEN x.table[k].value ELSE NoValue)
      <4>1. CASE k = n
        BY <4>1, <3>1, <2>6 DEF Absent
      <4>2. CASE k # n
        <5>1. w.table[k] = x.table[k]
          BY <4>2, <2>6 DEF SameBut
        <5> QED
          BY <5>1
      <4> QED
        BY <4>1, <4>2
    <3>3. w.envp = Environ(w.table)
      BY <3>1 DEF Sound
    <3> QED
      BY <3>2, <3>3, <2>5 DEF Environ
  <2>9. Sound(x)
    BY <2>5, <2>7, <2>8 DEF Sound
  <2> QED
    BY <1>4, <2>1, <2>5, <2>6, <2>9, SMTT(40) DEF Done, SameBut, KeepsReadonly
<1> QED
  BY <1>2, <1>3, <1>4

(* A variable that is set gets other attributes and keeps its value.       *)
LEMMA AttributesChange ==
  ASSUME NEW w, Sound(w), NEW n \in Names, w.table[n].value # NoValue,
         NEW e \in Entries, e.value = w.table[n].value,
         e.text = IF e.exported THEN e.value ELSE NoValue,
         w.table[n].readonly => e.readonly,
         NEW x \in Stores, x.table = [w.table EXCEPT ![n] = e], x.mru = n, x.envp = w.envp,
         x.paths \in {w.paths, NoPaths},
         ~x.built \/ (e.exported = w.table[n].exported /\ x.built = w.built /\ x.dirty = w.dirty)
  PROVE  Kept(w, x)
<1>1. SameBut(w, x, n) /\ x.table[n] = e
  BY DEF SameBut, Sound, Stores
<1>2. Synced(x.table)
  BY <1>1 DEF Synced, Sound, SameBut
<1>3. x.built /\ ~x.dirty => x.envp = Environ(x.table)
  <2> SUFFICES ASSUME x.built, ~x.dirty
               PROVE  x.envp = Environ(x.table)
    OBVIOUS
  <2>1. ASSUME NEW k \in Names
        PROVE  (IF w.table[k].exported THEN w.table[k].value ELSE NoValue)
                 = (IF x.table[k].exported THEN x.table[k].value ELSE NoValue)
    <3>1. CASE k = n
      BY <3>1, <1>1
    <3>2. CASE k # n
      <4>1. w.table[k] = x.table[k]
        BY <3>2, <1>1 DEF SameBut
      <4> QED
        BY <4>1
    <3> QED
      BY <3>1, <3>2
  <2>2. w.envp = Environ(w.table)
    BY DEF Sound
  <2> QED
    BY <2>1, <2>2 DEF Environ
<1>4. Sound(x)
  BY <1>1, <1>2, <1>3 DEF Sound
<1>5. KeepsReadonly(w, x)
  BY <1>1 DEF KeepsReadonly, SameBut
<1> QED
  BY <1>4, <1>5 DEF Kept

(* A put to a variable that is not read-only.                              *)
LEMMA PutKept ==
  ASSUME NEW w, Sound(w), NEW n \in Names, ~w.table[n].readonly, NEW value \in Values,
         NEW exported \in BOOLEAN, NEW readonly \in BOOLEAN
  PROVE  Kept(w, vars_put(w, n, value, exported, readonly))
<1> DEFINE x == vars_put(w, n, value, exported, readonly)
<1>1. Sound(x) /\ SameBut(w, x, n) /\ Forgets(w, x, n)
  BY PutKeeps
<1> HIDE DEF x
<1>2. KeepsReadonly(w, x)
  BY <1>1 DEF SameBut, KeepsReadonly
<1>3. Kept(w, x)
  BY <1>1, <1>2 DEF Kept, Forgets
<1> QED
  BY <1>3 DEF x

(* Marking a variable exported keeps the values.                           *)
LEMMA MarkExportedKeeps ==
  ASSUME NEW w, Sound(w), NEW n \in Names
  PROVE  Kept(w, vars_mark_exported(w, n))
<1>1. CASE vars_found(w, n)
  <2> DEFINE e == [w.table[n] EXCEPT !.exported = TRUE]
             new == vars_sync_export_text(e)
             y == [w EXCEPT !.table[n] = new, !.mru = n]
             z == vars_maybe_invalidate_path_cache(y, n)
             x == vars_mark_exec_envp_dirty(z)
  <2>1. w \in Stores /\ w.table[n] \in Entries /\ w.table[n].value # NoValue
    BY <1>1, Found DEF Sound
  <2>2. /\ e \in Entries /\ e.value = w.table[n].value /\ e.exported
        /\ e.readonly = w.table[n].readonly
    BY <2>1 DEF Entries
  <2> HIDE DEF e
  <2>3. /\ new \in Entries /\ new.value = w.table[n].value /\ new.exported
        /\ new.readonly = w.table[n].readonly /\ new.text = new.value
    BY <2>2 DEF Entries, vars_sync_export_text
  <2> HIDE DEF new
  <2>4. /\ y \in Stores /\ y.table = [w.table EXCEPT ![n] = new] /\ y.mru = n
        /\ y.paths = w.paths /\ y.envp = w.envp
    BY <2>1, <2>3 DEF Stores
  <2> HIDE DEF y
  <2>5. /\ z \in Stores /\ z.table = y.table /\ z.mru = n
        /\ z.paths \in {w.paths, NoPaths} /\ z.envp = w.envp
    BY <2>4 DEF vars_maybe_invalidate_path_cache, path_cache_invalidate, Stores, NoPaths
  <2> HIDE DEF z
  <2>6. /\ x \in Stores /\ x.table = y.table /\ x.mru = n
        /\ x.paths \in {w.paths, NoPaths} /\ x.envp = w.envp /\ ~x.built
    BY <2>5 DEF vars_mark_exec_envp_dirty, Stores
  <2>7. vars_mark_exported(w, n) = x
    BY <1>1 DEF vars_mark_exported, e, new, y, z
  <2> HIDE DEF x
  <2>8. Kept(w, x)
    BY <2>1, <2>3, <2>4, <2>6, AttributesChange
  <2> QED
    BY <2>7, <2>8
<1>2. CASE ~vars_found(w, n)
  <2>1. vars_mark_exported(w, n) = vars_put(w, n, Empty, TRUE, FALSE) /\ ~w.table[n].readonly
    BY <1>2, Found DEF vars_mark_exported
  <2> QED
    BY <2>1, PutKept, ValuesAssumption
<1> QED
  BY <1>1, <1>2

(* Marking a variable readonly keeps the values.                           *)
LEMMA MarkReadonlyKeeps ==
  ASSUME NEW w, Sound(w), NEW n \in Names
  PROVE  Kept(w, vars_mark_readonly(w, n))
<1>1. CASE vars_found(w, n)
  <2> DEFINE e == [w.table[n] EXCEPT !.readonly = TRUE]
             x == [w EXCEPT !.table[n].readonly = TRUE, !.mru = n]
  <2>1. w \in Stores /\ w.table[n] \in Entries /\ w.table[n].value # NoValue
    BY <1>1, Found DEF Sound
  <2>2. /\ e \in Entries /\ e.value = w.table[n].value /\ e.exported = w.table[n].exported
        /\ e.readonly /\ e.text = w.table[n].text
    BY <2>1 DEF Entries
  <2>3. x = [w EXCEPT !.table[n] = e, !.mru = n]
    OBVIOUS
  <2> HIDE DEF e
  <2>4. /\ x \in Stores /\ x.table = [w.table EXCEPT ![n] = e] /\ x.mru = n
        /\ x.paths = w.paths /\ x.envp = w.envp /\ x.built = w.built /\ x.dirty = w.dirty
    BY <2>1, <2>2, <2>3, ZenonT(60) DEF Stores
  <2>5. vars_mark_readonly(w, n) = x
    BY <1>1 DEF vars_mark_readonly
  <2> HIDE DEF x
  <2>6. e.text = IF e.exported THEN e.value ELSE NoValue
    BY <2>2 DEF Sound, Synced
  <2>7. Kept(w, x)
    BY <2>1, <2>2, <2>4, <2>6, AttributesChange
  <2> QED
    BY <2>5, <2>7
<1>2. CASE ~vars_found(w, n)
  <2>1. vars_mark_readonly(w, n) = vars_put(w, n, Empty, FALSE, TRUE) /\ ~w.table[n].readonly
    BY <1>2, Found DEF vars_mark_readonly
  <2> QED
    BY <2>1, PutKept, ValuesAssumption
<1> QED
  BY <1>1, <1>2

(* The vector is made of the texts, which are those of the environment.    *)
LEMMA BuildEnvpKeeps ==
  ASSUME NEW w, Sound(w)
  PROVE  LET x == vars_build_envp(w)
         IN  Sound(x) /\ x.table = w.table /\ x.paths = w.paths /\ x.envp \in [Names -> Texts]
<1> DEFINE x == vars_build_envp(w)
<1>1. CASE ~w.dirty /\ w.built
  BY <1>1 DEF vars_build_envp, Sound, Stores
<1>2. CASE ~(~w.dirty /\ w.built)
  <2> DEFINE texts == [n \in Names |-> w.table[n].text]
  <2>1. texts \in [Names -> Texts] /\ texts = Environ(w.table)
    BY DEF Sound, Synced, Stores, Entries, Environ
  <2> HIDE DEF texts
  <2>2. x = [w EXCEPT !.envp = texts, !.built = TRUE, !.dirty = FALSE]
    BY <1>2 DEF vars_build_envp, texts
  <2>3. /\ x \in Stores /\ x.table = w.table /\ x.paths = w.paths /\ x.envp = texts
        /\ x.mru = w.mru
    BY <2>1, <2>2 DEF Sound, Stores
  <2> HIDE DEF x
  <2>4. Sound(x)
    BY <2>1, <2>3 DEF Sound
  <2> QED
    BY <2>1, <2>3, <2>4 DEF x
<1> QED
  BY <1>1, <1>2

(* A search finds the first place that has the command.                    *)
LEMMA SearchFinds ==
  ASSUME NEW value \in Values, NEW present
  PROVE  LET path == SearchPath[value]
             found == path_search_command_in_path(value, present)
         IN  \/ found = Nowhere /\ \A i \in DOMAIN path : path[i] \notin present
             \/ \E i \in DOMAIN path : /\ path[i] = found /\ found \in present
                                       /\ \A j \in DOMAIN path : j < i => path[j] \notin present
<1> DEFINE path == SearchPath[value]
           hits == {i \in DOMAIN path : path[i] \in present}
<1>1. DOMAIN path \subseteq Nat
  BY PlacesAssumption
<1>2. CASE hits = {}
  BY <1>2 DEF path_search_command_in_path
<1>3. CASE hits # {}
  <2>1. PICK first \in hits : \A j \in hits : ~(<<j, first>> \in OpToRel(<, Nat))
    <3>1. hits \subseteq Nat
      BY <1>1
    <3> QED
      BY <1>3, <3>1, NatLessThanWellFounded, WFMin
  <2>2. \A j \in hits : first <= j
    <3> DEFINE less == {ss \in Nat \X Nat : ss[1] < ss[2]}
    <3>1. OpToRel(<, Nat) = less
      BY DEF OpToRel
    <3>2. \A j \in hits : ~(<<j, first>> \in less)
      BY <2>1, <3>1
    <3>3. ASSUME NEW j \in hits
          PROVE  first <= j
      <4>1. j \in Nat /\ first \in Nat
        BY <1>1
      <4>2. <<j, first>> \notin less
        BY <3>2
      <4>3. ~(j < first)
        BY <4>1, <4>2
      <4> QED
        BY <4>1, <4>3
    <3> QED
      BY <3>3
  <2> DEFINE i == CHOOSE i \in hits : \A j \in hits : i <= j
  <2>3. i \in hits /\ \A j \in hits : i <= j
    BY <2>2
  <2>4. path_search_command_in_path(value, present) = path[i]
    BY <1>3 DEF path_search_command_in_path
  <2> HIDE DEF i
  <2>5. \A j \in DOMAIN path : j < i => path[j] \notin present
    BY <2>3, <1>1
  <2> QED
    BY <2>3, <2>4, <2>5
<1> QED
  BY <1>2, <1>3

(* What resolving returned: only the place that was found is remembered.   *)
Resolved(w, use_standard_path, present, r) ==
  /\ Sound(r.v) /\ r.v.table = w.table
  /\ r.place \in Places \cup {Nowhere}
  /\ \/ r.v.paths = w.paths
     \/ \E value \in Values :
          r.v.paths = [w.paths EXCEPT ![<<value, use_standard_path>>] =
                         path_search_command_in_path(value, present)]

(* Resolving remembers the place that was found, and nothing else.         *)
LEMMA ResolveKeeps ==
  ASSUME NEW w, Sound(w), NEW use_standard_path \in BOOLEAN, NEW present
  PROVE  Resolved(w, use_standard_path, present,
                  path_resolve_command(w, use_standard_path, present))
<1> DEFINE r == path_resolve_command(w, use_standard_path, present)
           x == IF use_standard_path THEN w ELSE vars_lookup_entry(w, "PATH")
           value == IF use_standard_path THEN StandardPath ELSE w.table["PATH"].value
           key == <<value, use_standard_path>>
           found == path_search_command_in_path(value, present)
<1>1. Sound(x) /\ x.table = w.table /\ x.paths = w.paths
  BY LookupKeeps, NamesAssumption
<1>2. value \in Texts
  <2>1. w.table["PATH"] \in Entries
    BY NamesAssumption DEF Sound, Stores
  <2> QED
    BY <2>1, ValuesAssumption DEF Texts, Entries
<1> HIDE DEF x, value
<1>3. CASE value \in {NoValue, Empty}
  <2>1. r = [place |-> Nowhere, v |-> x]
    BY <1>3 DEF path_resolve_command, x, value
  <2> QED
    BY <2>1, <1>1 DEF Resolved
<1>4. CASE value \notin {NoValue, Empty} /\ path_cache_hit(w, key, present)
  <2>1. r = [place |-> w.paths[key], v |-> x]
    BY <1>4 DEF path_resolve_command, x, value
  <2>2. key \in Keys
    BY <1>2, <1>4 DEF Texts, Keys
  <2>3. w.paths[key] \in Places \cup {Nowhere}
    BY <2>2 DEF Sound, Stores
  <2> QED
    BY <2>1, <2>3, <1>1 DEF Resolved
<1>5. CASE value \notin {NoValue, Empty} /\ ~path_cache_hit(w, key, present)
  <2>1. r = [place |-> found, v |-> [x EXCEPT !.paths[key] = found]]
    BY <1>5 DEF path_resolve_command, x, value
  <2>2. value \in Values /\ key \in Keys
    BY <1>2, <1>5 DEF Texts, Keys
  <2>3. found \in Places \cup {Nowhere}
    <3>1. SearchPath[value] \in Seq(Places)
      BY <2>2, PlacesAssumption
    <3>2. \A i \in DOMAIN SearchPath[value] : SearchPath[value][i] \in Places
      BY <3>1
    <3> QED
      BY <2>2, <3>2, SearchFinds
  <2> HIDE DEF found
  <2> DEFINE y == [x EXCEPT !.paths[key] = found]
  <2>4. /\ y \in Stores /\ y.table = w.table /\ y.paths = [w.paths EXCEPT ![key] = found]
        /\ y.built = x.built /\ y.dirty = x.dirty /\ y.envp = x.envp /\ y.mru = x.mru
    BY <1>1, <2>2, <2>3 DEF Sound, Stores
  <2> HIDE DEF y
  <2>5. Sound(y)
    BY <1>1, <2>4 DEF Sound
  <2>6. r.v = y /\ r.place = found
    BY <2>1 DEF y
  <2> HIDE DEF r
  <2>7. \E u \in Values : r.v.paths = [w.paths EXCEPT ![<<u, use_standard_path>>] =
                                         path_search_command_in_path(u, present)]
    BY <2>2, <2>4, <2>6 DEF found
  <2> QED
    BY <2>3, <2>4, <2>5, <2>6, <2>7 DEF r, Resolved
<1> QED
  BY <1>3, <1>4, <1>5

-----------------------------------------------------------------------------
(* The invariant.  Everything but the store and the frames has its type.   *)
OtherTypes ==
  /\ script \in Scripts /\ interactive \in BOOLEAN
  /\ allexport \in BOOLEAN /\ should_exit \in BOOLEAN /\ astray \in BOOLEAN
  /\ cwd \in Dirs /\ files \subseteq Dirs /\ made \subseteq Dirs
  /\ ran \in [place : Places \cup {Nowhere}, env : [Names -> Texts]]
  /\ commands \in Nat /\ numbered \in BOOLEAN

SavedNames(f) == {f.saved[i].name : i \in DOMAIN f.saved}

(* What was saved first for a name is what it held before the call.        *)
SavedBefore(f) ==
  /\ f.before \in [Names -> Entries] /\ Synced(f.before)
  /\ SavedNames(f) \subseteq f.names
  /\ \A i \in DOMAIN f.saved :
       \/ \E j \in DOMAIN f.saved : j < i /\ f.saved[j].name = f.saved[i].name
       \/ /\ f.saved[i].old = f.before[f.saved[i].name].value
          /\ f.saved[i].was_exported = f.before[f.saved[i].name].exported
  /\ f.phase # "restoring" => f.names \subseteq SavedNames(f)

(* The name is as it was before, or was not set and cannot be unset.       *)
Undone(f, table, n) ==
  \/ table[n].value = f.before[n].value /\ table[n].exported = f.before[n].exported
  \/ f.before[n].value = NoValue /\ table[n].readonly

(* The innermost call and the variables.                                   *)
TopAgrees(f, table) ==
  /\ f.phase = "applying" => \A n \in Names \ f.names : table[n] = f.before[n]
  /\ f.phase = "restoring" => \A n \in f.names \ SavedNames(f) : Undone(f, table, n)

FramesInv ==
  /\ frames \in Seq(Frames)
  /\ \A i \in DOMAIN frames : SavedBefore(frames[i])
  /\ \A i \in DOMAIN frames : i < Len(frames) => frames[i].phase = "body"
  /\ frames # <<>> => TopAgrees(Top, v.table)

Loc(p) == IF p = Here THEN cwd ELSE p

(* A search in value would lead to p if it came to it, or to a new file.   *)
Leads(value, p) ==
  \E i \in DOMAIN SearchPath[value] :
    /\ SearchPath[value][i] = p
    /\ \A j \in DOMAIN SearchPath[value] :
         j < i /\ SearchPath[value][j] \in Present => Loc(SearchPath[value][j]) \in made

PathsInv ==
  ~astray => \A value \in Values, use_standard_path \in BOOLEAN :
               v.paths[<<value, use_standard_path>>] # Nowhere =>
                 Leads(value, v.paths[<<value, use_standard_path>>])

Inv == OtherTypes /\ Sound(v) /\ FramesInv /\ PathsInv

-----------------------------------------------------------------------------
(* Nothing that PathsInv is about was changed, or all was forgotten.       *)
LEMMA PathsStay ==
  ASSUME Inv, v'.paths \in {v.paths, NoPaths}, UNCHANGED Outside, made' \in {made, {}},
         made' = made \/ v'.paths = NoPaths
  PROVE  PathsInv'
<1>1. CASE v'.paths = NoPaths
  BY <1>1 DEF PathsInv, NoPaths, Keys
<1>2. CASE v'.paths = v.paths /\ made' = made
  <2>1. cwd' = cwd /\ files' = files /\ astray' = astray
    BY DEF Outside
  <2>2. Present' = Present /\ \A p : Loc(p)' = Loc(p)
    BY <2>1 DEF Present, Loc
  <2>3. \A value, p : Leads(value, p) => Leads(value, p)'
    BY <2>2, <1>2 DEF Leads, Loc
  <2> QED
    BY <1>2, <2>1, <2>3 DEF Inv, PathsInv
<1> QED
  BY <1>1, <1>2

(* In the body of a call nothing is asked of the variables.                *)
LEMMA FramesStay ==
  ASSUME Inv, UNCHANGED frames, frames # <<>> => Top.phase = "body"
  PROVE  FramesInv'
BY DEF Inv, FramesInv, TopAgrees, Top

(* The invariant holds of the inherited environment.                       *)
LEMMA InitInv == Init => Inv
<1> SUFFICES ASSUME Init
             PROVE  Inv
  OBVIOUS
<1>1. PICK environ \in script.environ : v = vars_init(environ)
  BY DEF Init
<1>2. environ \in [Names -> Texts] /\ script.files \subseteq Dirs
  <2>1. script \in Scripts
    BY DEF Init
  <2> QED
    BY <2>1, <1>1, ScriptsAssumption
<1> DEFINE lineno == [value |-> FirstLine, exported |-> FALSE, readonly |-> FALSE, text |-> NoValue]
           inherited(n) == [value |-> environ[n], exported |-> environ[n] # NoValue,
                            readonly |-> FALSE, text |-> environ[n]]
           table == [n \in Names |-> IF n = "LINENO" THEN lineno ELSE inherited(n)]
<1>3. /\ v.table = table /\ v.mru = NoName /\ ~v.built /\ v.paths = NoPaths
      /\ v.envp = NoTexts
      /\ v \in [table : {table}, mru : {NoName}, built : {FALSE}, envp : {NoTexts},
                dirty : {TRUE}, paths : {NoPaths}]
  BY <1>1 DEF vars_init
<1>4. table \in [Names -> Entries]
  <2>1. lineno \in Entries
    BY ValuesAssumption DEF Entries, Texts
  <2>2. \A n \in Names : inherited(n) \in Entries
    BY <1>2 DEF Entries
  <2> HIDE DEF lineno, inherited
  <2> QED
    BY <2>1, <2>2
<1>5. NoTexts \in [Names -> Texts] /\ NoPaths \in [Keys -> Places \cup {Nowhere}]
  BY DEF NoTexts, Texts, NoPaths
<1>6. v \in Stores
  BY <1>3, <1>4, <1>5 DEF Stores
<1>7. Synced(table)
  BY <1>2, ValuesAssumption DEF Synced, Absent
<1>8. Sound(v)
  BY <1>3, <1>6, <1>7 DEF Sound
<1>9. OtherTypes
  BY <1>2, <1>5 DEF Init, OtherTypes, NotRun
<1>10. FramesInv
  BY DEF Init, FramesInv
<1>11. PathsInv
  BY <1>3 DEF PathsInv, NoPaths, Keys
<1> QED
  BY <1>8, <1>9, <1>10, <1>11 DEF Inv

-----------------------------------------------------------------------------
(* What assigning to n and noting it leave true.                           *)
LEMMA TakesOutcome ==
  ASSUME Inv, NEW n \in Names, NEW new, NEW r, Outcome(v, n, r, new), Takes(r), Assigned(n, r)
  PROVE  /\ Sound(v')
         /\ v'.paths \in {v.paths, NoPaths} /\ made' \in {made, {}}
         /\ made' = made \/ v'.paths = NoPaths
<1>1. v' = r.v
  BY DEF Takes
<1>2. CASE r.rc = 1
  BY <1>1, <1>2 DEF Outcome, Assigned
<1>3. CASE r.rc = 0
  BY <1>1, <1>3 DEF Outcome, Assigned, Forgets
<1> QED
  BY <1>2, <1>3 DEF Outcome

(* A command is counted, and the next one not yet numbered.                *)
LEMMA CommandCounts ==
  ASSUME Inv, NEW kind, Command(kind)
  PROVE  commands' \in Nat /\ numbered' \in BOOLEAN /\ UNCHANGED <<script, interactive>>
<1>1. numbered' = FALSE /\ commands' = commands + 1 /\ UNCHANGED <<script, interactive>>
  BY DEF Command
<1>2. numbered' \in BOOLEAN
  BY <1>1
<1> QED
  BY <1>1, <1>2 DEF Inv, OtherTypes

(* A command that changes the store in a sound way and no frames.          *)
LEMMA CommandStep ==
  ASSUME Inv, NEW kind, Command(kind), Sound(v'), UNCHANGED <<frames, ran, Outside>>,
         v'.paths \in {v.paths, NoPaths}, made' \in {made, {}},
         made' = made \/ v'.paths = NoPaths,
         allexport' \in BOOLEAN, should_exit' \in BOOLEAN
  PROVE  Inv'
<1>1. FramesInv'
  <2>1. frames # <<>> => Top.phase = "body"
    BY DEF Command, BetweenCommands
  <2> QED
    BY <2>1, FramesStay
<1>2. PathsInv'
  BY PathsStay
<1>3. OtherTypes'
  BY CommandCounts DEF Inv, OtherTypes, Outside
<1> QED
  BY <1>1, <1>2, <1>3 DEF Inv

(* So does the shell's own assignment to LINENO.                           *)
LEMMA LineStep ==
  ASSUME Inv, NEW line \in script.lines, set_lineno_for_ast_node(line)
  PROVE  Inv'
<1> DEFINE r == vars_store(v, "LINENO", line, FALSE, FALSE, FALSE)
<1>1. /\ v' = r.v /\ numbered' = TRUE
      /\ frames # <<>> => Top.phase = "body"
      /\ UNCHANGED <<script, interactive, allexport, should_exit, frames, ran, commands, made, Outside>>
  BY DEF set_lineno_for_ast_node, BetweenCommands, vars_set_with_mode
<1>2. line \in Values /\ "LINENO" \in Names /\ Sound(v)
  BY ScriptsAssumption, NamesAssumption DEF Inv, OtherTypes
<1>3. Outcome(v, "LINENO", r, Entry(line, FALSE, v.table["LINENO"].readonly \/ FALSE))
  BY <1>2, StoreKeeps
<1> HIDE DEF r
<1>4. Sound(v') /\ v'.paths \in {v.paths, NoPaths}
  BY <1>1, <1>3 DEF Outcome, Forgets
<1>5. FramesInv'
  BY <1>1, FramesStay
<1>6. PathsInv'
  BY <1>1, <1>4, PathsStay
<1>7. OtherTypes'
  BY <1>1 DEF Inv, OtherTypes, Outside
<1> QED
  BY <1>4, <1>5, <1>6, <1>7 DEF Inv

(* Assignments keep it.                                                    *)
LEMMA AssignStep ==
  ASSUME Inv, NEW n \in Names, NEW value \in Values,
         Assign(n, value) \/ Getopts(n, value) \/ ExportValue(n, value) \/ ReadonlyValue(n, value)
  PROVE  Inv'
<1>1. Sound(v) /\ should_exit \in BOOLEAN /\ allexport \in BOOLEAN
  BY DEF Inv, OtherTypes
<1>2. v.table[n].exported \in BOOLEAN
  BY <1>1, Found DEF Entries
<1>3. CASE Assign(n, value)
  <2> DEFINE e == v.table[n].exported \/ n = "PATH" \/ allexport
             r == vars_store(v, n, value, TRUE, e, FALSE)
  <2>1. e \in BOOLEAN
    OBVIOUS
  <2> HIDE DEF e
  <2>2. Outcome(v, n, r, Entry(value, e, v.table[n].readonly \/ FALSE))
    BY <1>1, <2>1, StoreKeeps
  <2> HIDE DEF r
  <2>3. Takes(r) /\ EndsOnError(r) /\ Assigned(n, r)
    BY <1>3 DEF Assign, vars_set_assignment, r, e
  <2>4. UNCHANGED <<allexport, frames, ran, Outside>> /\ Command("assign")
    BY <1>3 DEF Assign
  <2> QED
    BY <1>1, <2>2, <2>3, <2>4, TakesOutcome, CommandStep DEF EndsOnError
<1>4. CASE Getopts(n, value)
  <2> DEFINE r == vars_store(v, n, value, TRUE, FALSE, FALSE)
  <2>1. Outcome(v, n, r, Entry(value, FALSE, v.table[n].readonly \/ FALSE))
    BY <1>1, StoreKeeps
  <2> HIDE DEF r
  <2>2. Takes(r) /\ Assigned(n, r)
    BY <1>4 DEF Getopts, vars_set_with_mode, r
  <2>3. UNCHANGED <<allexport, should_exit, frames, ran, Outside>> /\ Command("getopts")
    BY <1>4 DEF Getopts
  <2> QED
    BY <1>1, <2>1, <2>2, <2>3, TakesOutcome, CommandStep
<1>5. CASE ExportValue(n, value)
  <2> DEFINE r == vars_store(v, n, value, TRUE, TRUE, FALSE)
  <2>1. Outcome(v, n, r, Entry(value, TRUE, v.table[n].readonly \/ FALSE))
    BY <1>1, StoreKeeps
  <2> HIDE DEF r
  <2>2. Takes(r) /\ EndsOnError(r) /\ Assigned(n, r)
    BY <1>5 DEF ExportValue, vars_set_with_mode, r
  <2>3. UNCHANGED <<allexport, frames, ran, Outside>> /\ Command("export")
    BY <1>5 DEF ExportValue
  <2> QED
    BY <1>1, <2>1, <2>2, <2>3, TakesOutcome, CommandStep DEF EndsOnError
<1>6. CASE ReadonlyValue(n, value)
  <2> DEFINE e == v.table[n].exported
             r == vars_store(v, n, value, TRUE, e, TRUE)
  <2>1. Outcome(v, n, r, Entry(value, e, v.table[n].readonly \/ TRUE))
    BY <1>1, <1>2, StoreKeeps
  <2> HIDE DEF r
  <2>2. Takes(r) /\ EndsOnError(r) /\ Assigned(n, r)
    BY <1>6 DEF ReadonlyValue, vars_mark_readonly_with_value, r
  <2>3. UNCHANGED <<allexport, frames, ran, Outside>> /\ Command("readonly")
    BY <1>6 DEF ReadonlyValue
  <2> QED
    BY <1>1, <2>1, <2>2, <2>3, TakesOutcome, CommandStep DEF EndsOnError
<1> QED
  BY <1>3, <1>4, <1>5, <1>6

(* export, readonly and unset keep it.                                     *)
LEMMA AttributeStep ==
  ASSUME Inv, NEW n \in Names, Export(n) \/ Readonly(n) \/ Unset(n)
  PROVE  Inv'
<1>1. Sound(v) /\ should_exit \in BOOLEAN /\ allexport \in BOOLEAN
  BY DEF Inv, OtherTypes
<1>2. CASE Export(n)
  <2>1. Kept(v, v')
    BY <1>1, <1>2, MarkExportedKeeps DEF Export
  <2>2. UNCHANGED <<allexport, should_exit, frames, ran, made, Outside>> /\ Command("export")
    BY <1>2 DEF Export
  <2> QED
    BY <1>1, <2>1, <2>2, CommandStep DEF Kept
<1>3. CASE Readonly(n)
  <2>1. Kept(v, v')
    BY <1>1, <1>3, MarkReadonlyKeeps DEF Readonly
  <2>2. UNCHANGED <<allexport, should_exit, frames, ran, made, Outside>> /\ Command("readonly")
    BY <1>3 DEF Readonly
  <2> QED
    BY <1>1, <2>1, <2>2, CommandStep DEF Kept
<1>4. CASE Unset(n)
  <2>1. Sound(v') /\ v'.paths \in {v.paths, NoPaths} /\ EndsOnError(vars_unset(v, n))
    BY <1>1, <1>4, UnsetKeeps DEF Unset, Takes
  <2>2. UNCHANGED <<allexport, frames, ran, made, Outside>> /\ Command("unset")
    BY <1>4 DEF Unset
  <2> QED
    BY <1>1, <2>1, <2>2, CommandStep DEF EndsOnError
<1> QED
  BY <1>2, <1>3, <1>4

(* set -a and set +a keep it.                                              *)
LEMMA SetAllexportStep ==
  ASSUME Inv, NEW on \in BOOLEAN, SetAllexport(on)
  PROVE  Inv'
<1>1. Command("allexport") /\ UNCHANGED <<v, should_exit, frames, ran, made, Outside>> /\ allexport' = on
  BY DEF SetAllexport
<1>2. Sound(v') /\ should_exit' \in BOOLEAN
  BY <1>1 DEF Inv, OtherTypes
<1> QED
  BY <1>1, <1>2, CommandStep

(* cd that goes through sets PWD, and then nothing is remembered.          *)
LEMMA CdStore ==
  ASSUME Inv, NEW dir \in Dirs, NEW relative \in BOOLEAN, builtin_cd(dir, relative)
  PROVE  /\ Sound(v') /\ KeepsReadonly(v, v')
         /\ \/ astray' = TRUE /\ made' = made
            \/ astray' = FALSE /\ made' = {} /\ v'.paths = NoPaths
<1> DEFINE pwd == v.table["PWD"].value
           old_pwd == IF pwd = NoValue THEN cwd ELSE pwd
           looked_up == vars_lookup_entry(v, "PWD")
           logical_fails == relative /\ old_pwd \notin Dirs
           r == vars_store(looked_up, "OLDPWD", old_pwd, TRUE, TRUE, FALSE)
           s == vars_store(r.v, "PWD", dir, TRUE, TRUE, FALSE)
<1>1. /\ v' = IF logical_fails THEN looked_up ELSE IF r.rc # 0 THEN r.v ELSE s.v
      /\ IF ~logical_fails /\ r.rc = 0 /\ s.rc = 0
         THEN astray' = FALSE /\ made' = {}
         ELSE astray' = TRUE /\ UNCHANGED made
  BY DEF builtin_cd, vars_set, vars_set_with_mode
<1>2. Sound(v) /\ "PWD" \in Names /\ "OLDPWD" \in Names /\ dir \in Values /\ cwd \in Values
  BY NamesAssumption, DirsAssumption DEF Inv, OtherTypes
<1>3. old_pwd \in Values
  <2>1. pwd \in Texts
    BY <1>2, Found DEF Entries
  <2> QED
    BY <1>2, <2>1 DEF Texts
<1> HIDE DEF old_pwd
<1>4. Sound(looked_up) /\ looked_up.table = v.table
  BY <1>2, LookupKeeps
<1> HIDE DEF looked_up
<1>5. Sound(r.v) /\ KeepsReadonly(looked_up, r.v)
  BY <1>2, <1>3, <1>4, StoreKeeps, StoreKeepsReadonly DEF Outcome
<1> HIDE DEF r
<1>6. Outcome(r.v, "PWD", s, Entry(dir, TRUE, r.v.table["PWD"].readonly \/ FALSE))
  BY <1>2, <1>5, StoreKeeps
<1>7. KeepsReadonly(r.v, s.v)
  BY <1>2, <1>5, StoreKeepsReadonly
<1> HIDE DEF s, logical_fails
<1>8. Sound(s.v)
  BY <1>6 DEF Outcome
<1>9. s.rc = 0 => s.v.paths = NoPaths
  BY <1>6 DEF Outcome, Forgets
<1>10. KeepsReadonly(v, looked_up) /\ KeepsReadonly(v, r.v)
  BY <1>4, <1>5 DEF KeepsReadonly
<1>11. KeepsReadonly(v, s.v)
  BY <1>7, <1>10 DEF KeepsReadonly
<1> QED
  BY <1>1, <1>4, <1>5, <1>8, <1>9, <1>10, <1>11

(* cd keeps it.                                                            *)
LEMMA CdStep ==
  ASSUME Inv, NEW dir \in Dirs, NEW relative \in BOOLEAN, Cd(dir, relative)
  PROVE  Inv'
<1>1. /\ Command("cd") /\ builtin_cd(dir, relative)
      /\ UNCHANGED <<allexport, should_exit, files, frames, ran>>
  BY DEF Cd
<1>2. /\ Sound(v')
      /\ \/ astray' = TRUE /\ made' = made
         \/ astray' = FALSE /\ made' = {} /\ v'.paths = NoPaths
  BY <1>1, CdStore
<1>3. FramesInv'
  <2>1. frames # <<>> => Top.phase = "body"
    BY <1>1 DEF Command, BetweenCommands
  <2> QED
    BY <1>1, <2>1, FramesStay
<1>4. PathsInv'
  BY <1>2 DEF PathsInv, NoPaths, Keys
<1>5. OtherTypes'
  <2>1. cwd' = dir
    BY <1>1 DEF builtin_cd
  <2>2. astray' \in BOOLEAN /\ made' \subseteq Dirs
    BY <1>2 DEF Inv, OtherTypes
  <2> QED
    BY <1>1, <2>1, <2>2, CommandCounts DEF Inv, OtherTypes
<1> QED
  BY <1>2, <1>3, <1>4, <1>5 DEF Inv

(* The directories of a search path are numbered.                          *)
LEMMA PathsAreSequences ==
  \A value \in Values : /\ DOMAIN SearchPath[value] \subseteq Nat
                        /\ \A i \in DOMAIN SearchPath[value] : SearchPath[value][i] \in Places
<1> SUFFICES ASSUME NEW value \in Values
             PROVE  /\ DOMAIN SearchPath[value] \subseteq Nat
                    /\ \A i \in DOMAIN SearchPath[value] : SearchPath[value][i] \in Places
  OBVIOUS
<1>1. SearchPath[value] \in Seq(Places)
  BY PlacesAssumption
<1> QED
  BY <1>1

(* Running a utility keeps it: what is cached is what the search in force  *)
(* leads to.                                                               *)
LEMMA RunStep ==
  ASSUME Inv, NEW use_standard_path \in BOOLEAN, NEW vfork \in BOOLEAN,
         RunUtility(use_standard_path, vfork)
  PROVE  Inv'
<1> DEFINE r == path_resolve_command(v, use_standard_path, Present)
           w == vars_build_envp(r.v)
<1>1. /\ Command("run")
      /\ ran' = IF r.place = Nowhere THEN NotRun ELSE [place |-> r.place, env |-> w.envp]
      /\ v' = IF r.place # Nowhere /\ vfork THEN w ELSE r.v
      /\ UNCHANGED <<allexport, should_exit, frames, made, Outside>>
  BY DEF RunUtility
<1>2. Sound(v)
  BY DEF Inv
<1>3. Resolved(v, use_standard_path, Present, r)
  BY <1>2, ResolveKeeps
<1> HIDE DEF r
<1>4. Sound(w) /\ w.table = r.v.table /\ w.paths = r.v.paths /\ w.envp \in [Names -> Texts]
  BY <1>3, BuildEnvpKeeps DEF Resolved
<1> HIDE DEF w
<1>5. Sound(v') /\ v'.paths = r.v.paths
  BY <1>1, <1>3, <1>4 DEF Resolved
<1>6. FramesInv'
  <2>1. frames # <<>> => Top.phase = "body"
    BY <1>1 DEF Command, BetweenCommands
  <2> QED
    BY <1>1, <2>1, FramesStay
<1>7. OtherTypes'
  <2>1. NotRun \in [place : Places \cup {Nowhere}, env : [Names -> Texts]]
    BY DEF NotRun, NoTexts, Texts
  <2> QED
    BY <1>1, <1>3, <1>4, <2>1, CommandCounts DEF Resolved, Inv, OtherTypes, Outside
<1>8. PathsInv'
  <2>1. cwd' = cwd /\ files' = files /\ astray' = astray /\ made' = made
    BY <1>1 DEF Outside
  <2>2. CASE v'.paths = v.paths
    BY <1>1, <2>2, PathsStay
  <2>3. ASSUME NEW value \in Values,
               v'.paths = [v.paths EXCEPT ![<<value, use_standard_path>>] =
                             path_search_command_in_path(value, Present)]
        PROVE  PathsInv'
    <3> DEFINE found == path_search_command_in_path(value, Present)
    <3>1. found # Nowhere => Leads(value, found)
      BY SearchFinds, PathsAreSequences DEF Leads
    <3> HIDE DEF found
    <3>2. Present' = Present /\ \A p : Loc(p)' = Loc(p)
      BY <2>1 DEF Present, Loc
    <3>3. \A u, p : Leads(u, p) => Leads(u, p)'
      BY <2>1, <3>2 DEF Leads, Loc
    <3>4. v.paths \in [Keys -> Places \cup {Nowhere}] /\ <<value, use_standard_path>> \in Keys
      BY <1>2 DEF Sound, Stores, Keys
    <3>5. ASSUME ~astray', NEW u \in Values, NEW standard \in BOOLEAN,
                 v'.paths[<<u, standard>>] # Nowhere
          PROVE  Leads(u, v.paths[<<u, standard>>])'
      <4>1. <<u, standard>> \in Keys
        BY DEF Keys
      <4>2. CASE u = value /\ standard = use_standard_path
        <5>1. v'.paths[<<u, standard>>] = found
          BY <2>3, <3>4, <4>2 DEF found
        <5> QED
          BY <3>1, <3>3, <3>5, <4>2, <5>1
      <4>3. CASE ~(u = value /\ standard = use_standard_path)
        <5>1. v'.paths[<<u, standard>>] = v.paths[<<u, standard>>]
          BY <2>3, <3>4, <4>1, <4>3
        <5>2. Leads(u, v.paths[<<u, standard>>])
          BY <2>1, <3>5, <5>1 DEF Inv, PathsInv
        <5> QED
          BY <3>3, <5>1, <5>2
      <4> QED
        BY <4>2, <4>3
    <3> QED
      BY <3>5 DEF PathsInv
  <2> QED
    BY <1>3, <1>5, <2>2, <2>3 DEF Resolved
<1> QED
  BY <1>5, <1>6, <1>7, <1>8 DEF Inv

(* A file that appears is noted; one that disappears is no better.         *)
LEMMA FileStep ==
  ASSUME Inv, NEW dir \in Dirs, FileChanges(dir)
  PROVE  Inv'
<1>1. /\ UNCHANGED <<script, interactive, v, allexport, should_exit, cwd, frames, ran, numbered, astray>>
      /\ commands' = commands + 1
      /\ \/ files' = files \ {dir} /\ made' = made
         \/ files' = files \cup {dir} /\ made' = made \cup {dir}
  BY DEF FileChanges
<1>2. Sound(v')
  BY <1>1 DEF Inv
<1>3. FramesInv'
  BY <1>1 DEF Inv, FramesInv, Top
<1>4. OtherTypes'
  BY <1>1 DEF Inv, OtherTypes
<1>5. \A p \in Places : p \in Present' => p \in Present \/ Loc(p) \in made'
  BY <1>1 DEF Present, Loc
<1>6. \A value \in Values : \A p : Leads(value, p) => Leads(value, p)'
  <2> SUFFICES ASSUME NEW value \in Values, NEW p, Leads(value, p)
               PROVE  Leads(value, p)'
    OBVIOUS
  <2>1. PICK i \in DOMAIN SearchPath[value] :
          /\ SearchPath[value][i] = p
          /\ \A j \in DOMAIN SearchPath[value] :
               j < i /\ SearchPath[value][j] \in Present => Loc(SearchPath[value][j]) \in made
    BY DEF Leads
  <2>2. ASSUME NEW j \in DOMAIN SearchPath[value], j < i, SearchPath[value][j] \in Present'
        PROVE  Loc(SearchPath[value][j])' \in made'
    <3>1. Loc(SearchPath[value][j])' = Loc(SearchPath[value][j])
      BY <1>1 DEF Loc
    <3>2. SearchPath[value][j] \in Places
      BY PathsAreSequences
    <3> QED
      BY <1>1, <1>5, <2>1, <2>2, <3>1, <3>2
  <2> QED
    BY <2>1, <2>2 DEF Leads
<1>7. PathsInv'
  BY <1>1, <1>6 DEF Inv, PathsInv
<1> QED
  BY <1>2, <1>3, <1>4, <1>7 DEF Inv

-----------------------------------------------------------------------------
(* A stack without its top.                                                *)
LEMMA TopRemoved ==
  ASSUME NEW T, NEW fs \in Seq(T), fs # <<>>
  PROVE  LET gs == SubSeq(fs, 1, Len(fs) - 1)
         IN  /\ gs \in Seq(T) /\ Len(gs) = Len(fs) - 1
             /\ DOMAIN gs = DOMAIN fs \ {Len(fs)}
             /\ \A i \in DOMAIN gs : gs[i] = fs[i]
<1> DEFINE k == Len(fs) - 1
           gs == SubSeq(fs, 1, k)
<1>1. k \in Nat /\ Len(fs) = k + 1
  OBVIOUS
<1>2. \A i \in 1..k : fs[i] \in T
  OBVIOUS
<1> HIDE DEF k
<1>3. /\ gs \in Seq(T)
      /\ Len(gs) = IF 1 <= k THEN k - 1 + 1 ELSE 0
      /\ \A i \in 1..(k - 1 + 1) : gs[i] = fs[1 + i - 1]
  BY <1>1, <1>2, SubSeqProperties
<1> HIDE DEF gs
<1>4. Len(gs) = k /\ DOMAIN gs = 1..k /\ \A i \in 1..k : gs[i] = fs[i]
  BY <1>1, <1>3
<1>5. DOMAIN fs = 1..(k + 1)
  BY <1>1
<1>6. DOMAIN gs = DOMAIN fs \ {Len(fs)}
  BY <1>1, <1>4, <1>5
<1> QED
  BY <1>1, <1>3, <1>4, <1>6 DEF gs, k

(* A stack with one more frame.                                            *)
LEMMA OneAppended ==
  ASSUME NEW T, NEW fs \in Seq(T), NEW f \in T
  PROVE  LET gs == Append(fs, f)
         IN  /\ gs \in Seq(T) /\ Len(gs) = Len(fs) + 1 /\ gs # <<>> /\ gs[Len(gs)] = f
             /\ DOMAIN gs = DOMAIN fs \cup {Len(gs)}
             /\ \A i \in DOMAIN fs : i < Len(gs) /\ gs[i] = fs[i]
OBVIOUS

(* A stack whose top is another frame.                                     *)
LEMMA TopReplaced ==
  ASSUME NEW T, NEW fs \in Seq(T), fs # <<>>, NEW f \in T
  PROVE  LET gs == Append(SubSeq(fs, 1, Len(fs) - 1), f)
         IN  /\ gs \in Seq(T) /\ Len(gs) = Len(fs) /\ gs # <<>> /\ gs[Len(fs)] = f
             /\ \A i \in DOMAIN fs : i # Len(fs) => gs[i] = fs[i]
             /\ DOMAIN gs = DOMAIN fs
<1> DEFINE hs == SubSeq(fs, 1, Len(fs) - 1)
           gs == Append(hs, f)
<1>1. /\ hs \in Seq(T) /\ Len(hs) = Len(fs) - 1
      /\ DOMAIN hs = DOMAIN fs \ {Len(fs)}
      /\ \A i \in DOMAIN hs : hs[i] = fs[i]
  BY TopRemoved
<1> HIDE DEF hs
<1>2. /\ gs \in Seq(T) /\ Len(gs) = Len(hs) + 1 /\ gs # <<>> /\ gs[Len(gs)] = f
      /\ DOMAIN gs = DOMAIN hs \cup {Len(gs)}
      /\ \A i \in DOMAIN hs : i < Len(gs) /\ gs[i] = hs[i]
  BY <1>1, OneAppended
<1> HIDE DEF gs
<1>3. Len(fs) \in DOMAIN fs /\ Len(gs) = Len(fs)
  BY <1>1, <1>2
<1> QED
  BY <1>1, <1>2, <1>3 DEF gs, hs

(* The innermost call goes on.                                             *)
LEMMA TopStep ==
  ASSUME Inv, frames # <<>>, NEW f \in Frames, SetTop(f), SavedBefore(f), TopAgrees(f, v'.table)
  PROVE  FramesInv'
<1>1. frames \in Seq(Frames)
  BY DEF Inv, FramesInv
<1>2. /\ frames' \in Seq(Frames) /\ Len(frames') = Len(frames) /\ frames' # <<>>
      /\ frames'[Len(frames)] = f /\ DOMAIN frames' = DOMAIN frames
      /\ \A i \in DOMAIN frames : i # Len(frames) => frames'[i] = frames[i]
  BY <1>1, TopReplaced DEF SetTop, Below
<1>3. \A i \in DOMAIN frames' : SavedBefore(frames'[i])
  BY <1>2 DEF Inv, FramesInv
<1>4. \A i \in DOMAIN frames' : i < Len(frames') => frames'[i].phase = "body"
  BY <1>1, <1>2 DEF Inv, FramesInv
<1>5. Top' = f
  BY <1>2 DEF Top
<1> QED
  BY <1>2, <1>3, <1>4, <1>5 DEF FramesInv

(* The innermost temporary assignments are well formed and agree with the  *)
(* table.                                                                  *)
LEMMA TopFrame ==
  ASSUME Inv, frames # <<>>
  PROVE  Top \in Frames /\ SavedBefore(Top) /\ TopAgrees(Top, v.table)
<1>1. Len(frames) \in DOMAIN frames /\ frames \in Seq(Frames)
  BY DEF Inv, FramesInv
<1> QED
  BY <1>1 DEF Inv, FramesInv, Top

(* A step of the innermost call that leaves the rest of the world alone.   *)
LEMMA FrameStep ==
  ASSUME Inv, frames # <<>>, NEW f \in Frames, SetTop(f), SavedBefore(f),
         TopAgrees(f, v'.table), Sound(v'),
         UNCHANGED <<script, interactive, allexport, ran, commands, Outside>>,
         numbered' \in BOOLEAN,
         v'.paths \in {v.paths, NoPaths}, made' \in {made, {}},
         made' = made \/ v'.paths = NoPaths, should_exit' \in BOOLEAN
  PROVE  Inv'
<1>1. FramesInv'
  BY TopStep
<1>2. PathsInv'
  BY PathsStay
<1>3. OtherTypes'
  BY DEF Inv, OtherTypes, Outside
<1> QED
  BY <1>1, <1>2, <1>3 DEF Inv

(* The begin and the end of a body keep the invariant.                     *)
LEMMA PhaseStep ==
  ASSUME Inv, StartBody \/ EndBody
  PROVE  Inv'
<1>1. /\ frames # <<>> /\ Top.phase # "restoring"
      /\ UNCHANGED <<script, interactive, v, allexport, should_exit, ran, commands, made, Outside>>
      /\ numbered' \in {numbered, FALSE}
  BY DEF StartBody, EndBody, InPhase
<1>2. PICK phase \in {"body", "restoring"} : SetTop([Top EXCEPT !.phase = phase])
  BY DEF StartBody, EndBody
<1> DEFINE f == [Top EXCEPT !.phase = phase]
<1>3. Top \in Frames /\ SavedBefore(Top)
  BY <1>1, TopFrame
<1>4. /\ f \in Frames /\ f.saved = Top.saved /\ f.names = Top.names /\ f.before = Top.before
      /\ f.phase = phase
  BY <1>3 DEF Frames
<1> HIDE DEF f
<1>5. SavedNames(f) = SavedNames(Top)
  BY <1>4 DEF SavedNames
<1>6. SavedBefore(f)
  BY <1>1, <1>3, <1>4, <1>5 DEF SavedBefore
<1>7. TopAgrees(f, v'.table)
  BY <1>1, <1>3, <1>4, <1>5 DEF TopAgrees, SavedBefore
<1>8. Sound(v') /\ should_exit' \in BOOLEAN /\ numbered' \in BOOLEAN
  BY <1>1 DEF Inv, OtherTypes
<1> QED
  BY <1>1, <1>2, <1>4, <1>6, <1>7, <1>8, FrameStep DEF f

(* So does the return, which restores what was saved.                      *)
LEMMA ReturnStep ==
  ASSUME Inv, Return
  PROVE  Inv'
<1>1. /\ frames # <<>> /\ frames' = Below
      /\ UNCHANGED <<script, interactive, v, allexport, should_exit, ran, commands, numbered, made,
                     Outside>>
  BY DEF Return, InPhase
<1>2. frames \in Seq(Frames)
  BY DEF Inv, FramesInv
<1>3. /\ frames' \in Seq(Frames) /\ Len(frames') = Len(frames) - 1
      /\ DOMAIN frames' = DOMAIN frames \ {Len(frames)}
      /\ \A i \in DOMAIN frames' : frames'[i] = frames[i]
  BY <1>1, <1>2, TopRemoved DEF Below
<1>4. FramesInv'
  <2>1. \A i \in DOMAIN frames' : SavedBefore(frames'[i])
    BY <1>3 DEF Inv, FramesInv
  <2>2. \A i \in DOMAIN frames' : frames'[i].phase = "body"
    BY <1>2, <1>3 DEF Inv, FramesInv
  <2>3. frames' # <<>> => TopAgrees(Top', v'.table)
    <3>1. frames' # <<>> => Len(frames') \in DOMAIN frames'
      BY <1>3
    <3> QED
      BY <2>2, <3>1 DEF TopAgrees, Top
  <2> QED
    BY <1>3, <2>1, <2>2, <2>3 DEF FramesInv
<1>5. PathsInv'
  BY <1>1, PathsStay
<1>6. OtherTypes' /\ Sound(v')
  BY <1>1 DEF Inv, OtherTypes, Outside
<1> QED
  BY <1>4, <1>5, <1>6 DEF Inv

(* So does a call with temporary assignments.                              *)
LEMMA CallStep ==
  ASSUME Inv, NEW assignments \in Seq(Names \X Values), Call(assignments)
  PROVE  Inv'
<1> DEFINE f == [todo |-> assignments, saved |-> <<>>, phase |-> "applying",
                 before |-> v.table, names |-> {}]
<1>1. /\ Command("call") /\ frames' = Append(frames, f)
      /\ UNCHANGED <<v, allexport, should_exit, ran, made, Outside>>
  BY DEF Call
<1>2. frames \in Seq(Frames) /\ Sound(v) /\ v.table \in [Names -> Entries] /\ Synced(v.table)
  BY DEF Inv, FramesInv, Sound, Stores
<1>3. f \in Frames
  BY <1>2 DEF Frames
<1>4. SavedBefore(f) /\ TopAgrees(f, v.table)
  BY <1>2 DEF SavedBefore, SavedNames, TopAgrees
<1> HIDE DEF f
<1>5. /\ frames' \in Seq(Frames) /\ Len(frames') = Len(frames) + 1 /\ frames' # <<>>
      /\ frames'[Len(frames')] = f
      /\ DOMAIN frames' = DOMAIN frames \cup {Len(frames')}
      /\ \A i \in DOMAIN frames : i < Len(frames') /\ frames'[i] = frames[i]
  BY <1>1, <1>2, <1>3, OneAppended
<1>6. FramesInv'
  <2>1. \A i \in DOMAIN frames' : SavedBefore(frames'[i])
    BY <1>4, <1>5 DEF Inv, FramesInv
  <2>2. \A i \in DOMAIN frames' : i < Len(frames') => frames'[i].phase = "body"
    <3> SUFFICES ASSUME NEW i \in DOMAIN frames', i < Len(frames')
                 PROVE  frames'[i].phase = "body"
      OBVIOUS
    <3>1. i \in DOMAIN frames /\ frames'[i] = frames[i]
      BY <1>5
    <3>2. CASE i = Len(frames)
      BY <1>1, <3>1, <3>2 DEF Command, BetweenCommands, Top
    <3>3. CASE i # Len(frames)
      BY <1>2, <3>1, <3>3 DEF Inv, FramesInv
    <3> QED
      BY <3>2, <3>3
  <2>3. TopAgrees(Top', v'.table)
    BY <1>1, <1>4, <1>5 DEF Top
  <2> QED
    BY <1>5, <2>1, <2>2, <2>3 DEF FramesInv
<1>7. PathsInv'
  BY <1>1, PathsStay
<1>8. OtherTypes' /\ Sound(v')
  BY <1>1, CommandCounts DEF Inv, OtherTypes, Outside
<1> QED
  BY <1>6, <1>7, <1>8 DEF Inv

(* What is saved is what the name held before, or was saved before.        *)
LEMMA ApplyStep ==
  ASSUME Inv, ApplyAssignment
  PROVE  Inv'
<1> DEFINE n == Top.todo[1][1]
           value == Top.todo[1][2]
           w == vars_lookup_entry(v, n)
           restore == [name |-> n, old |-> w.table[n].value, was_exported |-> w.table[n].exported]
           r == vars_store(w, n, value, TRUE, TRUE, FALSE)
           new == Entry(value, TRUE, w.table[n].readonly \/ FALSE)
<1>1. /\ frames # <<>> /\ Top.phase = "applying" /\ Top.todo # <<>>
      /\ Takes(r) /\ EndsOnError(r) /\ Assigned(n, r)
      /\ IF r.rc = 0
         THEN SetTop([Top EXCEPT !.todo = Tail(@), !.saved = Append(@, restore),
                                 !.names = @ \cup {n}])
         ELSE SetTop([Top EXCEPT !.phase = "restoring"])
      /\ UNCHANGED <<script, interactive, allexport, ran, commands, numbered, Outside>>
  BY DEF ApplyAssignment, InPhase, vars_set, vars_set_with_mode
<1>2. Top \in Frames /\ SavedBefore(Top) /\ TopAgrees(Top, v.table)
  BY <1>1, TopFrame
<1>3. Sound(v) /\ should_exit \in BOOLEAN /\ numbered \in BOOLEAN
  BY DEF Inv, OtherTypes
<1>4. n \in Names /\ value \in Values
  <2>1. Top.todo \in Seq(Names \X Values)
    BY <1>2 DEF Frames
  <2>2. Top.todo[1] \in Names \X Values
    BY <1>1, <2>1
  <2> QED
    BY <2>2
<1> HIDE DEF n, value
<1>5. Sound(w) /\ w.table = v.table /\ w.paths = v.paths
  BY <1>3, <1>4, LookupKeeps
<1> HIDE DEF w
<1>6. Outcome(w, n, r, new)
  BY <1>4, <1>5, StoreKeeps
<1> HIDE DEF r, new
<1>7. Outcome(v, n, r, new)
  BY <1>5, <1>6 DEF Outcome, SameBut, Forgets
<1>8. /\ Sound(v') /\ v'.paths \in {v.paths, NoPaths} /\ made' \in {made, {}}
      /\ made' = made \/ v'.paths = NoPaths
      /\ should_exit' \in BOOLEAN
  BY <1>1, <1>3, <1>4, <1>7, TakesOutcome DEF EndsOnError
<1>9. CASE r.rc = 0
  <2> DEFINE f == [Top EXCEPT !.todo = Tail(@), !.saved = Append(@, restore),
                              !.names = @ \cup {n}]
  <2>1. restore \in Restores
    <3>1. w.table[n] \in Entries
      BY <1>4, <1>5, Found
    <3> QED
      BY <1>4, <3>1 DEF Restores, Entries
  <2>2. /\ Top.saved \in Seq(Restores) /\ Top.names \in SUBSET Names
        /\ Tail(Top.todo) \in Seq(Names \X Values)
    BY <1>1, <1>2 DEF Frames
  <2>3. restore.name = n /\ restore.old = v.table[n].value
        /\ restore.was_exported = v.table[n].exported
    BY <1>5
  <2> HIDE DEF restore
  <2>4. /\ Append(Top.saved, restore) \in Seq(Restores)
        /\ DOMAIN Append(Top.saved, restore) = DOMAIN Top.saved \cup {Len(Top.saved) + 1}
        /\ Append(Top.saved, restore)[Len(Top.saved) + 1] = restore
        /\ \A i \in DOMAIN Top.saved : /\ i < Len(Top.saved) + 1
                                       /\ Append(Top.saved, restore)[i] = Top.saved[i]
    BY <2>1, <2>2, OneAppended
  <2>5. /\ f \in Frames /\ f.saved = Append(Top.saved, restore) /\ f.names = Top.names \cup {n}
        /\ f.before = Top.before /\ f.phase = "applying"
    BY <1>1, <1>2, <1>4, <2>2, <2>4 DEF Frames
  <2> HIDE DEF f
  <2>6. SavedNames(f) = SavedNames(Top) \cup {n}
    BY <2>3, <2>4, <2>5 DEF SavedNames
  <2>7. SavedBefore(f)
    <3>1. ASSUME NEW i \in DOMAIN f.saved
          PROVE  \/ \E j \in DOMAIN f.saved : j < i /\ f.saved[j].name = f.saved[i].name
                 \/ /\ f.saved[i].old = f.before[f.saved[i].name].value
                    /\ f.saved[i].was_exported = f.before[f.saved[i].name].exported
      <4>1. CASE i \in DOMAIN Top.saved
        BY <1>2, <2>4, <2>5, <4>1 DEF SavedBefore
      <4>2. CASE i = Len(Top.saved) + 1 /\ n \in SavedNames(Top)
        <5>1. PICK j \in DOMAIN Top.saved : Top.saved[j].name = n
          BY <4>2 DEF SavedNames
        <5> QED
          BY <2>3, <2>4, <2>5, <4>2, <5>1
      <4>3. CASE i = Len(Top.saved) + 1 /\ n \notin SavedNames(Top)
        <5>1. n \notin Top.names
          BY <1>1, <1>2, <4>3 DEF SavedBefore
        <5>2. v.table[n] = Top.before[n]
          BY <1>1, <1>2, <1>4, <5>1 DEF TopAgrees
        <5> QED
          BY <2>3, <2>4, <2>5, <4>3, <5>2
      <4> QED
        BY <2>4, <2>5, <4>1, <4>2, <4>3
    <3>2. SavedNames(f) \subseteq f.names /\ f.names \subseteq SavedNames(f)
      BY <1>1, <1>2, <2>5, <2>6 DEF SavedBefore
    <3> QED
      BY <1>2, <2>5, <3>1, <3>2 DEF SavedBefore
  <2>8. TopAgrees(f, v'.table)
    <3>1. SameBut(v, v', n)
      BY <1>1, <1>7 DEF Outcome, Takes
    <3> QED
      BY <1>1, <1>2, <2>5, <3>1 DEF TopAgrees, SameBut
  <2> QED
    BY <1>1, <1>3, <1>8, <1>9, <2>5, <2>7, <2>8, FrameStep DEF f
<1>10. CASE r.rc # 0
  <2> DEFINE f == [Top EXCEPT !.phase = "restoring"]
  <2>1. /\ f \in Frames /\ f.saved = Top.saved /\ f.names = Top.names /\ f.before = Top.before
        /\ f.phase = "restoring"
    BY <1>2 DEF Frames
  <2> HIDE DEF f
  <2>2. SavedNames(f) = SavedNames(Top)
    BY <2>1 DEF SavedNames
  <2>3. SavedBefore(f)
    BY <1>1, <1>2, <2>1, <2>2 DEF SavedBefore
  <2>4. TopAgrees(f, v'.table)
    BY <1>1, <1>2, <2>1, <2>2 DEF TopAgrees, SavedBefore
  <2> QED
    BY <1>1, <1>3, <1>8, <1>10, <2>1, <2>3, <2>4, FrameStep DEF f
<1> QED
  BY <1>9, <1>10

(* The entry saved last goes back.  If it is the last one for its name, it *)
(* is the one that was saved first.                                        *)
LEMMA RestoreStep ==
  ASSUME Inv, restore_temporary_assignments
  PROVE  Inv'
<1> DEFINE last == Len(Top.saved)
           restore == Top.saved[last]
           n == restore.name
           s == vars_store(v, n, restore.old, FALSE, restore.was_exported, FALSE)
           u == vars_unset(v, n)
           f == [Top EXCEPT !.saved = SubSeq(@, 1, Len(@) - 1)]
<1>1. /\ frames # <<>> /\ Top.phase = "restoring" /\ Top.saved # <<>>
      /\ restore.old # NoValue => Takes(s) /\ Assigned(n, s)
      /\ restore.old = NoValue => Takes(u) /\ UNCHANGED made
      /\ SetTop(f)
      /\ UNCHANGED <<script, interactive, allexport, should_exit, ran, commands, numbered, Outside>>
  BY DEF restore_temporary_assignments, InPhase, vars_set_with_mode
<1>2. Top \in Frames /\ SavedBefore(Top) /\ TopAgrees(Top, v.table)
  BY <1>1, TopFrame
<1>3. Sound(v) /\ should_exit \in BOOLEAN /\ numbered \in BOOLEAN
  BY DEF Inv, OtherTypes
<1>4. Top.saved \in Seq(Restores) /\ last \in DOMAIN Top.saved /\ last \in Nat
  <2>1. Top.saved \in Seq(Restores)
    BY <1>2 DEF Frames
  <2> QED
    BY <1>1, <2>1
<1> DEFINE rest == SubSeq(Top.saved, 1, Len(Top.saved) - 1)
<1>5. /\ rest \in Seq(Restores)
      /\ DOMAIN rest = DOMAIN Top.saved \ {last}
      /\ \A i \in DOMAIN rest : rest[i] = Top.saved[i]
  BY <1>1, <1>4, TopRemoved
<1> HIDE DEF rest
<1>6. /\ f \in Frames /\ f.saved = rest /\ f.names = Top.names /\ f.before = Top.before
      /\ f.phase = "restoring"
  BY <1>1, <1>2, <1>5 DEF Frames, rest
<1>7. restore \in Restores
  BY <1>4
<1> HIDE DEF f
<1>8. n \in Names /\ restore.old \in Texts /\ restore.was_exported \in BOOLEAN
  BY <1>7 DEF Restores
<1>9. \A i \in DOMAIN Top.saved : i \in Nat /\ (i = last \/ i < last)
  BY <1>4
<1>10. SavedBefore(f)
  <2>1. ASSUME NEW i \in DOMAIN f.saved
        PROVE  \/ \E j \in DOMAIN f.saved : j < i /\ f.saved[j].name = f.saved[i].name
               \/ /\ f.saved[i].old = f.before[f.saved[i].name].value
                  /\ f.saved[i].was_exported = f.before[f.saved[i].name].exported
    <3>1. i \in DOMAIN Top.saved /\ i < last /\ i \in Nat /\ f.saved[i] = Top.saved[i]
      BY <1>5, <1>6, <1>9
    <3>2. CASE \E j \in DOMAIN Top.saved : j < i /\ Top.saved[j].name = Top.saved[i].name
      <4>1. PICK j \in DOMAIN Top.saved : j < i /\ Top.saved[j].name = Top.saved[i].name
        BY <3>2
      <4>2. j # last
        BY <1>4, <1>9, <3>1, <4>1
      <4>3. j \in DOMAIN f.saved /\ f.saved[j] = Top.saved[j]
        BY <1>5, <1>6, <4>2
      <4> QED
        BY <3>1, <4>1, <4>3
    <3>3. CASE ~\E j \in DOMAIN Top.saved : j < i /\ Top.saved[j].name = Top.saved[i].name
      BY <1>2, <1>6, <3>1, <3>3 DEF SavedBefore
    <3> QED
      BY <3>2, <3>3
  <2>2. SavedNames(f) \subseteq SavedNames(Top)
    BY <1>5, <1>6 DEF SavedNames
  <2> QED
    BY <1>2, <1>6, <2>1, <2>2 DEF SavedBefore
<1>11. SavedNames(Top) \subseteq SavedNames(f) \cup {n}
  BY <1>5, <1>6 DEF SavedNames
<1>12. n \notin SavedNames(f) =>
         restore.old = Top.before[n].value /\ restore.was_exported = Top.before[n].exported
  <2> SUFFICES ASSUME n \notin SavedNames(f)
               PROVE  restore.old = Top.before[n].value /\ restore.was_exported = Top.before[n].exported
    OBVIOUS
  <2>1. ASSUME NEW j \in DOMAIN Top.saved, j < last, Top.saved[j].name = n
        PROVE  FALSE
    <3>1. j \in DOMAIN f.saved /\ f.saved[j] = Top.saved[j]
      BY <1>4, <1>5, <1>6, <1>9, <2>1
    <3> QED
      BY <2>1, <3>1 DEF SavedNames
  <2> QED
    BY <1>2, <1>4, <2>1 DEF SavedBefore
<1> HIDE DEF restore
<1>13. /\ Sound(v') /\ v'.paths \in {v.paths, NoPaths} /\ made' \in {made, {}}
       /\ made' = made \/ v'.paths = NoPaths
       /\ SameBut(v, v', n)
       /\ restore.old # NoValue => /\ v'.table[n].value = restore.old
                                   /\ v'.table[n].exported = restore.was_exported
       /\ restore.old = NoValue => v'.table[n] = Absent \/ v'.table[n].readonly
  <2>1. CASE restore.old # NoValue
    <3> DEFINE new == Entry(restore.old, restore.was_exported, v.table[n].readonly \/ FALSE)
    <3>1. restore.old \in Values
      BY <1>8, <2>1 DEF Texts
    <3>2. Outcome(v, n, s, new) /\ (s.rc = 1 <=> FALSE /\ v.table[n].readonly)
      <4>1. FALSE \in BOOLEAN
        OBVIOUS
      <4> QED
        BY <1>3, <1>8, <3>1, <4>1, StoreKeeps, ZenonT(60)
    <3>3. Takes(s) /\ Assigned(n, s)
      BY <1>1, <2>1
    <3> HIDE DEF s
    <3>4. v' = s.v /\ SameBut(v, s.v, n) /\ s.v.table[n] = new
      BY <3>2, <3>3 DEF Outcome, Takes
    <3>5. new.value = restore.old /\ new.exported = restore.was_exported
      BY DEF Entry
    <3> HIDE DEF new
    <3>6. /\ Sound(v') /\ v'.paths \in {v.paths, NoPaths} /\ made' \in {made, {}}
          /\ made' = made \/ v'.paths = NoPaths
      BY <1>8, <3>2, <3>3, TakesOutcome
    <3> QED
      BY <2>1, <3>4, <3>5, <3>6
  <2>2. CASE restore.old = NoValue
    <3>1. /\ Sound(u.v) /\ SameBut(v, u.v, n) /\ u.v.paths \in {v.paths, NoPaths}
          /\ \/ u.rc = 1 /\ u.v.table = v.table /\ v.table[n].readonly
             \/ u.rc = 0 /\ u.v.table[n] = Absent /\ ~v.table[n].readonly
      BY <1>3, <1>8, UnsetKeeps
    <3>2. v' = u.v /\ made' = made
      BY <1>1, <2>2 DEF Takes
    <3> QED
      BY <2>2, <3>1, <3>2
  <2> QED
    BY <2>1, <2>2
<1>14. TopAgrees(f, v'.table)
  <2> SUFFICES ASSUME NEW m \in f.names, m \notin SavedNames(f)
               PROVE  Undone(f, v'.table, m)
    BY <1>6 DEF TopAgrees
  <2>1. m \in Names
    BY <1>6 DEF Frames
  <2>2. CASE m # n
    <3>1. Undone(Top, v.table, m)
      BY <1>1, <1>2, <1>6, <1>11, <2>2 DEF TopAgrees
    <3>2. v'.table[m] = v.table[m]
      BY <1>13, <2>1, <2>2 DEF SameBut
    <3> QED
      BY <1>6, <3>1, <3>2 DEF Undone
  <2>3. CASE m = n /\ restore.old # NoValue
    BY <1>6, <1>12, <1>13, <2>3 DEF Undone
  <2>4. CASE m = n /\ restore.old = NoValue /\ v'.table[n] = Absent
    <3>1. Top.before[n] = Absent
      BY <1>2, <1>8, <1>12, <2>4 DEF SavedBefore, Synced
    <3> QED
      BY <1>6, <2>4, <3>1 DEF Undone
  <2>5. CASE m = n /\ restore.old = NoValue /\ v'.table[n].readonly
    BY <1>6, <1>12, <2>5 DEF Undone
  <2> QED
    BY <1>13, <2>2, <2>3, <2>4, <2>5
<1> QED
  BY <1>1, <1>3, <1>6, <1>10, <1>13, <1>14, FrameStep

-----------------------------------------------------------------------------
(* Temporary assignments are sequences of names and values.                *)
LEMMA AssignmentsAreSequences ==
  script \in Scripts => Assignments \subseteq Seq(Names \X Values)
<1> SUFFICES ASSUME script \in Scripts, NEW a \in Assignments
             PROVE  a \in Seq(Names \X Values)
  OBVIOUS
<1>1. script.values \subseteq Names \X Values
  BY ScriptsAssumption
<1>2. PICK k \in 1..MaxAssignments : a \in [1..k -> script.values]
  BY DEF Assignments
<1>3. k \in Nat
  BY BoundsAssumption
<1> QED
  BY <1>1, <1>2, <1>3

(* Every step keeps the invariant.                                         *)
LEMMA StepInv == Inv /\ [Next]_vars => Inv'
<1> SUFFICES ASSUME Inv, [Next]_vars
             PROVE  Inv'
  OBVIOUS
<1>1. ASSUME NEW n \in Names, NEW value \in Values,
             Assign(n, value) \/ Getopts(n, value) \/ ExportValue(n, value) \/ ReadonlyValue(n, value)
      PROVE  Inv'
  BY <1>1, AssignStep
<1>2. ASSUME NEW n \in Names, Export(n) \/ Readonly(n) \/ Unset(n)
      PROVE  Inv'
  BY <1>2, AttributeStep
<1>3. ASSUME NEW on \in BOOLEAN, SetAllexport(on)
      PROVE  Inv'
  BY <1>3, SetAllexportStep
<1>4. ASSUME NEW assignments \in Assignments, Call(assignments)
      PROVE  Inv'
  <2>1. assignments \in Seq(Names \X Values)
    BY AssignmentsAreSequences DEF Inv, OtherTypes
  <2> QED
    BY <1>4, <2>1, CallStep
<1>5. CASE ApplyAssignment
  BY <1>5, ApplyStep
<1>6. CASE StartBody \/ EndBody
  BY <1>6, PhaseStep
<1>7. CASE restore_temporary_assignments
  BY <1>7, RestoreStep
<1>8. CASE Return
  BY <1>8, ReturnStep
<1>9. ASSUME NEW dir \in Dirs, NEW relative \in BOOLEAN, Cd(dir, relative)
      PROVE  Inv'
  BY <1>9, CdStep
<1>10. ASSUME NEW use_standard_path \in BOOLEAN, NEW vfork \in BOOLEAN,
              RunUtility(use_standard_path, vfork)
       PROVE  Inv'
  BY <1>10, RunStep
<1>11. ASSUME NEW dir \in Dirs, FileChanges(dir)
       PROVE  Inv'
  BY <1>11, FileStep
<1>12. ASSUME NEW line \in script.lines, set_lineno_for_ast_node(line)
       PROVE  Inv'
  BY <1>12, LineStep
<1>13. CASE UNCHANGED vars
  <2>1. OtherTypes' /\ Sound(v')
    BY <1>13 DEF vars, Inv, OtherTypes
  <2>2. FramesInv'
    BY <1>13 DEF vars, Inv, FramesInv, Top
  <2>3. PathsInv'
    BY <1>13, PathsStay DEF vars, Outside
  <2> QED
    BY <2>1, <2>2, <2>3 DEF Inv
<1> QED
  BY <1>1, <1>2, <1>3, <1>4, <1>5, <1>6, <1>7, <1>8, <1>9, <1>10, <1>11, <1>12, <1>13 DEF Next

(* The table, the frames' saved entries and the caches agree at all times. *)
THEOREM Invariance == Spec => []Inv
<1>1. Init => Inv
  BY InitInv
<1>2. Inv /\ [Next]_vars => Inv'
  BY StepInv
<1> QED
  BY <1>1, <1>2, PTL DEF Spec

(* Every state of the shell has its type: entries agree with their export  *)
(* texts (vars_sync_export_text) and nothing stays behind of an unset one. *)
THEOREM TypeCorrect == Spec => []TypeOK
<1>1. Inv => TypeOK
  <2> SUFFICES ASSUME Inv
               PROVE  TypeOK
    OBVIOUS
  <2>1. ASSUME NEW n \in Names
        PROVE  v.table[n] = vars_sync_export_text(v.table[n])
    <3>1. PICK e \in Entries : v.table[n] = e
      BY Found DEF Inv
    <3>2. e.text = IF e.exported THEN e.value ELSE NoValue
      BY <3>1 DEF Inv, Sound, Synced
    <3> DEFINE t == IF e.exported THEN e.value ELSE NoValue
    <3>3. [e EXCEPT !.text = t] = e
      BY <3>2 DEF Entries
    <3> QED
      BY <3>1, <3>3 DEF vars_sync_export_text
  <2> QED
    BY <2>1 DEF Inv, OtherTypes, Sound, Synced, FramesInv, TypeOK
<1> QED
  BY <1>1, Invariance, PTL

(* No utility gets a stale environment, whatever the commands before it.   *)
THEOREM EnvpCurrent == Spec => []EnvpIsCurrent
<1>1. Inv => EnvpIsCurrent
  BY DEF Inv, Sound, EnvpIsCurrent
<1> QED
  BY <1>1, Invariance, PTL

(* vars_lookup_entry_n never follows var_mru to an entry that was freed.   *)
THEOREM MruLive == Spec => []MruIsLive
<1>1. Inv => MruIsLive
  BY DEF Inv, Sound, MruIsLive
<1> QED
  BY <1>1, Invariance, PTL

(* Calls with assignments before them nest to any depth, each with any     *)
(* assignments, also to the same name, and fail at any of them: what they  *)
(* assigned is undone when they return.                                    *)
THEOREM TemporaryUndone == Spec => []TemporariesUndone
<1>1. Inv => TemporariesUndone
  <2> SUFFICES ASSUME Inv, frames # <<>>, Top.phase = "restoring", Top.saved = <<>>,
                      NEW n \in Top.names
               PROVE  Undone(Top, v.table, n)
    BY DEF TemporariesUndone, InPhase, Undone
  <2>1. TopAgrees(Top, v.table)
    BY TopFrame
  <2>2. n \notin SavedNames(Top)
    BY DEF SavedNames
  <2> QED
    BY <2>1, <2>2 DEF TopAgrees
<1> QED
  BY <1>1, Invariance, PTL

(* For every PATH, every set of directories and every change of files: a   *)
(* remembered place that counts is the one a search would find, or a new   *)
(* file comes before it.                                                   *)
THEOREM PathCacheFresh == Spec => []PathCacheIsFresh
<1>1. Inv => PathCacheIsFresh
  <2> DEFINE value(standard) == IF standard THEN StandardPath ELSE v.table["PATH"].value
  <2> SUFFICES ASSUME Inv, NEW standard \in BOOLEAN, ~astray,
                      value(standard) \notin {NoValue, Empty},
                      path_cache_hit(v, <<value(standard), standard>>, Present)
               PROVE  LET found == path_search_command_in_path(value(standard), Present)
                      IN  \/ v.paths[<<value(standard), standard>>] = found
                          \/ (IF found = Here THEN cwd ELSE found) \in made
    BY DEF PathCacheIsFresh
  <2> DEFINE u == value(standard)
             p == v.paths[<<u, standard>>]
             found == path_search_command_in_path(u, Present)
  <2>1. u \in Values
    <3>1. v.table["PATH"] \in Entries
      BY Found, NamesAssumption DEF Inv
    <3> QED
      BY <3>1, ValuesAssumption DEF Entries, Texts
  <2> HIDE DEF value
  <2>2. p \in Present /\ p # Nowhere
    BY PlacesAssumption DEF path_cache_hit, Present
  <2>3. Leads(u, p)
    BY <2>1, <2>2 DEF Inv, PathsInv
  <2>4. PICK i \in DOMAIN SearchPath[u] :
          /\ SearchPath[u][i] = p
          /\ \A j \in DOMAIN SearchPath[u] :
               j < i /\ SearchPath[u][j] \in Present => Loc(SearchPath[u][j]) \in made
    BY <2>3 DEF Leads
  <2>5. PICK k \in DOMAIN SearchPath[u] :
          /\ SearchPath[u][k] = found /\ found \in Present
          /\ \A j \in DOMAIN SearchPath[u] : j < k => SearchPath[u][j] \notin Present
    BY <2>1, <2>2, <2>4, SearchFinds
  <2>6. i \in Nat /\ k \in Nat
    BY <2>1, <2>4, <2>5, PathsAreSequences
  <2>7. CASE k = i
    BY <2>4, <2>5, <2>7
  <2>8. CASE k < i
    <3>1. Loc(found) \in made
      BY <2>4, <2>5, <2>8
    <3> QED
      BY <3>1 DEF Loc
  <2>9. CASE i < k
    BY <2>2, <2>4, <2>5, <2>9
  <2> QED
    BY <2>6, <2>7, <2>8, <2>9
<1> QED
  BY <1>1, Invariance, PTL

(* The step of the action property.                                        *)
ReadonlyStep ==
  \A n \in Names :
    v.table[n].readonly => /\ v'.table[n].readonly
                           /\ \/ v'.table[n].value = v.table[n].value
                              \/ InPhase("restoring")
                              \/ n = "LINENO" /\ ~numbered /\ numbered'

(* Restoring temporary assignments changes no readonly variable.           *)
LEMMA RestoreKeepsReadonly ==
  ASSUME Inv, restore_temporary_assignments
  PROVE  ReadonlyStep
<1> DEFINE restore == Top.saved[Len(Top.saved)]
           n == restore.name
           s == vars_store(v, n, restore.old, FALSE, restore.was_exported, FALSE)
           u == vars_unset(v, n)
           new == Entry(restore.old, restore.was_exported, v.table[n].readonly \/ FALSE)
<1>1. /\ frames # <<>> /\ InPhase("restoring") /\ Top.saved # <<>>
      /\ restore.old # NoValue => v' = s.v
      /\ restore.old = NoValue => v' = u.v
  BY DEF restore_temporary_assignments, InPhase, vars_set_with_mode, Takes
<1>2. Top \in Frames /\ Sound(v)
  BY <1>1, TopFrame DEF Inv
<1>3. Top.saved \in Seq(Restores)
  BY <1>2 DEF Frames
<1>4. restore \in Restores
  BY <1>1, <1>3
<1>5. n \in Names /\ restore.old \in Texts /\ restore.was_exported \in BOOLEAN
  BY <1>4 DEF Restores
<1> HIDE DEF restore
<1>6. CASE restore.old = NoValue
  <2>1. KeepsReadonly(v, u.v)
    BY <1>2, <1>5, UnsetKeeps
  <2> QED
    BY <1>1, <1>6, <2>1 DEF KeepsReadonly, ReadonlyStep
<1>7. CASE restore.old # NoValue
  <2>1. restore.old \in Values /\ FALSE \in BOOLEAN
    BY <1>5, <1>7 DEF Texts
  <2>2. Outcome(v, n, s, new)
    BY <1>2, <1>5, <2>1, StoreKeeps
  <2> HIDE DEF s
  <2>3. SameBut(v, v', n) /\ (v'.table[n] = new \/ v'.table = v.table)
    BY <1>1, <1>7, <2>2 DEF Outcome
  <2>4. v.table[n].readonly => new.readonly
    BY DEF Entry
  <2> HIDE DEF new
  <2>5. ASSUME NEW k \in Names, v.table[k].readonly
        PROVE  v'.table[k].readonly
    <3>1. CASE k = n
      BY <2>3, <2>4, <2>5, <3>1
    <3>2. CASE k # n
      BY <2>3, <2>5, <3>2 DEF SameBut
    <3> QED
      BY <3>1, <3>2
  <2> QED
    BY <1>1, <2>5 DEF ReadonlyStep
<1> QED
  BY <1>6, <1>7

(* The line number is written to a readonly variable as well, to that one. *)
LEMMA LineKeepsReadonly ==
  ASSUME Inv, NEW line \in script.lines, set_lineno_for_ast_node(line)
  PROVE  ReadonlyStep
<1> DEFINE r == vars_store(v, "LINENO", line, FALSE, FALSE, FALSE)
           new == Entry(line, FALSE, v.table["LINENO"].readonly \/ FALSE)
<1>1. v' = r.v /\ ~numbered /\ numbered'
  BY DEF set_lineno_for_ast_node, vars_set_with_mode
<1>2. line \in Values /\ "LINENO" \in Names /\ Sound(v)
  BY ScriptsAssumption, NamesAssumption DEF Inv, OtherTypes
<1>3. Outcome(v, "LINENO", r, new)
  BY <1>2, StoreKeeps
<1> HIDE DEF r
<1>4. SameBut(v, v', "LINENO") /\ (v'.table["LINENO"] = new \/ v'.table = v.table)
  BY <1>1, <1>3 DEF Outcome
<1>5. v.table["LINENO"].readonly => new.readonly
  BY DEF Entry
<1> HIDE DEF new
<1> QED
  BY <1>1, <1>4, <1>5 DEF SameBut, ReadonlyStep

(* No step changes the value of a readonly variable.                       *)
LEMMA StepKeepsReadonly == Inv /\ [Next]_vars => ReadonlyStep
<1> SUFFICES ASSUME Inv, [Next]_vars
             PROVE  ReadonlyStep
  OBVIOUS
<1>1. Sound(v) /\ allexport \in BOOLEAN
  BY DEF Inv, OtherTypes
<1>2. ASSUME NEW x, KeepsReadonly(v, x), v' = x
      PROVE  ReadonlyStep
  BY <1>2 DEF KeepsReadonly, ReadonlyStep
<1>3. ASSUME UNCHANGED v
      PROVE  ReadonlyStep
  BY <1>3 DEF ReadonlyStep
<1>4. ASSUME NEW n \in Names, NEW value \in Values,
             Assign(n, value) \/ Getopts(n, value) \/ ExportValue(n, value) \/ ReadonlyValue(n, value)
      PROVE  ReadonlyStep
  <2>1. v.table[n].exported \in BOOLEAN
    BY <1>1, Found DEF Entries
  <2>2. PICK e \in BOOLEAN, b \in BOOLEAN : v' = vars_store(v, n, value, TRUE, e, b).v
    <3>1. CASE Assign(n, value)
      <4>1. (v.table[n].exported \/ n = "PATH" \/ allexport) \in BOOLEAN
        OBVIOUS
      <4> QED
        BY <3>1, <4>1 DEF Assign, Takes, vars_set_assignment
    <3>2. CASE Getopts(n, value)
      BY <3>2 DEF Getopts, Takes, vars_set_with_mode
    <3>3. CASE ExportValue(n, value)
      BY <3>3 DEF ExportValue, Takes, vars_set_with_mode
    <3>4. CASE ReadonlyValue(n, value)
      BY <2>1, <3>4 DEF ReadonlyValue, Takes, vars_mark_readonly_with_value
    <3> QED
      BY <1>4, <3>1, <3>2, <3>3, <3>4
  <2> QED
    BY <1>1, <1>2, <2>2, StoreKeepsReadonly
<1>5. ASSUME NEW n \in Names, Export(n) \/ Readonly(n) \/ Unset(n)
      PROVE  ReadonlyStep
  <2>1. CASE Export(n)
    BY <1>1, <1>2, <2>1, MarkExportedKeeps DEF Export, Kept
  <2>2. CASE Readonly(n)
    BY <1>1, <1>2, <2>2, MarkReadonlyKeeps DEF Readonly, Kept
  <2>3. CASE Unset(n)
    BY <1>1, <1>2, <2>3, UnsetKeeps DEF Unset, Takes
  <2> QED
    BY <1>5, <2>1, <2>2, <2>3
<1>6. ASSUME NEW on \in BOOLEAN, SetAllexport(on)
      PROVE  ReadonlyStep
  BY <1>3, <1>6 DEF SetAllexport
<1>7. ASSUME NEW assignments \in Assignments, Call(assignments)
      PROVE  ReadonlyStep
  BY <1>3, <1>7 DEF Call
<1>8. CASE ApplyAssignment
  <2> DEFINE n == Top.todo[1][1]
             value == Top.todo[1][2]
             w == vars_lookup_entry(v, n)
  <2>1. frames # <<>> /\ Top.todo # <<>> /\ v' = vars_store(w, n, value, TRUE, TRUE, FALSE).v
    BY <1>8 DEF ApplyAssignment, InPhase, Takes, vars_set, vars_set_with_mode
  <2>2. n \in Names /\ value \in Values
    <3>1. Top.todo \in Seq(Names \X Values)
      BY <2>1, TopFrame DEF Frames
    <3>2. Top.todo[1] \in Names \X Values
      BY <2>1, <3>1
    <3> QED
      BY <3>2
  <2> HIDE DEF n, value
  <2>3. Sound(w) /\ w.table = v.table
    BY <1>1, <2>2, LookupKeeps
  <2> HIDE DEF w
  <2>4. KeepsReadonly(w, v')
    BY <2>1, <2>2, <2>3, StoreKeepsReadonly
  <2> QED
    BY <2>3, <2>4 DEF KeepsReadonly, ReadonlyStep
<1>9. CASE StartBody \/ EndBody \/ Return
  BY <1>3, <1>9 DEF StartBody, EndBody, Return
<1>10. CASE restore_temporary_assignments
  BY <1>10, RestoreKeepsReadonly
<1>11. ASSUME NEW dir \in Dirs, NEW relative \in BOOLEAN, Cd(dir, relative)
       PROVE  ReadonlyStep
  BY <1>2, <1>11, CdStore DEF Cd
<1>12. ASSUME NEW use_standard_path \in BOOLEAN, NEW vfork \in BOOLEAN,
              RunUtility(use_standard_path, vfork)
       PROVE  ReadonlyStep
  <2> DEFINE r == path_resolve_command(v, use_standard_path, Present)
  <2>1. v' = IF r.place # Nowhere /\ vfork THEN vars_build_envp(r.v) ELSE r.v
    BY <1>12 DEF RunUtility
  <2>2. Sound(r.v) /\ r.v.table = v.table
    BY <1>1, ResolveKeeps DEF Resolved
  <2> HIDE DEF r
  <2>3. vars_build_envp(r.v).table = v.table
    BY <2>2, BuildEnvpKeeps
  <2>4. v'.table = v.table
    BY <2>1, <2>2, <2>3
  <2> QED
    BY <2>4 DEF ReadonlyStep
<1>13. ASSUME NEW dir \in Dirs, FileChanges(dir)
       PROVE  ReadonlyStep
  BY <1>3, <1>13 DEF FileChanges
<1>14. ASSUME NEW line \in script.lines, set_lineno_for_ast_node(line)
       PROVE  ReadonlyStep
  BY <1>14, LineKeepsReadonly
<1>15. CASE UNCHANGED vars
  BY <1>3, <1>15 DEF vars
<1> QED
  BY <1>4, <1>5, <1>6, <1>7, <1>8, <1>9, <1>10, <1>11, <1>12, <1>13, <1>14, <1>15 DEF Next

(* No command gives a read-only variable another value, cd and getopts     *)
(* included; only the end of a call does, with the value it had before,    *)
(* and the shell itself, which writes its line to LINENO.                  *)
THEOREM ReadonlyKept == Spec => ReadonlyKeepsItsValue
<1>1. Inv /\ [Next]_vars => ReadonlyStep
  BY StepKeepsReadonly
<1>2. ReadonlyStep => [ReadonlyStep]_vars
  OBVIOUS
<1> QED
  BY <1>1, <1>2, Invariance, PTL DEF Spec, ReadonlyKeepsItsValue, ReadonlyStep
=============================================================================
