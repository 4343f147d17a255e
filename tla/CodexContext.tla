----------------------------- MODULE CodexContext -----------------------------
(* The context windows the user overrides (codex-context.mjs), and the migration of what     *)
(* earlier releases left: a pointer in config.toml to a catalogue of theirs, with the user's *)
(* own setting remembered in the store.  The migration puts that setting back, unless Codex, *)
(* the user or another injector changes the files meanwhile; a failing step undoes it, and a *)
(* crash may come between any two.                                                            *)
EXTENDS Naturals

CONSTANTS None, Bad,    \* Bad: a store that cannot be read
          Own,          \* the catalogue the user had set before
          Managed,      \* the catalogue of an earlier release
          Models,
          MaxEdits,     \* bound: changes of the files by others, and saves of the user
          MaxFaults     \* bound: failing writes and crashes

ContextConstants == {MaxEdits, MaxFaults} \subseteq Nat /\ Managed \notin {None, Own}

VARIABLES config,      \* root: the catalogue set, nested: a managed one in a table, edit: whose text
          store,       \* context-overrides.json, None or Bad
          usable,      \* the catalogues that can be read
          mem,         \* what the manager knows, None while it does not run
          pc,          \* idle | capture | compare | write | check | persist | undo | restore
          first,       \* the refresh is that of initialize()
          seen,        \* the files the migration has read
          edits, faults,
          raced        \* a change fell between a comparison and the write it allowed

vars == <<config, store, usable, mem, pc, first, seen, edits, faults, raced>>
files == <<config, store, usable>>
bounds == <<edits, faults, raced>>

Windows == [Models -> 0..1]
NoOverrides == [s \in Models |-> 0]
Stored(version, overrides, previous) == [version |-> version, overrides |-> overrides, previous |-> previous]

\* What releases have left behind: only version 3 remembers a setting.
Stores == {None, Bad} \cup {Stored(v, w, "absent") : v \in 3..5, w \in Windows}
            \cup {Stored(3, w, p) : p \in {Own, Managed}, w \in Windows}

Blank == [overrides |-> NoOverrides, previous |-> "absent", needs |-> FALSE,
          storeBlocked |-> FALSE, blocked |-> FALSE]

Init ==
  /\ config \in [root : {None, Own, Managed}, nested : BOOLEAN, edit : {0}]
  /\ store \in Stores /\ usable \in SUBSET {"cache", Own, Managed}
  /\ mem = None /\ pc = "idle" /\ first = FALSE /\ seen = None
  /\ edits = 0 /\ faults = 0 /\ raced = FALSE

-----------------------------------------------------------------------------
(* normalizeStoredState(): a store that cannot be read, or is newer, is never written.       *)
Normalized ==
  CASE store = Bad -> [Blank EXCEPT !.storeBlocked = TRUE]
    [] store = None -> Blank
    [] OTHER -> [overrides |-> store.overrides, previous |-> store.previous, needs |-> store.version # 5,
                 storeBlocked |-> FALSE, blocked |-> FALSE]

Synced(m) == ~m.storeBlocked /\ ~m.blocked

Initialize ==
  /\ mem = None /\ mem' = Normalized
  /\ pc' = (IF Synced(mem') THEN "capture" ELSE "idle") /\ first' = TRUE
  /\ UNCHANGED <<files, seen, bounds>>

(* refresh() after each connection to Codex. *)
Refresh ==
  /\ mem # None /\ pc = "idle" /\ Synced(mem)
  /\ pc' = "capture" /\ first' = FALSE
  /\ UNCHANGED <<files, mem, seen, bounds>>

-----------------------------------------------------------------------------
(* #migrateLegacyManagedCatalog().  A remembered setting that is itself managed stands for   *)
(* none.                                                                                      *)
SafePrevious == IF mem.previous = Own THEN Own ELSE None

Restored(c) ==
  [root |-> IF c.root = Managed THEN SafePrevious ELSE c.root, nested |-> FALSE, edit |-> c.edit]
Persisting == seen.config.root = Managed \/ mem.needs

Failed ==
  /\ pc' = "idle" /\ mem' = IF first THEN [mem EXCEPT !.blocked = TRUE] ELSE mem

Capture ==
  /\ pc = "capture"
  /\ seen' = [config |-> config, store |-> store]
  /\ LET managed == config.root = Managed IN
     IF ~managed /\ ~config.nested /\ ~mem.needs
     THEN pc' = "idle" /\ UNCHANGED mem
     ELSE IF managed /\ SafePrevious = Own /\ Own \notin usable
     THEN Failed
     ELSE pc' = (IF Restored(config) # config THEN "compare" ELSE "check") /\ UNCHANGED mem
  /\ UNCHANGED <<files, first, bounds>>

Compare ==
  /\ pc = "compare"
  /\ IF config = seen.config THEN pc' = "write" /\ UNCHANGED mem ELSE Failed
  /\ UNCHANGED <<files, first, seen, bounds>>

WriteConfig ==
  /\ pc = "write"
  /\ config' = Restored(seen.config) /\ pc' = "check"
  /\ UNCHANGED <<store, usable, mem, first, seen, bounds>>

Wrote == Restored(seen.config) # seen.config
Thrown == IF Wrote THEN pc' = "undo" /\ UNCHANGED mem ELSE Failed

CheckStore ==
  /\ pc = "check"
  /\ IF ~Persisting THEN pc' = "idle" /\ UNCHANGED mem
     ELSE IF store = seen.store THEN pc' = "persist" /\ UNCHANGED mem
     ELSE Thrown
  /\ UNCHANGED <<files, first, seen, bounds>>

Persist ==
  /\ pc = "persist" /\ pc' = "idle"
  /\ store' = Stored(5, mem.overrides, "absent")
  /\ mem' = [overrides |-> mem.overrides, previous |-> "absent", needs |-> FALSE,
             storeBlocked |-> mem.storeBlocked, blocked |-> mem.blocked]
  /\ UNCHANGED <<config, usable, first, seen, bounds>>

(* Mutant: the old text is put back whatever the file holds by now. *)
UndoneBlindly == config # seen.config

(* #restoreMutations(): only what the migration itself has written is put back. *)
Undone == config = Restored(seen.config)

Undo ==
  /\ pc = "undo"
  /\ IF Undone THEN pc' = "restore" /\ UNCHANGED mem ELSE Failed
  /\ UNCHANGED <<files, first, seen, bounds>>

RestoreConfig ==
  /\ pc = "restore"
  /\ config' = seen.config /\ Failed
  /\ UNCHANGED <<store, usable, first, seen, bounds>>

WriteFails ==
  /\ pc \in {"write", "persist", "restore"} /\ faults < MaxFaults /\ faults' = faults + 1
  /\ IF pc = "persist" THEN Thrown ELSE Failed
  /\ UNCHANGED <<files, first, seen, edits, raced>>

-----------------------------------------------------------------------------
(* setOverride(), resetOverride() and resetAll().  The catalogue is the one in the cache, or *)
(* the one that is set.                                                                       *)
HasCatalog == "cache" \in usable \/ config.root \in usable

(* A migration that failed keeps the store from being written.                                *)
Writable == ~mem.storeBlocked /\ ~mem.blocked

SaveOverrides ==
  /\ mem # None /\ pc = "idle" /\ Writable /\ edits < MaxEdits
  /\ \E overrides \in Windows :
       /\ overrides # mem.overrides /\ (overrides # NoOverrides => HasCatalog)
       /\ store' = Stored(5, overrides, "absent")
       /\ mem' = [mem EXCEPT !.overrides = overrides]
  /\ edits' = edits + 1
  /\ UNCHANGED <<config, usable, pc, first, seen, faults, raced>>

-----------------------------------------------------------------------------
(* Codex or the user changes config.toml, another injector the store, and catalogues come    *)
(* and go.                                                                                    *)
Comparing == pc \in {"write", "persist", "restore"}

EditConfig ==
  /\ edits < MaxEdits /\ edits' = edits + 1
  /\ \E root \in {None, Own, config.root} :
       config' = [root |-> root, nested |-> config.nested, edit |-> edits + 1]
  /\ raced' = (raced \/ Comparing)
  /\ UNCHANGED <<store, usable, mem, pc, first, seen, faults>>

EditStore ==
  /\ edits < MaxEdits /\ edits' = edits + 1
  /\ store \notin {None, Bad}
  /\ \E overrides \in Windows \ {store.overrides} : store' = [store EXCEPT !.overrides = overrides]
  /\ raced' = (raced \/ Comparing)
  /\ UNCHANGED <<config, usable, mem, pc, first, seen, faults>>

CatalogChanges ==
  /\ edits < MaxEdits /\ edits' = edits + 1
  /\ usable' \in {(usable \cup {c}) \ (usable \cap {c}) : c \in {"cache", Own}}
  /\ UNCHANGED <<config, store, mem, pc, first, seen, faults, raced>>

Crash ==
  /\ mem # None /\ faults < MaxFaults /\ faults' = faults + 1
  /\ mem' = None /\ pc' = "idle" /\ first' = FALSE /\ seen' = None
  /\ UNCHANGED <<files, edits, raced>>

Environment == EditConfig \/ EditStore \/ CatalogChanges \/ Crash
Next == \/ Initialize \/ Refresh \/ SaveOverrides
        \/ Capture \/ Compare \/ WriteConfig \/ CheckStore \/ Persist \/ Undo \/ RestoreConfig
        \/ WriteFails \/ Environment

Spec == Init /\ [][Next]_vars

-----------------------------------------------------------------------------
(* As long as config.toml points to the catalogue of an earlier release, the store still     *)
(* knows the setting it replaced: no crash, failed migration or save makes the user's own    *)
(* setting unrecoverable.                                                                     *)
KeepsPrevious ==
  [][config'.root = Managed /\ store \notin {None, Bad} /\ store.previous = Own
       => store'.previous = Own]_vars

(* The migration and its undoing keep every change others have made to config.toml, but for  *)
(* one that falls between the comparison and the rename it allows.                            *)
EditsStand == [][config'.edit < config.edit => raced]_vars
=============================================================================
