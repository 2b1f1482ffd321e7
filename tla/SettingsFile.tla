---------------------------- MODULE SettingsFile ----------------------------
(***************************************************************************)
(* The host's settings.json and who changes it: the wrapper's session      *)
(* preparation (injectSettings), `forgen mcp` and `uninstall`, `forgen     *)
(* statusline install`, and `forgen install claude`.  The first two take   *)
(* the lock of src/core/settings-lock.ts, a file holding a pid; the last   *)
(* takes a file lock at the same path, holding JSON metadata, and goes on  *)
(* without it if the lock file cannot be created; the statusline takes     *)
(* none.                                                                   *)
(*                                                                         *)
(* The settings are the set of processes whose entry they hold.            *)
(***************************************************************************)
EXTENDS Naturals, FiniteSets

CONSTANTS
  Procs,   \* processes, each with one change to make
  Free,    \* no lock file
  Nobody,  \* an empty lock file
  MaxDeaths  \* bound: processes that die

ASSUME SettingsAssumption ==
  /\ Free \notin [maker : Procs, says : Procs \cup {Nobody}] 
  /\ Nobody \notin Procs
  /\ MaxDeaths \in Nat

VARIABLES
  kind,      \* the command each process runs
  settings,  \* the entries in settings.json
  backup,    \* the copy in settings.json.forgen-backup, if there is one
  lock,      \* who created the lock file, and whose identity is in it
  old,       \* the lock file is older than the file lock's staleMs
  alive,
  step,
  seen,      \* the settings each process has read
  goal,      \* "merge" the change, report a "fail"ure of it, or restore the
             \* backup: "nested" in the failed change, or after it ("restore")
  holds,     \* processes that count on the lock
  unlocked,  \* history: entries put in by a write without the lock
  taken      \* history: a live holder's lock was overwritten or removed

settingsVars ==
  <<kind, settings, backup, lock, old, alive, step, seen, goal, holds, unlocked, taken>>
content == <<settings, backup>>
local == <<seen, goal>>

Kinds == {"inject", "mcp", "statusline", "install"}
PcStates == {"load", "open", "mark", "judge", "override", "write", "restore",
             "release", "remove", "catch", "end"}
SettingsTypeOK ==
  /\ kind \in [Procs -> Kinds]
  /\ settings \subseteq Procs /\ backup \subseteq SUBSET Procs
  /\ lock \in [maker : Procs, says : Procs \cup {Nobody}] \cup {Free}
  /\ old \in BOOLEAN /\ taken \in BOOLEAN
  /\ alive \subseteq Procs /\ holds \subseteq Procs /\ unlocked \subseteq Procs
  /\ step \in [Procs -> PcStates]
  /\ seen \in [Procs -> SUBSET Procs]
  /\ goal \in [Procs -> {"merge", "fail", "nested", "restore"}]

\* `forgen mcp` and the statusline read the settings before anything else.
ReadsFirst(p) == kind[p] \in {"mcp", "statusline"}

SettingsInit ==
  /\ kind \in [Procs -> Kinds]
  /\ settings = {} /\ backup = {}
  /\ lock = Free /\ old = FALSE /\ taken = FALSE
  /\ alive = Procs /\ holds = {} /\ unlocked = {}
  /\ step = [p \in Procs |-> IF ReadsFirst(p) THEN "load" ELSE "open"]
  /\ seen = [p \in Procs |-> {}]
  /\ goal = [p \in Procs |-> "merge"]

At(p, s) == p \in alive /\ step[p] = s
Goto(p, s) == step' = [step EXCEPT ![p] = s]
Holding(p) == p \in holds \/ step[p] = "mark"

\* readLockPid: null for no file, an empty one, or the JSON of a file lock.
PidIn(l) == {q \in Procs : l # Free /\ l.says = q /\ kind[q] # "install"}
\* readLockMeta: null likewise, or for a bare pid.
MetaIn(l) == {q \in Procs : l # Free /\ l.says = q /\ kind[q] = "install"}

\* What the lock protects.
Inside(p) == IF goal[p] \in {"nested", "restore"} THEN "restore"
             ELSE IF ReadsFirst(p) THEN "write" ELSE "load"

\* A lock that the others count on disappears or changes hands.
Take(p) == taken' = (taken \/ \E q \in alive \ {p} : Holding(q))

-----------------------------------------------------------------------------
(* Taking the lock *)

\* Slip: an existing lock file is opened as well.
CreateAnyway(p) ==
  /\ At(p, "open")
  /\ lock' = [maker |-> p, says |-> Nobody] /\ old' = FALSE
  /\ Goto(p, "mark")
  /\ UNCHANGED <<kind, unlocked, content, alive, local, holds, taken>>

\* The exclusive open succeeds; the file is still empty.
Create(p) ==
  /\ At(p, "open") /\ lock = Free
  /\ lock' = [maker |-> p, says |-> Nobody] /\ old' = FALSE
  /\ Goto(p, "mark")
  /\ UNCHANGED <<kind, unlocked, content, alive, local, holds, taken>>

\* pid or metadata go to the open file, which may no longer be at the path.
Mark(p) ==
  /\ At(p, "mark")
  /\ IF lock # Free /\ lock.maker = p
     THEN lock' = [lock EXCEPT !.says = p] /\ old' = FALSE
     ELSE UNCHANGED <<lock, old>>
  /\ holds' = holds \cup {p}
  /\ Goto(p, Inside(p))
  /\ UNCHANGED <<kind, unlocked, content, alive, local, taken>>

\* acquireLock has waited its 3 seconds.
WaitOver(p) ==
  /\ At(p, "open") /\ lock # Free /\ kind[p] # "install"
  /\ Goto(p, "judge")
  /\ UNCHANGED <<kind, unlocked, content, lock, old, alive, local, holds, taken>>

\* A live pid makes it throw SettingsLockError: past the release of the
\* process's own lock if it holds that one, and swallowed by the session
\* preparation.
Judge(p) ==
  /\ At(p, "judge") /\ kind[p] # "install"
  /\ Goto(p, IF PidIn(lock) \cap alive = {} THEN "override"
             ELSE IF p \in holds THEN "release" ELSE "end")
  /\ UNCHANGED <<kind, unlocked, content, lock, old, alive, local, holds, taken>>

Override(p) ==
  /\ At(p, "override") /\ kind[p] # "install"
  /\ lock' = IF lock = Free THEN [maker |-> p, says |-> p] ELSE [lock EXCEPT !.says = p]
  /\ old' = FALSE
  /\ Take(p)
  /\ holds' = holds \cup {p}
  /\ Goto(p, Inside(p))
  /\ UNCHANGED <<kind, unlocked, content, alive, local>>

\* tryRecoverStaleLock of the file lock: judge, then unlink.
FindStale(p) ==
  /\ At(p, "open") /\ kind[p] = "install"
  /\ lock # Free /\ old /\ MetaIn(lock) \cap alive = {}
  /\ Goto(p, "override")
  /\ UNCHANGED <<kind, unlocked, content, lock, old, alive, local, holds, taken>>
Recover(p) ==
  /\ At(p, "override") /\ kind[p] = "install"
  /\ lock' = Free /\ old' = FALSE
  /\ Take(p)
  /\ Goto(p, "open")
  /\ UNCHANGED <<kind, unlocked, content, alive, local, holds>>

\* The file lock's own timeout ends the installation's update.
GiveUp(p) ==
  /\ At(p, "open") /\ lock # Free /\ kind[p] = "install"
  /\ Goto(p, "end")
  /\ UNCHANGED <<kind, unlocked, content, lock, old, alive, local, holds, taken>>

\* The lock file cannot be created or written to.  FileLockError: the update
\* is done all the same.  acquireLock waits, or throws what its own write
\* throws, which the session preparation does not swallow.
Refused(p) ==
  /\ At(p, "open") \/ At(p, "mark")
  /\ \/ kind[p] = "install" /\ Goto(p, "load") /\ goal' = goal
     \/ kind[p] # "install" /\ step[p] = "mark" /\ Goto(p, "open") /\ goal' = goal
     \/ /\ kind[p] # "install" /\ step[p] = "open"
        /\ goal' = [goal EXCEPT ![p] = IF @ \in {"merge", "nested"} THEN "fail" ELSE @]
        /\ Goto(p, IF p \in holds THEN "release"
                   ELSE IF kind[p] = "inject" /\ goal[p] = "merge" THEN "catch" ELSE "end")
  /\ UNCHANGED <<kind, unlocked, content, lock, old, alive, seen, holds, taken>>

-----------------------------------------------------------------------------
(* Reading, writing, restoring *)

\* injectSettings also copies what it read to the backup.
Load(p) ==
  /\ At(p, "load")
  /\ seen' = [seen EXCEPT ![p] = settings]
  /\ backup' = IF kind[p] = "inject" /\ settings # {} THEN {settings} ELSE backup
  /\ Goto(p, IF kind[p] = "mcp" THEN "open" ELSE "write")
  /\ UNCHANGED <<kind, unlocked, settings, lock, old, alive, goal, holds, taken>>

\* Slip: the own entry replaces what was read.
WriteOwnOnly(p) ==
  /\ At(p, "write")
  /\ settings' = {p}
  /\ backup' = IF kind[p] = "mcp" /\ settings # {} THEN {settings} ELSE backup
  /\ Goto(p, IF p \in holds THEN "release" ELSE "end")
  /\ unlocked' = IF p \in holds THEN unlocked ELSE unlocked \cup (settings' \ settings)
  /\ seen' = [seen EXCEPT ![p] = {}]
  /\ UNCHANGED <<kind, lock, old, alive, goal, holds, taken>>

\* The changed copy replaces the file; writeSettings makes the backup here.
Write(p) ==
  /\ At(p, "write")
  /\ settings' = seen[p] \cup {p}
  /\ backup' = IF kind[p] = "mcp" /\ settings # {} THEN {settings} ELSE backup
  /\ Goto(p, IF p \in holds THEN "release" ELSE "end")
  /\ unlocked' = IF p \in holds THEN unlocked ELSE unlocked \cup (settings' \ settings)
  /\ seen' = [seen EXCEPT ![p] = {}]
  /\ UNCHANGED <<kind, lock, old, alive, goal, holds, taken>>

\* injectSettings calls rollbackSettings at once, which takes the lock again,
\* but not if a step before the write threw; writeSettings may have made its
\* backup.
WriteFails(p) ==
  /\ At(p, "write")
  /\ \E nested \in BOOLEAN :
       /\ nested => kind[p] = "inject" /\ backup # {}
       /\ goal' = [goal EXCEPT ![p] = IF nested THEN "nested" ELSE "fail"]
       /\ Goto(p, IF nested THEN "open" ELSE IF p \in holds THEN "release" ELSE "end")
  /\ \/ backup' = backup
     \/ kind[p] = "mcp" /\ settings # {} /\ backup' = {settings}
  /\ seen' = [seen EXCEPT ![p] = {}]
  /\ UNCHANGED <<kind, unlocked, settings, lock, old, alive, holds, taken>>

\* rollbackSettings, with the lock: restores and removes the backup, unless
\* another rollback did or one of the two calls fails.
Restore(p) ==
  /\ At(p, "restore")
  /\ \/ settings' \in backup /\ backup' \in {backup, {}}
     \/ UNCHANGED content
  /\ goal' = [goal EXCEPT ![p] = IF @ = "nested" THEN "fail" ELSE @]
  /\ Goto(p, "release")
  /\ UNCHANGED <<kind, unlocked, lock, old, alive, seen, holds, taken>>

\* A later step of the session preparation throws.
PreparationFails(p) ==
  /\ At(p, "end") /\ kind[p] = "inject" /\ goal[p] \in {"merge", "nested"}
  /\ Goto(p, "catch")
  /\ UNCHANGED <<kind, unlocked, content, lock, old, alive, local, holds, taken>>

\* prepareHarness catches the error and rolls back, if there is a backup.
Catch(p) ==
  /\ At(p, "catch")
  /\ goal' = [goal EXCEPT ![p] = "restore"]
  /\ Goto(p, IF backup = {} THEN "end" ELSE "open")
  /\ UNCHANGED <<kind, unlocked, content, lock, old, alive, seen, holds, taken>>

-----------------------------------------------------------------------------
(* Giving the lock back *)

After(p) == IF kind[p] = "inject" /\ goal[p] = "fail" THEN "catch" ELSE "end"

\* releaseLock goes on unless another pid is in the file, the file lock only
\* if its own token is.
Release(p) ==
  /\ At(p, "release")
  /\ IF IF kind[p] = "install" THEN p \in MetaIn(lock) ELSE PidIn(lock) \subseteq {p}
     THEN Goto(p, "remove") /\ holds' = holds
     ELSE Goto(p, After(p)) /\ holds' = holds \ {p}
  /\ UNCHANGED <<kind, unlocked, content, lock, old, alive, local, taken>>

RemoveLock(p) ==
  /\ At(p, "remove")
  /\ lock' = Free /\ old' = FALSE
  /\ Take(p)
  /\ holds' = holds \ {p}
  /\ Goto(p, After(p))
  /\ UNCHANGED <<kind, unlocked, content, alive, local>>

Killed(p) ==
  /\ p \in alive /\ Cardinality(Procs \ alive) < MaxDeaths
  /\ alive' = alive \ {p} /\ holds' = holds \ {p}
  /\ Goto(p, "end") /\ seen' = [seen EXCEPT ![p] = {}]
  /\ UNCHANGED <<kind, unlocked, content, lock, old, goal, taken>>

Age ==
  /\ lock # Free /\ ~old
  /\ old' = TRUE
  /\ UNCHANGED <<kind, unlocked, content, lock, alive, step, local, holds, taken>>

Acquire(p) == Create(p) \/ Mark(p) \/ WaitOver(p) \/ Judge(p) \/ Override(p)
                \/ FindStale(p) \/ Recover(p) \/ GiveUp(p) \/ Refused(p)
Change(p) == Load(p) \/ Write(p) \/ WriteFails(p) \/ Restore(p)
               \/ PreparationFails(p) \/ Catch(p)
SettingsNext ==
  Age \/ \E p \in Procs : Acquire(p) \/ Change(p) \/ Release(p) \/ RemoveLock(p) \/ Killed(p)

SettingsSpec == SettingsInit /\ [][SettingsNext]_settingsVars

-----------------------------------------------------------------------------
\* The lock serialises its users: two live processes rely on it together only
\* after a live holder's lock file was overwritten or removed, which takes an
\* empty file, a file lock's JSON or a judgement that has become out of date.
OneHolder ==
  ~taken => \A p, q \in alive : Holding(p) /\ Holding(q) => p = q

\* The inductive reason: the lock file names its holder, and `forgen install`
\* never asks for the lock while it has it.
LockNamesHolder ==
  ~taken => \A p \in alive :
    /\ p \in holds => lock # Free /\ lock.says = p
    /\ step[p] = "mark" => lock # Free /\ lock.maker = p /\ lock.says = Nobody
    /\ kind[p] = "install" /\ step[p] \in {"open", "override", "catch"} => p \notin holds
\* Who writes under the lock what was read under it has read every entry that
\* was put there under the lock.
CopiesCurrent ==
  ~taken => \A p \in alive :
    /\ step[p] = "restore" => p \in holds
    /\ step[p] = "write" /\ ~ReadsFirst(p) /\ p \in holds => settings \ unlocked \subseteq seen[p]
SettingsIInv == SettingsTypeOK /\ LockNamesHolder /\ CopiesCurrent

\* "Merged with what is there" (mcp-config.ts:77, settings-injector.ts:96): an
\* entry put there under the lock disappears only by a rollback, by a writer
\* whose copy was not read under the lock, or after a live holder's lock was
\* taken from it.
EntriesSurvive ==
  [][\A q \in (settings \ settings') \ unlocked :
       \/ taken
       \/ \E p \in Procs : /\ step'[p] # step[p]
                           /\ \/ step[p] = "restore"
                              \/ step[p] = "write" /\ (ReadsFirst(p) \/ p \notin holds)]_settingsVars
=============================================================================
