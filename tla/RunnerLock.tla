----------------------------- MODULE RunnerLock -----------------------------
(***************************************************************************)
(* How one session gets a runner, and how many at a time.  Hooks gate the  *)
(* spawn with an in-flight marker file (claimAutoCompoundInflight in       *)
(* src/core/spawn.ts, read and written without a lock); a session start    *)
(* spawns without that gate; and the runner process itself takes the       *)
(* session's runner lock (acquireRunnerLock in                             *)
(* src/core/extraction-queue.ts), which is checked and taken under a file  *)
(* lock but released without it.  Both files outlive a killed process and  *)
(* lapse after 30 minutes.                                                 *)
(***************************************************************************)
EXTENDS Naturals

CONSTANTS
  Runners,      \* processes that may run for the session
  Hooks,        \* hook processes that may gate and spawn one
  Free,         \* no runner lock file
  MayFailOpen,  \* the lock's own infrastructure may fail
  MaxSize,      \* bound: how far the transcript grows
  MaxCrashes    \* bound: processes killed

ASSUME RunnerLockAssumption ==
  Free \notin Runners /\ MayFailOpen \in BOOLEAN /\ {MaxSize, MaxCrashes} \subseteq Nat

VARIABLES
  owner,     \* the pid in the runner lock file, or Free
  fresh,     \* the lock file is younger than RUNNER_LOCK_TTL_MS
  inflight,  \* the in-flight marker: "none", "fresh" or "old"
  size,      \* the transcript's size
  done,      \* the size markRun last recorded
  runner,    \* what each runner does next; "gone" is no process
  start,     \* the size each runner saw when it started
  hook,      \* what each hook does next
  crashes,   \* processes killed so far
  broken     \* history: a working runner's lock lapsed, or one ran without

runnerVars == <<owner, fresh, inflight, size, done, runner, start, hook, crashes, broken>>

RunnerStates == {"gone", "acquire", "work", "exit", "remove", "unmark"}
HookStates == {"idle", "claim", "spawn"}

RunnerTypeOK ==
  /\ owner \in Runners \cup {Free} /\ fresh \in BOOLEAN
  /\ inflight \in {"none", "fresh", "old"}
  /\ size \in 0 .. MaxSize /\ done \in 0 .. MaxSize
  /\ runner \in [Runners -> RunnerStates]
  /\ start \in [Runners -> 0 .. MaxSize]
  /\ hook \in [Hooks -> HookStates]
  /\ crashes \in 0 .. MaxCrashes /\ broken \in BOOLEAN

RunnerInit ==
  /\ owner = Free /\ fresh = FALSE /\ inflight = "none"
  /\ size = 0 /\ done = 0
  /\ runner = [r \in Runners |-> "gone"] /\ start = [r \in Runners |-> 0]
  /\ hook = [h \in Hooks |-> "idle"]
  /\ crashes = 0 /\ broken = FALSE

Alive(r) == runner[r] # "gone"
Working(r) == runner[r] \in {"work", "exit"}
NeedsRun == done < size

lock == <<owner, fresh>>
spawning == <<inflight, hook>>
progress == <<size, done>>

Grow ==
  /\ size < MaxSize
  /\ size' = size + 1
  /\ UNCHANGED <<lock, spawning, done, runner, start, crashes, broken>>

-----------------------------------------------------------------------------
(* Triggers *)

\* A new process; its pid is not the one a leftover lock file still names.
Spawned(r) ==
  /\ runner[r] = "gone" /\ owner # r
  /\ runner' = [runner EXCEPT ![r] = "acquire"]
  /\ start' = [start EXCEPT ![r] = size]

\* Slip: a marker is believed however old it is.
GateForever(h) ==
  /\ hook[h] = "idle" /\ NeedsRun /\ inflight = "none"
  /\ hook' = [hook EXCEPT ![h] = "claim"]
  /\ UNCHANGED <<lock, inflight, progress, runner, start, crashes, broken>>

\* sessionNeedsRun says yes, and the marker is missing or lapsed.
Gate(h) ==
  /\ hook[h] = "idle" /\ NeedsRun /\ inflight # "fresh"
  /\ hook' = [hook EXCEPT ![h] = "claim"]
  /\ UNCHANGED <<lock, inflight, progress, runner, start, crashes, broken>>

ClaimInflight(h) ==
  /\ hook[h] = "claim"
  /\ hook' = [hook EXCEPT ![h] = "spawn"]
  /\ inflight' = "fresh"
  /\ UNCHANGED <<lock, progress, runner, start, crashes, broken>>

SpawnRunner(h, r) ==
  /\ hook[h] = "spawn"
  /\ hook' = [hook EXCEPT ![h] = "idle"]
  /\ Spawned(r)
  /\ UNCHANGED <<lock, inflight, progress, crashes, broken>>

SpawnFails(h) ==
  /\ hook[h] = "spawn"
  /\ hook' = [hook EXCEPT ![h] = "idle"]
  /\ inflight' = "none"
  /\ UNCHANGED <<lock, progress, runner, start, crashes, broken>>

\* Session start spawns for an earlier session without claiming the marker.
SpawnAtSessionStart(r) ==
  /\ NeedsRun
  /\ Spawned(r)
  /\ UNCHANGED <<lock, spawning, progress, crashes, broken>>

-----------------------------------------------------------------------------
(* The runner process *)

\* Slip: a lock of a live process is taken as well.
AcquireUnchecked(r) ==
  /\ runner[r] = "acquire"
  /\ owner' = r /\ fresh' = TRUE
  /\ runner' = [runner EXCEPT ![r] = "work"]
  /\ UNCHANGED <<spawning, progress, start, crashes, broken>>

\* acquireRunnerLock: only a fresh lock of a live process turns it away.  A
\* runner turned away leaves at once, before its exit handler is installed.
Acquire(r) ==
  /\ runner[r] = "acquire"
  /\ IF owner # Free /\ fresh /\ Alive(owner)
     THEN runner' = [runner EXCEPT ![r] = "gone"] /\ UNCHANGED lock
     ELSE runner' = [runner EXCEPT ![r] = "work"] /\ owner' = r /\ fresh' = TRUE
  /\ UNCHANGED <<spawning, progress, start, crashes, broken>>

\* The file lock times out or cannot be created: the runner goes on.
AcquireFails(r) ==
  /\ MayFailOpen
  /\ runner[r] = "acquire"
  /\ runner' = [runner EXCEPT ![r] = "work"]
  /\ broken' = TRUE
  /\ UNCHANGED <<lock, spawning, progress, start, crashes>>

\* The run ends: markRun with the size seen at the start.
Finish(r) ==
  /\ runner[r] = "work"
  /\ done' = start[r]
  /\ runner' = [runner EXCEPT ![r] = "exit"]
  /\ UNCHANGED <<lock, spawning, size, start, crashes, broken>>

\* releaseRunnerLock reads the file, and removes it if the pid is its own.
ReadOwner(r) ==
  /\ runner[r] = "exit"
  /\ runner' = [runner EXCEPT ![r] = IF owner = r THEN "remove" ELSE "unmark"]
  /\ UNCHANGED <<lock, spawning, progress, start, crashes, broken>>

RemoveLock(r) ==
  /\ runner[r] = "remove"
  /\ owner' = Free /\ fresh' = FALSE
  /\ runner' = [runner EXCEPT ![r] = "unmark"]
  /\ UNCHANGED <<spawning, progress, start, crashes, broken>>

\* releaseAutoCompoundInflight removes the marker whoever wrote it.
Unmark(r) ==
  /\ runner[r] = "unmark"
  /\ inflight' = "none"
  /\ runner' = [runner EXCEPT ![r] = "gone"]
  /\ UNCHANGED <<lock, hook, progress, start, crashes, broken>>

-----------------------------------------------------------------------------
(* Time and crashes *)

LockLapses ==
  /\ owner # Free /\ fresh
  /\ fresh' = FALSE
  /\ broken' = (broken \/ Alive(owner))
  /\ UNCHANGED <<owner, spawning, progress, runner, start, crashes>>

MarkerLapses ==
  /\ inflight = "fresh"
  /\ inflight' = "old"
  /\ UNCHANGED <<lock, hook, progress, runner, start, crashes, broken>>

KillRunner(r) ==
  /\ Alive(r) /\ crashes < MaxCrashes
  /\ runner' = [runner EXCEPT ![r] = "gone"]
  /\ crashes' = crashes + 1
  /\ UNCHANGED <<lock, spawning, progress, start, broken>>

KillHook(h) ==
  /\ hook[h] # "idle" /\ crashes < MaxCrashes
  /\ hook' = [hook EXCEPT ![h] = "idle"]
  /\ crashes' = crashes + 1
  /\ UNCHANGED <<lock, inflight, progress, runner, start, broken>>

HookStep(h) == Gate(h) \/ ClaimInflight(h) \/ \E r \in Runners : SpawnRunner(h, r)
RunnerStep(r) == Acquire(r) \/ Finish(r) \/ ReadOwner(r) \/ RemoveLock(r) \/ Unmark(r)

RunnerNext ==
  \/ Grow \/ LockLapses \/ MarkerLapses
  \/ \E h \in Hooks : HookStep(h) \/ SpawnFails(h) \/ KillHook(h)
  \/ \E r \in Runners : RunnerStep(r) \/ SpawnAtSessionStart(r) \/ AcquireFails(r)
                        \/ KillRunner(r)

RunnerSpec == RunnerInit /\ [][RunnerNext]_runnerVars

\* Hooks keep firing while the session is in use and their spawns succeed in
\* the end, runners are scheduled, and the clock moves.  Session starts are
\* not counted on.
RunnerFairSpec ==
  /\ RunnerSpec /\ WF_runnerVars(MarkerLapses) /\ WF_runnerVars(LockLapses)
  /\ \A h \in Hooks : /\ WF_runnerVars(HookStep(h))
                      /\ SF_runnerVars(\E r \in Runners : SpawnRunner(h, r))
  /\ \A r \in Runners : WF_runnerVars(RunnerStep(r))

-----------------------------------------------------------------------------
\* "The lock the runner takes is the last line of defence"
\* (extraction-queue.ts:176): whatever way runners were spawned, two of them
\* work on the session only after a lock lapsed under a live runner or the
\* lock's infrastructure failed.
OneRunner == ~broken => \A r, q \in Runners : Working(r) /\ Working(q) => r = q

\* The inductive reason: the lock names the runner that works, and a runner
\* about to remove the lock still owns it.
LockNamesRunner ==
  ~broken => /\ \A r \in Runners : runner[r] \in {"work", "exit", "remove"} => owner = r
             /\ owner # Free /\ Alive(owner) => fresh
             /\ \A r \in Runners : runner[r] = "unmark" => owner # r
RunnerIInv == RunnerTypeOK /\ LockNamesRunner

\* Content is not left waiting: neither a killed runner's lock nor a killed
\* hook's marker keeps a session from being processed for good.
NeedServed == NeedsRun ~> ~NeedsRun
=============================================================================
