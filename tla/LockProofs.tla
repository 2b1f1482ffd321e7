----------------------------- MODULE LockProofs -----------------------------
(***************************************************************************)
(* The two locks of background work, for every set of processes and every  *)
(* platform: the advisory lock of a file (FileLock) and the lock of a      *)
(* session's runner (RunnerLock).  The inductive invariant of each says whom*)
(* the lock file names; the properties the runs check follow from it.      *)
(***************************************************************************)
EXTENDS FileLock, RunnerLock, TLAPS

-----------------------------------------------------------------------------
(* The lock of a file *)

\* The initial states, with no lock file, satisfy the inductive invariant.
LEMMA InitInv == Init => IInv
BY NoFileAssumption DEF Init, IInv, TypeOK, HolderOwnsFile, RecoveryNeedsAge,
   WriterWrote, Waiting, Holding, Ended

\* Removing a file keeps the ownership of every holder but the remover: the
\* one whose file it was is recorded as robbed.
LEMMA RemoveKeepsOwners ==
  ASSUME TypeOK, HolderOwnsFile, NEW p \in Procs, RemoveFile(p), alive' = alive,
         \A q \in Procs \ {p} : pc'[q] = pc[q], pc'[p] \notin Holding
  PROVE  HolderOwnsFile' /\ stolen' \subseteq Procs
<1>1. stolen' \subseteq Procs
  BY DEF RemoveFile, TypeOK
<1>2. ASSUME NEW q \in Procs, q \in alive', pc'[q] \in Holding, q \notin stolen'
      PROVE  file' = q
  <2>1. q # p
    BY <1>2
  <2>2. q \in alive /\ pc[q] \in Holding /\ q \notin stolen
    BY <1>2, <2>1 DEF RemoveFile
  <2>3. file = q
    BY <2>2 DEF HolderOwnsFile
  <2>4. q \in stolen'
    BY <2>1, <2>2, <2>3, NoFileAssumption DEF RemoveFile
  <2> QED BY <1>2, <2>4
<1> QED BY <1>1, <1>2 DEF HolderOwnsFile

\* Every step of the lock keeps the inductive invariant.
LEMMA StepInv == IInv /\ [Next]_vars => IInv'
<1> SUFFICES ASSUME IInv, [Next]_vars PROVE IInv'
  OBVIOUS
<1> USE NoFileAssumption, PlatformAssumption
<1>1. CASE UNCHANGED vars
  BY <1>1 DEF IInv, TypeOK, HolderOwnsFile, RecoveryNeedsAge, WriterWrote, vars
<1>2. CASE Age
  BY <1>2 DEF Age, IInv, TypeOK, HolderOwnsFile, RecoveryNeedsAge, WriterWrote
<1>3. ASSUME NEW p \in Procs, Die(p) PROVE IInv'
  BY <1>3 DEF Die, IInv, TypeOK, HolderOwnsFile, RecoveryNeedsAge, WriterWrote
<1>4. ASSUME NEW p \in Procs, Expire(p) PROVE IInv'
  BY <1>4 DEF Expire, IInv, TypeOK, HolderOwnsFile, RecoveryNeedsAge, WriterWrote
<1>5. ASSUME NEW p \in Procs, Step(p) PROVE IInv'
  <2> USE DEF IInv, TypeOK, At, Goto, Waiting, Holding, Ended
  <2>1. CASE Create(p)
    BY <2>1 DEF Create, HolderOwnsFile, RecoveryNeedsAge, WriterWrote
  <2>2. CASE Exists(p)
    BY <2>2 DEF Exists, HolderOwnsFile, RecoveryNeedsAge, WriterWrote
  <2>3. CASE WriteMeta(p)
    BY <2>3 DEF WriteMeta, HolderOwnsFile, RecoveryNeedsAge, WriterWrote
  <2>4. CASE Stat(p)
    BY <2>4 DEF Stat, HolderOwnsFile, RecoveryNeedsAge, WriterWrote
  <2>5. CASE ReadMeta(p)
    BY <2>5 DEF ReadMeta, HolderOwnsFile, RecoveryNeedsAge, WriterWrote
  <2>6. CASE Unlink(p)
    <3>1. HolderOwnsFile' /\ stolen' \subseteq Procs
      BY <2>6, RemoveKeepsOwners DEF Unlink
    <3>2. TypeOK' /\ WriterWrote'
      BY <2>6, <3>1 DEF Unlink, RemoveFile, WriterWrote
    <3>3. RecoveryNeedsAge'
      BY <2>6 DEF Unlink, RecoveryNeedsAge
    <3> QED BY <3>1, <3>2, <3>3
  <2>7. CASE UnlinkFails(p)
    BY <2>7 DEF UnlinkFails, HolderOwnsFile, RecoveryNeedsAge, WriterWrote
  <2>8. CASE Check(p)
    BY <2>8 DEF Check, HolderOwnsFile, RecoveryNeedsAge, WriterWrote
  <2>9. CASE Fail(p)
    BY <2>9 DEF Fail, HolderOwnsFile, RecoveryNeedsAge, WriterWrote
  <2>10. CASE Verify(p)
    BY <2>10 DEF Verify, HolderOwnsFile, RecoveryNeedsAge, WriterWrote
  <2>11. CASE Drop(p)
    <3>1. HolderOwnsFile' /\ stolen' \subseteq Procs
      BY <2>11, RemoveKeepsOwners DEF Drop
    <3>2. TypeOK' /\ WriterWrote'
      BY <2>11, <3>1 DEF Drop, RemoveFile, WriterWrote
    <3>3. p \notin stolen => stolen' = stolen
      BY <2>11 DEF Drop, RemoveFile, HolderOwnsFile
    <3>4. RecoveryNeedsAge'
      BY <2>11, <3>3 DEF Drop, RemoveFile, RecoveryNeedsAge
    <3> QED BY <3>1, <3>2, <3>4
  <2>12. CASE DropFails(p)
    BY <2>12 DEF DropFails, HolderOwnsFile, RecoveryNeedsAge, WriterWrote
  <2> QED BY <1>5, <2>1, <2>2, <2>3, <2>4, <2>5, <2>6, <2>7, <2>8, <2>9,
             <2>10, <2>11, <2>12 DEF Step, Contend, Release
<1> QED BY <1>1, <1>2, <1>3, <1>4, <1>5 DEF Next

\* The inductive invariant holds in every reachable state.
THEOREM Invariant == Spec => []IInv
BY InitInv, StepInv, PTL DEF Spec

\* Every variable keeps its type.
THEOREM TypeCorrect == Spec => []TypeOK
<1>1. IInv => TypeOK
  BY DEF IInv
<1> QED BY <1>1, Invariant, PTL

\* No two live callers are inside together before some lock file has
\* outlived staleMs, whatever crashes, failed writes and refused unlinks.
THEOREM ExclusionBeforeStale == Spec => []ExclusionUntilStale
<1>1. IInv => ExclusionUntilStale
  BY DEF IInv, HolderOwnsFile, RecoveryNeedsAge, ExclusionUntilStale,
         MutualExclusion, InCS, At, Holding
<1> QED BY <1>1, Invariant, PTL

\* Two callers inside together: one of them was robbed of its lock file.
THEOREM ExclusionBarTheft == Spec => []ExclusionUnlessStolen
<1>1. IInv => ExclusionUnlessStolen
  BY DEF IInv, HolderOwnsFile, ExclusionUnlessStolen, InCS, At, Holding
<1> QED BY <1>1, Invariant, PTL

\* The token check confines the damage: only a recovery, or the release of a
\* caller already robbed, takes the file of a live holder.
THEOREM TheftNeedsRecovery == Spec => TheftStartsWithRecovery
<1> DEFINE Thief(v) == \E p \in Procs \ {v} :
        pc'[p] # pc[p] /\ (pc[p] = "unlink" \/ (pc[p] = "drop" /\ p \in stolen))
<1>1. IInv /\ [Next]_vars => [\A v \in stolen' \ stolen : Thief(v)]_vars
  <2> SUFFICES ASSUME IInv, Next, NEW v \in stolen' \ stolen PROVE Thief(v)
    OBVIOUS
  <2> USE NoFileAssumption
  <2>1. PICK p \in Procs : Unlink(p) \/ Drop(p)
    BY DEF Next, Step, Contend, Release, Age, Die, Expire, Create, Exists,
           WriteMeta, Stat, ReadMeta, UnlinkFails, Check, Fail, Verify, DropFails
  <2>2. RemoveFile(p) /\ pc'[p] # pc[p] /\ pc[p] \in {"unlink", "drop"}
    BY <2>1 DEF Unlink, Drop, At, Goto, IInv, TypeOK
  <2>3. v = file /\ v # p
    BY <2>2 DEF RemoveFile
  <2>4. pc[p] = "drop" => p \in stolen
    BY <2>1, <2>3 DEF Unlink, Drop, At, IInv, HolderOwnsFile, Holding
  <2> QED BY <2>2, <2>3, <2>4
<1> QED BY <1>1, Invariant, PTL DEF Spec, TheftStartsWithRecovery

-----------------------------------------------------------------------------
(* The runner lock, for any growth of the transcript and any kills *)

\* Before any runner exists the lock is free and nothing is broken.
LEMMA RunnerInitInv == RunnerInit => RunnerIInv
<1> SUFFICES ASSUME RunnerInit PROVE RunnerIInv
  OBVIOUS
<1>1. 0 \in 0 .. MaxSize /\ 0 \in 0 .. MaxCrashes
  BY RunnerLockAssumption, SMT DEF RunnerLockAssumption
<1>2. RunnerTypeOK
  BY <1>1, Zenon DEF RunnerInit, RunnerTypeOK, RunnerStates, HookStates
<1>3. LockNamesRunner
  BY DEF RunnerInit, LockNamesRunner
<1> QED BY <1>2, <1>3 DEF RunnerIInv

\* Every step of the hooks, the runners, the clock and the operator who kills
\* processes keeps the lock naming the runner that works.
LEMMA RunnerStepInv == RunnerIInv /\ [RunnerNext]_runnerVars => RunnerIInv'
<1> SUFFICES ASSUME RunnerIInv, [RunnerNext]_runnerVars PROVE RunnerIInv'
  OBVIOUS
<1> USE RunnerLockAssumption
    DEF RunnerLockAssumption, RunnerIInv, RunnerTypeOK, LockNamesRunner, RunnerStates,
        HookStates, Alive,
        lock, spawning, progress
<1>1. CASE Grow
  BY <1>1 DEF Grow
<1>2. CASE LockLapses
  BY <1>2 DEF LockLapses
<1>3. CASE MarkerLapses
  BY <1>3 DEF MarkerLapses
<1>4. ASSUME NEW h \in Hooks, Gate(h) PROVE RunnerIInv'
  BY <1>4 DEF Gate
<1>5. ASSUME NEW h \in Hooks, ClaimInflight(h) PROVE RunnerIInv'
  BY <1>5 DEF ClaimInflight
<1>6. ASSUME NEW h \in Hooks, NEW r \in Runners, SpawnRunner(h, r) PROVE RunnerIInv'
  BY <1>6 DEF SpawnRunner, Spawned
<1>7. ASSUME NEW h \in Hooks, SpawnFails(h) PROVE RunnerIInv'
  BY <1>7 DEF SpawnFails
<1>8. ASSUME NEW h \in Hooks, KillHook(h) PROVE RunnerIInv'
  BY <1>8 DEF KillHook
<1>9. ASSUME NEW r \in Runners, SpawnAtSessionStart(r) PROVE RunnerIInv'
  BY <1>9 DEF SpawnAtSessionStart, Spawned
<1>10. ASSUME NEW r \in Runners, Acquire(r) PROVE RunnerIInv'
  <2>1. CASE owner # Free /\ fresh /\ Alive(owner)
    BY <1>10, <2>1 DEF Acquire
  <2>2. CASE ~(owner # Free /\ fresh /\ Alive(owner))
    <3>1. runner' = [runner EXCEPT ![r] = "work"] /\ owner' = r /\ fresh' = TRUE
      BY <1>10, <2>2 DEF Acquire
    \* A runner that holds the lock is alive, and its lock is fresh: there is none.
    <3>2. ~broken => \A q \in Runners : runner[q] \notin {"work", "exit", "remove"}
      BY <2>2
    <3> QED BY <1>10, <3>1, <3>2 DEF Acquire
  <2> QED BY <2>1, <2>2
<1>11. ASSUME NEW r \in Runners, AcquireFails(r) PROVE RunnerIInv'
  BY <1>11 DEF AcquireFails
<1>12. ASSUME NEW r \in Runners, Finish(r) PROVE RunnerIInv'
  BY <1>12 DEF Finish
<1>13. ASSUME NEW r \in Runners, ReadOwner(r) PROVE RunnerIInv'
  BY <1>13 DEF ReadOwner
<1>14. ASSUME NEW r \in Runners, RemoveLock(r) PROVE RunnerIInv'
  BY <1>14 DEF RemoveLock
<1>15. ASSUME NEW r \in Runners, Unmark(r) PROVE RunnerIInv'
  BY <1>15 DEF Unmark
<1>16. ASSUME NEW r \in Runners, KillRunner(r) PROVE RunnerIInv'
  BY <1>16 DEF KillRunner
<1>17. CASE UNCHANGED runnerVars
  BY <1>17 DEF runnerVars
<1> QED
  BY <1>1, <1>2, <1>3, <1>4, <1>5, <1>6, <1>7, <1>8, <1>9, <1>10, <1>11, <1>12,
     <1>13, <1>14, <1>15, <1>16, <1>17 DEF RunnerNext, HookStep, RunnerStep

\* The lock file names the working runner in every reachable state.
THEOREM RunnerInvariant == RunnerSpec => []RunnerIInv
BY RunnerInitInv, RunnerStepInv, PTL DEF RunnerSpec

\* Every variable keeps its type.
THEOREM RunnerTypeCorrect == RunnerSpec => []RunnerTypeOK
<1>1. RunnerIInv => RunnerTypeOK
  BY DEF RunnerIInv
<1> QED BY RunnerInvariant, <1>1, PTL

\* Two runners of a session work at the same time only after a lock lapsed
\* under a live runner or its infrastructure failed, however they were spawned.
THEOREM RunnersExclude == RunnerSpec => []OneRunner
<1>1. RunnerIInv => OneRunner
  BY DEF RunnerIInv, LockNamesRunner, OneRunner, Working
<1> QED BY RunnerInvariant, <1>1, PTL
=============================================================================
