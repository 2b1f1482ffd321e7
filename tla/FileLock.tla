------------------------------ MODULE FileLock ------------------------------
(***************************************************************************)
(* The advisory lock of src/hooks/shared/file-lock.ts.  Short-lived hook   *)
(* and runner processes serialise read-modify-write of a JSON file through *)
(* a sibling "<path>.lock" file created with O_EXCL.                       *)
(*                                                                         *)
(* Each member of Procs is one process making one call of withFileLock (or *)
(* withFileLockSync, whose steps are the same).  The file a call creates   *)
(* carries that call's random token, so a lock file is named by the call   *)
(* that created it.  Every system call is a step of its own: the code has  *)
(* no way to make two of them atomic.                                      *)
(***************************************************************************)
EXTENDS Naturals, FiniteSets

CONSTANTS
  Procs,          \* processes, each making one call
  NoFile,         \* no file at the lock path
  Win32,          \* process.kill(pid, 0) cannot tell who is alive
  UnlinkMayFail,  \* the directory may refuse an unlink (EPERM, EACCES)
  MayStall        \* a process may be suspended past staleMs inside open..write

ASSUME NoFileAssumption == NoFile \notin Procs
ASSUME PlatformAssumption == {Win32, UnlinkMayFail, MayStall} \subseteq BOOLEAN

VARIABLES
  file,      \* the call whose file is at the lock path, or NoFile
  written,   \* calls that wrote {pid, ts, token} into the file they created
  aged,      \* the mtime of the file at the path is more than staleMs ago
  alive,     \* processes that have not exited or been killed
  late,      \* calls that have waited longer than timeoutMs
  pc,        \* the next system call of each call
  stolen,    \* history: calls whose file somebody else removed under them
  everAged   \* history: some lock file once outlived staleMs

vars == <<file, written, aged, alive, late, pc, stolen, everAged>>

Waiting == {"open", "stat", "read", "unlink", "check"}
Holding == {"write", "cs", "drop"}
Ended   == {"done", "timeout", "error"}

TypeOK ==
  /\ file \in Procs \cup {NoFile}
  /\ written \subseteq Procs
  /\ aged \in BOOLEAN
  /\ alive \subseteq Procs
  /\ late \subseteq Procs
  /\ pc \in [Procs -> Waiting \cup Holding \cup Ended]
  /\ stolen \subseteq Procs
  /\ everAged \in BOOLEAN

Init ==
  /\ file = NoFile
  /\ written = {}
  /\ aged = FALSE
  /\ alive = Procs
  /\ late = {}
  /\ pc = [p \in Procs |-> "open"]
  /\ stolen = {}
  /\ everAged = FALSE

At(p, s) == p \in alive /\ pc[p] = s
Goto(p, s) == pc' = [pc EXCEPT ![p] = s]

PidAlive(p) == Win32 \/ p \in alive

\* Removing whatever file is at the path; its creator, if it still counts on
\* the file, has lost the lock without knowing.
RemoveFile(p) ==
  /\ file' = NoFile
  /\ aged' = FALSE
  /\ stolen' = IF file \notin {p, NoFile} /\ file \in alive /\ pc[file] \in Holding
               THEN stolen \cup {file}
               ELSE stolen

-----------------------------------------------------------------------------
\* Slip: the file is opened without O_EXCL, truncating the one in the way.
CreateWithoutExcl(p) ==
  /\ At(p, "open")
  /\ file' = p
  /\ aged' = FALSE
  /\ written' = written \ {p}
  /\ Goto(p, "write")
  /\ UNCHANGED <<alive, late, stolen, everAged>>

\* openSync(O_CREAT | O_EXCL) succeeds: the file exists, still empty.
Create(p) ==
  /\ At(p, "open")
  /\ file = NoFile
  /\ file' = p
  /\ aged' = FALSE
  /\ Goto(p, "write")
  /\ UNCHANGED <<written, alive, late, stolen, everAged>>

Exists(p) ==
  /\ At(p, "open")
  /\ file # NoFile
  /\ Goto(p, "stat")
  /\ UNCHANGED <<file, written, aged, alive, late, stolen, everAged>>

\* Any other error of open or write throws FileLockError; a file already
\* created stays behind, empty.
Fail(p) ==
  /\ At(p, "open") \/ At(p, "write")
  /\ Goto(p, "error")
  /\ UNCHANGED <<file, written, aged, alive, late, stolen, everAged>>

\* writeSync goes to the open descriptor, wherever that file now is.
WriteMeta(p) ==
  /\ At(p, "write")
  /\ written' = written \cup {p}
  /\ aged' = (aged /\ file # p)
  /\ Goto(p, "cs")
  /\ UNCHANGED <<file, alive, late, stolen, everAged>>

-----------------------------------------------------------------------------
(* tryRecoverStaleLock *)

\* Slip: the age of the file is not compared with staleMs.
StatWithoutAge(p) ==
  /\ At(p, "stat")
  /\ Goto(p, IF file = NoFile THEN "open" ELSE "read")
  /\ UNCHANGED <<file, written, aged, alive, late, stolen, everAged>>

Stat(p) ==
  /\ At(p, "stat")
  /\ Goto(p, IF file = NoFile THEN "open" ELSE IF aged THEN "read" ELSE "check")
  /\ UNCHANGED <<file, written, aged, alive, late, stolen, everAged>>

\* readLockMeta returns null for a missing or an empty file; only metadata
\* naming a live process stops the recovery.
ReadMeta(p) ==
  /\ At(p, "read")
  /\ Goto(p, IF file \in written /\ PidAlive(file) THEN "check" ELSE "unlink")
  /\ UNCHANGED <<file, written, aged, alive, late, stolen, everAged>>

Unlink(p) ==
  /\ At(p, "unlink")
  /\ RemoveFile(p)
  /\ Goto(p, "open")
  /\ UNCHANGED <<written, alive, late, everAged>>

\* The error of unlinkSync is swallowed and the loop continues.
UnlinkFails(p) ==
  /\ UnlinkMayFail
  /\ At(p, "unlink")
  /\ Goto(p, "open")
  /\ UNCHANGED <<file, written, aged, alive, late, stolen, everAged>>

\* Slip: the finally block of the release also covers the waiting loop.
CheckThenRelease(p) ==
  /\ At(p, "check")
  /\ Goto(p, IF p \in late THEN "drop" ELSE "open")
  /\ UNCHANGED <<file, written, aged, alive, late, stolen, everAged>>

\* Slip: the waiting time is never compared with timeoutMs.
CheckWithoutTimeout(p) ==
  /\ At(p, "check")
  /\ Goto(p, "open")
  /\ UNCHANGED <<file, written, aged, alive, late, stolen, everAged>>

\* Only a refused recovery reaches the timeout test and the back-off.
Check(p) ==
  /\ At(p, "check")
  /\ Goto(p, IF p \in late THEN "timeout" ELSE "open")
  /\ UNCHANGED <<file, written, aged, alive, late, stolen, everAged>>

-----------------------------------------------------------------------------
(* The protected function and the release *)

\* Slip: the lock is given back while the caller still works under it.
VerifyEarly(p) ==
  /\ At(p, "cs")
  /\ file = p
  /\ file' = NoFile
  /\ aged' = FALSE
  /\ UNCHANGED <<written, alive, late, pc, stolen, everAged>>

\* fn has returned or thrown, and the lock file is read again: only a file
\* with this call's token is removed.
Verify(p) ==
  /\ At(p, "cs")
  /\ Goto(p, IF file = p /\ p \in written THEN "drop" ELSE "done")
  /\ UNCHANGED <<file, written, aged, alive, late, stolen, everAged>>

Drop(p) ==
  /\ At(p, "drop")
  /\ RemoveFile(p)
  /\ Goto(p, "done")
  /\ UNCHANGED <<written, alive, late, everAged>>

DropFails(p) ==
  /\ UnlinkMayFail
  /\ At(p, "drop")
  /\ Goto(p, "done")
  /\ UNCHANGED <<file, written, aged, alive, late, stolen, everAged>>

-----------------------------------------------------------------------------
(* The environment: processes exit or are killed, and time passes *)

Die(p) ==
  /\ p \in alive
  /\ alive' = alive \ {p}
  /\ UNCHANGED <<file, written, aged, late, pc, stolen, everAged>>

Age ==
  /\ file # NoFile
  /\ ~aged
  /\ MayStall \/ ~At(file, "write")
  /\ aged' = TRUE
  /\ everAged' = TRUE
  /\ UNCHANGED <<file, written, alive, late, pc, stolen>>

Expire(p) ==
  /\ pc[p] \in Waiting
  /\ p \notin late
  /\ late' = late \cup {p}
  /\ UNCHANGED <<file, written, aged, alive, pc, stolen, everAged>>

Contend(p) == Create(p) \/ Exists(p) \/ WriteMeta(p) \/ Stat(p) \/ ReadMeta(p)
                \/ Unlink(p) \/ UnlinkFails(p) \/ Check(p)
Release(p) == Verify(p) \/ Drop(p) \/ DropFails(p)
Step(p) == Contend(p) \/ Fail(p) \/ Release(p)

Next == Age \/ \E p \in Procs : Step(p) \/ Die(p) \/ Expire(p)

Spec == Init /\ [][Next]_vars

\* A contending process is scheduled and its clock advances.  Nothing is
\* assumed of the protected function, which may hang, nor of the directory,
\* which may refuse one unlink or all of them.
FairSpec ==
  Spec /\ \A p \in Procs : WF_vars(Contend(p)) /\ WF_vars(Expire(p))

-----------------------------------------------------------------------------
InCS(p) == At(p, "cs")

\* Two live callers are never inside the protected function together.
MutualExclusion == \A p, q \in Procs : InCS(p) /\ InCS(q) => p = q

\* As long as no lock file outlives staleMs, callers exclude each other,
\* whatever crashes and failed writes occur.
ExclusionUntilStale == ~everAged => MutualExclusion

\* When two callers do meet inside, one of them had its lock file removed by
\* somebody else: creation, timeout and release never admit a second holder.
ExclusionUnlessStolen ==
  \A p, q \in Procs : InCS(p) /\ InCS(q) /\ p # q => p \in stolen \/ q \in stolen

\* The inductive reason: the file at the path belongs to the live holder
\* that was not robbed of it, and only files past staleMs are recovered.
HolderOwnsFile ==
  \A p \in Procs : p \in alive /\ pc[p] \in Holding /\ p \notin stolen => file = p
RecoveryNeedsAge ==
  ~everAged => /\ ~aged /\ stolen = {}
               /\ \A p \in Procs : pc[p] \notin {"read", "unlink"}
WriterWrote ==
  \A p \in Procs : pc[p] \in Holding \ {"write"} => p \in written
IInv == TypeOK /\ HolderOwnsFile /\ RecoveryNeedsAge /\ WriterWrote

\* The token check of the release: a holder that was never robbed removes no
\* lock but its own, so every theft starts with a stale recovery.
TheftStartsWithRecovery ==
  [][\A v \in stolen' \ stolen : \E p \in Procs \ {v} :
        pc'[p] # pc[p] /\ (pc[p] = "unlink" \/ (pc[p] = "drop" /\ p \in stolen))]_vars

\* timeoutMs is "the longest wait": a contending call ends by holding the
\* lock, by an error or by a timeout, even when the holder hangs, or it meets
\* the one case the code leaves open: a directory that refuses its recovery
\* again and again, since after a refused unlink the loop continues above the
\* timeout test.
EveryWaitEnds ==
  \A p \in Procs :
    \/ []<><<UnlinkFails(p)>>_vars
    \/ (pc[p] \in Waiting) ~> (pc[p] \notin Waiting \/ p \notin alive)
=============================================================================
