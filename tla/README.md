# A TLA+ model of forgen

forgen is a command-line companion of coding agents (Claude Code, Codex, opencode).
It has no server. Everything it knows lives in JSON and Markdown files under
`~/.forgen`, and everything it does is done by short-lived processes: the hooks
the host starts around every prompt, tool call and stop, detached "runner"
processes the hooks start, and the user's own `forgen` commands. These processes
share the files, run at the same time, can be killed by the host at any moment
(hooks have a time limit of a few seconds), and only a part of their file
updates is under a lock. That is where the hard behaviour of the program lies, and
what these modules are about.

All paths below are relative to `src/src/` of the repository.

## 1. Inventory

| Component | State | Operations | Hard behaviour | What makes it correct |
|---|---|---|---|---|
| File lock, `hooks/shared/file-lock.ts` | `<path>.lock`, with pid, time, token | create, write metadata, judge stale, recover, wait, time out, release | crash of a holder, stalls past the stale limit, races of recoverers, refused unlinks | one caller at a time inside; a wait ends unless its recovery is refused for ever; nobody removes another's lock |
| Retry queue, `core/extraction-queue.ts:209-297` | `extraction-queue.json` | enqueue, claimDue, completeEntry | runners that overrun their claim or die, a second failure of a session while a runner works on the first, size limit, ageing | one entry per session and one worker per entry; work is done, queued or reported, but for two named losses; the queue drains |
| Transcript extraction, `core/auto-compound-runner.ts`, `core/extraction-queue.ts:57-172`, `core/transcript-summary.ts` | `extraction-cursors.json`, the host's transcript, the queue | reset if replaced, digest, phases, advance, remember finished phases, mark the run | death between two updates, growth and rewrite of the transcript during a run, eviction of cursors | nothing behind the cursor was skipped and no unread content is hidden from the triggers, as far as the fingerprint can tell; growth moves no full cursor back |
| Runner exclusion, `core/spawn.ts:220-380`, `core/extraction-queue.ts:174-206`, `hooks/context-guard.ts`, `hooks/session-recovery.ts` | in-flight marker, runner lock | gate, claim the marker, spawn, acquire, release, lapse | three ways of starting a runner, killed hooks and runners, expiry of both files | one runner per session; new content is served in the end |
| Token-limit resume, `core/spawn.ts:404-712`, `hooks/context-guard.ts:228-268` | `pending-resume.json`, restarts counted by each wrapper | hook writes, scan writes, look, read, remove, count, wait, restart | one marker for all sessions, written and removed without a lock; killed hooks | a limit restarts one session, unless transcript scans find it again; a session goes on after its own limit |
| Settings file, `core/settings-lock.ts`, `core/settings-injector.ts`, `core/mcp-config.ts`, `core/statusline-install.ts`, `host/install-claude.ts` | the host's `settings.json`, its lock and backup | lock, read, write, roll back | reads outside the lock, two kinds of lock at one path, a lock that is overwritten after 3 s | one holder at a time; an entry survives other writers |
| Stop hook, `hooks/context-guard.ts:521-651`, `hooks/stop-guard.ts:410-750` | `forge-loop.json`, block counters, violations | bind, block, count, switch off, approve, acknowledge, cancel | an unlocked file shared by sessions, two hooks with limits of their own, killed hooks | every attempt to stop ends; a rule gives up at its threshold; a loop stays off and bound |
| Block judge, `engine/block-judge.ts`, `engine/lifecycle/signals.ts`, `core/block-cli.ts` | in-flight marks, verdicts, violations, `enforce_mode` of rules | record, check caps, mark, judge, check again, say, clear, weigh, demote; the user judges, restores | nothing is locked; hooks and judges die; the user speaks while a judge runs | the caps on judges; the user's word stands; a dead judge's mark lapses |
| Solution outcomes, `engine/solution-outcomes.ts`, `hooks/solution-injector.ts` | pending list and error flags per session, session cache, outcome log | inject, accept, correct, error, finalise | hooks of one session at once, lock timeouts, crash between the log and the pending file | one verdict per injection, which stands; no injection is lost or made twice |
| Evidence and rules, `store/*`, `engine/lifecycle/*`, `engine/correction-cluster-runner.ts`, `engine/rule-toggle-cli.ts` | rule files, corrections, demotion log | 14 operations: suppress, activate, set the mode, restore, revive, correct, promote, demote, scan, decay, count an injection, clean up, merge, unmerge | whole files rewritten from copies read long before, mostly unlocked; death between two files | a rule that is off says why; hard rules stay; no merge or promotion loses or doubles a rule |
| JSON files, `hooks/shared/atomic-write.ts`, `core/extraction-queue.ts:31-55` | temporary files, `.corrupt` copies | write, rename, recover | crash during a write, a corrupt file | readers see the old or the new file |
| Rate limiter, subagent tracker | counters | locked read-modify-write | fail-open | the limit holds while the lock works |
| Tool hooks, matcher, compound lifecycle, host installation, ways, session store, CLI and renderers | see PROJECT.json | | mostly sequential | not modelled, see section 7 |

How they interact: `Stop`, `SessionEnd`, `PreCompact` and `SessionStart` hooks ask
`sessionNeedsRun` (the cursor file) whether a session has unread content, pass the
in-flight marker (all but `SessionStart`) and spawn a runner. The runner takes the
runner lock, reads the transcript from the cursor, sends a summary to the model in
several phases, queues what failed, moves the cursor, serves one queue entry, marks
the run and leaves. Cursor file and queue are changed under the file lock, so
they inherit what holds of it; the runner lock is acquired under it too, but
released without it. The `Stop` event also runs the two guards of the stop hook, which
share nothing with the runners. Between the hooks of a prompt, of a failed tool and of
the end of a turn, the pending list carries the solutions injected; it is changed under
the file lock, the log is not. A block of the stop hook starts a judge, whose verdicts
may turn its rule into advice; that is one of the 14 ways a rule file is rewritten. The
`Stop` hook also leaves the resume marker, but only after the forge loop had its say: with
an active loop it never gets there. `settings.json` has a lock of its own, which only
`forgen install` treats as a file lock.

## 2. Modules

| Module | Models | Model-checked with | Proofs |
|---|---|---|---|
| `FileLock` | one call of `withFileLock`/`withFileLockSync` per process, one step per system call | `MCFileLock` | `LockProofs` |
| `RetryQueue` | the contents of the queue, as operators on a set of entries; used by the next two | them | `RetryQueueProofs` |
| `ExtractionQueue` | the runners sharing the queue | `MCExtractionQueue` | `ExtractionQueueProofs` |
| `Extraction` | transcript, cursor, queue and runner together | `MCExtraction` | `ExtractionProofs` |
| `RunnerLock` | in-flight marker and runner lock | `MCRunnerLock` | `LockProofs` |
| `SettingsFile` | `settings.json`, its lock, its backup and the commands that change it | `MCSettingsFile` | `WrapperProofs` |
| `StopLoop` | the forge loop and the stop guard of several sessions | itself | `StopHookProofs` |
| `BlockJudge` | hooks and judges of several blocks, the verdicts and the user's | `MCBlockJudge` | `StopHookProofs` |
| `RuleStore` | the rule files, the corrections, and everything that rewrites a rule | `MCRuleStore` | `RuleStoreProofs` |
| `OutcomeLedger` | the promise of the outcome tracking: every injection one verdict, for good | by refinement | |
| `Outcomes` | the hooks of a session that share the pending list, and their log | `MCOutcomes` | `OutcomesProofs` |
| `Resume` | the resume marker, the hooks that write it and the wrappers that act on it | `MCResume` | `WrapperProofs` |

`LockProofs`, `WrapperProofs` and `StopHookProofs` each prove about two components that
share nothing: the second one of each pair (`RunnerLock`, `SettingsFile`, `StopLoop`) puts its
own name before the usual ones (`RunnerInit`, `SettingsSpec`, `LoopIInv`), so that one module can
extend both.

**FileLock.** `pc` is the next system call of each caller; `file` is who created the
file at the lock path (a lock file is identified by the token it will carry);
`written` tells whose metadata is in it; `aged` compares its mtime with `staleMs`.
`Create`/`Exists`/`Fail` are the outcomes of `openSync(O_CREAT|O_EXCL)`, `WriteMeta`
the write through the descriptor, `Stat`, `ReadMeta`, `Unlink` the three calls of
`tryRecoverStaleLock`, `Check` the timeout test, `Verify` and `Drop` the release.
`Die`, `Age`, `Expire` are the environment. `stolen` and `everAged` are history.

**RetryQueue, ExtractionQueue.** An entry's id is its arrival number, so that array
order is the order of ids. Clock values are kept as time left; `Older` is one unit of
time. Every operation holds the file lock over its whole read-modify-write and is one
step; the interleaving is between `claimDue` and `completeEntry`. `owed` records which
summary still has to go through which phase. Two losses are recorded beside it: `displaced`, the
summaries that a later one of the session replaced, and `exposed`, those that were merged into
an entry while a runner worked on a copy of the older one (`Held`): its report is made by id
and removes the entry, or cuts it down to the phases that runner failed at.

**Extraction.** A transcript is a sequence of message kinds; `made` keeps with every message the
generation of the file it was written in. A rewrite (`Replace`) may start after any message and
leave fewer messages than there were. The fingerprint is what the first `SigWindow` messages are
(`extraction-queue.ts:78-88` hashes the first 32 KB): an append below the window changes it, an
append or a rewrite beyond it does not. A runner's `pc` follows `main` of the runner: `reset`, `digest`,
`call`, `enqueue`, `advance`, `clear`, `keep`, `claim`, `retry`, `mark`. `owed` is per
message and phase: a message is taken as sent when it is in the digest the summary of
that phase's call is made from; a message that is no longer in the file is not owed. `blind` marks the
sessions with a rewrite that no fingerprint tells of: one that kept the window but not all that a
cursor or the run under way had passed, or one that met a cursor no finished run had given a
fingerprint. A reset ends it. `EnqueueRest` takes the two losses of the queue out of `owed`, so that
the properties of the extraction are about everything else. `CrowdedOut` is `setCursor` at its limit of 500
cursors, seen from one session: those of other sessions crowd its own out.

**RunnerLock.** One session; `hook` and `runner` are the steps of hooks and runners, both
files have an age. `broken` records that a lock lapsed under a live owner or that its
own file lock failed, after which the code promises nothing.

**SettingsFile.** Each process runs one of four commands: `inject` (the wrapper's session
preparation, with its rollbacks), `mcp` (also what `uninstall` does), `statusline` (no
lock) and `install` (a file lock at the same path, and no lock if that fails). `lock` is
who created the lock file and whose identity is in it: a pid for the settings lock, JSON
for the file lock, and neither understands the other's (`PidIn`, `MetaIn`). `open`, `mark`,
`judge`, `override` are the system calls of taking a lock, `release` and `remove` those of
giving it back. The settings are the set of processes whose entry they hold; the read
and the backup copy of `injectSettings` are one step (`Load`). `unlocked` (entries put
in by a write without the lock) and `taken` (a live holder's lock was overwritten
or removed) are history.

**StopLoop.** `turn` is what a session does: work, be idle, or wait for its stop hooks.
stop-guard's verdict (`GuardSkips`, `GuardPasses`, `BuiltinBlocks`, `RuleHit`) is one
step, since nobody else uses its counter files; context-guard reads the loop's file
(`ReadLoop`) and writes it back (`WriteLoop`) in two, because other sessions' hooks,
agents and users may change the file in between. `Plan` is what it writes. The two
hooks of a stop run side by side in the host; they share no state, so stop-guard's
verdict is taken last and meets context-guard's in `halt`. Starting, resuming and editing
the loop is done by the agent with its own tools, as the skill in
`assets/claude/commands/forge-loop.md` tells it: these actions are external.

**BlockJudge.** A violation's `pc` follows the hook that recorded it (`list`, `mark`,
`spawn`) and then the judge it started (`read`, `check`, `verdict`, `clear`, `weigh`,
`save`, `log`). `marks` and `aged` are the marker files, `log` the verdicts on each
violation in the order they were appended, `seen` the verdicts the first half of
`withinJudgeCaps` read before its second half lists the markers. `excused` names the
judges that a later check could not count because they went from marker to verdict
between the two halves; `lost` those whose marker or verdict could not be written.

**RuleStore.** `disk` holds what a rule file says that matters: status, enforcement,
scope, phase, key, what it was merged into, and its history. An operation begins by
reading a file and computing the writes it will make, its `jobs`; `Commit` makes the next
one, whatever the file says by then. `Compare` is the test of `saveRule`, a step before its write.
Only the injection counter and the cleanup hold a rule's lock (`Locked`), promotions and
merges exclude themselves. A process may die between any two writes (`Die`).
`outdated` is history: the copies of a rule that waited to be written, active, when its user
switched the rule off (`Overtaken`).

**Outcomes.** A hook is at one of the `Stages`; inside the lock it has `took` the pending
list, reports on its `aim` one by one (`Report`), and then replaces the list (`Rewrite`).
`Targets`, `Kept` and `Flagged` say how the stages differ. `Commit` is the injector's locked
update of the session cache, which decides what is really injected. `cut` counts, per
injection, the reports that were not followed by the rewrite. `Fate` maps a state to the
ledger's: open while pending, then the last verdict.

**Resume.** A session is a terminal: its host (`running`), the Stop hook of that host (`hook`),
and the wrapper, if it has one (`scan` to `wait`). The marker carries an identity for its file,
since a writer goes on writing to a file that was removed meanwhile; opening it empties
it, and while it is empty or garbled it gives no reason. Limits are numbered: `limits` counts those
run into, `since` says how many there were when the host of each session started, `restarts` how many
sessions were restarted with a marker of each limit, and `again` which wrappers found a limit in a
transcript that had restarted a session before. `hit` are the sessions that ran into a limit in this
run of their host, whether the hook got to the marker or not (`HookMisses`); `torn` those whose hook did not
fill it; `meddled` those whose marker somebody else changed; `why` says how a wrapper ended.

In all other modules a write through `atomicWriteJSON` is one step: the code writes a
temporary file and renames it. Operators marked "Slip" in a comment are plausible
mistakes in the definition below them; no specification uses them, and each
makes the property named with it in PROJECT.json fail.

## 3. Runs

| Run | Shows |
|---|---|
| `filelock` | 3 callers, crashes, failed writes, refused unlinks: no two inside before a lock file went stale; when two are inside one was robbed; every theft starts with a stale recovery; every wait ends whose unlinks are not refused for ever |
| `queue` | 2 runners, 3 sessions, 3 jobs, room for two: one entry per session and no more than fit, exclusion within the lease, nothing vanishes but by the two losses, the queue drains |
| `extraction_crash` | a runner that dies anywhere, two phases, growth and a rewrite of a transcript that is still inside the fingerprinted window, a cursor crowded out: nothing behind the cursor is unread, nothing unread is hidden from the triggers |
| `extraction_retry` | a session's runner and a queue-only runner; all message kinds, so that the gates that skip content are taken; a transcript that grows beyond the window and is rewritten inside or beyond it: the same two properties for all sessions that are not blind, and a cursor whose fingerprint covers its window moves back only after a rewrite |
| `runnerlock` | two runners, two hooks, session starts, a killed process: one runner at a time, and new content is served |
| `settings` | three processes of every mix of commands, a death, failed writes and rollbacks: one holder, no entry lost but in the named ways |
| `stoploop` | two sessions, one loop, a rule with a threshold of two, a fault: the blocks are bounded by the threshold and the faults, a loop stays off and bound, every attempt to stop ends |
| `blockjudge` | three blocks of two sessions at once, and a fault or a word of the user's: the caps hold for all a check could know of, the user's word stands, marks lapse |
| `rules` | two processes, any three operations, dying anywhere: a rule that is off says why, the hard rule stays, merges and promotions leave neither a hole nor a double, what the user switched off is switched on only by the user or a correction, or by a copy that was read before it was switched off and waited while it was |
| `outcomes` | three hooks, two prompts, two events, a fault: one verdict and one error per injection, none lost, none injected twice; the hooks implement the ledger |
| `resume` | two wrapped sessions and one that is not, two limits: a limit restarts one session and one more per wrapper that finds it again in a transcript; a limit is answered unless another session meddles or the session's own hook does not fill the marker |
| `outcomes_unknown` | ends in a violation: the finding of section 6 |

**Bounds.** FileLock: a theft needs a dead holder, a recoverer and a newcomer, and a second
recoverer to rob the newcomer; three callers give all of them, since the holder's death
leaves the two that recover, one of which becomes the newcomer. `MayStall` (a process
suspended past `staleMs` between creating its file and writing to it) is off in the
runs and allowed in the proof.
Queue: two runners are needed for an overrun claim, two jobs of one session for a
replaced summary; three sessions with room for two, and a job for each, make the limit bite while
two entries stay, so that both halves of `QueueShape` can fail; three attempts
distinguish the first, a middle and the last. Extraction: two messages distinguish covered from
uncovered content; one rewrite, one mishap (a death or a lost cursor) and two phases suffice for a
death between any two updates of one run. The window is two messages in one run, where no
transcript is longer than it, and one in the other, where the second message is beyond it: the two cases
the fingerprint tells apart, and in both a rewrite may keep all, a part or nothing of what was hashed. Times
are in units of the claim time: the code only compares. `BackoffAssumption` states what
the constants of the code satisfy (10, 60, 360 minutes against a claim of 10) and what
exclusion rests on. SettingsFile: a third process is what makes a copy out of date
while two others hand the lock over; `MaxDeaths` is the only bound.
StopLoop: `MaxBlocks` is 1 instead of 30, `Threshold` 2 instead of 3, so that a counter a fault has emptied
allows more than the one block that a failed write allows; one of the two sessions (`Offenders`) violates the rule; `MaxEvents` bounds starts, blocks of the built-in guards and faults
together by one (any one of them once); the proofs have none of these bounds. One rule and
two sessions: a second rule only adds counters that the proofs treat in general.
BlockJudge: caps of one make every block beyond the first one too many, and
three blocks give both caps a race; the week and the day that the log is read for pass in no run.
RuleStore: one hard rule, one with the key of a correction or merged already, two new ids
and two corrections, one of them waiting for promotion; three operations are a stale copy,
what overtakes it, and one more (a merge after a promotion, a scan after a merge). Outcomes: two
solutions of different scores and room for one error each, two prompts (a second is needed
to accept anything), a failure or correction beside each, one fault. Resume: two readers of
one marker and a third session that writes; two limits allow a marker to be overwritten or
removed unread, and one limit to be told of twice; one restart of each kind shows the cap.
Counters that would grow are bounded by `MaxJobs`, `MaxMishaps`, `MaxCrashes`, `MaxLen`,
`MaxGens`, `MaxSize`, `MaxOdd`, `MaxOps`, `MaxPrompts`, `MaxEvents`, `MaxFaults`, `MaxLimits`;
the proofs rest on none of them. Deadlock checking is off for FileLock and SettingsFile, where each process
makes one call and all of them end, for RunnerLock, whose transcript stops growing, and
for the four newer modules, where the blocks, operations, prompts or limits
of the instance are used up and everything that was begun has ended.

**Fairness.** FileLock: a contending process is scheduled and its clock advances; nothing is
assumed of what an unlink returns (`EveryWaitEnds` says instead that a wait ends or
meets refused unlinks for ever), of the protected function or of a release. ExtractionQueue: time passes, and
runners are started again and again (each `Stop`, `SessionEnd`, `SessionStart` starts one) and
go on once started; crashes are bounded. RunnerLock: hooks keep firing, a spawn that can
succeed again and again does (strong fairness: `SpawnFails` competes with it), runners
are scheduled, both ages advance; session starts are not counted on. StopLoop: the host
runs the hooks it started, and an agent ends its turns; nothing is assumed of the user, of
which verdict stop-guard reaches, or of stories being finished. BlockJudge: hooks and judges
that were started run unless they die, and a marker nobody touches ages; nothing is assumed of
new blocks or of the user. RuleStore, Outcomes and Resume state safety only and assume no fairness.

## 4. Proofs

The eight proof modules hold for any set of processes, sessions, rules or injections and all
values of the constants allowed by the named assumptions. In each, `IInv` is the inductive
invariant, and the theorem `Invariant` says that it always holds. The `IInv` of FileLock and
RunnerLock is an invariant of their runs too; those of the other modules were model-checked on
the runs' instances before they were proved, and the runs check what follows from them.
The assumptions are on the constants: that the model values for "none" are different from
the rest (`NoFileAssumption`, `NoneAssumption` and their like), that limits are numbers, and four
that say more. `BackoffAssumption` is what the three back-off times satisfy; `LimitsAssumption`
has at least one message in the digest's threshold and in the fingerprint; `OutcomesAssumption`
gives every solution a score; and `RuleStoreAssumption` has the rules of an installation in place with
the hard ones among them, and no two of them with one correction's key.

*File lock.* The inductive invariant `IInv` is the typing together with:
`HolderOwnsFile` (a live holder that was not robbed owns the file at the path),
`RecoveryNeedsAge` (before any file went stale nobody is in the recovery branch,
and nobody has been robbed) and `WriterWrote` (whoever is past writing has its metadata
in its file). Mutual exclusion itself is not inductive, since it does not speak of the
file: it follows because two holders would both own the one file. `Invariant`,
`TypeCorrect`, `ExclusionBeforeStale`, `ExclusionBarTheft` follow from it, and
`TheftNeedsRecovery`, an action property, from the invariant before the step.

*Runner lock.* `OneRunner` needs `LockNamesRunner`: unless the lock is broken it names
whoever works or is about to remove it, a live owner's lock is fresh, and a
runner that goes on to the marker no longer owns the lock. The last part is what keeps
the unlocked release from removing a successor's lock.

*Settings.* `LockNamesHolder`: until a live holder's lock is taken, the lock file carries
the identity of whoever counts on it, or is the still empty file of its creator.
`OneHolder` follows, since two holders would both be named. `CopiesCurrent`
adds that whoever is about to write under the lock a copy it read under the lock has every
entry that was put there under the lock: between its read and its write nobody else
can have written with the lock. `EntriesKept` (an action property) is a case split of the
writing steps from there.

*Stop hooks.* `CountsBlocks`: the counter of a rule holds every block since stop-guard
last approved, but for those that faults took from it: a fault empties a counter that held at most
`Threshold` blocks, or lets one block stand that could not be counted. `RulesGiveUp` adds to it the step: a rule that
blocks found its counter below the threshold. `LoopsSettle` (an action property) rests on
`CopiesBindable`: what a hook is about to write was an active loop it owned or might bind,
so that a write of an up-to-date copy neither revives a loop nor takes another's.

*Block judge.* `Shown`: whoever has passed its first check or called the model is seen by its
marker, by its verdict, or is in `lost`; it needs the order of the three writes
(`CallsOnce`, `ClearsLast`). `CapsAreKept` then takes the judge that calls last among
those known: its check counted all the others, or excused them. `UsersWordIsKept` is an action
property about the log: once the user has spoken of a block, the word that counts is the last of
his, whatever a judge appends afterwards; `SpokeLast` says that there is a last one.

*Outcomes.* `LockHeld`: one hook is inside, what it took is still the pending list, and the
last verdict on each injection it has reported is its own. `GivenFresh`: nothing is known of an injection
before it is pending. With them `OneVerdict` and `OneError` are inductive. `InjectedOnceOnly`
adds that the cache knows every solution that was injected. For the refinement
(`Implementation`), only `Rewrite` changes a fate: it opens what the prompt's hook gives, or
settles all that is pending with the verdict just reported; every other step, every fault
included, leaves the ledger as it was.

*Retry queue.* `ClaimExclusion` needs `LeaseCovered`: while a worker is within its lease its
entry is not due, since its claim lasts as long as the lease, or the back-off that another
worker's report set does (this is where `BackoffAssumption` is used: with a shorter back-off the
entry could be claimed by a second runner while the first is within its claim). `NothingVanishes`
needs `CopiesComplete`, that what a worker has left to do includes all that is owed of its
summary: a worker whose claim ran out may report on an entry that others have worked
on meanwhile, and removes from it what it has done and nothing else. That is true of its own summary
only. If the entry has been given a newer one, the report takes that off the queue as well;
`OldCopiesExpose` says that this happens to no summary but those merged while the worker
held its copy. `NumbersFresh` says that
arrival numbers are given out once, so that a report finds its own entry or none.

*Extraction.* `CoveredUnlessBlind` and `NothingHidden` are about cursors, but a cursor is moved by a
runner, from what it read long before; and whether cursor and transcript belong together is known
only by a fingerprint of the transcript's beginning. `Begins` says that the transcript still begins
with what a fingerprint was taken of. `Whole` and `Vouched` say for which messages a fingerprint
speaks: for all of them if it fills its window and still is the transcript's, or if nothing was ever
rewritten; else for those it was taken of that are still there. `Sound(s, sig)` is what holds of
a session's cursor for whatever `sig` vouches for: nothing that is owed and in no queue (`LostOf`) lies below
it, and the phases kept for a retry were given their section. `CursorsSound` says it of the cursor's
own fingerprint, `RunSound` of the one the runner at work took at its start, and adds that up to
where the runner read, only what is in its text and still left is owed. A rewrite inside the window
breaks `Begins`, so that the fingerprint speaks only for what was kept; one beyond the window
harms nothing above the cursor, and is `blind` if it reaches below. `CopyOf` and `RetriesDone` say of
a queue entry under work that the runner's copy has all that is owed of it, unless its summary is a
newer, exposed one. `OwedIsThere`, `TextsWritten`, `Taken`, `QueueOK`, `RunsWellFormed` and
`CursorsWellFormed` keep the pieces typed and of their time. `CursorMovesBackOnlyOnReplacement` follows: a
fingerprint that fills its window and with which the transcript still begins is the one the next runner takes.

*Rules.* The files are sound (each rule that is off says why, no hard rule is off, advice
or merged into) because every copy that waits to be written is sound (`WaitingSound`): a copy is
made from a sound file by an operation that keeps it so, and however late it is written
it brings its own reason with it. `MergesKeepARule` and `PromotionsHaveTheirRule` rest on
`NamesThere`: what a job list mentions is there or is written by an earlier job of the same
list, and files are never removed, so a list may be cut off anywhere.
`RulesKept` is about whose rule a file is. For `OneRulePerKey`, every waiting copy has the key and the origin of
the file it will replace (`SameRule`); a copy of a file that is not there is made by one process
only (`MadeOnce`), and if it is a correction's rule by a promotion that has seen no other of its key;
promotions exclude each other (`OnePromotion`) and write the rule first (`PromotesFirst`), so that the second one
sees what the first one made. For `SuppressedStaysOff`, every waiting copy is in time (`InTime`): an active copy of a rule
that its user has switched off is in `outdated`, unless an operation that switches rules on has made it. No
operation makes such a copy of a rule that is off, and the write that switches the rule off enters all
those that wait. `saveRule` writes them all the same, and the model lets it.

*Resume.* `MarkerWaits`: the marker a session is writing is its own until another
meddles, and what it wrote is there, whole, until the session reads and removes it, if its hook filled it.
`LimitsUsedUp` counts: the restarts of a limit, and one more if a marker tells of it or is about to,
are at most one and the wrappers in `Again`. The scan writes only when it has seen no marker; if the limit had
restarted a session by then, its wrapper is in `Again` before the marker is, and no wrapper twice for the
same limit (`NumbersFresh`: it finds only limits of its host's present run).

## 5. What is only model-checked

Liveness (`EveryWaitEnds`, `QueueDrains`, `NeedServed`, `EveryStopEnds`, `MarksLapse`) is out of
the prover's reach: it rests on fairness, hence on `ENABLED`. Every other property of a passing run
is a theorem or follows from one. That the runs' instances satisfy the named assumptions
is evaluated by TLC with each run.

## 6. Where the code disagrees with its comments

`outcomes_unknown`: `hooks/context-guard.ts:215` calls `finalizeSession` from every `Stop`, at the
end of each turn. `engine/solution-outcomes.ts:292` says it happens at the end of the session, and
`:126` that the next prompt accepts what is pending. The run shows an injection, a turn nothing
disturbs, and the injection unknown at the next prompt. Only the pending list of a turn
the user interrupted is ever accepted.

Other places where a comment promises more than the models found; the properties of the
passing runs name these exceptions:

- `hooks/shared/file-lock.ts:104`, a lock another holder took meanwhile is not recovered: the
  second of two recoverers of a dead owner's file deletes (`:129`) the lock created in between.
- `hooks/shared/file-lock.ts:45`, `timeoutMs` is the longest wait, after which the call throws: after a
  refused unlink of a stale file the loop continues (`:185-187`) above the timeout test, so that a
  waiter in a directory that refuses to remove the file waits, busily, as long as it refuses.
- `core/auto-compound-runner.ts:705`, no loss: `enqueue` (`extraction-queue.ts:243`) replaces the
  queued summary of a session, whose failed phases are then never run on it (`displaced`). And if a
  runner works on the entry meanwhile, `completeEntry` (`:279-285`) finds it by its id and
  removes it with the newer summary, or leaves of the newer summary only the phases that failed on the
  older one (`exposed`): these phases are never run on either.
- `core/extraction-queue.ts:78`, a replacement of the same size changes the fingerprint: only the first
  32 KB are hashed (`:83-85`). After a rewrite that keeps them, the cursor stays where it was, content below it
  is never read, and `sessionNeedsRun` (`:165-167`) says no until the file outgrows what the last run
  saw (`blind`).
- `core/extraction-queue.ts:78`, appending does not change the fingerprint: it does (`:84`) below
  32 KB, and the transcript is sent again from the start.
- `core/settings-lock.ts:49`, with a live holder the waiter throws: one that looks before the
  holder's pid is in the file overwrites its lock (`:75`).
- `core/spawn.ts:591`, the back-off adds up to six hours at most: the six steps do, but ten
  restarts are allowed (`MAX_RESUMES_RATE`) and the last step repeats: almost twelve hours.
- `docs/adr/ADR-008-rate-limit-auto-resume.md`, migration notes, a resume marker older than a day is
  deleted: nothing deletes one or looks at its age, and the next wrapper whose host ends,
  for whatever reason, restarts for it.
- `store/rule-store.ts:303`, the lock of the injection counter keeps it from undoing other
  processes' transitions: it does not hold the commands and the scan off, which take no lock.
- `engine/block-judge.ts:194`, a rule the user set to block is not demoted: the mode is read before two
  logs are, and the copy saved afterwards undoes what the user set in between.
- `engine/rule-toggle-cli.ts:126`, what the user set to advise is left alone: the restore only asks
  whether the log of demotions has an entry of that rule, however old.
- `store/rule-lifecycle.ts:71`, every change of status goes through `withStatusChange`: promotion
  (`store/evidence-store.ts:357`), unmerge and the absorbing rule of a merge set it themselves. The
  history then ends with a reason that no longer holds.

Behaviour met while modelling, that the models include and no document denies:

- File lock: the token test of the release and its unlink are two calls, so a robbed holder
  may remove a successor's lock (`TheftStartsWithRecovery` allows it after a recovery).
- Runner exclusion: the in-flight marker is tested and written in two steps, so two hooks
  can both spawn a runner; the runner lock stops the second one. It lapses after 30 minutes
  under a live runner too.
- Settings: `mcp`, `uninstall` and `statusline` read before they lock, and undo what was
  written in between. The rollback inside `injectSettings` (`settings-injector.ts:124`) asks for
  the lock its process holds, finds its own live pid after 3 seconds and throws; session
  preparation swallows the error and nothing is restored. The rollback after a failed
  preparation (`harness.ts:522`) restores a backup that may be older than other writers' changes.
- Stop hooks: a counter counts the blocks since an approval that removed it, not the
  consecutive ones: a stop that is approved unexamined or by another rule's threshold
  leaves it. A counter is written in place
  (`stop-guard.ts:444`): a full disk or a kill leaves a file that reads as 0, and the rule may block
  `Threshold` times again. The built-in guards have no limit in the `Stop` hook. A block is recorded
  and judged before the stuck-loop test may approve the stop after all. Two sessions may
  both bind an unowned loop, and a hook that read the loop before it was cancelled may
  write it back, active (`StaleWrite` in `LoopSettled`).
- Block judge: `judgeViolation` leaves its marker behind when it returns early (`:152`, `:156`).
  A judge may slip from marker to verdict between the two reads of a check (`excused`). A judge
  that dies between saving a demotion and logging it leaves a rule that `restore` does not know.
- Rules: the scan of `lifecycle-cli.ts:107-141` saves, for Meta's mechanisms, the rule as it was
  before the event it has just saved, and so undoes it. A rule revived by a promotion keeps its phase
  `retired`, and decay never retires it again. `unmerge` takes no lock and may undo a merge under way.
  A correction that names the rule of its own key retires that rule and is then promoted, which
  reactivates it (`evidence-store.ts:327-363`). `saveRule` compares and writes in two steps (`rule-store.ts:62`),
  and compares nothing when a rule is switched on: a copy that was read active, before the user
  suppressed the rule, makes it active again (`outdated`).
- Outcomes: `flushAccept` is only called by a prompt that injects something new; the limit of solutions
  per session is tested on a cache that was read without its lock.
- Resume: there is one marker for all sessions and `forgen` resumes for whichever it finds: a
  session that ended on its own restarts if another, perhaps not wrapped at all, hit a limit,
  and then the other does not. A hook killed between opening and filling the marker leaves
  an empty one: wrappers end on it without removing it, the wrapper of the session itself included
  (`torn`), and the transcript scan leaves it alone, until a hook fills it. One limit may restart two
  sessions: a wrapper takes the marker of another session's limit and restarts, then that session's own
  wrapper finds no marker, reads the same limit in the transcript (`spawn.ts:541-557`), writes
  the marker again and restarts too (`again`).

## 7. Not modelled

Text matching, scoring and rendering (data, better tested), the SQLite session store
(the database does the concurrency control), host installation but for its write of
`settings.json`, interactive commands (one user, one process), and what a phase
writes with its answer. In StopLoop: which rule a message violates, the violation log, the
counters of the `SubagentStop` hook (separate files), and a `Stop` without a session id. In
BlockJudge: the windows of a day and a week, receipts, log rotation, the prompt. In RuleStore:
mined corrections with their expiry, archive and merging, snapshots and their restore,
project rules, imported ways, conflict references, the suppression list of unmerged
combinations, and the takeover of the store's mutation lock after 15 s. In Outcomes: what is
computed from the log. In Resume: which messages count as a limit, and lengths of waits. The
components with status `not_modelled` in PROJECT.json say why there.

## 8. Plan

1. Refinement: an atomic lock `Mutex` implemented by `FileLock` until a file goes stale,
   and by `SettingsFile` until a lock is taken.
2. Mined corrections in `RuleStore`: expiry, cap and archive against promotion.
3. The rate limiter and the subagent tracker, whose counters use the file lock and let calls through
   when it cannot be had.
