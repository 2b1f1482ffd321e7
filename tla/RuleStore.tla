----------------------------- MODULE RuleStore -----------------------------
(***************************************************************************)
(* The user's rules, one JSON file each, and everything that rewrites one: *)
(* the commands that switch a rule off and on or change how it is enforced,*)
(* a correction that names a rule, the promotion of corrections to rules,  *)
(* the lifecycle scan and its daily decay, the merging of rules, the judge *)
(* that demotes a rule, the cleanup of session rules, and the counter of   *)
(* injections.  They run in separate processes: each reads a file, builds  *)
(* a changed copy and later replaces the file by it.  Only cleanup and the *)
(* injection counter take the file's lock; promotion and merging exclude   *)
(* themselves by a lock of their own.  The locks are those of FileLock.    *)
(*                                                                         *)
(* A process keeps the writes it still has to make as a list of jobs, done *)
(* one after the other; it may die between any two.  Which rules resemble  *)
(* each other, are due for decay or have been misjudged is left open.      *)
(***************************************************************************)
EXTENDS Naturals, Sequences, FiniteSets, SequencesExt

CONSTANTS
  Rules,      \* rule ids, most of them not yet used
  Hard,       \* the rules of strength "hard"
  Known,      \* what rules there may be at the start: their ids with their render keys
  Procs,
  Cands,      \* ids of the user's corrections
  Before,     \* the corrections made before the start and not yet promoted, with their keys
  Keys,       \* render keys of corrections
  Merged,     \* stands for the render key of a merged rule, never a correction's
  None,
  MaxOps      \* bound: operations begun

Statuses == {"active", "suppressed", "removed", "superseded"}
Writers == {"cli", "lifecycle", "cluster", "session-cleanup"}
Changes == [from : Statuses, to : Statuses, by : Writers, at : Nat]
RuleFiles ==
  [status : Statuses, mode : {"unset", "block", "advise"}, scope : {"me", "session"},
   phase : {"active", "flagged", "retired", "superseded"}, key : Keys \cup {Merged, None},
   into : Rules \cup {None}, born : {"me", "session"}, history : Seq(Changes)]
Evidence ==
  [kind : {"fix", "avoid", "prefer"}, key : Keys, names : Rules \cup {None}, used : Rules \cup {None}]

Operations ==
  {"suppress", "activate", "mode", "demote", "restore", "correct", "scan", "decay",
   "inject", "cleanup", "revive", "promote", "merge", "unmerge"}

ASSUME RuleStoreAssumption ==
  /\ IsFiniteSet(Rules) /\ Hard \subseteq Rules /\ MaxOps \in Nat
  /\ None \notin Rules /\ None \notin RuleFiles /\ None \notin Evidence /\ None \notin Operations
  /\ \A known \in Known :
       /\ Hard \subseteq DOMAIN known /\ DOMAIN known \subseteq Rules
       /\ \A r \in DOMAIN known : known[r] \in Keys \cup {Merged, None}
       /\ \A r, s \in DOMAIN known : known[r] \in Keys /\ known[r] = known[s] => r = s
  /\ Merged \notin Keys
  /\ DOMAIN Before \subseteq Cands /\ \A c \in DOMAIN Before : Before[c] \in Keys

VARIABLES
  disk,     \* ~/.forgen/me/rules: each rule's file, None for none
  evid,     \* ~/.forgen/me/behavior: the corrections
  demoted,  \* the rules in demotions.jsonl
  op,       \* what each process is doing
  jobs,     \* the writes it has to make, in order
  compared, \* it has compared its first write with the file
  todo,     \* the corrections its promotion has still to look at
  ops,      \* operations begun so far
  outdated  \* history: active copies that waited while their rule was switched off

vars == <<disk, evid, demoted, op, jobs, compared, todo, ops, outdated>>

Save(r, rec) == [do |-> "save", rule |-> r, rec |-> rec]
Write(r, rec) == [do |-> "write", rule |-> r, rec |-> rec]
Later(what, r) == [do |-> what, rule |-> r]
Mark(c, r) == [do |-> "mark", rule |-> r, cand |-> c]

Jobs ==
  [do : {"save", "write"}, rule : Rules, rec : RuleFiles] \cup
  [do : {"log", "sync", "relook"}, rule : Rules] \cup [do : {"mark"}, rule : Rules, cand : Cands]

TypeOK ==
  /\ disk \in [Rules -> RuleFiles \cup {None}]
  /\ evid \in [Cands -> Evidence \cup {None}]
  /\ demoted \subseteq Rules
  /\ op \in [Procs -> Operations \cup {None}]
  /\ jobs \in [Procs -> Seq(Jobs)]
  /\ compared \in [Procs -> BOOLEAN]
  /\ todo \in [Procs -> SUBSET Cands]
  /\ ops \in Nat
  /\ outdated \subseteq Rules \X RuleFiles

NewRule(scope, key) ==
  [status |-> "active", mode |-> "unset", scope |-> scope, phase |-> "active", key |-> key,
   into |-> None, born |-> scope, history |-> <<>>]

Init ==
  /\ \E known \in Known :
       disk = [r \in Rules |-> IF r \in DOMAIN known THEN NewRule("me", known[r]) ELSE None]
  /\ evid = [c \in Cands |-> IF c \notin DOMAIN Before THEN None
       ELSE [kind |-> "prefer", key |-> Before[c], names |-> None, used |-> None]]
  /\ demoted = {} /\ ops = 0 /\ outdated = {}
  /\ op = [p \in Procs |-> None] /\ jobs = [p \in Procs |-> <<>>]
  /\ compared = [p \in Procs |-> FALSE] /\ todo = [p \in Procs |-> {}]

-----------------------------------------------------------------------------
(* Changed copies of a rule *)

\* withStatusChange
Changed(rec, to, by) ==
  IF rec.status = to THEN rec
  ELSE [rec EXCEPT !.status = to,
                   !.history = Append(@, [from |-> rec.status, to |-> to, by |-> by, at |-> ops])]

\* applyEvent
Flagged(rec) == [rec EXCEPT !.phase = "flagged"]
\* Slip: the status is set without a reason, which saveRule sees on most days.
RetiredSilently(rec) == [rec EXCEPT !.status = "removed", !.phase = "retired"]
Retired(rec) == [Changed(rec, "removed", "lifecycle") EXCEPT !.phase = "retired"]
Superseded(rec) == [Changed(rec, "superseded", "lifecycle") EXCEPT !.phase = "superseded"]

Exists(r) == disk[r] # None
Active(r) == Exists(r) /\ disk[r].status = "active"

\* A random id: one nobody has, or is about to have.
Unused == {r \in Rules : ~ Exists(r) /\ \A p \in Procs : \A i \in DOMAIN jobs[p] : jobs[p][i].rule # r}
NewIds == IF Unused = {} THEN {} ELSE {CHOOSE r \in Unused : TRUE}

\* Whoever rewrites r under its lock holds the lock until then.
Locked(r) ==
  \E p \in Procs : op[p] \in {"inject", "cleanup"} /\ jobs[p][1].rule = r /\ jobs[p][1].do # "relook"

Free(p) == op[p] = None /\ ops < MaxOps

Begin(p, name, list) ==
  /\ op' = [op EXCEPT ![p] = name]
  /\ jobs' = [jobs EXCEPT ![p] = list]
  /\ ops' = ops + 1
  /\ UNCHANGED <<disk, demoted, compared, outdated>>

BeginSave(p, name, r, rec) ==
  Begin(p, name, <<Save(r, rec)>>) /\ UNCHANGED <<evid, todo>>

-----------------------------------------------------------------------------
(* The user's commands *)

Suppress(p, r) ==
  /\ Exists(r) /\ r \notin Hard /\ disk[r].status # "suppressed"
  /\ BeginSave(p, "suppress", r, Changed(disk[r], "suppressed", "cli"))

Activate(p, r) ==
  /\ Exists(r) /\ disk[r].status = "suppressed"
  /\ BeginSave(p, "activate", r, Changed(disk[r], "active", "cli"))

EnforceMode(p, r, mode) ==
  /\ Active(r) /\ (mode = "advise" => r \notin Hard)
  /\ BeginSave(p, "mode", r, [disk[r] EXCEPT !.mode = mode])

RestoreDemoted(p, r) ==
  /\ Active(r) /\ disk[r].mode = "advise" /\ r \in demoted
  /\ BeginSave(p, "restore", r, [disk[r] EXCEPT !.mode = "block"])

Revive(p, r) ==
  /\ Exists(r)
  /\ BeginSave(p, "revive", r,
               [Changed(disk[r], "active", "cli") EXCEPT !.scope = "me", !.phase = "active", !.into = None])

-----------------------------------------------------------------------------
(* Corrections *)

\* Slip: hard rules are changed as well.
T1OfAny(kind, r) ==
  IF r = None \/ ~ Active(r) THEN <<>>
  ELSE IF kind = "fix" THEN <<Save(r, Flagged(disk[r]))>> ELSE <<Save(r, Retired(disk[r]))>>

\* T1: a correction changes the rule it names, and no hard rule but to flag it.
T1(kind, r) ==
  IF r = None \/ ~ Active(r) \/ (r \in Hard /\ kind # "fix") THEN <<>>
  ELSE CASE kind = "avoid" -> <<Save(r, Retired(disk[r]))>>
         [] kind = "prefer" -> <<Save(r, Superseded(disk[r]))>>
         [] kind = "fix" -> <<Save(r, Flagged(disk[r]))>>

\* The correction is on disk before any rule changes.
ProcessCorrection(p, c, kind, key, names, temp) ==
  /\ evid[c] = None
  /\ evid' = [evid EXCEPT ![c] = [kind |-> kind, key |-> key, names |-> names, used |-> None]]
  /\ Begin(p, "correct",
           T1(kind, names) \o (IF kind = "prefer" THEN <<>> ELSE <<Save(temp, NewRule("session", key))>>))
  /\ UNCHANGED todo

Candidates == {c \in Cands : evid[c] # None /\ evid[c].kind # "fix" /\ evid[c].used = None}

BeginPromotion(p) ==
  /\ \A q \in Procs : op[q] # "promote"
  /\ Candidates # {}
  /\ Begin(p, "promote", <<>>)
  /\ todo' = [todo EXCEPT ![p] = Candidates]
  /\ UNCHANGED evid

\* Slip: only the rules in force are looked at.
MatchesInForce(key) == {r \in Rules : Active(r) /\ disk[r].key = key /\ disk[r].scope = "me"}

\* findRuleByRenderKey: an active rule before one that is off.
Matches(key) == {r \in Rules : Exists(r) /\ disk[r].key = key /\ disk[r].scope = "me"}
Found(key) ==
  LET on == {r \in Matches(key) : Active(r)} IN IF on = {} THEN Matches(key) ELSE on

\* Found off, the rule is switched on again with no word of it in its history.
Promoted(c, r) == Save(r, IF Exists(r) THEN [disk[r] EXCEPT !.status = "active"] ELSE NewRule("me", evid[c].key))

\* Slip: the correction is marked before its rule is there.
MarkedThenSaved(c, r) == <<Mark(c, r), Promoted(c, r)>>
SavedThenMarked(c, r) == <<Promoted(c, r), Mark(c, r)>>

Promote(p, c) ==
  /\ op[p] = "promote" /\ jobs[p] = <<>> /\ c \in todo[p]
  /\ todo' = [todo EXCEPT ![p] = @ \ {c}]
  /\ \E r \in IF Matches(evid[c].key) # {} THEN Found(evid[c].key) ELSE NewIds :
       jobs' = [jobs EXCEPT ![p] = SavedThenMarked(c, r)]
  /\ UNCHANGED <<disk, evid, demoted, op, compared, ops, outdated>>

-----------------------------------------------------------------------------
(* Automation *)

\* maybeDemote, after the judge has called enough of the rule's blocks wrong.
MaybeDemote(p, r) ==
  /\ Exists(r) /\ r \notin Hard /\ disk[r].mode = "unset" /\ disk[r].scope = "me"
  /\ Begin(p, "demote", <<Save(r, [disk[r] EXCEPT !.mode = "advise"]), Later("log", r)>>)
  /\ UNCHANGED <<evid, todo>>

\* lifecycle-scan --apply: an event's change, then Meta's new mechanisms on
\* the rule as it was first read, then the counters.
Scan(p, r, event, meta) ==
  /\ Exists(r)
  /\ event = "flag" => Active(r) /\ disk[r].phase # "flagged"
  /\ event = "retire" => Active(r) /\ disk[r].phase # "retired" /\ r \notin Hard
  /\ meta => r \notin Hard
  /\ Begin(p, "scan",
           (CASE event = "flag" -> <<Save(r, Flagged(disk[r]))>>
              [] event = "retire" -> <<Save(r, Retired(disk[r]))>>
              [] event = "none" -> <<>>)
           \o (IF meta THEN <<Save(r, disk[r])>> ELSE <<>>)
           \o <<Later("sync", r)>>)
  /\ UNCHANGED <<evid, todo>>

\* runDailyT4Decay
Decay(p, r) ==
  /\ Active(r) /\ disk[r].phase # "retired" /\ r \notin Hard
  /\ BeginSave(p, "decay", r, Retired(disk[r]))

MarkInjected(p, r) ==
  /\ Exists(r) /\ ~ Locked(r)
  /\ Begin(p, "inject", <<Write(r, disk[r])>>)
  /\ UNCHANGED <<evid, todo>>

CleanupSession(p, r) ==
  /\ Active(r) /\ disk[r].scope = "session"
  /\ Begin(p, "cleanup", <<Later("relook", r)>>)
  /\ UNCHANGED <<evid, todo>>

\* Slip: rules that are off are merged too.
MergeableAny(r) == Exists(r) /\ r \notin Hard /\ disk[r].scope = "me"
Mergeable(r) == Active(r) /\ r \notin Hard /\ disk[r].scope = "me"

Absorber(m) ==
  Save(m, IF Exists(m) THEN [disk[m] EXCEPT !.status = "active", !.into = None] ELSE NewRule("me", Merged))
Absorbed(r, m) == Save(r, [Changed(disk[r], "superseded", "cluster") EXCEPT !.into = m])

\* Slip: the originals go before the merged rule is there.
AbsorbFirst(r, s, m) ==
  (IF r = m THEN <<>> ELSE <<Absorbed(r, m)>>) \o <<Absorbed(s, m), Absorber(m)>>
AbsorbLast(r, s, m) ==
  <<Absorber(m)>> \o (IF r = m THEN <<>> ELSE <<Absorbed(r, m)>>) \o <<Absorbed(s, m)>>

\* Two rules that say the same: into the merged rule among them, or a new one.
Merge(p, r, s, m) ==
  /\ \A q \in Procs : op[q] # "merge"
  /\ r # s /\ Mergeable(r) /\ Mergeable(s)
  /\ disk[s].key = Merged => disk[r].key = Merged
  /\ m \in IF disk[r].key = Merged THEN {r} ELSE NewIds
  /\ Begin(p, "merge", AbsorbLast(r, s, m))
  /\ UNCHANGED <<evid, todo>>

\* unmergeCluster takes no lock, and its originals keep their old history.
Unmerge(p, m) ==
  LET originals == {r \in Rules : Exists(r) /\ disk[r].into = m}
      list == SetToSeq(originals)
  IN /\ Exists(m) /\ originals # {}
     /\ Begin(p, "unmerge",
              [i \in DOMAIN list |-> Save(list[i], [disk[list[i]] EXCEPT !.status = "active", !.into = None])]
              \o <<Save(m, Changed(disk[m], "removed", "cluster"))>>)
     /\ UNCHANGED <<evid, todo>>

-----------------------------------------------------------------------------
(* Making the writes *)

\* saveRule refuses to switch a rule off without a new reason.
NewReason(job) ==
  /\ job.rec.history # <<>>
  /\ LET last == Last(job.rec.history)
     IN /\ last.from = "active" /\ last.to = job.rec.status
        /\ last \notin ToSet(disk[job.rule].history)
Refuses(job) == Active(job.rule) /\ job.rec.status # "active" /\ ~ NewReason(job)

Doing(p, what) == jobs[p] # <<>> /\ Head(jobs[p]).do = what

Done(p, rest) ==
  /\ jobs' = [jobs EXCEPT ![p] = rest]
  /\ op' = [op EXCEPT ![p] = IF rest = <<>> /\ @ # "promote" THEN None ELSE @]
  /\ compared' = [compared EXCEPT ![p] = FALSE]

\* What saveRule finds on disk may have changed when it writes.
Compare(p) ==
  /\ Doing(p, "save") /\ ~ compared[p] /\ Head(jobs[p]).rec.status # "active"
  /\ ~ Refuses(Head(jobs[p]))
  /\ compared' = [compared EXCEPT ![p] = TRUE]
  /\ UNCHANGED <<disk, evid, demoted, op, jobs, todo, ops, outdated>>

\* The error ends the command; a correction goes on without its T1.
Refused(p) ==
  /\ Doing(p, "save") /\ ~ compared[p] /\ Refuses(Head(jobs[p]))
  /\ Done(p, IF op[p] = "correct" THEN Tail(jobs[p]) ELSE <<>>)
  /\ UNCHANGED <<disk, evid, demoted, todo, ops, outdated>>

\* A write by which its user switches a rule off overtakes the active copies of
\* the rule that others have made and not yet written.
OffByUser(rec) == rec.status = "suppressed" /\ Last(rec.history).by = "cli"
SwitchesOff(job) == OffByUser(job.rec) /\ ~ (Exists(job.rule) /\ OffByUser(disk[job.rule]))
Copies(r) ==
  {job \in UNION {ToSet(jobs[q]) : q \in Procs} :
     job.do \in {"save", "write"} /\ job.rule = r /\ job.rec.status = "active"}
Overtaken(job) == IF SwitchesOff(job) THEN {<<copy.rule, copy.rec>> : copy \in Copies(job.rule)} ELSE {}

Commit(p) ==
  /\ Doing(p, "write") \/ (Doing(p, "save") /\ (compared[p] \/ Head(jobs[p]).rec.status = "active"))
  /\ disk' = [disk EXCEPT ![Head(jobs[p]).rule] = Head(jobs[p]).rec]
  /\ outdated' = outdated \cup Overtaken(Head(jobs[p]))
  /\ Done(p, Tail(jobs[p]))
  /\ UNCHANGED <<evid, demoted, todo, ops>>

\* The correction's file now names its rule: it is never promoted again.
MarkUsed(p) ==
  /\ Doing(p, "mark")
  /\ evid' = [evid EXCEPT ![Head(jobs[p]).cand].used = Head(jobs[p]).rule]
  /\ Done(p, Tail(jobs[p]))
  /\ UNCHANGED <<disk, demoted, todo, ops, outdated>>

LogDemotion(p) ==
  /\ Doing(p, "log")
  /\ demoted' = demoted \cup {Head(jobs[p]).rule}
  /\ Done(p, Tail(jobs[p]))
  /\ UNCHANGED <<disk, evid, todo, ops, outdated>>

\* syncRuleCounters reads the file again, without a lock.
SyncCounters(p) ==
  /\ Doing(p, "sync")
  /\ LET r == Head(jobs[p]).rule IN jobs' = [jobs EXCEPT ![p] = <<Write(r, disk[r])>>]
  /\ UNCHANGED <<disk, evid, demoted, op, compared, todo, ops, outdated>>

\* cleanupStaleSessionRules reads the file again, under its lock.
Relook(p) ==
  /\ Doing(p, "relook")
  /\ LET r == Head(jobs[p]).rule
     IN /\ ~ Locked(r)
        /\ IF Active(r)
           THEN /\ jobs' = [jobs EXCEPT ![p] =
                     <<Save(r, Changed(disk[r], "suppressed", "session-cleanup"))>>]
                /\ UNCHANGED <<op, compared>>
           ELSE Done(p, <<>>)
  /\ UNCHANGED <<disk, evid, demoted, todo, ops, outdated>>

EndPromotion(p) ==
  /\ op[p] = "promote" /\ jobs[p] = <<>> /\ todo[p] = {}
  /\ op' = [op EXCEPT ![p] = None]
  /\ UNCHANGED <<disk, evid, demoted, jobs, compared, todo, ops, outdated>>

\* The process dies, or an error of the file system ends what it does.
Die(p) ==
  /\ op[p] # None
  /\ op' = [op EXCEPT ![p] = None] /\ jobs' = [jobs EXCEPT ![p] = <<>>]
  /\ compared' = [compared EXCEPT ![p] = FALSE] /\ todo' = [todo EXCEPT ![p] = {}]
  /\ UNCHANGED <<disk, evid, demoted, ops, outdated>>

Command(p) ==
  \/ \E r \in Rules : Suppress(p, r) \/ Activate(p, r) \/ RestoreDemoted(p, r) \/ Revive(p, r)
  \/ \E r \in Rules, mode \in {"block", "advise"} : EnforceMode(p, r, mode)
  \/ \E c \in Cands, kind \in {"fix", "avoid", "prefer"}, key \in Keys,
        names \in {r \in Rules : Exists(r)} \cup {None}, temp \in NewIds :
          ProcessCorrection(p, c, kind, key, names, temp)
  \/ \E r, s \in Rules, m \in Rules : Merge(p, r, s, m)
  \/ \E m \in Rules : Unmerge(p, m)

Automation(p) ==
  \/ BeginPromotion(p)
  \/ \E r \in Rules : MaybeDemote(p, r) \/ Decay(p, r) \/ MarkInjected(p, r) \/ CleanupSession(p, r)
  \/ \E r \in Rules, event \in {"none", "flag", "retire"}, meta \in BOOLEAN : Scan(p, r, event, meta)

Promotion(p) == (\E c \in Cands : Promote(p, c)) \/ EndPromotion(p)

Writing(p) ==
  \/ Compare(p) \/ Refused(p) \/ Commit(p) \/ MarkUsed(p) \/ LogDemotion(p)
  \/ SyncCounters(p) \/ Relook(p)

Next ==
  \E p \in Procs :
    \/ Free(p) /\ (Command(p) \/ Automation(p))
    \/ Promotion(p) \/ Writing(p) \/ Die(p)

Spec == Init /\ [][Next]_vars

-----------------------------------------------------------------------------
(* Properties *)

SaysWhyItIsOff(rec) ==
  rec.status # "active" => rec.history # <<>> /\ Last(rec.history).to = rec.status
InForce(rec) == rec.status = "active" /\ rec.mode # "advise"

\* A rule that is off says in its own file how it was switched off, whoever
\* else rewrote the file in between (rule-lifecycle.ts, withStatusChange).
OffIsExplained == \A r \in Rules : Exists(r) => SaysWhyItIsOff(disk[r])

\* A hard rule stays in force: no command, correction, scan, decay, judge or
\* merge switches it off or makes it advice, in whatever order they run.
HardRuleStays == \A r \in Hard : Exists(r) /\ InForce(disk[r])

\* Both hold because every copy that waits to be written is as good as the
\* files, and whatever else waits is about something that is there: the
\* inductive invariant.
Sound(r, rec) ==
  /\ SaysWhyItIsOff(rec) /\ rec.into \notin Hard
  /\ r \in Hard => InForce(rec) /\ rec.scope = "me"
FilesSound == \A r \in Rules : Exists(r) => Sound(r, disk[r])
JobSound(job) ==
  /\ job.do \in {"save", "write"} => Sound(job.rule, job.rec)
  /\ job.do = "sync" => Exists(job.rule)
  /\ job.do = "relook" => job.rule \notin Hard
  /\ job.do = "mark" => evid[job.cand] # None
WaitingSound ==
  \A p \in Procs :
    /\ \A i \in DOMAIN jobs[p] : JobSound(jobs[p][i])
    /\ \A c \in todo[p] : evid[c] # None
IInv == TypeOK /\ FilesSound /\ HardRuleStays /\ WaitingSound

\* A rule that was merged away names a rule that is there: a merge that dies
\* half way leaves a rule too many and never one too few.
MergedIntoARule == \A r \in Rules : Exists(r) /\ disk[r].into # None => Exists(disk[r].into)

\* A correction marked as promoted has its rule: a promotion that dies between
\* the rule and the mark leaves the correction to the next one.
UsedHasItsRule ==
  \A c \in Cands : evid[c] # None /\ evid[c].used # None => Exists(evid[c].used)

\* Promotion makes one rule for a key, however often it dies and is repeated
\* and whatever became of the rule (promoteSessionCandidates).
OneRulePerKey ==
  \A r, s \in Rules :
    Exists(r) /\ Exists(s) /\ disk[r].born = "me" /\ disk[s].born = "me" /\ disk[r].key \in Keys
      => (disk[r].key = disk[s].key => r = s)

Writes(p, r) == Commit(p) /\ Head(jobs[p]).rule = r

\* A rule its user switched off comes back by the user's doing or by a later
\* correction.  Any other write that makes it active writes a copy that was read
\* before the rule was switched off and waited while it was: saveRule compares
\* reasons only when a rule goes off, and takes no lock (rule-store.ts:62-80).
SwitchOn == {"activate", "revive", "unmerge", "promote"}
SuppressedStaysOff ==
  [][\A p \in Procs, r \in Rules :
       Writes(p, r) /\ Exists(r) /\ OffByUser(disk[r]) /\ disk'[r].status = "active"
         => op[p] \in SwitchOn \/ <<r, disk'[r]>> \in outdated]_vars
=============================================================================
