-------------------------- MODULE RuleStoreProofs --------------------------
(***************************************************************************)
(* That no order of commands, corrections, scans, promotions, merges and   *)
(* deaths leaves a rule off without its reason, switches a hard rule off,  *)
(* makes a second rule of a key, or switches on again what its user has    *)
(* switched off, but by a copy from before that which waited meanwhile.    *)
(* The stores take no common lock: what makes it true is that every copy   *)
(* a process is about to write is itself as good as the files (IInv),     *)
(* and of no other rule, key or time than the process believes (RulesKept).*)
(***************************************************************************)
EXTENDS RuleStore, FunctionTheorems, FiniteSetTheorems, TLAPS

-----------------------------------------------------------------------------
(* Jobs *)

\* The jobs that may wait while these rules and corrections exist.
GoodJobs(rules, cands) ==
  {job \in Jobs : /\ job.do \in {"save", "write"} => Sound(job.rule, job.rec)
                  /\ job.do = "sync" => job.rule \in rules
                  /\ job.do = "relook" => job.rule \notin Hard
                  /\ job.do = "mark" => job.cand \in cands}
There == {r \in Rules : Exists(r)}
Made == {c \in Cands : evid[c] # None}
Waiting == jobs \in [Procs -> Seq(GoodJobs(There, Made))] /\ todo \in [Procs -> SUBSET Made]

LEMMA WaitingIsSound ==
  jobs \in [Procs -> Seq(Jobs)] /\ todo \in [Procs -> SUBSET Cands] => (WaitingSound <=> Waiting)
<1> SUFFICES ASSUME jobs \in [Procs -> Seq(Jobs)], todo \in [Procs -> SUBSET Cands]
             PROVE  WaitingSound <=> Waiting
  OBVIOUS
<1>1. ASSUME NEW job \in Jobs PROVE JobSound(job) <=> job \in GoodJobs(There, Made)
  BY DEF JobSound, GoodJobs, There, Made, Jobs
<1>2. ASSUME NEW p \in Procs
      PROVE  (\A i \in DOMAIN jobs[p] : JobSound(jobs[p][i])) <=> jobs[p] \in Seq(GoodJobs(There, Made))
  <2>1. jobs[p] \in Seq(Jobs)
    OBVIOUS
  <2>2. \A i \in DOMAIN jobs[p] : jobs[p][i] \in Jobs
    BY <2>1
  <2> QED BY <1>1, <2>1, <2>2
<1>3. (\A p \in Procs : \A c \in todo[p] : evid[c] # None) <=> todo \in [Procs -> SUBSET Made]
  BY DEF Made
<1> QED BY <1>2, <1>3 DEF WaitingSound, Waiting

\* What exists stays, so what may wait may go on waiting.
LEMMA GoodGrows ==
  ASSUME NEW rules, NEW cands, NEW rules2, NEW cands2, rules \subseteq rules2, cands \subseteq cands2
  PROVE  /\ GoodJobs(rules, cands) \subseteq GoodJobs(rules2, cands2)
         /\ Seq(GoodJobs(rules, cands)) \subseteq Seq(GoodJobs(rules2, cands2))
<1>1. GoodJobs(rules, cands) \subseteq GoodJobs(rules2, cands2)
  BY DEF GoodJobs
<1> QED BY <1>1

LEMMA JobsAreGood ==
  ASSUME NEW rules, NEW cands, NEW r \in Rules
  PROVE  /\ \A rec \in RuleFiles : Sound(r, rec) =>
              Save(r, rec) \in GoodJobs(rules, cands) /\ Write(r, rec) \in GoodJobs(rules, cands)
         /\ Later("log", r) \in GoodJobs(rules, cands)
         /\ r \notin Hard => Later("relook", r) \in GoodJobs(rules, cands)
         /\ r \in rules => Later("sync", r) \in GoodJobs(rules, cands)
         /\ \A c \in Cands : c \in cands => Mark(c, r) \in GoodJobs(rules, cands)
BY DEF GoodJobs, Jobs, Save, Write, Later, Mark

-----------------------------------------------------------------------------
(* Copies *)

\* A copy whose status was changed says so, and is otherwise the rule.
LEMMA ChangedIsSound ==
  ASSUME NEW rec \in RuleFiles, SaysWhyItIsOff(rec), NEW to \in Statuses, NEW by \in Writers, ops \in Nat
  PROVE  LET copy == Changed(rec, to, by)
         IN /\ copy \in RuleFiles /\ SaysWhyItIsOff(copy) /\ copy.status = to
            /\ copy.mode = rec.mode /\ copy.into = rec.into /\ copy.scope = rec.scope
<1>1. CASE rec.status = to
  BY <1>1 DEF Changed
<1>2. CASE rec.status # to
  <2> DEFINE change == [from |-> rec.status, to |-> to, by |-> by, at |-> ops]
             copy == [rec EXCEPT !.status = to, !.history = Append(rec.history, change)]
  <2>1. change \in Changes /\ change.to = to
    BY DEF Changes, RuleFiles
  <2>2. rec.history \in Seq(Changes)
    BY DEF RuleFiles
  <2>3. /\ Append(rec.history, change) \in Seq(Changes) /\ Append(rec.history, change) # <<>>
        /\ Last(Append(rec.history, change)).to = to
    BY <2>1, <2>2 DEF Last
  <2> HIDE DEF change
  <2>4. copy \in RuleFiles /\ copy.status = to /\ copy.mode = rec.mode /\ copy.into = rec.into
        /\ copy.scope = rec.scope /\ copy.history = Append(rec.history, change)
    BY <2>3 DEF RuleFiles
  <2>5. Changed(rec, to, by) = copy
    BY <1>2 DEF Changed, change
  <2> QED BY <2>3, <2>4, <2>5 DEF SaysWhyItIsOff
<1> QED BY <1>1, <1>2

\* A new rule is in force.
LEMMA NewRuleIsSound ==
  ASSUME NEW r \in Rules, NEW scope \in {"me", "session"}, NEW key \in Keys \cup {Merged, None},
         r \in Hard => scope = "me"
  PROVE  NewRule(scope, key) \in RuleFiles /\ Sound(r, NewRule(scope, key))
<1>1. NewRule(scope, key) \in RuleFiles
  BY DEF NewRule, RuleFiles, Statuses
<1>2. None \notin Hard
  BY RuleStoreAssumption
<1> QED BY <1>1, <1>2 DEF NewRule, Sound, SaysWhyItIsOff, InForce

\* The copies that leave the status alone, or set it active.
LEMMA CopiesAreSound ==
  ASSUME NEW r \in Rules, NEW rec \in RuleFiles, Sound(r, rec)
  PROVE  /\ \A mode \in {"block", "advise"} : (mode = "advise" => r \notin Hard) =>
              [rec EXCEPT !.mode = mode] \in RuleFiles /\ Sound(r, [rec EXCEPT !.mode = mode])
         /\ Flagged(rec) \in RuleFiles /\ Sound(r, Flagged(rec))
         /\ [rec EXCEPT !.status = "active"] \in RuleFiles /\ Sound(r, [rec EXCEPT !.status = "active"])
         /\ [rec EXCEPT !.status = "active", !.into = None] \in RuleFiles
         /\ Sound(r, [rec EXCEPT !.status = "active", !.into = None])
<1>1. None \notin Hard
  BY RuleStoreAssumption
<1>2. \A mode \in {"block", "advise"} : (mode = "advise" => r \notin Hard) =>
        [rec EXCEPT !.mode = mode] \in RuleFiles /\ Sound(r, [rec EXCEPT !.mode = mode])
  BY DEF RuleFiles, Sound, SaysWhyItIsOff, InForce
<1>3. Flagged(rec) \in RuleFiles /\ Sound(r, Flagged(rec))
  BY DEF RuleFiles, Sound, SaysWhyItIsOff, InForce, Flagged
<1>4. [rec EXCEPT !.status = "active"] \in RuleFiles /\ Sound(r, [rec EXCEPT !.status = "active"])
  BY DEF RuleFiles, Sound, SaysWhyItIsOff, InForce, Statuses
<1>5. /\ [rec EXCEPT !.status = "active", !.into = None] \in RuleFiles
      /\ Sound(r, [rec EXCEPT !.status = "active", !.into = None])
  BY <1>1 DEF RuleFiles, Sound, SaysWhyItIsOff, InForce, Statuses
<1> QED BY <1>2, <1>3, <1>4, <1>5

\* The copies that switch a rule off, which is then no hard one.
LEMMA OffCopiesAreSound ==
  ASSUME NEW r \in Rules \ Hard, NEW rec \in RuleFiles, Sound(r, rec), ops \in Nat
  PROVE  /\ \A to \in Statuses, by \in Writers :
              Changed(rec, to, by) \in RuleFiles /\ Sound(r, Changed(rec, to, by))
         /\ Retired(rec) \in RuleFiles /\ Sound(r, Retired(rec))
         /\ Superseded(rec) \in RuleFiles /\ Sound(r, Superseded(rec))
         /\ \A m \in Rules \ Hard :
              LET copy == [Changed(rec, "superseded", "cluster") EXCEPT !.into = m]
              IN copy \in RuleFiles /\ Sound(r, copy)
<1>1. ASSUME NEW to \in Statuses, NEW by \in Writers
      PROVE  /\ Changed(rec, to, by) \in RuleFiles /\ SaysWhyItIsOff(Changed(rec, to, by))
             /\ Changed(rec, to, by).into \notin Hard
  BY ChangedIsSound DEF Sound
<1>2. ASSUME NEW copy \in RuleFiles, SaysWhyItIsOff(copy), copy.into \notin Hard
      PROVE  /\ Sound(r, copy)
             /\ \A phase \in {"retired", "superseded"} :
                  [copy EXCEPT !.phase = phase] \in RuleFiles /\ Sound(r, [copy EXCEPT !.phase = phase])
             /\ \A m \in Rules \ Hard :
                  [copy EXCEPT !.into = m] \in RuleFiles /\ Sound(r, [copy EXCEPT !.into = m])
  BY <1>2 DEF Sound, RuleFiles, SaysWhyItIsOff
<1>3. {"superseded", "removed"} \subseteq Statuses /\ {"lifecycle", "cluster"} \subseteq Writers
  BY DEF Statuses, Writers
<1> QED BY <1>1, <1>2, <1>3 DEF Retired, Superseded

-----------------------------------------------------------------------------
(* Beginning an operation *)

LEMMA InitIsOK == Init => IInv
<1> SUFFICES ASSUME Init PROVE IInv
  OBVIOUS
<1>1. PICK known \in Known :
        disk = [r \in Rules |-> IF r \in DOMAIN known THEN NewRule("me", known[r]) ELSE None]
  BY DEF Init
<1>2. \A r \in DOMAIN known : known[r] \in Keys \cup {Merged, None}
  BY RuleStoreAssumption
<1>3. /\ \A r \in DOMAIN known : NewRule("me", known[r]) \in RuleFiles /\ Sound(r, NewRule("me", known[r]))
      /\ Hard \subseteq DOMAIN known /\ DOMAIN known \subseteq Rules
  BY <1>2, NewRuleIsSound, RuleStoreAssumption
<1>4. TypeOK
  <2>1. disk \in [Rules -> RuleFiles \cup {None}]
    BY <1>1, <1>3
  <2>2. evid \in [Cands -> Evidence \cup {None}]
    <3>1. \A c \in DOMAIN Before : [kind |-> "prefer", key |-> Before[c], names |-> None, used |-> None] \in Evidence
      BY RuleStoreAssumption DEF Evidence
    <3> QED BY <3>1 DEF Init
  <2>3. /\ op \in [Procs -> Operations \cup {None}] /\ jobs \in [Procs -> Seq(Jobs)]
        /\ compared \in [Procs -> BOOLEAN] /\ todo \in [Procs -> SUBSET Cands]
        /\ demoted \subseteq Rules /\ ops \in Nat /\ outdated \subseteq Rules \X RuleFiles
    BY DEF Init
  <2> QED BY <2>1, <2>2, <2>3 DEF TypeOK
<1>5. FilesSound /\ HardRuleStays
  <2>1. \A r \in DOMAIN known : disk[r] = NewRule("me", known[r]) /\ disk[r] # None
    BY <1>1, <1>3, RuleStoreAssumption
  <2>2. \A r \in Rules : Exists(r) => r \in DOMAIN known
    BY <1>1 DEF Exists
  <2> QED BY <1>3, <2>1, <2>2 DEF FilesSound, HardRuleStays, Sound, Exists
<1>6. WaitingSound
  BY DEF Init, WaitingSound
<1> QED BY <1>4, <1>5, <1>6 DEF IInv

\* Whatever a step writes, the jobs that then wait have to be good.
LEMMA JobsChange ==
  ASSUME IInv, NEW p \in Procs, NEW list \in Seq(GoodJobs(There', Made')), jobs' = [jobs EXCEPT ![p] = list],
         There \subseteq There', Made \subseteq Made', todo' \in [Procs -> SUBSET Made'],
         disk' \in [Rules -> RuleFiles \cup {None}], evid' \in [Cands -> Evidence \cup {None}],
         demoted' \subseteq Rules, op' \in [Procs -> Operations \cup {None}],
         compared' \in [Procs -> BOOLEAN], ops' \in Nat, outdated' \subseteq Rules \X RuleFiles,
         FilesSound', HardRuleStays'
  PROVE  IInv'
<1> DEFINE Good == GoodJobs(There', Made')
<1>1. jobs \in [Procs -> Seq(GoodJobs(There, Made))]
  BY WaitingIsSound DEF IInv, TypeOK, Waiting
<1>2. Seq(GoodJobs(There, Made)) \subseteq Seq(Good)
  BY GoodGrows
<1>3. Good \subseteq Jobs
  BY DEF GoodJobs
<1> HIDE DEF Good
<1>4. jobs' \in [Procs -> Seq(Good)]
  BY <1>1, <1>2 DEF Good
<1>5. jobs' \in [Procs -> Seq(Jobs)] /\ todo' \in [Procs -> SUBSET Cands]
  <2>1. Seq(Good) \subseteq Seq(Jobs)
    BY <1>3
  <2> QED BY <1>4, <2>1 DEF Made
<1>6. WaitingSound'
  <2>1. (jobs \in [Procs -> Seq(Jobs)] /\ todo \in [Procs -> SUBSET Cands] => (WaitingSound <=> Waiting))'
    BY WaitingIsSound, PTL
  <2> QED BY <1>4, <1>5, <2>1 DEF Waiting, Good
<1> QED BY <1>5, <1>6 DEF IInv, TypeOK

\* An operation that begins has written nothing yet.
LEMMA BeginIsOK ==
  ASSUME IInv, NEW p \in Procs, NEW name \in Operations, NEW list \in Seq(GoodJobs(There, Made')),
         Begin(p, name, list), evid' \in [Cands -> Evidence \cup {None}], Made \subseteq Made',
         todo' \in [Procs -> SUBSET Made']
  PROVE  IInv'
<1>1. There' = There /\ UNCHANGED <<disk, demoted, compared, outdated>> /\ jobs' = [jobs EXCEPT ![p] = list]
  BY DEF There, Exists, Begin
<1>2. /\ disk' \in [Rules -> RuleFiles \cup {None}] /\ demoted' \subseteq Rules
      /\ op' \in [Procs -> Operations \cup {None}] /\ compared' \in [Procs -> BOOLEAN] /\ ops' \in Nat
      /\ outdated' \subseteq Rules \X RuleFiles
  BY <1>1 DEF Begin, IInv, TypeOK
<1>3. FilesSound' /\ HardRuleStays'
  BY <1>1 DEF IInv, FilesSound, HardRuleStays, Exists
<1> QED BY <1>1, <1>2, <1>3, JobsChange

\* What is on disk.
LEMMA FilesAre ==
  ASSUME IInv, NEW r \in Rules, Exists(r)
  PROVE  disk[r] \in RuleFiles /\ Sound(r, disk[r]) /\ r \in There /\ ops \in Nat
BY DEF IInv, TypeOK, FilesSound, Exists, There

LEMMA OneSave ==
  ASSUME IInv, NEW p \in Procs, NEW name \in Operations, NEW r \in Rules, NEW rec \in RuleFiles,
         Sound(r, rec), BeginSave(p, name, r, rec)
  PROVE  IInv'
<1>1. Made' = Made /\ evid' = evid /\ todo' = todo /\ Begin(p, name, <<Save(r, rec)>>)
  BY DEF BeginSave, Made
<1>2. <<Save(r, rec)>> \in Seq(GoodJobs(There, Made'))
  BY JobsAreGood
<1>3. todo \in [Procs -> SUBSET Made] /\ evid \in [Cands -> Evidence \cup {None}]
  BY WaitingIsSound DEF IInv, TypeOK, Waiting
<1> QED BY <1>1, <1>2, <1>3, BeginIsOK

-----------------------------------------------------------------------------
(* The user's commands *)

\* A hard rule is never off, so nothing switches it on; the commands that
\* switch off or soften refuse it.
LEMMA SwitchSteps ==
  ASSUME IInv, NEW p \in Procs, NEW r \in Rules,
         \/ Suppress(p, r) \/ Activate(p, r) \/ RestoreDemoted(p, r) \/ Revive(p, r)
         \/ EnforceMode(p, r, "block") \/ EnforceMode(p, r, "advise") \/ Decay(p, r)
  PROVE  IInv'
<1>1. Exists(r)
  BY DEF Suppress, Activate, RestoreDemoted, Revive, EnforceMode, Decay, Active
<1>2. disk[r] \in RuleFiles /\ Sound(r, disk[r]) /\ ops \in Nat
  BY <1>1, FilesAre
<1>3. {"suppressed", "active"} \subseteq Statuses /\ "cli" \in Writers
      /\ {"suppress", "activate", "mode", "restore", "revive", "decay"} \subseteq Operations
  BY DEF Statuses, Writers, Operations
<1>4. CASE Suppress(p, r)
  BY <1>2, <1>3, <1>4, OffCopiesAreSound, OneSave DEF Suppress
<1>5. CASE Activate(p, r)
  <2>1. r \in Rules \ Hard
    BY <1>2, <1>5 DEF Activate, Sound, InForce
  <2> QED BY <1>2, <1>3, <1>5, <2>1, OffCopiesAreSound, OneSave DEF Activate
<1>6. CASE RestoreDemoted(p, r)
  <2>1. [disk[r] EXCEPT !.mode = "block"] \in RuleFiles /\ Sound(r, [disk[r] EXCEPT !.mode = "block"])
    BY <1>2, CopiesAreSound
  <2> QED BY <1>3, <1>6, <2>1, OneSave DEF RestoreDemoted
<1>7. CASE Revive(p, r)
  <2> DEFINE on == Changed(disk[r], "active", "cli")
             copy == [on EXCEPT !.scope = "me", !.phase = "active", !.into = None]
  <2>1. on \in RuleFiles /\ on.status = "active" /\ on.mode = disk[r].mode
    BY <1>2, <1>3, ChangedIsSound DEF Sound
  <2>2. copy \in RuleFiles /\ copy.status = "active" /\ copy.mode = disk[r].mode /\ copy.into = None
        /\ copy.scope = "me"
    BY <2>1 DEF RuleFiles
  <2>3. Sound(r, copy)
    BY <1>2, <2>2, RuleStoreAssumption DEF Sound, SaysWhyItIsOff, InForce
  <2> QED BY <1>3, <1>7, <2>2, <2>3, OneSave DEF Revive
<1>8. ASSUME NEW mode \in {"block", "advise"}, EnforceMode(p, r, mode) PROVE IInv'
  <2>1. [disk[r] EXCEPT !.mode = mode] \in RuleFiles /\ Sound(r, [disk[r] EXCEPT !.mode = mode])
    BY <1>2, <1>8, CopiesAreSound DEF EnforceMode
  <2> QED BY <1>3, <1>8, <2>1, OneSave DEF EnforceMode
<1>9. CASE Decay(p, r)
  BY <1>2, <1>3, <1>9, OffCopiesAreSound, OneSave DEF Decay
<1> QED BY <1>4, <1>5, <1>6, <1>7, <1>8, <1>9

\* Operations that list more than one job, and leave the corrections alone.
LEMMA ListIsOK ==
  ASSUME IInv, NEW p \in Procs, NEW name \in Operations, NEW list \in Seq(GoodJobs(There, Made)),
         Begin(p, name, list), UNCHANGED <<evid, todo>>
  PROVE  IInv'
<1>1. Made' = Made /\ todo \in [Procs -> SUBSET Made] /\ evid \in [Cands -> Evidence \cup {None}]
  BY WaitingIsSound DEF IInv, TypeOK, Waiting, Made
<1> QED BY <1>1, BeginIsOK

LEMMA NewIdsAreRules == NewIds \subseteq {r \in Rules : ~ Exists(r)}
BY DEF NewIds, Unused

\* Neither the merged rule nor the rules merged into it are hard.
LEMMA MergeStep ==
  ASSUME IInv, NEW p \in Procs, NEW r \in Rules, NEW s \in Rules, NEW m \in Rules, Merge(p, r, s, m)
  PROVE  IInv'
<1> DEFINE Good == GoodJobs(There, Made)
<1>1. /\ disk[r] \in RuleFiles /\ Sound(r, disk[r]) /\ disk[s] \in RuleFiles /\ Sound(s, disk[s])
      /\ r \notin Hard /\ s \notin Hard /\ ops \in Nat
  BY FilesAre DEF Merge, Mergeable, Active
<1>2. m \notin Hard
  <2>1. CASE disk[r].key = Merged
    BY <1>1, <2>1 DEF Merge
  <2>2. CASE disk[r].key # Merged
    BY <2>2, NewIdsAreRules DEF Merge, IInv, HardRuleStays
  <2> QED BY <2>1, <2>2
<1>3. Absorber(m) \in Good
  <2>1. CASE Exists(m)
    BY <2>1, FilesAre, CopiesAreSound, JobsAreGood DEF Absorber
  <2>2. CASE ~ Exists(m)
    BY <2>2, NewRuleIsSound, JobsAreGood DEF Absorber
  <2> QED BY <2>1, <2>2
<1>4. Absorbed(r, m) \in Good /\ Absorbed(s, m) \in Good
  <2> SUFFICES ASSUME NEW x \in {r, s} PROVE Absorbed(x, m) \in Good
    OBVIOUS
  <2>1. x \in Rules \ Hard /\ disk[x] \in RuleFiles /\ Sound(x, disk[x])
    BY <1>1
  <2> DEFINE copy == [Changed(disk[x], "superseded", "cluster") EXCEPT !.into = m]
  <2>2. copy \in RuleFiles /\ Sound(x, copy)
    BY <1>1, <1>2, <2>1, OffCopiesAreSound
  <2> HIDE DEF copy, Good
  <2>3. Save(x, copy) \in Good
    BY <2>1, <2>2, JobsAreGood DEF Good
  <2> QED BY <2>3 DEF Absorbed, copy
<1>5. AbsorbLast(r, s, m) \in Seq(Good)
  <2> HIDE DEF Good
  <2>1. <<Absorber(m)>> \in Seq(Good) /\ <<Absorbed(r, m)>> \in Seq(Good) /\ <<Absorbed(s, m)>> \in Seq(Good)
    BY <1>3, <1>4
  <2>2. (IF r = m THEN <<>> ELSE <<Absorbed(r, m)>>) \in Seq(Good)
    BY <2>1
  <2> QED BY <2>1, <2>2 DEF AbsorbLast
<1>6. "merge" \in Operations /\ Begin(p, "merge", AbsorbLast(r, s, m)) /\ UNCHANGED <<evid, todo>>
  BY DEF Merge, Operations
<1> QED BY <1>5, <1>6, ListIsOK

\* A finite set's elements, in some order.
LEMMA SetToSeqIsSequence ==
  ASSUME NEW S, IsFiniteSet(S)
  PROVE  SetToSeq(S) \in Seq(S)
<1>1. Cardinality(S) \in Nat /\ ExistsBijection(1 .. Cardinality(S), S)
  BY FS_CardinalityType
<1>2. PICK f : f \in Bijection(1 .. Cardinality(S), S)
  BY <1>1, Fun_ExistsBij
<1>3. f \in [1 .. Cardinality(S) -> S] /\ IsInjective(f)
  BY <1>2 DEF Bijection, Injection
<1>4. SetToSeq(S) \in [1 .. Cardinality(S) -> S]
  BY <1>3 DEF SetToSeq
<1> QED BY <1>1, <1>4

LEMMA UnmergeStep ==
  ASSUME IInv, NEW p \in Procs, NEW m \in Rules, Unmerge(p, m) PROVE IInv'
<1> DEFINE originals == {r \in Rules : Exists(r) /\ disk[r].into = m}
           list == SetToSeq(originals)
           Good == GoodJobs(There, Made)
           back == [i \in DOMAIN list |-> Save(list[i], [disk[list[i]] EXCEPT !.status = "active", !.into = None])]
           end == Save(m, Changed(disk[m], "removed", "cluster"))
<1>1. m \notin Hard /\ Exists(m)
  BY FilesAre DEF Unmerge, Sound
<1>2. list \in Seq(originals)
  <2>1. IsFiniteSet(originals)
    BY RuleStoreAssumption, FS_Subset
  <2> QED BY <2>1, SetToSeqIsSequence
<1>3. \A i \in DOMAIN list : list[i] \in Rules /\ Exists(list[i])
  BY <1>2
<1>4. \A i \in DOMAIN list : back[i] \in Good
  <2> SUFFICES ASSUME NEW i \in DOMAIN list PROVE back[i] \in Good
    OBVIOUS
  <2>1. list[i] \in Rules /\ disk[list[i]] \in RuleFiles /\ Sound(list[i], disk[list[i]])
    BY <1>3, FilesAre
  <2> HIDE DEF list
  <2>2. Save(list[i], [disk[list[i]] EXCEPT !.status = "active", !.into = None]) \in Good
    BY <2>1, CopiesAreSound, JobsAreGood
  <2> QED BY <2>2
<1>5. end \in Good
  <2>1. "removed" \in Statuses /\ "cluster" \in Writers
    BY DEF Statuses, Writers
  <2> QED BY <1>1, <2>1, FilesAre, OffCopiesAreSound, JobsAreGood
<1>6. back \o <<end>> \in Seq(Good)
  <2>1. Len(list) \in Nat /\ DOMAIN list = 1 .. Len(list)
    BY <1>2
  <2> HIDE DEF list, Good, end
  <2>2. back \in [1 .. Len(list) -> Good]
    BY <1>4, <2>1
  <2> HIDE DEF back
  <2>3. back \in Seq(Good) /\ <<end>> \in Seq(Good)
    BY <1>5, <2>1, <2>2
  <2> QED BY <2>3
<1>7. "unmerge" \in Operations /\ Begin(p, "unmerge", back \o <<end>>) /\ UNCHANGED <<evid, todo>>
  BY DEF Unmerge, Operations
<1> HIDE DEF back, end
<1> QED BY <1>6, <1>7, ListIsOK

-----------------------------------------------------------------------------
(* Corrections *)

\* A correction touches a hard rule only to flag it, and what it adds is new.
LEMMA CorrectionStep ==
  ASSUME IInv, NEW p \in Procs, NEW c \in Cands, NEW kind \in {"fix", "avoid", "prefer"}, NEW key \in Keys,
         NEW names \in {r \in Rules : Exists(r)} \cup {None}, NEW temp \in NewIds,
         ProcessCorrection(p, c, kind, key, names, temp)
  PROVE  IInv'
<1> DEFINE Good == GoodJobs(There, Made')
           new == IF kind = "prefer" THEN <<>> ELSE <<Save(temp, NewRule("session", key))>>
<1>1. evid' \in [Cands -> Evidence \cup {None}] /\ Made \subseteq Made'
  <2>1. [kind |-> kind, key |-> key, names |-> names, used |-> None] \in Evidence
    BY DEF Evidence
  <2> QED BY <2>1, RuleStoreAssumption DEF ProcessCorrection, IInv, TypeOK, Made
<1>2. T1(kind, names) \in Seq(Good)
  <2>1. CASE names = None \/ ~ Active(names) \/ (names \in Hard /\ kind # "fix")
    BY <2>1 DEF T1
  <2>2. CASE ~ (names = None \/ ~ Active(names) \/ (names \in Hard /\ kind # "fix"))
    <3>1. names \in Rules /\ disk[names] \in RuleFiles /\ Sound(names, disk[names]) /\ ops \in Nat
      BY <2>2, FilesAre
    <3>2. CASE kind = "fix"
      <4>1. Save(names, Flagged(disk[names])) \in Good
        BY <3>1, CopiesAreSound, JobsAreGood
      <4> HIDE DEF Good
      <4>2. T1(kind, names) = <<Save(names, Flagged(disk[names]))>>
        BY <2>2, <3>2 DEF T1
      <4> QED BY <4>1, <4>2
    <3>3. CASE kind = "avoid"
      <4>1. Save(names, Retired(disk[names])) \in Good
        BY <2>2, <3>1, <3>3, OffCopiesAreSound, JobsAreGood
      <4> HIDE DEF Good
      <4>2. T1(kind, names) = <<Save(names, Retired(disk[names]))>>
        BY <2>2, <3>3 DEF T1
      <4> QED BY <4>1, <4>2
    <3>4. CASE kind = "prefer"
      <4>1. Save(names, Superseded(disk[names])) \in Good
        BY <2>2, <3>1, <3>4, OffCopiesAreSound, JobsAreGood
      <4> HIDE DEF Good
      <4>2. T1(kind, names) = <<Save(names, Superseded(disk[names]))>>
        BY <2>2, <3>4 DEF T1
      <4> QED BY <4>1, <4>2
    <3> QED BY <3>2, <3>3, <3>4
  <2> QED BY <2>1, <2>2
<1>3. new \in Seq(Good)
  <2>1. Save(temp, NewRule("session", key)) \in Good
    BY NewIdsAreRules, NewRuleIsSound, JobsAreGood DEF IInv, HardRuleStays
  <2> HIDE DEF Good
  <2> QED BY <2>1
<1>4. T1(kind, names) \o new \in Seq(Good)
  <2> HIDE DEF Good, new
  <2> QED BY <1>2, <1>3
<1>5. /\ "correct" \in Operations /\ Begin(p, "correct", T1(kind, names) \o new)
      /\ todo' \in [Procs -> SUBSET Made']
  BY <1>1, WaitingIsSound DEF ProcessCorrection, Operations, IInv, TypeOK, Waiting
<1> HIDE DEF new
<1> QED BY <1>1, <1>4, <1>5, BeginIsOK

LEMMA BeginPromotionStep ==
  ASSUME IInv, NEW p \in Procs, BeginPromotion(p) PROVE IInv'
<1>1. Made' = Made /\ evid' \in [Cands -> Evidence \cup {None}] /\ "promote" \in Operations
  BY DEF BeginPromotion, Made, IInv, TypeOK, Operations
<1>2. todo' \in [Procs -> SUBSET Made']
  BY <1>1, WaitingIsSound DEF BeginPromotion, Candidates, Made, IInv, TypeOK, Waiting
<1>3. <<>> \in Seq(GoodJobs(There, Made')) /\ Begin(p, "promote", <<>>)
  BY DEF BeginPromotion
<1> QED BY <1>1, <1>2, <1>3, BeginIsOK

-----------------------------------------------------------------------------
(* Automation *)

LEMMA DemoteStep ==
  ASSUME IInv, NEW p \in Procs, NEW r \in Rules, MaybeDemote(p, r) PROVE IInv'
<1> DEFINE Good == GoodJobs(There, Made)
           copy == [disk[r] EXCEPT !.mode = "advise"]
<1>1. copy \in RuleFiles /\ Sound(r, copy)
  BY FilesAre, CopiesAreSound DEF MaybeDemote
<1>2. Save(r, copy) \in Good /\ Later("log", r) \in Good
  BY <1>1, JobsAreGood
<1>3. <<Save(r, copy), Later("log", r)>> \in Seq(Good)
  BY <1>2
<1>4. "demote" \in Operations /\ Begin(p, "demote", <<Save(r, copy), Later("log", r)>>) /\ UNCHANGED <<evid, todo>>
  BY DEF MaybeDemote, Operations
<1> QED BY <1>3, <1>4, ListIsOK

\* The scan writes the rule as it read it, which is as good as it was.
LEMMA ScanStep ==
  ASSUME IInv, NEW p \in Procs, NEW r \in Rules, NEW event \in {"none", "flag", "retire"}, NEW meta \in BOOLEAN,
         Scan(p, r, event, meta)
  PROVE  IInv'
<1> DEFINE Good == GoodJobs(There, Made)
           first == CASE event = "flag" -> <<Save(r, Flagged(disk[r]))>>
                      [] event = "retire" -> <<Save(r, Retired(disk[r]))>>
                      [] event = "none" -> <<>>
           second == IF meta THEN <<Save(r, disk[r])>> ELSE <<>>
<1>1. disk[r] \in RuleFiles /\ Sound(r, disk[r]) /\ r \in There /\ ops \in Nat
  BY FilesAre DEF Scan
<1>2. first \in Seq(Good)
  <2>1. CASE event = "flag"
    <3>1. Save(r, Flagged(disk[r])) \in Good
      BY <1>1, CopiesAreSound, JobsAreGood
    <3> HIDE DEF Good
    <3>2. first = <<Save(r, Flagged(disk[r]))>>
      BY <2>1
    <3> QED BY <3>1, <3>2
  <2>2. CASE event = "retire"
    <3>1. Save(r, Retired(disk[r])) \in Good
      BY <1>1, <2>2, OffCopiesAreSound, JobsAreGood DEF Scan
    <3> HIDE DEF Good
    <3>2. first = <<Save(r, Retired(disk[r]))>>
      BY <2>2
    <3> QED BY <3>1, <3>2
  <2>3. CASE event = "none"
    <3>1. first = <<>>
      BY <2>3
    <3> QED BY <3>1
  <2> QED BY <2>1, <2>2, <2>3
<1>3. second \in Seq(Good) /\ <<Later("sync", r)>> \in Seq(Good)
  <2>1. Save(r, disk[r]) \in Good /\ Later("sync", r) \in Good
    BY <1>1, JobsAreGood
  <2> HIDE DEF Good
  <2> QED BY <2>1
<1>4. first \o second \o <<Later("sync", r)>> \in Seq(Good)
  <2> HIDE DEF Good, first, second
  <2> QED BY <1>2, <1>3
<1>5. /\ "scan" \in Operations /\ Begin(p, "scan", first \o second \o <<Later("sync", r)>>)
      /\ UNCHANGED <<evid, todo>>
  BY DEF Scan, Operations
<1> HIDE DEF first, second
<1> QED BY <1>4, <1>5, ListIsOK

LEMMA CounterAndCleanupSteps ==
  ASSUME IInv, NEW p \in Procs, NEW r \in Rules, MarkInjected(p, r) \/ CleanupSession(p, r) PROVE IInv'
<1>1. CASE MarkInjected(p, r)
  <2>1. Write(r, disk[r]) \in GoodJobs(There, Made)
    BY <1>1, FilesAre, JobsAreGood DEF MarkInjected
  <2>2. "inject" \in Operations /\ Begin(p, "inject", <<Write(r, disk[r])>>) /\ UNCHANGED <<evid, todo>>
    BY <1>1 DEF MarkInjected, Operations
  <2>3. <<Write(r, disk[r])>> \in Seq(GoodJobs(There, Made))
    BY ONLY <2>1
  <2> QED BY <2>2, <2>3, ListIsOK
<1>2. CASE CleanupSession(p, r)
  <2>1. Later("relook", r) \in GoodJobs(There, Made)
    BY <1>2, FilesAre, JobsAreGood DEF CleanupSession, Active, Sound
  <2>2. "cleanup" \in Operations /\ Begin(p, "cleanup", <<Later("relook", r)>>) /\ UNCHANGED <<evid, todo>>
    BY <1>2 DEF CleanupSession, Operations
  <2>3. <<Later("relook", r)>> \in Seq(GoodJobs(There, Made))
    BY ONLY <2>1
  <2> QED BY <2>2, <2>3, ListIsOK
<1> QED BY <1>1, <1>2

-----------------------------------------------------------------------------
(* Making the writes *)

\* The jobs a process has are good, and so is what is left when it has done one.
LEMMA HeadIsGood ==
  ASSUME IInv, NEW p \in Procs
  PROVE  /\ jobs[p] \in Seq(GoodJobs(There, Made))
         /\ jobs[p] # <<>> =>
              Head(jobs[p]) \in GoodJobs(There, Made) /\ Tail(jobs[p]) \in Seq(GoodJobs(There, Made))
         /\ todo \in [Procs -> SUBSET Made]
<1>1. Waiting
  BY WaitingIsSound DEF IInv, TypeOK
<1>2. jobs[p] \in Seq(GoodJobs(There, Made))
  BY <1>1 DEF Waiting
<1> QED BY <1>1, <1>2 DEF Waiting

\* A step that writes nothing to the files.
LEMMA NoWrite ==
  ASSUME IInv, NEW p \in Procs, NEW list \in Seq(GoodJobs(There, Made)), jobs' = [jobs EXCEPT ![p] = list],
         disk' = disk, evid' = evid, demoted' \subseteq Rules, UNCHANGED <<ops, outdated>>, todo' \in [Procs -> SUBSET Made],
         op' = op \/ op' = [op EXCEPT ![p] = None],
         compared' = compared \/ compared' = [compared EXCEPT ![p] = FALSE]
  PROVE  IInv'
<1>1. There' = There /\ Made' = Made
  BY DEF There, Exists, Made
<1>2. /\ disk' \in [Rules -> RuleFiles \cup {None}] /\ evid' \in [Cands -> Evidence \cup {None}] /\ ops' \in Nat
      /\ op' \in [Procs -> Operations \cup {None}] /\ outdated' \subseteq Rules \X RuleFiles
  BY DEF IInv, TypeOK
<1>3. compared' \in [Procs -> BOOLEAN]
  BY DEF IInv, TypeOK
<1>4. FilesSound' /\ HardRuleStays'
  BY DEF IInv, FilesSound, HardRuleStays, Exists
<1> QED BY <1>1, <1>2, <1>3, <1>4, JobsChange

LEMMA DoneIs ==
  ASSUME IInv, NEW p \in Procs, NEW rest, Done(p, rest)
  PROVE  /\ jobs' = [jobs EXCEPT ![p] = rest] /\ compared' = [compared EXCEPT ![p] = FALSE]
         /\ op' = op \/ op' = [op EXCEPT ![p] = None]
         /\ op' \in [Procs -> Operations \cup {None}] /\ compared' \in [Procs -> BOOLEAN]
<1>1. op' = op \/ op' = [op EXCEPT ![p] = None]
  <2>1. CASE rest = <<>> /\ op[p] # "promote"
    BY <2>1 DEF Done
  <2>2. CASE ~ (rest = <<>> /\ op[p] # "promote")
    BY <2>2 DEF Done, IInv, TypeOK
  <2> QED BY <2>1, <2>2
<1>2. op' \in [Procs -> Operations \cup {None}]
  BY <1>1 DEF IInv, TypeOK
<1> QED BY <1>1, <1>2 DEF Done, IInv, TypeOK

\* A correction's promotion writes a copy of the rule it found, or a new rule.
LEMMA PromoteStep ==
  ASSUME IInv, NEW p \in Procs, NEW c \in Cands, Promote(p, c) PROVE IInv'
<1> DEFINE Good == GoodJobs(There, Made)
<1>1. PICK r \in IF Matches(evid[c].key) # {} THEN Found(evid[c].key) ELSE NewIds :
        jobs' = [jobs EXCEPT ![p] = SavedThenMarked(c, r)]
  BY DEF Promote
<1>2. r \in Rules /\ c \in Made
  <2>1. r \in Rules
    <3>1. NewIds \subseteq Rules
      BY NewIdsAreRules
    <3>2. Found(evid[c].key) \subseteq Rules
      BY DEF Found, Matches
    <3> QED BY <3>1, <3>2
  <2> QED BY <2>1, HeadIsGood DEF Promote
<1>3. evid[c] \in Evidence /\ evid[c].key \in Keys
  BY <1>2 DEF Made, IInv, TypeOK, Evidence
<1>4. Promoted(c, r) \in Good
  <2>1. CASE Exists(r)
    BY <1>2, <2>1, FilesAre, CopiesAreSound, JobsAreGood DEF Promoted
  <2>2. CASE ~ Exists(r)
    BY <1>2, <1>3, <2>2, NewRuleIsSound, JobsAreGood DEF Promoted
  <2> QED BY <2>1, <2>2
<1>5. Mark(c, r) \in Good
  BY <1>2, JobsAreGood
<1>6. SavedThenMarked(c, r) \in Seq(Good)
  <2> HIDE DEF Good
  <2> QED BY <1>4, <1>5 DEF SavedThenMarked
<1>7. /\ todo' \in [Procs -> SUBSET Made] /\ UNCHANGED <<disk, evid, demoted, op, compared, ops, outdated>>
      /\ demoted \subseteq Rules
  BY HeadIsGood DEF Promote, IInv, TypeOK
<1> QED BY <1>1, <1>6, <1>7, NoWrite

LEMMA EndingSteps ==
  ASSUME IInv, NEW p \in Procs, EndPromotion(p) \/ Die(p) \/ Compare(p) \/ Refused(p) PROVE IInv'
<1>1. jobs[p] \in Seq(GoodJobs(There, Made)) /\ todo \in [Procs -> SUBSET Made] /\ demoted \subseteq Rules
      /\ <<>> \in Seq(GoodJobs(There, Made)) /\ jobs \in [Procs -> Seq(Jobs)]
  BY HeadIsGood DEF IInv, TypeOK
<1>2. jobs' = jobs => jobs' = [jobs EXCEPT ![p] = jobs[p]]
  BY <1>1
<1>3. CASE EndPromotion(p)
  BY <1>1, <1>2, <1>3, NoWrite DEF EndPromotion
<1>4. CASE Die(p)
  <2>1. todo' \in [Procs -> SUBSET Made]
    BY <1>1, <1>4 DEF Die
  <2> QED BY <1>1, <1>4, <2>1, NoWrite DEF Die
<1>5. CASE Compare(p)
  <2>1. There' = There /\ Made' = Made /\ FilesSound' /\ HardRuleStays'
    BY <1>5 DEF Compare, There, Exists, Made, IInv, FilesSound, HardRuleStays
  <2>2. /\ disk' \in [Rules -> RuleFiles \cup {None}] /\ evid' \in [Cands -> Evidence \cup {None}] /\ ops' \in Nat
        /\ op' \in [Procs -> Operations \cup {None}] /\ outdated' \subseteq Rules \X RuleFiles
    BY <1>5 DEF Compare, IInv, TypeOK
  <2>3. compared' \in [Procs -> BOOLEAN]
    BY <1>5 DEF Compare, IInv, TypeOK
  <2>4. UNCHANGED <<jobs, todo, demoted>>
    BY <1>5 DEF Compare
  <2> QED BY <1>1, <1>2, <2>1, <2>2, <2>3, <2>4, JobsChange
<1>6. CASE Refused(p)
  <2>1. PICK rest \in {Tail(jobs[p]), <<>>} : Done(p, rest)
    BY <1>6 DEF Refused
  <2>2. rest \in Seq(GoodJobs(There, Made))
    BY <1>1, <1>6, <2>1, HeadIsGood DEF Refused, Doing
  <2>3. UNCHANGED <<disk, evid, demoted, todo, ops, outdated>>
    BY <1>6 DEF Refused
  <2> QED BY <1>1, <2>1, <2>2, <2>3, DoneIs, NoWrite
<1> QED BY <1>3, <1>4, <1>5, <1>6

\* What is written is sound, and a hard rule's copy is in force.
\* The active copies of a rule, wherever they wait.
LEMMA CopiesWait ==
  ASSUME IInv, NEW r
  PROVE  /\ Copies(r) \subseteq Jobs
         /\ \A copy \in Copies(r) : copy.do \in {"save", "write"}
         /\ \A q \in Procs : \A i \in DOMAIN jobs[q] :
              /\ jobs[q][i].do \in {"save", "write"} /\ jobs[q][i].rule = r
              /\ jobs[q][i].rec.status = "active"
              => jobs[q][i] \in Copies(r)
<1>1. \A q \in Procs : \A i \in DOMAIN jobs[q] : jobs[q][i] \in Jobs
  BY DEF IInv, TypeOK
<1> QED BY <1>1 DEF Copies, ToSet

LEMMA WriteSteps ==
  ASSUME IInv, NEW p \in Procs, Commit(p) \/ MarkUsed(p) PROVE IInv'
<1> DEFINE job == Head(jobs[p])
<1>1. jobs[p] # <<>> /\ job \in GoodJobs(There, Made) /\ Tail(jobs[p]) \in Seq(GoodJobs(There, Made))
  BY HeadIsGood DEF Commit, MarkUsed, Doing
<1>2. todo \in [Procs -> SUBSET Made]
  BY HeadIsGood
<1>3. CASE Commit(p)
  <2>1. job \in Jobs /\ job.do \in {"save", "write"} /\ Sound(job.rule, job.rec)
    BY <1>1, <1>3 DEF Commit, Doing, GoodJobs
  <2>2. job.rule \in Rules /\ job.rec \in RuleFiles
    BY <2>1 DEF Jobs
  <2>3. /\ disk' = [disk EXCEPT ![job.rule] = job.rec] /\ Done(p, Tail(jobs[p]))
        /\ UNCHANGED <<evid, demoted, todo, ops>>
    BY <1>3 DEF Commit
  <2> HIDE DEF job
  <2>4. /\ disk' \in [Rules -> RuleFiles \cup {None}] /\ disk'[job.rule] = job.rec
        /\ \A r \in Rules \ {job.rule} : disk'[r] = disk[r]
    BY <2>2, <2>3 DEF IInv, TypeOK
  <2>5. job.rec # None
    BY <2>2, RuleStoreAssumption
  <2>6. There \subseteq There' /\ Made' = Made
    BY <2>3, <2>4, <2>5 DEF There, Exists, Made
  <2>7. FilesSound'
    BY <2>1, <2>4 DEF IInv, FilesSound, Exists
  <2>8. HardRuleStays'
    BY <2>1, <2>4, <2>5, RuleStoreAssumption DEF IInv, HardRuleStays, Exists, Sound
  <2>9. Tail(jobs[p]) \in Seq(GoodJobs(There', Made'))
    BY <1>1, <2>6, GoodGrows
  <2>10. evid' \in [Cands -> Evidence \cup {None}] /\ demoted' \subseteq Rules /\ ops' \in Nat
    BY <2>3 DEF IInv, TypeOK
  <2>11. outdated' \subseteq Rules \X RuleFiles
    <3>1. outdated' = outdated \cup Overtaken(job)
      BY <1>3 DEF Commit, job
    <3>2. \A copy \in Copies(job.rule) : copy.rule \in Rules /\ copy.rec \in RuleFiles
      BY CopiesWait DEF Jobs
    <3>3. Overtaken(job) \subseteq Rules \X RuleFiles
      BY <3>2 DEF Overtaken
    <3> QED BY <3>1, <3>3 DEF IInv, TypeOK
  <2> QED BY <1>2, <2>3, <2>4, <2>6, <2>7, <2>8, <2>9, <2>10, <2>11, DoneIs, JobsChange
<1>4. CASE MarkUsed(p)
  <2>1. job \in Jobs /\ job.do = "mark" /\ job.cand \in Made
    BY <1>1, <1>4 DEF MarkUsed, Doing, GoodJobs
  <2>2. job.rule \in Rules /\ job.cand \in Cands
    BY <2>1 DEF Jobs
  <2>3. /\ evid' = [evid EXCEPT ![job.cand].used = job.rule] /\ Done(p, Tail(jobs[p]))
        /\ UNCHANGED <<disk, demoted, todo, ops, outdated>>
    BY <1>4 DEF MarkUsed
  <2> HIDE DEF job
  <2>4. evid[job.cand] \in Evidence
    BY <2>1, <2>2 DEF Made, IInv, TypeOK
  <2> DEFINE marked == [evid[job.cand] EXCEPT !.used = job.rule]
  <2>5. marked \in Evidence /\ marked # None
    BY <2>2, <2>4, RuleStoreAssumption DEF Evidence
  <2>6. evid' = [evid EXCEPT ![job.cand] = marked]
    BY <2>3
  <2> HIDE DEF marked
  <2>7. evid' \in [Cands -> Evidence \cup {None}] /\ There' = There /\ Made \subseteq Made'
    BY <2>2, <2>3, <2>5, <2>6 DEF There, Exists, Made, IInv, TypeOK
  <2>8. FilesSound' /\ HardRuleStays'
    BY <2>3 DEF IInv, FilesSound, HardRuleStays, Exists
  <2>9. Tail(jobs[p]) \in Seq(GoodJobs(There', Made'))
    BY <1>1, <2>7, GoodGrows
  <2>10. disk' \in [Rules -> RuleFiles \cup {None}] /\ demoted' \subseteq Rules /\ ops' \in Nat
         /\ outdated' \subseteq Rules \X RuleFiles
    BY <2>3 DEF IInv, TypeOK
  <2>11. todo' \in [Procs -> SUBSET Made']
    BY <1>2, <2>3, <2>7
  <2> QED BY <2>3, <2>7, <2>8, <2>9, <2>10, <2>11, DoneIs, JobsChange
<1> QED BY <1>3, <1>4

\* What is read again is as good as it was when it was listed.
LEMMA ReadAgainSteps ==
  ASSUME IInv, NEW p \in Procs, LogDemotion(p) \/ SyncCounters(p) \/ Relook(p) PROVE IInv'
<1> DEFINE job == Head(jobs[p])
           Good == GoodJobs(There, Made)
<1>1. jobs[p] # <<>> /\ job \in Good /\ Tail(jobs[p]) \in Seq(Good) /\ todo \in [Procs -> SUBSET Made]
  BY HeadIsGood DEF LogDemotion, SyncCounters, Relook, Doing
<1>2. job.rule \in Rules
  BY <1>1 DEF GoodJobs, Jobs
<1>3. demoted \subseteq Rules /\ <<>> \in Seq(Good)
  BY DEF IInv, TypeOK
<1>4. CASE LogDemotion(p)
  <2>1. /\ demoted' = demoted \cup {job.rule} /\ Done(p, Tail(jobs[p])) /\ UNCHANGED <<disk, evid, todo, ops, outdated>>
    BY <1>4 DEF LogDemotion
  <2>2. demoted' \subseteq Rules
    BY <1>2, <1>3, <2>1
  <2>3. /\ jobs' = [jobs EXCEPT ![p] = Tail(jobs[p])] /\ compared' = [compared EXCEPT ![p] = FALSE]
        /\ op' = op \/ op' = [op EXCEPT ![p] = None]
    BY <2>1, DoneIs
  <2>4. todo' \in [Procs -> SUBSET Made] /\ UNCHANGED <<disk, evid, ops, outdated>>
    BY <1>1, <2>1
  <2> HIDE DEF job, Good
  <2> QED BY <1>1, <2>2, <2>3, <2>4, NoWrite DEF Good
<1>5. CASE SyncCounters(p)
  <2> DEFINE list == <<Write(job.rule, disk[job.rule])>>
  <2>1. jobs' = [jobs EXCEPT ![p] = list] /\ UNCHANGED <<disk, evid, demoted, op, compared, todo, ops, outdated>>
    BY <1>5 DEF SyncCounters
  <2>2. Exists(job.rule)
    BY <1>1, <1>5 DEF SyncCounters, Doing, GoodJobs, There
  <2> HIDE DEF job
  <2>3. Write(job.rule, disk[job.rule]) \in Good
    BY <1>2, <2>2, FilesAre, JobsAreGood
  <2>4. list \in Seq(Good)
    BY ONLY <2>3
  <2> HIDE DEF list
  <2> QED BY <1>1, <1>3, <2>1, <2>4, NoWrite
<1>6. CASE Relook(p)
  <2> DEFINE off == Changed(disk[job.rule], "suppressed", "session-cleanup")
  <2>1. UNCHANGED <<disk, evid, demoted, todo, ops, outdated>>
    BY <1>6 DEF Relook
  <2>2. \/ Active(job.rule) /\ jobs' = [jobs EXCEPT ![p] = <<Save(job.rule, off)>>] /\ UNCHANGED <<op, compared>>
        \/ Done(p, <<>>)
    BY <1>6 DEF Relook
  <2>3. job.rule \in Rules \ Hard
    BY <1>1, <1>2, <1>6 DEF Relook, Doing, GoodJobs
  <2>4. "suppressed" \in Statuses /\ "session-cleanup" \in Writers
    BY DEF Statuses, Writers
  <2>5. CASE Done(p, <<>>)
    BY <1>1, <1>3, <2>1, <2>5, DoneIs, NoWrite
  <2> HIDE DEF job
  <2>6. CASE Active(job.rule) /\ jobs' = [jobs EXCEPT ![p] = <<Save(job.rule, off)>>] /\ UNCHANGED <<op, compared>>
    <3>1. disk[job.rule] \in RuleFiles /\ Sound(job.rule, disk[job.rule]) /\ ops \in Nat
      BY <2>3, <2>6, FilesAre DEF Active
    <3>2. off \in RuleFiles /\ Sound(job.rule, off)
      BY <2>3, <2>4, <3>1, OffCopiesAreSound
    <3> HIDE DEF off
    <3>3. Save(job.rule, off) \in Good
      BY <2>3, <3>2, JobsAreGood
    <3> HIDE DEF Good
    <3>4. <<Save(job.rule, off)>> \in Seq(Good)
      BY <3>3
    <3> QED BY <1>1, <1>3, <2>1, <2>6, <3>4, NoWrite DEF Good
  <2> QED BY <2>2, <2>5, <2>6
<1> QED BY <1>4, <1>5, <1>6

LEMMA StepIsOK == IInv /\ [Next]_vars => IInv'
<1> SUFFICES ASSUME IInv, [Next]_vars PROVE IInv'
  OBVIOUS
<1>1. ASSUME NEW p \in Procs, Command(p) PROVE IInv'
  BY <1>1, SwitchSteps, CorrectionStep, MergeStep, UnmergeStep DEF Command
<1>2. ASSUME NEW p \in Procs, Automation(p) PROVE IInv'
  BY <1>2, BeginPromotionStep, DemoteStep, SwitchSteps, CounterAndCleanupSteps, ScanStep DEF Automation
<1>3. ASSUME NEW p \in Procs, Promotion(p) \/ Writing(p) \/ Die(p) PROVE IInv'
  BY <1>3, PromoteStep, EndingSteps, WriteSteps, ReadAgainSteps DEF Promotion, Writing
<1>4. CASE UNCHANGED vars
  BY <1>4 DEF vars, IInv, TypeOK, FilesSound, HardRuleStays, WaitingSound, JobSound, Exists
<1> QED BY <1>1, <1>2, <1>3, <1>4 DEF Next

\* In every reachable state the files are sound, and so is every copy that
\* waits to be written over one.
THEOREM Invariant == Spec => []IInv
<1> QED BY InitIsOK, StepIsOK, PTL DEF Spec

\* A rule that is off says in its file how it was switched off
\* (withStatusChange).
THEOREM OffRulesAreExplained == Spec => []OffIsExplained
<1>1. IInv => OffIsExplained
  BY DEF IInv, FilesSound, Sound, OffIsExplained
<1> QED BY <1>1, Invariant, PTL

\* A hard rule stays in force, whatever runs and dies.
THEOREM HardRulesStay == Spec => []HardRuleStays
<1> QED BY Invariant, PTL DEF IInv

-----------------------------------------------------------------------------
(* What merged rules and used corrections name is there *)

\* The rules a job takes for granted, and the jobs that can be done while no
\* more than these rules exist.
Needs(job) ==
  CASE job.do = "mark" -> {job.rule}
    [] job.do \in {"save", "write"} -> {job.rec.into} \ {None}
    [] OTHER -> {}
Ready(rules) == {job \in Jobs : Needs(job) \subseteq rules}

\* A list may take for granted what its first job adds.
Adds(job, r) == job.do = "save" /\ job.rule = r /\ job.rec.status = "active"
Backed(list, rules) ==
  \/ list \in Seq(Ready(rules))
  \/ /\ list # <<>> /\ Head(list) \in Ready(rules)
     /\ \E r \in Rules : Adds(Head(list), r) /\ Tail(list) \in Seq(Ready(rules \cup {r}))

NamesThere == MergedIntoARule /\ UsedHasItsRule /\ \A p \in Procs : Backed(jobs[p], There)

LEMMA NeedsAre ==
  ASSUME NEW job \in Jobs
  PROVE  /\ job.do = "mark" => Needs(job) = {job.rule}
         /\ job.do \in {"save", "write"} => Needs(job) = {job.rec.into} \ {None}
         /\ job.do \notin {"mark", "save", "write"} => Needs(job) = {}
<1>1. CASE job.do = "mark"
  BY <1>1 DEF Needs
<1>2. CASE job.do \in {"save", "write"}
  BY <1>2 DEF Needs
<1>3. CASE job.do \notin {"mark", "save", "write"}
  BY <1>3 DEF Needs
<1> QED BY <1>1, <1>2, <1>3

LEMMA ReadyJobs ==
  ASSUME NEW rules, NEW r \in Rules
  PROVE  /\ \A rec \in RuleFiles : rec.into \in rules \cup {None} =>
              Save(r, rec) \in Ready(rules) /\ Write(r, rec) \in Ready(rules)
         /\ Later("log", r) \in Ready(rules) /\ Later("relook", r) \in Ready(rules)
         /\ Later("sync", r) \in Ready(rules)
         /\ r \in rules => \A c \in Cands : Mark(c, r) \in Ready(rules)
<1>1. /\ \A rec \in RuleFiles : Save(r, rec) \in Jobs /\ Write(r, rec) \in Jobs
      /\ Later("log", r) \in Jobs /\ Later("relook", r) \in Jobs /\ Later("sync", r) \in Jobs
      /\ \A c \in Cands : Mark(c, r) \in Jobs
  BY DEF Jobs, Save, Write, Later, Mark
<1>2. /\ \A rec : Save(r, rec).do = "save" /\ Save(r, rec).rec = rec
      /\ \A rec : Write(r, rec).do = "write" /\ Write(r, rec).rec = rec
      /\ \A what : Later(what, r).do = what
      /\ \A c : Mark(c, r).do = "mark" /\ Mark(c, r).rule = r
  BY DEF Save, Write, Later, Mark
<1> QED BY <1>1, <1>2, NeedsAre DEF Ready

LEMMA ReadyGrows ==
  ASSUME NEW rules, NEW rules2, rules \subseteq rules2
  PROVE  /\ Ready(rules) \subseteq Ready(rules2) /\ Seq(Ready(rules)) \subseteq Seq(Ready(rules2))
         /\ \A list : Backed(list, rules) => Backed(list, rules2)
<1>1. ASSUME NEW a, NEW b, a \subseteq b PROVE Ready(a) \subseteq Ready(b) /\ Seq(Ready(a)) \subseteq Seq(Ready(b))
  <2>1. Ready(a) \subseteq Ready(b)
    BY <1>1 DEF Ready
  <2> QED BY <2>1
<1>2. \A r : Seq(Ready(rules \cup {r})) \subseteq Seq(Ready(rules2 \cup {r}))
  <2> TAKE r
  <2>1. rules \cup {r} \subseteq rules2 \cup {r}
    OBVIOUS
  <2> QED BY <1>1, <2>1
<1>3. Ready(rules) \subseteq Ready(rules2) /\ Seq(Ready(rules)) \subseteq Seq(Ready(rules2))
  BY <1>1
<1> QED BY <1>2, <1>3 DEF Backed

LEMMA NamesStay ==
  ASSUME IInv, NamesThere, NEW p \in Procs, NEW list, jobs' = [jobs EXCEPT ![p] = list], There \subseteq There',
         Backed(list, There'), MergedIntoARule', UsedHasItsRule'
  PROVE  NamesThere'
<1>1. \A q \in Procs : Backed(jobs'[q], There')
  BY ReadyGrows DEF NamesThere, IInv, TypeOK
<1> QED BY <1>1 DEF NamesThere

\* Copies name what the rule names.
LEMMA IntoStays ==
  ASSUME NEW rec \in RuleFiles, SaysWhyItIsOff(rec), ops \in Nat
  PROVE  /\ \A to \in Statuses, by \in Writers : Changed(rec, to, by).into = rec.into /\ Changed(rec, to, by) \in RuleFiles
         /\ Retired(rec).into = rec.into /\ Superseded(rec).into = rec.into /\ Flagged(rec).into = rec.into
<1>1. \A to \in Statuses, by \in Writers : Changed(rec, to, by).into = rec.into /\ Changed(rec, to, by) \in RuleFiles
  BY ChangedIsSound
<1>2. {"superseded", "removed"} \subseteq Statuses /\ "lifecycle" \in Writers
  BY DEF Statuses, Writers
<1>3. \A copy \in RuleFiles : \A phase : [copy EXCEPT !.phase = phase].into = copy.into
  BY DEF RuleFiles
<1> QED BY <1>1, <1>2, <1>3 DEF Retired, Superseded, Flagged

\* An operation that begins with jobs that are ready, or add what they need.
LEMMA BeginNames ==
  ASSUME IInv, NamesThere, NEW p \in Procs, NEW name, NEW list, Begin(p, name, list), Backed(list, There),
         \/ evid' = evid
         \/ \E c \in Cands : \E new : evid[c] = None /\ new.used = None /\ evid' = [evid EXCEPT ![c] = new]
  PROVE  NamesThere'
<1>1. There' = There /\ disk' = disk /\ jobs' = [jobs EXCEPT ![p] = list]
  BY DEF Begin, There, Exists
<1>2. MergedIntoARule'
  BY <1>1 DEF NamesThere, MergedIntoARule, Exists
<1>3. UsedHasItsRule'
  <2>1. CASE evid' = evid
    BY <1>1, <2>1 DEF NamesThere, UsedHasItsRule, Exists
  <2>2. ASSUME NEW c \in Cands, NEW new, new.used = None, evid' = [evid EXCEPT ![c] = new]
        PROVE  UsedHasItsRule'
    BY <1>1, <2>2 DEF NamesThere, UsedHasItsRule, Exists, IInv, TypeOK
  <2> QED BY <2>1, <2>2
<1> QED BY <1>1, <1>2, <1>3, NamesStay

\* The copy of a rule names what the rule names, which is there, or nothing.
LEMMA CopyIsReady ==
  ASSUME IInv, NamesThere, NEW r \in Rules, Exists(r)
  PROVE  /\ disk[r] \in RuleFiles /\ SaysWhyItIsOff(disk[r]) /\ ops \in Nat
         /\ disk[r].into \in There \cup {None}
         /\ \A x \in Rules, rec \in RuleFiles : rec.into \in {disk[r].into, None} =>
              Save(x, rec) \in Ready(There) /\ Write(x, rec) \in Ready(There)
<1>1. disk[r] \in RuleFiles /\ SaysWhyItIsOff(disk[r]) /\ ops \in Nat
  BY FilesAre DEF Sound
<1>2. disk[r].into \in There \cup {None}
  BY <1>1 DEF NamesThere, MergedIntoARule, There, RuleFiles
<1> QED BY <1>1, <1>2, ReadyJobs

LEMMA OneSaveNames ==
  ASSUME IInv, NamesThere, NEW p \in Procs, NEW name, NEW r \in Rules, Exists(r), NEW rec \in RuleFiles,
         rec.into \in {disk[r].into, None}, BeginSave(p, name, r, rec)
  PROVE  NamesThere'
<1>1. Save(r, rec) \in Ready(There)
  BY CopyIsReady
<1>2. Backed(<<Save(r, rec)>>, There)
  BY <1>1 DEF Backed
<1> QED BY <1>2, BeginNames DEF BeginSave

LEMMA SwitchNames ==
  ASSUME IInv, NamesThere, NEW p \in Procs, NEW r \in Rules,
         \/ Suppress(p, r) \/ Activate(p, r) \/ RestoreDemoted(p, r) \/ Revive(p, r)
         \/ EnforceMode(p, r, "block") \/ EnforceMode(p, r, "advise") \/ Decay(p, r)
  PROVE  NamesThere'
<1>1. Exists(r)
  BY DEF Suppress, Activate, RestoreDemoted, Revive, EnforceMode, Decay, Active
<1>2. disk[r] \in RuleFiles /\ SaysWhyItIsOff(disk[r]) /\ Sound(r, disk[r]) /\ ops \in Nat
  BY <1>1, CopyIsReady, FilesAre
<1>3. {"suppressed", "active"} \subseteq Statuses /\ "cli" \in Writers
  BY DEF Statuses, Writers
<1>4. CASE Suppress(p, r)
  BY <1>1, <1>2, <1>3, <1>4, IntoStays, OneSaveNames DEF Suppress
<1>5. CASE Activate(p, r)
  BY <1>1, <1>2, <1>3, <1>5, IntoStays, OneSaveNames DEF Activate
<1>6. ASSUME NEW mode \in {"block", "advise"} PROVE [disk[r] EXCEPT !.mode = mode] \in RuleFiles
                                                    /\ [disk[r] EXCEPT !.mode = mode].into = disk[r].into
  BY <1>2 DEF RuleFiles
<1>7. CASE RestoreDemoted(p, r)
  BY <1>1, <1>6, <1>7, OneSaveNames DEF RestoreDemoted
<1>8. ASSUME NEW mode \in {"block", "advise"}, EnforceMode(p, r, mode) PROVE NamesThere'
  BY <1>1, <1>6, <1>8, OneSaveNames DEF EnforceMode
<1>9. CASE Revive(p, r)
  <2> DEFINE on == Changed(disk[r], "active", "cli")
             copy == [on EXCEPT !.scope = "me", !.phase = "active", !.into = None]
  <2>1. on \in RuleFiles
    BY <1>2, <1>3, IntoStays
  <2>2. copy \in RuleFiles /\ copy.into = None
    BY <2>1 DEF RuleFiles
  <2> QED BY <1>1, <1>9, <2>2, OneSaveNames DEF Revive
<1>10. CASE Decay(p, r)
  <2>1. Retired(disk[r]) \in RuleFiles /\ Retired(disk[r]).into = disk[r].into
    BY <1>2, <1>10, IntoStays, OffCopiesAreSound DEF Decay
  <2> QED BY <1>1, <1>10, <2>1, OneSaveNames DEF Decay
<1> QED BY <1>4, <1>5, <1>7, <1>8, <1>9, <1>10

\* The merged rule is written before the rules that name it.
LEMMA MergeNames ==
  ASSUME IInv, NamesThere, NEW p \in Procs, NEW r \in Rules, NEW s \in Rules, NEW m \in Rules, Merge(p, r, s, m)
  PROVE  NamesThere'
<1> DEFINE more == There \cup {m}
<1>1. Exists(r) /\ Exists(s) /\ Begin(p, "merge", AbsorbLast(r, s, m)) /\ evid' = evid
  BY DEF Merge, Mergeable, Active
<1>2. Absorber(m) \in Ready(There) /\ Adds(Absorber(m), m)
  <2>1. CASE Exists(m)
    <3> DEFINE copy == [disk[m] EXCEPT !.status = "active", !.into = None]
    <3>1. copy \in RuleFiles /\ copy.into = None /\ copy.status = "active"
      BY <2>1, CopyIsReady DEF RuleFiles, Statuses
    <3>2. Absorber(m) = Save(m, copy)
      BY <2>1 DEF Absorber
    <3> HIDE DEF copy
    <3>3. Save(m, copy) \in Ready(There)
      BY <2>1, <3>1, CopyIsReady
    <3> QED BY <3>1, <3>2, <3>3 DEF Adds, Save
  <2>2. CASE ~ Exists(m)
    <3> DEFINE copy == NewRule("me", Merged)
    <3>1. copy \in RuleFiles /\ copy.into = None /\ copy.status = "active"
      BY DEF NewRule, RuleFiles, Statuses
    <3>2. Absorber(m) = Save(m, copy)
      BY <2>2 DEF Absorber
    <3> HIDE DEF copy
    <3>3. Save(m, copy) \in Ready(There)
      BY <3>1, ReadyJobs
    <3> QED BY <3>1, <3>2, <3>3 DEF Adds, Save
  <2> QED BY <2>1, <2>2
<1>3. ASSUME NEW x \in {r, s} PROVE Absorbed(x, m) \in Ready(more)
  <2> DEFINE off == Changed(disk[x], "superseded", "cluster")
             copy == [off EXCEPT !.into = m]
  <2>1. off \in RuleFiles
    <3>1. "superseded" \in Statuses /\ "cluster" \in Writers
      BY DEF Statuses, Writers
    <3> QED BY <1>1, <3>1, CopyIsReady, IntoStays
  <2>2. copy \in RuleFiles /\ copy.into = m
    BY <2>1 DEF RuleFiles
  <2>3. Absorbed(x, m) = Save(x, copy)
    BY DEF Absorbed
  <2> HIDE DEF copy
  <2>4. m \in more /\ copy.into \in more \cup {None}
    BY <2>2
  <2> HIDE DEF more
  <2> QED BY <2>2, <2>3, <2>4, ReadyJobs
<1>4. Backed(AbsorbLast(r, s, m), There)
  <2> DEFINE rest == (IF r = m THEN <<>> ELSE <<Absorbed(r, m)>>) \o <<Absorbed(s, m)>>
  <2>1. <<Absorbed(r, m)>> \in Seq(Ready(more)) /\ <<Absorbed(s, m)>> \in Seq(Ready(more))
    BY <1>3
  <2>2. rest \in Seq(Ready(more))
    <3> HIDE DEF more
    <3>1. (IF r = m THEN <<>> ELSE <<Absorbed(r, m)>>) \in Seq(Ready(more))
      BY ONLY <2>1
    <3> QED BY <2>1, <3>1
  <2>3. AbsorbLast(r, s, m) = <<Absorber(m)>> \o rest
    BY <2>1, <2>2 DEF AbsorbLast
  <2>5. Len(rest) \in Nat /\ rest \in Seq(Ready(more)) /\ Absorber(m) \in Jobs
    BY <1>2, <2>2 DEF Ready
  <2> HIDE DEF rest
  <2>4. /\ AbsorbLast(r, s, m) # <<>> /\ Head(AbsorbLast(r, s, m)) = Absorber(m)
        /\ Tail(AbsorbLast(r, s, m)) = rest
    BY <2>2, <2>3
  <2> QED BY <1>2, <2>2, <2>4 DEF Backed
<1> QED BY <1>1, <1>4, BeginNames

LEMMA UnmergeNames ==
  ASSUME IInv, NamesThere, NEW p \in Procs, NEW m \in Rules, Unmerge(p, m) PROVE NamesThere'
<1> DEFINE originals == {r \in Rules : Exists(r) /\ disk[r].into = m}
           list == SetToSeq(originals)
           copy(r) == [disk[r] EXCEPT !.status = "active", !.into = None]
           back == [i \in DOMAIN list |-> Save(list[i], copy(list[i]))]
           end == Save(m, Changed(disk[m], "removed", "cluster"))
<1>1. list \in Seq(originals)
  <2>1. IsFiniteSet(originals)
    BY RuleStoreAssumption, FS_Subset
  <2> QED BY <2>1, SetToSeqIsSequence
<1>2. ASSUME NEW r \in originals PROVE Save(r, copy(r)) \in Ready(There)
  <2>1. copy(r) \in RuleFiles /\ copy(r).into = None
    BY CopyIsReady DEF RuleFiles, Statuses
  <2>2. r \in Rules /\ Exists(r)
    OBVIOUS
  <2> HIDE DEF copy, originals
  <2> QED BY <2>1, <2>2, CopyIsReady
<1>3. end \in Ready(There)
  <2>1. "removed" \in Statuses /\ "cluster" \in Writers
    BY DEF Statuses, Writers
  <2>2. Exists(m) /\ disk[m] \in RuleFiles /\ SaysWhyItIsOff(disk[m]) /\ ops \in Nat
    BY CopyIsReady DEF Unmerge
  <2> DEFINE off == Changed(disk[m], "removed", "cluster")
  <2>3. off \in RuleFiles /\ off.into = disk[m].into
    BY <2>1, <2>2, IntoStays
  <2> HIDE DEF off
  <2>4. Save(m, off) \in Ready(There)
    BY <2>2, <2>3, CopyIsReady
  <2> QED BY <2>4 DEF off
<1>4. back \o <<end>> \in Seq(Ready(There))
  <2> HIDE DEF end, list, copy, originals
  <2>1. Len(list) \in Nat /\ DOMAIN list = 1 .. Len(list) /\ \A i \in DOMAIN list : list[i] \in originals
    BY <1>1
  <2>2. back \in [1 .. Len(list) -> Ready(There)]
    BY <1>2, <2>1
  <2> HIDE DEF back
  <2>3. back \in Seq(Ready(There)) /\ <<end>> \in Seq(Ready(There))
    BY <1>3, <2>1, <2>2
  <2> QED BY <2>3
<1>5. Begin(p, "unmerge", back \o <<end>>) /\ evid' = evid
  BY DEF Unmerge
<1> HIDE DEF back, end
<1> QED BY <1>4, <1>5, BeginNames DEF Backed

LEMMA CorrectionNames ==
  ASSUME IInv, NamesThere, NEW p \in Procs, NEW c \in Cands, NEW kind \in {"fix", "avoid", "prefer"}, NEW key \in Keys,
         NEW names \in {r \in Rules : Exists(r)} \cup {None}, NEW temp \in NewIds,
         ProcessCorrection(p, c, kind, key, names, temp)
  PROVE  NamesThere'
<1> DEFINE new == IF kind = "prefer" THEN <<>> ELSE <<Save(temp, NewRule("session", key))>>
<1>1. T1(kind, names) \in Seq(Ready(There))
  <2>1. CASE names = None \/ ~ Active(names) \/ (names \in Hard /\ kind # "fix")
    BY <2>1 DEF T1
  <2>2. CASE ~ (names = None \/ ~ Active(names) \/ (names \in Hard /\ kind # "fix"))
    <3>1. PICK copy \in {Flagged(disk[names]), Retired(disk[names]), Superseded(disk[names])} :
            /\ T1(kind, names) = <<Save(names, copy)>>
            /\ kind = "fix" => copy = Flagged(disk[names])
      <4>1. CASE kind = "fix"
        BY <2>2, <4>1 DEF T1
      <4>2. CASE kind = "avoid"
        BY <2>2, <4>2 DEF T1
      <4>3. CASE kind = "prefer"
        BY <2>2, <4>3 DEF T1
      <4> QED BY <4>1, <4>2, <4>3
    <3>2. /\ names \in Rules /\ Exists(names) /\ disk[names] \in RuleFiles /\ SaysWhyItIsOff(disk[names])
          /\ Sound(names, disk[names]) /\ ops \in Nat
      BY <2>2, FilesAre, CopyIsReady
    <3>3. copy \in RuleFiles /\ copy.into = disk[names].into
      <4>1. copy.into = disk[names].into
        BY <3>2, IntoStays
      <4>2. copy \in RuleFiles
        BY <2>2, <3>1, <3>2, CopiesAreSound, OffCopiesAreSound
      <4> QED BY <4>1, <4>2
    <3>4. Save(names, copy) \in Ready(There)
      BY <3>2, <3>3, CopyIsReady
    <3> QED BY <3>1, <3>4
  <2> QED BY <2>1, <2>2
<1>2. new \in Seq(Ready(There))
  <2>1. NewRule("session", key) \in RuleFiles /\ NewRule("session", key).into = None
    BY DEF NewRule, RuleFiles, Statuses
  <2>2. Save(temp, NewRule("session", key)) \in Ready(There)
    BY <2>1, NewIdsAreRules, ReadyJobs
  <2> QED BY <2>2
<1>3. T1(kind, names) \o new \in Seq(Ready(There))
  <2> HIDE DEF new
  <2> QED BY <1>1, <1>2
<1>4. /\ Begin(p, "correct", T1(kind, names) \o new) /\ evid[c] = None
      /\ \E rec : rec.used = None /\ evid' = [evid EXCEPT ![c] = rec]
  <2>1. [kind |-> kind, key |-> key, names |-> names, used |-> None].used = None
    OBVIOUS
  <2> QED BY <2>1 DEF ProcessCorrection
<1> HIDE DEF new
<1> QED BY <1>3, <1>4, BeginNames DEF Backed

LEMMA AutomationNames ==
  ASSUME IInv, NamesThere, NEW p \in Procs, Automation(p) PROVE NamesThere'
<1>1. CASE BeginPromotion(p)
  <2>1. Backed(<<>>, There)
    BY DEF Backed
  <2> QED BY <1>1, <2>1, BeginNames DEF BeginPromotion
<1>2. ASSUME NEW r \in Rules, MaybeDemote(p, r) PROVE NamesThere'
  <2> DEFINE copy == [disk[r] EXCEPT !.mode = "advise"]
  <2>1. Exists(r) /\ Begin(p, "demote", <<Save(r, copy), Later("log", r)>>) /\ evid' = evid
    BY <1>2 DEF MaybeDemote
  <2>2. copy \in RuleFiles /\ copy.into = disk[r].into
    BY <2>1, CopyIsReady DEF RuleFiles
  <2> HIDE DEF copy
  <2>3. Save(r, copy) \in Ready(There) /\ Later("log", r) \in Ready(There)
    BY <2>1, <2>2, CopyIsReady, ReadyJobs
  <2>4. <<Save(r, copy), Later("log", r)>> \in Seq(Ready(There))
    BY <2>3
  <2> QED BY <2>1, <2>4, BeginNames DEF Backed
<1>3. ASSUME NEW r \in Rules, Decay(p, r) PROVE NamesThere'
  BY <1>3, SwitchNames
<1>4. ASSUME NEW r \in Rules, MarkInjected(p, r) \/ CleanupSession(p, r) PROVE NamesThere'
  <2>1. PICK name \in {"inject", "cleanup"}, job \in Ready(There) : Begin(p, name, <<job>>) /\ evid' = evid
    <3>1. CASE MarkInjected(p, r)
      <4>1. Exists(r) /\ Begin(p, "inject", <<Write(r, disk[r])>>) /\ evid' = evid
        BY <3>1 DEF MarkInjected
      <4>2. Write(r, disk[r]) \in Ready(There)
        BY <4>1, CopyIsReady
      <4> QED BY <4>1, <4>2
    <3>2. CASE CleanupSession(p, r)
      <4>1. Begin(p, "cleanup", <<Later("relook", r)>>) /\ evid' = evid
        BY <3>2 DEF CleanupSession
      <4>2. Later("relook", r) \in Ready(There)
        BY ReadyJobs
      <4> QED BY <4>1, <4>2
    <3> QED BY <1>4, <3>1, <3>2
  <2>2. Backed(<<job>>, There)
    BY DEF Backed
  <2> QED BY <2>1, <2>2, BeginNames
<1>5. ASSUME NEW r \in Rules, NEW event \in {"none", "flag", "retire"}, NEW meta \in BOOLEAN,
             Scan(p, r, event, meta)
      PROVE  NamesThere'
  <2> DEFINE first == CASE event = "flag" -> <<Save(r, Flagged(disk[r]))>>
                        [] event = "retire" -> <<Save(r, Retired(disk[r]))>>
                        [] event = "none" -> <<>>
             second == IF meta THEN <<Save(r, disk[r])>> ELSE <<>>
  <2>1. /\ Exists(r) /\ disk[r] \in RuleFiles /\ SaysWhyItIsOff(disk[r]) /\ Sound(r, disk[r]) /\ ops \in Nat
    BY <1>5, CopyIsReady, FilesAre DEF Scan
  <2>2. first \in Seq(Ready(There))
    <3>1. CASE event = "flag"
      <4>1. Flagged(disk[r]) \in RuleFiles /\ Flagged(disk[r]).into = disk[r].into
        BY <2>1, IntoStays, CopiesAreSound
      <4>2. Save(r, Flagged(disk[r])) \in Ready(There)
        BY <2>1, <4>1, CopyIsReady
      <4>3. first = <<Save(r, Flagged(disk[r]))>>
        BY <3>1
      <4> HIDE DEF first
      <4> QED BY <4>2, <4>3
    <3>2. CASE event = "retire"
      <4>1. Retired(disk[r]) \in RuleFiles /\ Retired(disk[r]).into = disk[r].into
        BY <1>5, <2>1, <3>2, IntoStays, OffCopiesAreSound DEF Scan
      <4>2. Save(r, Retired(disk[r])) \in Ready(There)
        BY <2>1, <4>1, CopyIsReady
      <4>3. first = <<Save(r, Retired(disk[r]))>>
        BY <3>2
      <4> HIDE DEF first
      <4> QED BY <4>2, <4>3
    <3>3. CASE event = "none"
      <4>1. first = <<>>
        BY <3>3
      <4> QED BY <4>1
    <3> QED BY <3>1, <3>2, <3>3
  <2>3. second \in Seq(Ready(There)) /\ <<Later("sync", r)>> \in Seq(Ready(There))
    <3>1. Save(r, disk[r]) \in Ready(There) /\ Later("sync", r) \in Ready(There)
      BY <2>1, CopyIsReady, ReadyJobs
    <3> QED BY <3>1
  <2>4. first \o second \o <<Later("sync", r)>> \in Seq(Ready(There))
    <3> HIDE DEF first, second
    <3> QED BY <2>2, <2>3
  <2>5. Begin(p, "scan", first \o second \o <<Later("sync", r)>>) /\ evid' = evid
    BY <1>5 DEF Scan
  <2> HIDE DEF first, second
  <2> QED BY <2>4, <2>5, BeginNames DEF Backed
<1> QED BY <1>1, <1>2, <1>3, <1>4, <1>5 DEF Automation

\* What is written names what is there, and adds what the next jobs need.
LEMMA CommitNames ==
  ASSUME IInv, IInv', NamesThere, NEW p \in Procs, Commit(p) PROVE NamesThere'
<1> DEFINE job == Head(jobs[p])
           rest == Tail(jobs[p])
<1>1. /\ jobs[p] \in Seq(Jobs) /\ jobs[p] # <<>> /\ job \in Jobs /\ job.do \in {"save", "write"}
      /\ disk' = [disk EXCEPT ![job.rule] = job.rec] /\ evid' = evid /\ Backed(jobs[p], There)
  BY DEF Commit, Doing, IInv, TypeOK, NamesThere
<1>2. jobs' = [jobs EXCEPT ![p] = rest]
  BY DoneIs DEF Commit
<1>3. job.rule \in Rules /\ job.rec \in RuleFiles
  BY <1>1 DEF Jobs
<1>4. job \in Ready(There)
  BY <1>1 DEF Backed
<1> HIDE DEF job, rest
<1>5. /\ disk'[job.rule] = job.rec /\ job.rec # None /\ \A r \in Rules \ {job.rule} : disk'[r] = disk[r]
  BY <1>1, <1>3, RuleStoreAssumption DEF IInv, TypeOK
<1>6. There' = There \cup {job.rule}
  BY <1>3, <1>5 DEF There, Exists
<1>7. Backed(rest, There')
  <2>1. CASE jobs[p] \in Seq(Ready(There))
    <3>1. rest \in Seq(Ready(There))
      BY <1>1, <2>1 DEF rest
    <3>2. Seq(Ready(There)) \subseteq Seq(Ready(There'))
      BY <1>6, ReadyGrows
    <3> QED BY <3>1, <3>2 DEF Backed
  <2>2. ASSUME NEW r \in Rules, Adds(job, r), rest \in Seq(Ready(There \cup {r})) PROVE Backed(rest, There')
    BY <1>6, <2>2 DEF Backed, Adds
  <2> QED BY <1>1, <2>1, <2>2 DEF Backed, job, rest
<1>8. MergedIntoARule'
  <2>1. job.rec.into \in There \cup {None}
    BY <1>1, <1>4, NeedsAre DEF Ready
  <2> SUFFICES ASSUME NEW r \in Rules, disk'[r] # None, disk'[r].into # None PROVE disk'[r].into \in There'
    BY DEF MergedIntoARule, Exists, There
  <2>2. CASE r = job.rule
    BY <1>5, <1>6, <2>1, <2>2
  <2>3. CASE r # job.rule
    <3>1. disk'[r] = disk[r] /\ Exists(r)
      BY <1>5, <2>3 DEF Exists
    <3>2. disk[r].into \in There \cup {None}
      BY <3>1, CopyIsReady
    <3> QED BY <1>6, <3>1, <3>2
  <2> QED BY <2>2, <2>3
<1>9. UsedHasItsRule'
  BY <1>1, <1>5 DEF NamesThere, UsedHasItsRule, Exists, IInv, TypeOK
<1> QED BY <1>2, <1>6, <1>7, <1>8, <1>9, NamesStay

\* The other steps of the writers add no rule.
LEMMA WritingNames ==
  ASSUME IInv, IInv', NamesThere, NEW p \in Procs,
         \/ Compare(p) \/ Refused(p) \/ MarkUsed(p) \/ LogDemotion(p) \/ SyncCounters(p) \/ Relook(p)
         \/ EndPromotion(p) \/ Die(p) \/ \E c \in Cands : Promote(p, c)
  PROVE  NamesThere'
<1> DEFINE job == Head(jobs[p])
           rest == Tail(jobs[p])
<1>1. /\ disk' = disk /\ There' = There /\ MergedIntoARule'
  <2>1. disk' = disk
    BY DEF Compare, Refused, MarkUsed, LogDemotion, SyncCounters, Relook, EndPromotion, Die, Promote
  <2> QED BY <2>1 DEF There, Exists, NamesThere, MergedIntoARule
<1>2. jobs[p] \in Seq(Jobs) /\ Backed(jobs[p], There) /\ Backed(<<>>, There)
  <2>1. jobs[p] \in Seq(Jobs) /\ Backed(jobs[p], There)
    BY DEF NamesThere, IInv, TypeOK
  <2>2. Backed(<<>>, There)
    BY DEF Backed
  <2> QED BY <2>1, <2>2
<1>3. jobs[p] # <<>> => job \in Jobs /\ job \in Ready(There) /\ job.rule \in Rules
  BY <1>2 DEF Backed, Jobs
<1>4. evid' = evid => UsedHasItsRule'
  BY <1>1 DEF NamesThere, UsedHasItsRule, Exists
<1>5. jobs[p] # <<>> /\ ~ (\E r \in Rules : Adds(job, r)) => Backed(rest, There)
  <2> SUFFICES ASSUME jobs[p] # <<>>, ~ (\E r \in Rules : Adds(job, r)) PROVE rest \in Seq(Ready(There))
    BY DEF Backed
  <2>1. jobs[p] \in Seq(Ready(There))
    BY <1>2 DEF Backed
  <2> QED BY ONLY <2>1, jobs[p] # <<>>
<1>6. CASE Compare(p) \/ EndPromotion(p)
  <2>1. jobs' = [jobs EXCEPT ![p] = jobs[p]] /\ evid' = evid
    BY <1>6 DEF Compare, EndPromotion, IInv, TypeOK
  <2> QED BY <1>1, <1>2, <1>4, <2>1, NamesStay
<1>7. CASE Die(p)
  BY <1>1, <1>2, <1>4, <1>7, NamesStay DEF Die
<1>8. CASE Refused(p)
  <2>1. evid' = evid /\ jobs[p] # <<>> /\ job.rec.status # "active"
    BY <1>8 DEF Refused, Refuses, Doing
  <2>2. Backed(rest, There)
    BY <1>5, <2>1 DEF Adds
  <2>3. jobs' = [jobs EXCEPT ![p] = rest] \/ jobs' = [jobs EXCEPT ![p] = <<>>]
    <3>1. PICK list \in {rest, <<>>} : Done(p, list)
      BY <1>8 DEF Refused
    <3> QED BY <3>1, DoneIs
  <2> QED BY <1>1, <1>2, <1>4, <2>1, <2>2, <2>3, NamesStay
<1>9. CASE MarkUsed(p) \/ LogDemotion(p)
  <2>1. jobs[p] # <<>> /\ job.do \in {"mark", "log"}
    BY <1>9 DEF MarkUsed, LogDemotion, Doing
  <2>2. Backed(rest, There)
    BY <1>5, <2>1 DEF Adds
  <2>3. jobs' = [jobs EXCEPT ![p] = rest]
    BY <1>9, DoneIs DEF MarkUsed, LogDemotion
  <2>4. UsedHasItsRule'
    <3>1. CASE LogDemotion(p)
      BY <1>4, <3>1 DEF LogDemotion
    <3>2. CASE MarkUsed(p)
      <4>1. job.do = "mark" /\ evid' = [evid EXCEPT ![job.cand].used = job.rule]
        BY <3>2 DEF MarkUsed, Doing
      <4>2. job.rule \in There
        BY <1>3, <2>1, <4>1, NeedsAre DEF Ready
      <4> HIDE DEF job
      <4> SUFFICES ASSUME NEW c \in Cands, evid'[c] # None, evid'[c].used # None PROVE evid'[c].used \in There
        BY <1>1 DEF UsedHasItsRule, There, Exists
      <4>3. CASE c # job.cand
        <5>1. evid'[c] = evid[c]
          BY <4>1, <4>3 DEF IInv, TypeOK
        <5>2. Exists(evid[c].used) /\ evid[c] \in Evidence
          BY <5>1 DEF NamesThere, UsedHasItsRule, IInv, TypeOK
        <5> QED BY <5>1, <5>2 DEF There, Evidence
      <4>4. CASE c = job.cand
        <5>1. c \in Made
          BY <1>3, <2>1, <4>1, <4>4, HeadIsGood DEF GoodJobs, job
        <5>2. evid[c] \in Evidence
          BY <5>1 DEF Made, IInv, TypeOK
        <5>3. evid'[c] = [evid[c] EXCEPT !.used = job.rule]
          BY <4>1, <4>4 DEF IInv, TypeOK
        <5> QED BY <4>2, <5>2, <5>3 DEF Evidence
      <4> QED BY <4>3, <4>4
    <3> QED BY <1>9, <3>1, <3>2
  <2> QED BY <1>1, <2>2, <2>3, <2>4, NamesStay
<1>10. CASE SyncCounters(p)
  <2>1. /\ jobs' = [jobs EXCEPT ![p] = <<Write(job.rule, disk[job.rule])>>] /\ evid' = evid
        /\ jobs[p] # <<>> /\ job.do = "sync"
    BY <1>10 DEF SyncCounters, Doing
  <2>2. job.rule \in Rules /\ Exists(job.rule)
    BY <1>3, <2>1, HeadIsGood DEF GoodJobs, There
  <2> HIDE DEF job
  <2>3. Write(job.rule, disk[job.rule]) \in Ready(There)
    BY <2>2, CopyIsReady
  <2>4. Backed(<<Write(job.rule, disk[job.rule])>>, There)
    BY <2>3 DEF Backed
  <2> QED BY <1>1, <1>4, <2>1, <2>4, NamesStay
<1>11. CASE Relook(p)
  <2> DEFINE off == Changed(disk[job.rule], "suppressed", "session-cleanup")
  <2>1. evid' = evid /\ jobs[p] # <<>>
    BY <1>11 DEF Relook, Doing
  <2>2. CASE Active(job.rule) /\ jobs' = [jobs EXCEPT ![p] = <<Save(job.rule, off)>>]
    <3>1. Exists(job.rule) /\ job.rule \in Rules
      BY <1>3, <2>1, <2>2 DEF Active
    <3> HIDE DEF job
    <3>2. "suppressed" \in Statuses /\ "session-cleanup" \in Writers
      BY DEF Statuses, Writers
    <3>3. disk[job.rule] \in RuleFiles /\ SaysWhyItIsOff(disk[job.rule]) /\ ops \in Nat
      BY <3>1, CopyIsReady
    <3>4. off \in RuleFiles /\ off.into = disk[job.rule].into
      BY <3>2, <3>3, IntoStays
    <3> HIDE DEF off
    <3>5. Save(job.rule, off) \in Ready(There)
      BY <3>1, <3>4, CopyIsReady
    <3>6. Backed(<<Save(job.rule, off)>>, There)
      BY <3>5 DEF Backed
    <3> QED BY <1>1, <1>4, <2>1, <2>2, <3>6, NamesStay
  <2>3. CASE Done(p, <<>>)
    BY <1>1, <1>2, <1>4, <2>1, <2>3, DoneIs, NamesStay
  <2> QED BY <1>11, <2>2, <2>3 DEF Relook
<1>12. ASSUME NEW c \in Cands, Promote(p, c) PROVE NamesThere'
  <2>1. PICK r \in IF Matches(evid[c].key) # {} THEN Found(evid[c].key) ELSE NewIds :
          jobs' = [jobs EXCEPT ![p] = SavedThenMarked(c, r)]
    BY <1>12 DEF Promote
  <2>2. r \in Rules
    <3>1. NewIds \subseteq Rules /\ Found(evid[c].key) \subseteq Rules
      BY NewIdsAreRules DEF Found, Matches
    <3> QED BY <3>1
  <2>3. evid[c].key \in Keys
    <3>1. c \in Made
      BY <1>12, HeadIsGood DEF Promote
    <3> QED BY <3>1 DEF Made, IInv, TypeOK, Evidence
  <2>4. Promoted(c, r) \in Ready(There) /\ Adds(Promoted(c, r), r)
    <3>1. CASE Exists(r)
      <4> DEFINE copy == [disk[r] EXCEPT !.status = "active"]
      <4>1. copy \in RuleFiles /\ copy.into = disk[r].into /\ copy.status = "active"
        BY <2>2, <3>1, CopyIsReady DEF RuleFiles, Statuses
      <4>2. Promoted(c, r) = Save(r, copy)
        BY <3>1 DEF Promoted
      <4> HIDE DEF copy
      <4>3. Save(r, copy) \in Ready(There)
        BY <2>2, <3>1, <4>1, CopyIsReady
      <4> QED BY <4>1, <4>2, <4>3 DEF Adds, Save
    <3>2. CASE ~ Exists(r)
      <4> DEFINE copy == NewRule("me", evid[c].key)
      <4>1. copy \in RuleFiles /\ copy.into = None /\ copy.status = "active"
        BY <2>3 DEF NewRule, RuleFiles, Statuses
      <4>2. Promoted(c, r) = Save(r, copy)
        BY <3>2 DEF Promoted
      <4> HIDE DEF copy
      <4>3. Save(r, copy) \in Ready(There)
        BY <2>2, <4>1, ReadyJobs
      <4> QED BY <4>1, <4>2, <4>3 DEF Adds, Save
    <3> QED BY <3>1, <3>2
  <2>5. Mark(c, r) \in Ready(There \cup {r})
    BY <2>2, ReadyJobs
  <2>6. Backed(SavedThenMarked(c, r), There)
    <3>1. SavedThenMarked(c, r) # <<>> /\ Head(SavedThenMarked(c, r)) = Promoted(c, r)
          /\ Tail(SavedThenMarked(c, r)) = <<Mark(c, r)>>
      BY DEF SavedThenMarked
    <3>2. <<Mark(c, r)>> \in Seq(Ready(There \cup {r}))
      BY <2>5
    <3> QED BY <2>2, <2>4, <3>1, <3>2 DEF Backed
  <2>7. evid' = evid
    BY <1>12 DEF Promote
  <2> QED BY <1>1, <1>4, <2>1, <2>6, <2>7, NamesStay
<1> QED BY <1>6, <1>7, <1>8, <1>9, <1>10, <1>11, <1>12

LEMMA NamesStepIsOK == IInv /\ IInv' /\ NamesThere /\ [Next]_vars => NamesThere'
<1> SUFFICES ASSUME IInv, IInv', NamesThere, [Next]_vars PROVE NamesThere'
  OBVIOUS
<1>1. ASSUME NEW p \in Procs, Command(p) PROVE NamesThere'
  BY <1>1, SwitchNames, CorrectionNames, MergeNames, UnmergeNames DEF Command
<1>2. ASSUME NEW p \in Procs, Automation(p) PROVE NamesThere'
  BY <1>2, AutomationNames
<1>3. ASSUME NEW p \in Procs, Promotion(p) \/ Writing(p) \/ Die(p) PROVE NamesThere'
  BY <1>3, CommitNames, WritingNames DEF Promotion, Writing
<1>4. CASE UNCHANGED vars
  BY <1>4 DEF vars, NamesThere, MergedIntoARule, UsedHasItsRule, There, Exists
<1> QED BY <1>1, <1>2, <1>3, <1>4 DEF Next

LEMMA NamesAlwaysThere == Spec => []NamesThere
<1>1. Init => NamesThere
  <2> SUFFICES ASSUME Init PROVE NamesThere
    OBVIOUS
  <2>1. \A r \in Rules : Exists(r) => disk[r].into = None
    BY DEF Init, Exists, NewRule
  <2>2. \A c \in Cands : evid[c] # None => evid[c].used = None
    BY DEF Init
  <2>3. \A p \in Procs : Backed(jobs[p], There)
    BY DEF Init, Backed
  <2> QED BY <2>1, <2>2, <2>3 DEF NamesThere, MergedIntoARule, UsedHasItsRule
<1> QED BY <1>1, NamesStepIsOK, Invariant, PTL DEF Spec

\* A rule that was merged away names a rule that is there, wherever the merge
\* died (the merged rule is saved first).
THEOREM MergesKeepARule == Spec => []MergedIntoARule
<1> QED BY NamesAlwaysThere, PTL DEF NamesThere

\* A correction marked as promoted has its rule (the rule is saved first).
THEOREM PromotionsHaveTheirRule == Spec => []UsedHasItsRule
<1> QED BY NamesAlwaysThere, PTL DEF NamesThere

-----------------------------------------------------------------------------
(* One rule for a key, and what its user switched off *)

\* What no copy changes: where the rule comes from and what it says; a rule
\* that was born the user's stays the user's.
SameRule(rec, old) == rec.born = old.born /\ rec.key = old.key
Mine(rec) == rec.born = "me" => rec.scope = "me"

\* An active copy of a rule that its user has switched off has been overtaken.
InTime(r, rec) ==
  rec.status = "active" /\ Exists(r) /\ OffByUser(disk[r]) => <<r, rec>> \in outdated

\* A job that writes a copy is about the rule on disk, or makes a rule; only a
\* promotion makes one for a key, and only if there is none.
Copying(job) == job.do \in {"save", "write"}
Taken(key) == \E s \in There : disk[s].born = "me" /\ disk[s].key = key
Keeps(name, job) ==
  Copying(job) =>
    /\ Mine(job.rec)
    /\ name \notin SwitchOn => InTime(job.rule, job.rec)
    /\ IF Exists(job.rule) THEN SameRule(job.rec, disk[job.rule])
       ELSE job.rec.born = "me" /\ job.rec.key \in Keys => name = "promote" /\ ~ Taken(job.rec.key)
Clash(one, other) == Copying(one) /\ Copying(other) /\ one.rule = other.rule /\ ~ Exists(one.rule)

FilesKept == \A r \in There : Mine(disk[r])
CopiesKept == \A p \in Procs : \A i \in DOMAIN jobs[p] : Keeps(op[p], jobs[p][i])
MadeOnce ==
  \A p, q \in Procs : \A i \in DOMAIN jobs[p], j \in DOMAIN jobs[q] :
    Clash(jobs[p][i], jobs[q][j]) => p = q /\ i = j
OnePromotion == \A p, q \in Procs : op[p] = "promote" /\ op[q] = "promote" => p = q
PromotesFirst == \A p \in Procs : op[p] = "promote" => \A i \in DOMAIN jobs[p] : Copying(jobs[p][i]) => i = 1
RulesKept == OneRulePerKey /\ FilesKept /\ CopiesKept /\ MadeOnce /\ OnePromotion /\ PromotesFirst

LEMMA InitKeeps == Init => RulesKept
<1> SUFFICES ASSUME Init PROVE RulesKept
  OBVIOUS
<1>1. PICK known \in Known :
        disk = [r \in Rules |-> IF r \in DOMAIN known THEN NewRule("me", known[r]) ELSE None]
  BY DEF Init
<1>2. \A r \in There : r \in DOMAIN known /\ r \in Rules /\ disk[r] = NewRule("me", known[r])
  BY <1>1 DEF There, Exists
<1>3. OneRulePerKey
  <2> SUFFICES ASSUME NEW r \in There, NEW s \in There, disk[r].key \in Keys, disk[r].key = disk[s].key
               PROVE  r = s
    BY DEF OneRulePerKey, There
  <2>1. \A k : NewRule("me", k).key = k
    BY DEF NewRule
  <2> QED BY <1>2, <2>1, RuleStoreAssumption
<1>4. FilesKept
  <2>1. \A k : NewRule("me", k).scope = "me"
    BY DEF NewRule
  <2> QED BY <1>2, <2>1 DEF FilesKept, Mine
<1>5. \A p \in Procs : jobs[p] = <<>> /\ op[p] = None
  BY DEF Init
<1>6. None # "promote"
  BY RuleStoreAssumption DEF Operations
<1> QED BY <1>3, <1>4, <1>5, <1>6 DEF RulesKept, CopiesKept, MadeOnce, OnePromotion, PromotesFirst

\* What is so of the jobs when no rule is written.
LEMMA JobsKept ==
  ASSUME IInv, RulesKept, NEW p \in Procs, NEW name, NEW list \in Seq(Jobs),
         jobs' = [jobs EXCEPT ![p] = list], op' = [op EXCEPT ![p] = name], UNCHANGED <<disk, outdated>>,
         name = "promote" => \A q \in Procs \ {p} : op[q] # "promote",
         \A i \in DOMAIN list : Keeps(name, list[i]),
         \A i, j \in DOMAIN list : Clash(list[i], list[j]) => i = j,
         \A i \in DOMAIN list, q \in Procs \ {p} : \A j \in DOMAIN jobs[q] : ~ Clash(list[i], jobs[q][j]),
         name = "promote" => \A i \in DOMAIN list : Copying(list[i]) => i = 1
  PROVE  RulesKept'
<1>1. There' = There /\ \A r : Exists(r)' = Exists(r)
  BY DEF There, Exists
<1>2. /\ \A n, job : Keeps(n, job)' <=> Keeps(n, job)
      /\ \A one, other : Clash(one, other)' <=> Clash(one, other)
  BY <1>1 DEF Keeps, Clash, Taken, InTime, Mine, SameRule, Copying
<1>3. /\ jobs'[p] = list /\ op'[p] = name
      /\ \A q \in Procs \ {p} : jobs'[q] = jobs[q] /\ op'[q] = op[q]
  BY DEF IInv, TypeOK
<1>4. OneRulePerKey' /\ FilesKept'
  BY <1>1 DEF RulesKept, OneRulePerKey, FilesKept, Mine, There, Exists
<1>5. CopiesKept'
  BY <1>2, <1>3 DEF RulesKept, CopiesKept
<1>6. MadeOnce'
  <2> SUFFICES ASSUME NEW q \in Procs, NEW s \in Procs, NEW i \in DOMAIN jobs'[q], NEW j \in DOMAIN jobs'[s],
                      Clash(jobs'[q][i], jobs'[s][j])
               PROVE  q = s /\ i = j
    BY <1>2 DEF MadeOnce
  <2>1. Clash(jobs'[s][j], jobs'[q][i])
    BY DEF Clash
  <2>2. CASE q = p /\ s = p
    BY <1>3, <2>2
  <2>3. CASE q = p /\ s # p
    BY <1>3, <2>3
  <2>4. CASE q # p /\ s = p
    BY <1>3, <2>1, <2>4
  <2>5. CASE q # p /\ s # p
    BY <1>3, <2>5 DEF RulesKept, MadeOnce
  <2> QED BY <2>2, <2>3, <2>4, <2>5
<1>7. OnePromotion' /\ PromotesFirst'
  BY <1>3 DEF RulesKept, OnePromotion, PromotesFirst
<1> QED BY <1>4, <1>5, <1>6, <1>7 DEF RulesKept

LEMMA WriteBack ==
  ASSUME NEW S, NEW T, NEW f \in [S -> T], NEW x \in S PROVE f = [f EXCEPT ![x] = f[x]]
OBVIOUS

\* A process that has done a job, has given up, or begins the next.
LEMMA FewerJobs ==
  ASSUME IInv, RulesKept, NEW p \in Procs, NEW list, list \in {<<>>, Tail(jobs[p]), jobs[p]},
         list = Tail(jobs[p]) => jobs[p] # <<>>,
         jobs' = [jobs EXCEPT ![p] = list], UNCHANGED <<disk, outdated>>,
         \/ op' = op
         \/ list = <<>> /\ op' = [op EXCEPT ![p] = None]
  PROVE  RulesKept'
<1>1. jobs[p] \in Seq(Jobs) /\ op \in [Procs -> Operations \cup {None}] /\ None # "promote"
  BY RuleStoreAssumption DEF IInv, TypeOK, Operations
<1>2. PICK name : op' = [op EXCEPT ![p] = name] /\ (name = op[p] \/ (list = <<>> /\ name = None))
  <2>1. CASE op' = op
    <3>1. op = [op EXCEPT ![p] = op[p]]
      BY <1>1, WriteBack
    <3> QED BY <2>1, <3>1
  <2>2. CASE list = <<>> /\ op' = [op EXCEPT ![p] = None]
    BY <2>2
  <2> QED BY <2>1, <2>2
<1>3. /\ list \in Seq(Jobs)
      /\ \E d \in {0, 1} : \A i \in DOMAIN list : i + d \in DOMAIN jobs[p] /\ list[i] = jobs[p][i + d]
  <2>1. CASE list = <<>>
    BY <2>1
  <2>2. CASE list = Tail(jobs[p]) /\ jobs[p] # <<>>
    <3>1. list \in Seq(Jobs) /\ \A i \in DOMAIN list : i + 1 \in DOMAIN jobs[p] /\ list[i] = jobs[p][i + 1]
      BY <1>1, <2>2
    <3> QED BY <3>1
  <2>3. CASE list = jobs[p]
    <3>1. \A i \in DOMAIN list : i + 0 = i
      BY <1>1, <2>3
    <3> QED BY <1>1, <2>3, <3>1
  <2> QED BY <2>1, <2>2, <2>3
<1>4. PICK d \in {0, 1} : \A i \in DOMAIN list : i + d \in DOMAIN jobs[p] /\ list[i] = jobs[p][i + d]
  BY <1>3
<1>5. \A i \in DOMAIN list : i \in Nat \ {0}
  BY ONLY <1>3
<1>6. \A i \in DOMAIN list : Keeps(name, list[i])
  <2> SUFFICES ASSUME NEW i \in DOMAIN list PROVE Keeps(name, list[i])
    OBVIOUS
  <2>1. name = op[p]
    BY <1>2
  <2> QED BY <1>4, <2>1 DEF RulesKept, CopiesKept
<1>7. \A i, j \in DOMAIN list : Clash(list[i], list[j]) => i = j
  <2> SUFFICES ASSUME NEW i \in DOMAIN list, NEW j \in DOMAIN list, Clash(list[i], list[j]) PROVE i = j
    OBVIOUS
  <2>1. i + d = j + d
    BY <1>4 DEF RulesKept, MadeOnce
  <2>2. i \in Nat /\ j \in Nat
    BY <1>5
  <2>3. d \in Nat
    BY <1>4
  <2> QED BY ONLY <2>1, <2>2, <2>3
<1>8. \A i \in DOMAIN list, q \in Procs \ {p} : \A j \in DOMAIN jobs[q] : ~ Clash(list[i], jobs[q][j])
  BY <1>4 DEF RulesKept, MadeOnce
<1>9. name = "promote" => \A q \in Procs \ {p} : op[q] # "promote"
  BY <1>1, <1>2 DEF RulesKept, OnePromotion
<1>10. name = "promote" => \A i \in DOMAIN list : Copying(list[i]) => i = 1
  <2> SUFFICES ASSUME name = "promote", NEW i \in DOMAIN list, Copying(list[i]) PROVE i = 1
    OBVIOUS
  <2>1. i + d = 1
    BY <1>1, <1>2, <1>4 DEF RulesKept, PromotesFirst
  <2>2. d = 0 \/ d = 1
    BY <1>4
  <2>3. i \in Nat /\ i # 0
    BY <1>5
  <2> QED BY ONLY <2>1, <2>2, <2>3
<1>11. op' = [op EXCEPT ![p] = name] /\ list \in Seq(Jobs)
  BY <1>2, <1>3
<1> QED BY ONLY IInv, RulesKept, p \in Procs, jobs' = [jobs EXCEPT ![p] = list], UNCHANGED <<disk, outdated>>,
               <1>6, <1>7, <1>8, <1>9, <1>10, <1>11, JobsKept

\* What is written makes no second rule for a key, and what its user switches
\* off by it overtakes whatever still waits to switch it on.
LEMMA CommitKeeps ==
  ASSUME IInv, RulesKept, NEW p \in Procs, Commit(p) PROVE RulesKept'
<1> DEFINE job == Head(jobs[p])
           rest == Tail(jobs[p])
<1>1. /\ jobs[p] \in Seq(Jobs) /\ jobs[p] # <<>> /\ job = jobs[p][1] /\ 1 \in DOMAIN jobs[p]
      /\ job \in Jobs /\ Copying(job) /\ job.do \in {"save", "write"}
      /\ \A i \in DOMAIN rest : i \in Nat \ {0} /\ i + 1 \in DOMAIN jobs[p] /\ rest[i] = jobs[p][i + 1]
  <2>1. jobs[p] \in Seq(Jobs) /\ jobs[p] # <<>> /\ job.do \in {"save", "write"}
    BY DEF Commit, Doing, IInv, TypeOK
  <2>2. /\ job = jobs[p][1] /\ 1 \in DOMAIN jobs[p] /\ job \in Jobs
        /\ \A i \in DOMAIN rest : i \in Nat \ {0} /\ i + 1 \in DOMAIN jobs[p] /\ rest[i] = jobs[p][i + 1]
    BY ONLY <2>1
  <2> QED BY <2>1, <2>2 DEF Copying
<1>2. job.rule \in Rules /\ job.rec \in RuleFiles /\ job.rec # None
  BY <1>1, RuleStoreAssumption DEF Jobs
<1>3. /\ disk' = [disk EXCEPT ![job.rule] = job.rec] /\ outdated' = outdated \cup Overtaken(job)
      /\ jobs' = [jobs EXCEPT ![p] = rest]
      /\ op' = op \/ op' = [op EXCEPT ![p] = None]
  BY DoneIs DEF Commit
<1>4. op' = op \/ (rest = <<>> /\ op' = [op EXCEPT ![p] = None])
  <2>1. CASE rest = <<>>
    BY <1>3, <2>1
  <2>2. CASE rest # <<>>
    <3>1. op' = [op EXCEPT ![p] = op[p]]
      BY <2>2 DEF Commit, Done
    <3> QED BY <3>1, WriteBack DEF IInv, TypeOK
  <2> QED BY <2>1, <2>2
<1>5. Keeps(op[p], job)
  BY <1>1 DEF RulesKept, CopiesKept
<1> HIDE DEF job, rest
<1>7. /\ disk'[job.rule] = job.rec
      /\ \A r \in Rules \ {job.rule} : disk'[r] = disk[r]
      /\ There' = There \cup {job.rule} /\ There \subseteq Rules
  <2>1. disk'[job.rule] = job.rec /\ \A r \in Rules \ {job.rule} : disk'[r] = disk[r]
    BY <1>2, <1>3 DEF IInv, TypeOK
  <2> QED BY <1>2, <2>1 DEF There, Exists
<1>8. /\ \A r \in Rules : r \in There <=> Exists(r)
      /\ \A r \in Rules : r \in There' <=> Exists(r)'
  BY DEF There
<1>10. Mine(job.rec)
  BY <1>1, <1>5 DEF Keeps
<1>11. FilesKept'
  <2> SUFFICES ASSUME NEW r \in There' PROVE Mine(disk'[r])
    BY DEF FilesKept, Mine
  <2>1. CASE r = job.rule
    BY <1>7, <1>10, <2>1
  <2>2. CASE r # job.rule
    <3>1. r \in There /\ disk'[r] = disk[r]
      BY <1>7, <2>2
    <3> QED BY <3>1 DEF RulesKept, FilesKept
  <2> QED BY <2>1, <2>2
<1>12. \A s \in There : disk'[s].born = disk[s].born /\ disk'[s].key = disk[s].key
  <2> SUFFICES ASSUME NEW s \in There PROVE disk'[s].born = disk[s].born /\ disk'[s].key = disk[s].key
    OBVIOUS
  <2>1. CASE s = job.rule
    BY <1>1, <1>5, <1>7, <1>8, <2>1 DEF Keeps, SameRule
  <2>2. CASE s # job.rule
    BY <1>7, <2>2
  <2> QED BY <2>1, <2>2
<1>13. ASSUME NEW s \in There' \ There, disk'[s].born = "me", disk'[s].key \in Keys
       PROVE  s = job.rule /\ op[p] = "promote" /\ ~ Taken(disk'[s].key)
  <2>1. s = job.rule /\ disk'[s] = job.rec /\ ~ Exists(job.rule)
    BY <1>2, <1>7, <1>8
  <2> QED BY <1>1, <1>5, <1>13, <2>1 DEF Keeps
<1>14. OneRulePerKey'
  <2> SUFFICES ASSUME NEW r \in There', NEW s \in There', disk'[r].born = "me", disk'[s].born = "me",
                      disk'[r].key \in Keys, disk'[r].key = disk'[s].key
               PROVE  r = s
    BY DEF OneRulePerKey, There
  <2>1. CASE r \in There /\ s \in There
    BY <1>7, <1>8, <1>12, <2>1 DEF RulesKept, OneRulePerKey
  <2>2. CASE r \in There /\ s \notin There
    BY <1>12, <1>13, <2>2 DEF Taken
  <2>3. CASE r \notin There /\ s \in There
    BY <1>12, <1>13, <2>3 DEF Taken
  <2>4. CASE r \notin There /\ s \notin There
    BY <1>13, <2>4
  <2> QED BY <2>1, <2>2, <2>3, <2>4
\* Each job that still waits waited before, behind this one or elsewhere.
<1>15. ASSUME NEW q \in Procs, NEW i \in DOMAIN jobs'[q]
       PROVE  /\ op'[q] = op[q]
              /\ \E k \in DOMAIN jobs[q] :
                   jobs'[q][i] = jobs[q][k] /\ (IF q = p THEN i \in Nat \ {0} /\ k = i + 1 ELSE k = i)
  <2>1. CASE q = p
    <3>1. jobs'[q] = rest
      BY <1>3, <2>1 DEF IInv, TypeOK
    <3>2. i \in DOMAIN rest /\ rest # <<>>
      BY <1>15, <3>1
    <3> QED BY <1>1, <1>4, <2>1, <3>1, <3>2 DEF rest
  <2>2. CASE q # p
    BY <1>3, <1>15, <2>2 DEF IInv, TypeOK
  <2> QED BY <2>1, <2>2
<1>16. CopiesKept'
  <2> SUFFICES ASSUME NEW q \in Procs, NEW i \in DOMAIN jobs'[q], NEW other, other = jobs'[q][i], Copying(other)
               PROVE  /\ Mine(other.rec)
                      /\ op'[q] \notin SwitchOn => InTime(other.rule, other.rec)'
                      /\ IF disk'[other.rule] # None THEN SameRule(other.rec, disk'[other.rule])
                         ELSE other.rec.born = "me" /\ other.rec.key \in Keys =>
                                op'[q] = "promote" /\ ~ Taken(other.rec.key)'
    BY DEF CopiesKept, Keeps, Copying, Mine, InTime, SameRule, Taken, Exists
  <2>1. PICK k \in DOMAIN jobs[q] :
          other = jobs[q][k] /\ (IF q = p THEN i \in Nat \ {0} /\ k = i + 1 ELSE k = i)
    BY <1>15
  <2>2. q = p => k # 1
    BY <2>1
  <2>3. Keeps(op[q], other) /\ other \in Jobs
    BY <2>1 DEF RulesKept, CopiesKept, IInv, TypeOK
  <2>4. ~ Clash(job, other)
    BY <1>1, <2>1, <2>2 DEF RulesKept, MadeOnce, job
  <2>5. op[p] = "promote" /\ op[q] = "promote" => q = p /\ k = 1
    BY <2>1 DEF RulesKept, OnePromotion, PromotesFirst
  <2>6. op'[q] = op[q] /\ other.rule \in Rules
    BY <1>15, <2>3 DEF Jobs, Copying
  <2>7. Mine(other.rec)
    BY <2>3 DEF Keeps
  <2>8. ASSUME op[q] \notin SwitchOn, other.rec.status = "active", disk'[other.rule] # None,
               OffByUser(disk'[other.rule])
        PROVE  <<other.rule, other.rec>> \in outdated'
    <3>1. InTime(other.rule, other.rec)
      BY <2>3, <2>8 DEF Keeps
    <3>2. CASE other.rule # job.rule \/ ~ SwitchesOff(job)
      <4>1. Exists(other.rule) /\ OffByUser(disk[other.rule])
        BY <1>7, <2>6, <2>8, <3>2 DEF SwitchesOff, Exists
      <4> QED BY <1>3, <2>8, <3>1, <4>1 DEF InTime
    <3>3. CASE other.rule = job.rule /\ SwitchesOff(job)
      <4>1. other \in Copies(job.rule)
        BY <2>1, <2>8, <3>3, CopiesWait DEF Copying
      <4> QED BY <1>3, <3>3, <4>1 DEF Overtaken
    <3> QED BY <3>2, <3>3
  <2>9. ASSUME other.rule \in There' PROVE SameRule(other.rec, disk'[other.rule])
    <3>1. other.rule \in There
      <4> SUFFICES ASSUME other.rule \notin There PROVE FALSE
        OBVIOUS
      <4>1. other.rule = job.rule /\ ~ Exists(job.rule)
        BY <1>2, <1>7, <1>8, <2>6, <2>9
      <4> QED BY <1>1, <2>4, <4>1 DEF Clash
    <3> QED BY <1>8, <1>12, <2>3, <2>6, <3>1 DEF Keeps, SameRule
  <2>10. ASSUME other.rule \notin There', other.rec.born = "me", other.rec.key \in Keys
         PROVE  op[q] = "promote" /\ ~ Taken(other.rec.key)'
    <3>1. op[q] = "promote" /\ ~ Taken(other.rec.key)
      BY <1>7, <1>8, <2>3, <2>6, <2>10 DEF Keeps
    <3>2. ASSUME NEW s \in There', disk'[s].born = "me", disk'[s].key = other.rec.key PROVE FALSE
      <4>1. CASE s \in There
        BY <1>12, <3>1, <3>2, <4>1 DEF Taken
      <4>2. CASE s \notin There
        BY <1>13, <2>2, <2>5, <2>10, <3>1, <3>2, <4>2
      <4> QED BY <4>1, <4>2
    <3> QED BY <3>1, <3>2 DEF Taken
  <2>11. other.rule \in There' <=> disk'[other.rule] # None
    BY <2>6 DEF There, Exists
  <2> QED BY <2>6, <2>7, <2>8, <2>9, <2>10, <2>11 DEF InTime, Exists
<1>17. MadeOnce'
  <2> SUFFICES ASSUME NEW q \in Procs, NEW s \in Procs, NEW i \in DOMAIN jobs'[q], NEW j \in DOMAIN jobs'[s],
                      NEW one, NEW other, one = jobs'[q][i], other = jobs'[s][j], Copying(one), Copying(other),
                      one.rule = other.rule, disk'[one.rule] = None
               PROVE  q = s /\ i = j
    BY DEF MadeOnce, Clash, Copying, Exists
  <2>1. PICK k \in DOMAIN jobs[q] : one = jobs[q][k] /\ (IF q = p THEN i \in Nat \ {0} /\ k = i + 1 ELSE k = i)
    BY <1>15
  <2>2. PICK l \in DOMAIN jobs[s] : other = jobs[s][l] /\ (IF s = p THEN j \in Nat \ {0} /\ l = j + 1 ELSE l = j)
    BY <1>15
  <2>3. one \in Jobs
    BY <2>1 DEF IInv, TypeOK
  <2>4. one.rule \in Rules
    BY <2>3 DEF Jobs, Copying
  <2>5. ~ Exists(one.rule)
    BY <1>7, <1>8, <2>4 DEF Exists
  <2>6. q = s /\ k = l
    BY <2>1, <2>2, <2>5 DEF RulesKept, MadeOnce, Clash
  <2> QED BY <2>1, <2>2, <2>6
<1>18. OnePromotion'
  <2>1. \A q \in Procs : op'[q] = "promote" => op[q] = "promote"
    BY <1>4, RuleStoreAssumption DEF IInv, TypeOK, Operations
  <2> QED BY <2>1 DEF RulesKept, OnePromotion
<1>19. PromotesFirst'
  <2> SUFFICES ASSUME NEW q \in Procs, op'[q] = "promote", NEW i \in DOMAIN jobs'[q], Copying(jobs'[q][i])
               PROVE  i = 1
    BY DEF PromotesFirst, Copying
  <2>1. PICK k \in DOMAIN jobs[q] :
          jobs'[q][i] = jobs[q][k] /\ (IF q = p THEN i \in Nat \ {0} /\ k = i + 1 ELSE k = i)
    BY <1>15
  <2>2. k = 1
    BY <1>15, <2>1 DEF RulesKept, PromotesFirst
  <2> QED BY <2>1, <2>2
<1> QED BY <1>11, <1>14, <1>16, <1>17, <1>18, <1>19 DEF RulesKept

\* A copy of a rule on disk: of that rule, and on only if the rule was on and
\* is copied with its history.
Faithful(copy, rec) == SameRule(copy, rec) /\ copy.scope \in {rec.scope, "me"}
Quiet(copy, rec) == copy.status = "active" => rec.status = "active" /\ copy.history = rec.history

LEMMA ChangedIsFaithful ==
  ASSUME NEW rec \in RuleFiles, NEW to, NEW by
  PROVE  /\ Faithful(Changed(rec, to, by), rec) /\ Changed(rec, to, by).scope = rec.scope
         /\ Changed(rec, to, by).status = to
         /\ DOMAIN Changed(rec, to, by) = DOMAIN rec
<1>1. CASE rec.status = to
  BY <1>1 DEF Changed, Faithful, SameRule
<1>2. CASE rec.status # to
  <2> DEFINE history == Append(rec.history, [from |-> rec.status, to |-> to, by |-> by, at |-> ops])
             copy == [rec EXCEPT !.status = to, !.history = history]
  <2>1. Changed(rec, to, by) = copy
    BY <1>2 DEF Changed
  <2> HIDE DEF history
  <2>2. /\ copy.born = rec.born /\ copy.key = rec.key /\ copy.scope = rec.scope /\ copy.status = to
        /\ DOMAIN copy = DOMAIN rec
    BY DEF RuleFiles
  <2> HIDE DEF copy
  <2> QED BY <2>1, <2>2 DEF Faithful, SameRule
<1> QED BY <1>1, <1>2

LEMMA CopiesAreFaithful ==
  ASSUME NEW rec \in RuleFiles
  PROVE  /\ Faithful(rec, rec) /\ Quiet(rec, rec)
         /\ \A mode : Faithful([rec EXCEPT !.mode = mode], rec) /\ Quiet([rec EXCEPT !.mode = mode], rec)
         /\ Faithful(Flagged(rec), rec) /\ Quiet(Flagged(rec), rec)
         /\ Faithful([rec EXCEPT !.status = "active"], rec)
         /\ Faithful([rec EXCEPT !.status = "active", !.into = None], rec)
<1>1. Faithful(rec, rec) /\ Quiet(rec, rec)
  BY DEF Faithful, Quiet, SameRule
<1>2. \A mode : Faithful([rec EXCEPT !.mode = mode], rec) /\ Quiet([rec EXCEPT !.mode = mode], rec)
  BY DEF Faithful, Quiet, SameRule, RuleFiles
<1>3. Faithful(Flagged(rec), rec) /\ Quiet(Flagged(rec), rec)
  BY DEF Faithful, Quiet, SameRule, RuleFiles, Flagged
<1>4. Faithful([rec EXCEPT !.status = "active"], rec)
  BY DEF Faithful, SameRule, RuleFiles
<1>5. Faithful([rec EXCEPT !.status = "active", !.into = None], rec)
  BY DEF Faithful, SameRule, RuleFiles
<1> QED BY <1>1, <1>2, <1>3, <1>4, <1>5

\* The copies that switch a rule off.
LEMMA OffCopiesAreFaithful ==
  ASSUME NEW rec \in RuleFiles
  PROVE  /\ \A to, by : to # "active" => /\ Faithful(Changed(rec, to, by), rec) /\ Quiet(Changed(rec, to, by), rec)
         /\ Faithful(Retired(rec), rec) /\ Quiet(Retired(rec), rec)
         /\ Faithful(Superseded(rec), rec) /\ Quiet(Superseded(rec), rec)
         /\ \A m : LET copy == [Changed(rec, "superseded", "cluster") EXCEPT !.into = m]
                   IN Faithful(copy, rec) /\ Quiet(copy, rec)
<1>1. ASSUME NEW to, NEW by, to # "active"
      PROVE  LET copy == Changed(rec, to, by)
             IN /\ Faithful(copy, rec) /\ Quiet(copy, rec)
                /\ \A phase : Faithful([copy EXCEPT !.phase = phase], rec) /\ Quiet([copy EXCEPT !.phase = phase], rec)
                /\ \A m : Faithful([copy EXCEPT !.into = m], rec) /\ Quiet([copy EXCEPT !.into = m], rec)
  <2> DEFINE copy == Changed(rec, to, by)
  <2>1. Faithful(copy, rec) /\ copy.status # "active"
        /\ DOMAIN copy = {"status", "mode", "scope", "phase", "key", "into", "born", "history"}
    BY <1>1, ChangedIsFaithful DEF RuleFiles
  <2> HIDE DEF copy
  <2>2. Quiet(copy, rec)
    BY <2>1 DEF Quiet
  <2>3. \A phase : Faithful([copy EXCEPT !.phase = phase], rec) /\ Quiet([copy EXCEPT !.phase = phase], rec)
    BY <2>1 DEF Faithful, SameRule, Quiet
  <2>4. \A m : Faithful([copy EXCEPT !.into = m], rec) /\ Quiet([copy EXCEPT !.into = m], rec)
    BY <2>1 DEF Faithful, SameRule, Quiet
  <2> QED BY <2>1, <2>2, <2>3, <2>4 DEF copy
<1> QED BY <1>1 DEF Retired, Superseded

\* The jobs that make no rule.
Plain(name) == {job \in Jobs : Keeps(name, job) /\ (Copying(job) => Exists(job.rule))}

LEMMA PlainJobs ==
  ASSUME IInv, RulesKept, NEW name, NEW r \in Rules
  PROVE  /\ \A rec \in RuleFiles :
              /\ Exists(r) /\ Faithful(rec, disk[r])
              /\ name \in SwitchOn \/ Quiet(rec, disk[r])
              => Save(r, rec) \in Plain(name) /\ Write(r, rec) \in Plain(name)
         /\ Later("log", r) \in Plain(name) /\ Later("relook", r) \in Plain(name)
         /\ Later("sync", r) \in Plain(name)
         /\ \A c \in Cands : Mark(c, r) \in Plain(name)
<1>1. ASSUME Exists(r), NEW rec \in RuleFiles, Faithful(rec, disk[r]), name \in SwitchOn \/ Quiet(rec, disk[r])
      PROVE  Save(r, rec) \in Plain(name) /\ Write(r, rec) \in Plain(name)
  <2>1. Mine(disk[r])
    BY <1>1 DEF RulesKept, FilesKept, There
  <2>2. Mine(rec) /\ SameRule(rec, disk[r])
    BY <1>1, <2>1 DEF Faithful, Mine, SameRule
  <2>3. name \notin SwitchOn => InTime(r, rec)
    BY <1>1 DEF Quiet, InTime, OffByUser
  <2>4. ASSUME NEW job \in {Save(r, rec), Write(r, rec)} PROVE job \in Plain(name)
    <3>1. job \in Jobs /\ job.rule = r /\ job.rec = rec
      BY DEF Save, Write, Jobs
    <3> QED BY <1>1, <2>2, <2>3, <3>1 DEF Plain, Keeps
  <2> QED BY <2>4
<1>2. ASSUME NEW job \in Jobs, job.do \notin {"save", "write"} PROVE job \in Plain(name)
  BY <1>2 DEF Plain, Keeps, Copying
<1>3. /\ \A what \in {"log", "sync", "relook"} : Later(what, r) \in Jobs /\ Later(what, r).do = what
      /\ \A c \in Cands : Mark(c, r) \in Jobs /\ Mark(c, r).do = "mark"
  BY DEF Jobs, Later, Mark
<1> QED BY <1>1, <1>2, <1>3

\* Jobs that make no rule may follow.
LEMMA PlainList ==
  ASSUME IInv, RulesKept, NEW p \in Procs, NEW name, NEW list \in Seq(Plain(name)),
         jobs' = [jobs EXCEPT ![p] = list], op' = [op EXCEPT ![p] = name], UNCHANGED <<disk, outdated>>,
         name = "promote" => Len(list) <= 1 /\ \A q \in Procs \ {p} : op[q] # "promote"
  PROVE  RulesKept'
<1>1. list \in Seq(Jobs) /\ \A i \in DOMAIN list : i \in 1 .. Len(list) /\ list[i] \in Plain(name)
  <2>1. Plain(name) \subseteq Jobs
    BY DEF Plain
  <2> HIDE DEF Plain
  <2> QED BY <2>1
<1>2. \A i \in DOMAIN list : Keeps(name, list[i])
  BY <1>1 DEF Plain
<1>3. \A i \in DOMAIN list : \A other : ~ Clash(list[i], other)
  BY <1>1 DEF Plain, Clash
<1>4. name = "promote" => \A i \in DOMAIN list : Copying(list[i]) => i = 1
  <2>1. \A i \in 1 .. Len(list) : Len(list) <= 1 => i = 1
    BY <1>1
  <2> QED BY <1>1, <2>1
<1> QED BY <1>1, <1>2, <1>3, <1>4, JobsKept

\* And jobs of which one makes a rule that is no promotion's.
LEMMA OneNewRule ==
  ASSUME IInv, RulesKept, NEW p \in Procs, NEW name, name # "promote", NEW list \in Seq(Jobs), NEW k \in DOMAIN list,
         NEW n \in NewIds, NEW scope \in {"me", "session"}, NEW key \in Keys \cup {Merged, None},
         list[k] = Save(n, NewRule(scope, key)), scope = "me" => key \notin Keys,
         \A i \in DOMAIN list \ {k} : list[i] \in Plain(name),
         jobs' = [jobs EXCEPT ![p] = list], op' = [op EXCEPT ![p] = name], UNCHANGED <<disk, outdated>>
  PROVE  RulesKept'
<1>1. n \in Rules /\ ~ Exists(n) /\ \A q \in Procs : \A j \in DOMAIN jobs[q] : jobs[q][j].rule # n
  BY DEF NewIds, Unused
<1>2. list[k].rule = n /\ list[k].rec = NewRule(scope, key)
  BY DEF Save
<1>3. Mine(list[k].rec) /\ InTime(n, list[k].rec)
      /\ ~ (list[k].rec.born = "me" /\ list[k].rec.key \in Keys)
  <2>1. /\ NewRule(scope, key).born = scope /\ NewRule(scope, key).scope = scope
        /\ NewRule(scope, key).key = key
    BY DEF NewRule
  <2> QED BY <1>1, <1>2, <2>1 DEF Mine, InTime
<1>4. \A i \in DOMAIN list : Keeps(name, list[i])
  BY <1>1, <1>2, <1>3 DEF Keeps, Plain
<1>5. \A i \in DOMAIN list \ {k} : \A other : ~ Clash(list[i], other) /\ ~ Clash(other, list[i])
  BY DEF Plain, Clash
<1>6. \A i, j \in DOMAIN list : Clash(list[i], list[j]) => i = j
  BY <1>5
<1>7. \A i \in DOMAIN list, q \in Procs \ {p} : \A j \in DOMAIN jobs[q] : ~ Clash(list[i], jobs[q][j])
  <2> SUFFICES ASSUME NEW i \in DOMAIN list, NEW q \in Procs \ {p}, NEW j \in DOMAIN jobs[q],
                      Clash(list[i], jobs[q][j])
               PROVE  FALSE
    OBVIOUS
  <2>1. i = k
    BY <1>5
  <2> QED BY <1>1, <1>2, <2>1 DEF Clash
<1> QED BY <1>4, <1>6, <1>7, JobsKept

LEMMA BeginKeeps ==
  ASSUME IInv, RulesKept, NEW p \in Procs, NEW name, name # "promote", NEW list \in Seq(Plain(name)),
         Begin(p, name, list)
  PROVE  RulesKept'
BY PlainList DEF Begin

LEMMA OneSaveKeeps ==
  ASSUME IInv, RulesKept, NEW p \in Procs, NEW name, name # "promote", NEW r \in Rules, Exists(r),
         NEW rec \in RuleFiles, Faithful(rec, disk[r]), name \in SwitchOn \/ Quiet(rec, disk[r]),
         BeginSave(p, name, r, rec)
  PROVE  RulesKept'
<1>1. Save(r, rec) \in Plain(name)
  BY PlainJobs
<1>2. <<Save(r, rec)>> \in Seq(Plain(name))
  BY <1>1
<1> QED BY <1>2, BeginKeeps DEF BeginSave

LEMMA SwitchKeeps ==
  ASSUME IInv, RulesKept, NEW p \in Procs, NEW r \in Rules,
         \/ Suppress(p, r) \/ Activate(p, r) \/ RestoreDemoted(p, r) \/ Revive(p, r)
         \/ EnforceMode(p, r, "block") \/ EnforceMode(p, r, "advise") \/ Decay(p, r)
  PROVE  RulesKept'
<1>1. Exists(r)
  BY DEF Suppress, Activate, RestoreDemoted, Revive, EnforceMode, Decay, Active
<1>2. disk[r] \in RuleFiles /\ SaysWhyItIsOff(disk[r]) /\ Sound(r, disk[r]) /\ ops \in Nat
  BY <1>1, FilesAre DEF Sound
<1>3. {"suppressed", "active"} \subseteq Statuses /\ "cli" \in Writers /\ {"activate", "revive"} \subseteq SwitchOn
  BY DEF Statuses, Writers, SwitchOn
<1>4. CASE Suppress(p, r)
  <2>1. /\ Changed(disk[r], "suppressed", "cli") \in RuleFiles
        /\ Faithful(Changed(disk[r], "suppressed", "cli"), disk[r])
        /\ Quiet(Changed(disk[r], "suppressed", "cli"), disk[r])
    BY <1>2, <1>3, IntoStays, OffCopiesAreFaithful
  <2> QED BY <1>1, <1>4, <2>1, OneSaveKeeps DEF Suppress
<1>5. CASE Activate(p, r)
  <2>1. Changed(disk[r], "active", "cli") \in RuleFiles /\ Faithful(Changed(disk[r], "active", "cli"), disk[r])
    BY <1>2, <1>3, IntoStays, ChangedIsFaithful
  <2> QED BY <1>1, <1>3, <1>5, <2>1, OneSaveKeeps DEF Activate
<1>6. ASSUME NEW mode \in {"block", "advise"}
      PROVE  /\ [disk[r] EXCEPT !.mode = mode] \in RuleFiles
             /\ Faithful([disk[r] EXCEPT !.mode = mode], disk[r]) /\ Quiet([disk[r] EXCEPT !.mode = mode], disk[r])
  <2>1. [disk[r] EXCEPT !.mode = mode] \in RuleFiles
    BY <1>2 DEF RuleFiles
  <2> QED BY <1>2, <2>1, CopiesAreFaithful
<1>7. CASE RestoreDemoted(p, r)
  BY <1>1, <1>6, <1>7, OneSaveKeeps DEF RestoreDemoted
<1>8. ASSUME NEW mode \in {"block", "advise"}, EnforceMode(p, r, mode) PROVE RulesKept'
  BY <1>1, <1>6, <1>8, OneSaveKeeps DEF EnforceMode
<1>9. CASE Revive(p, r)
  <2> DEFINE on == Changed(disk[r], "active", "cli")
             copy == [on EXCEPT !.scope = "me", !.phase = "active", !.into = None]
  <2>1. on \in RuleFiles /\ Faithful(on, disk[r])
    BY <1>2, <1>3, IntoStays, ChangedIsFaithful
  <2> HIDE DEF on
  <2>2. copy \in RuleFiles /\ Faithful(copy, disk[r])
    BY <2>1 DEF RuleFiles, Faithful, SameRule
  <2>3. BeginSave(p, "revive", r, copy)
    BY <1>9 DEF Revive, on
  <2> HIDE DEF copy
  <2> QED BY <1>1, <1>3, <2>2, <2>3, OneSaveKeeps
<1>10. CASE Decay(p, r)
  <2>1. Retired(disk[r]) \in RuleFiles /\ Faithful(Retired(disk[r]), disk[r]) /\ Quiet(Retired(disk[r]), disk[r])
    BY <1>2, <1>10, OffCopiesAreSound, OffCopiesAreFaithful DEF Decay
  <2> QED BY <1>1, <1>10, <2>1, OneSaveKeeps DEF Decay
<1> QED BY <1>4, <1>5, <1>7, <1>8, <1>9, <1>10

LEMMA ShortLists ==
  ASSUME NEW S
  PROVE  /\ \A s : s = <<>> \/ (\E x \in S : s = <<x>>) => s \in Seq(S)
         /\ \A x, y \in S : DOMAIN (<<x>> \o <<y>>) = {1, 2} /\ (<<x>> \o <<y>>)[1] = x /\ (<<x>> \o <<y>>)[2] = y
<1>1. <<>> \in Seq(S) /\ \A x \in S : <<x>> \in Seq(S)
  OBVIOUS
<1>2. ASSUME NEW x \in S, NEW y \in S
      PROVE  DOMAIN (<<x>> \o <<y>>) = {1, 2} /\ (<<x>> \o <<y>>)[1] = x /\ (<<x>> \o <<y>>)[2] = y
  <2>1. <<x>> \in Seq(S) /\ <<y>> \in Seq(S) /\ Len(<<x>>) = 1 /\ Len(<<y>>) = 1
    OBVIOUS
  <2>2. /\ Len(<<x>> \o <<y>>) = 2 /\ (<<x>> \o <<y>>)[1] = <<x>>[1] /\ (<<x>> \o <<y>>)[2] = <<y>>[1]
        /\ <<x>> \o <<y>> \in Seq(S)
    BY <2>1
  <2>3. DOMAIN (<<x>> \o <<y>>) = 1 .. 2 /\ 1 .. 2 = {1, 2}
    BY <2>2
  <2> QED BY <2>2, <2>3
<1> QED BY <1>1, <1>2

\* A correction makes a session's rule, which is no promotion's.
LEMMA CorrectionKeeps ==
  ASSUME IInv, RulesKept, NEW p \in Procs, NEW c \in Cands, NEW kind \in {"fix", "avoid", "prefer"}, NEW key \in Keys,
         NEW names \in {r \in Rules : Exists(r)} \cup {None}, NEW temp \in NewIds,
         ProcessCorrection(p, c, kind, key, names, temp)
  PROVE  RulesKept'
<1> DEFINE new == Save(temp, NewRule("session", key))
           rest == IF kind = "prefer" THEN <<>> ELSE <<new>>
<1>1. Begin(p, "correct", T1(kind, names) \o rest)
  BY DEF ProcessCorrection
<1>2. T1(kind, names) = <<>> \/ \E job \in Plain("correct") : T1(kind, names) = <<job>>
  <2>1. CASE names = None \/ ~ Active(names) \/ (names \in Hard /\ kind # "fix")
    BY <2>1 DEF T1
  <2>2. CASE ~ (names = None \/ ~ Active(names) \/ (names \in Hard /\ kind # "fix"))
    <3> DEFINE rec == disk[names]
    <3>1. names \in Rules /\ Exists(names) /\ rec \in RuleFiles /\ Sound(names, rec) /\ ops \in Nat
      BY <2>2, FilesAre
    <3>2. CASE kind = "fix"
      <4>1. Flagged(rec) \in RuleFiles /\ Faithful(Flagged(rec), rec) /\ Quiet(Flagged(rec), rec)
        BY <3>1, CopiesAreSound, CopiesAreFaithful
      <4>2. T1(kind, names) = <<Save(names, Flagged(rec))>>
        BY <2>2, <3>2 DEF T1
      <4> QED BY <3>1, <4>1, <4>2, PlainJobs
    <3>3. CASE kind = "avoid"
      <4>1. Retired(rec) \in RuleFiles /\ Faithful(Retired(rec), rec) /\ Quiet(Retired(rec), rec)
        BY <2>2, <3>1, <3>3, OffCopiesAreSound, OffCopiesAreFaithful
      <4>2. T1(kind, names) = <<Save(names, Retired(rec))>>
        BY <2>2, <3>3 DEF T1
      <4> QED BY <3>1, <4>1, <4>2, PlainJobs
    <3>4. CASE kind = "prefer"
      <4>1. Superseded(rec) \in RuleFiles /\ Faithful(Superseded(rec), rec) /\ Quiet(Superseded(rec), rec)
        BY <2>2, <3>1, <3>4, OffCopiesAreSound, OffCopiesAreFaithful
      <4>2. T1(kind, names) = <<Save(names, Superseded(rec))>>
        BY <2>2, <3>4 DEF T1
      <4> QED BY <3>1, <4>1, <4>2, PlainJobs
    <3> QED BY <3>2, <3>3, <3>4
  <2> QED BY <2>1, <2>2
<1>3. new \in Jobs
  <2>1. temp \in Rules
    BY NewIdsAreRules
  <2>2. NewRule("session", key) \in RuleFiles
    BY DEF NewRule, RuleFiles, Statuses
  <2> QED BY <2>1, <2>2 DEF Save, Jobs
<1>4. Plain("correct") \subseteq Jobs
  BY DEF Plain
<1> HIDE DEF new
<1>5. CASE kind = "prefer"
  <2>1. T1(kind, names) \in Seq(Plain("correct"))
    BY <1>2, ShortLists
  <2>2. T1(kind, names) \o rest \in Seq(Plain("correct"))
    <3>1. rest = <<>>
      BY <1>5
    <3> QED BY <2>1, <3>1
  <2> QED BY <1>1, <2>2, BeginKeeps
<1>6. CASE kind # "prefer"
  <2> DEFINE list == T1(kind, names) \o <<new>>
  <2>1. \E k \in DOMAIN list : list[k] = new /\ \A i \in DOMAIN list \ {k} : list[i] \in Plain("correct")
    <3>1. CASE T1(kind, names) = <<>>
      <4>1. list = <<new>>
        BY <3>1
      <4> QED BY <4>1
    <3>2. ASSUME NEW job \in Plain("correct"), T1(kind, names) = <<job>>
          PROVE  \E k \in DOMAIN list : list[k] = new /\ \A i \in DOMAIN list \ {k} : list[i] \in Plain("correct")
      <4>1. list = <<job>> \o <<new>>
        BY <3>2
      <4>2. job \in Jobs
        BY <1>4
      <4> HIDE DEF list
      <4>3. DOMAIN list = {1, 2} /\ list[1] = job /\ list[2] = new
        BY <1>3, <4>1, <4>2, ShortLists
      <4> QED BY <4>3
    <3> QED BY <1>2, <3>1, <3>2
  <2>2. list \in Seq(Jobs)
    <3>1. T1(kind, names) \in Seq(Jobs)
      BY <1>2, <1>4, ShortLists
    <3>2. <<new>> \in Seq(Jobs)
      BY <1>3
    <3> QED BY <3>1, <3>2
  <2>3. PICK k \in DOMAIN list : list[k] = new /\ \A i \in DOMAIN list \ {k} : list[i] \in Plain("correct")
    BY <2>1
  <2>4. Begin(p, "correct", list)
    BY <1>1, <1>6
  <2> HIDE DEF list
  <2>5. /\ jobs' = [jobs EXCEPT ![p] = list] /\ op' = [op EXCEPT ![p] = "correct"] /\ UNCHANGED <<disk, outdated>>
        /\ list[k] = Save(temp, NewRule("session", key)) /\ key \in Keys \cup {Merged, None}
    BY <2>3, <2>4 DEF Begin, new
  <2> QED BY <2>2, <2>3, <2>5, OneNewRule
<1> QED BY <1>5, <1>6

\* The merged rule is on already, or is new and has no key.
LEMMA MergeKeeps ==
  ASSUME IInv, RulesKept, NEW p \in Procs, NEW r \in Rules, NEW s \in Rules, NEW m \in Rules, Merge(p, r, s, m)
  PROVE  RulesKept'
<1> DEFINE rest == (IF r = m THEN <<>> ELSE <<Absorbed(r, m)>>) \o <<Absorbed(s, m)>>
<1>1. /\ Exists(r) /\ Exists(s) /\ Begin(p, "merge", AbsorbLast(r, s, m))
      /\ m = r \/ m \in NewIds
  BY DEF Merge, Mergeable, Active
<1>2. ASSUME NEW x \in {r, s} PROVE Absorbed(x, m) \in Plain("merge")
  <2> DEFINE copy == [Changed(disk[x], "superseded", "cluster") EXCEPT !.into = m]
  <2>1. "superseded" \in Statuses /\ "cluster" \in Writers
    BY DEF Statuses, Writers
  <2>2. x \in Rules /\ Exists(x) /\ disk[x] \in RuleFiles /\ SaysWhyItIsOff(disk[x]) /\ ops \in Nat
    BY <1>1, FilesAre DEF Sound
  <2>3. Changed(disk[x], "superseded", "cluster") \in RuleFiles
    BY <2>1, <2>2, IntoStays
  <2>4. copy \in RuleFiles
    BY <2>3 DEF RuleFiles
  <2>5. Faithful(copy, disk[x]) /\ Quiet(copy, disk[x])
    BY <2>2, OffCopiesAreFaithful
  <2>6. Absorbed(x, m) = Save(x, copy)
    BY DEF Absorbed
  <2> HIDE DEF copy
  <2> QED BY <2>2, <2>4, <2>5, <2>6, PlainJobs
<1>3. rest \in Seq(Plain("merge"))
  <2>1. <<Absorbed(r, m)>> \in Seq(Plain("merge")) /\ <<Absorbed(s, m)>> \in Seq(Plain("merge"))
    BY <1>2, ShortLists
  <2>2. (IF r = m THEN <<>> ELSE <<Absorbed(r, m)>>) \in Seq(Plain("merge"))
    BY ONLY <2>1
  <2> QED BY ONLY <2>1, <2>2
<1>4. Plain("merge") \subseteq Jobs
  BY DEF Plain
<1>5. rest \in Seq(Jobs)
  BY ONLY <1>3, <1>4
<1>6. Absorber(m) \in Jobs => AbsorbLast(r, s, m) = <<Absorber(m)>> \o rest
  <2>1. <<Absorbed(r, m)>> \in Seq(Jobs) /\ <<Absorbed(s, m)>> \in Seq(Jobs)
    BY <1>2, <1>4, ShortLists
  <2>2. (IF r = m THEN <<>> ELSE <<Absorbed(r, m)>>) \in Seq(Jobs)
    BY ONLY <2>1
  <2> QED BY <2>1, <2>2 DEF AbsorbLast
<1> HIDE DEF rest
<1>7. CASE m = r
  <2> DEFINE copy == [disk[r] EXCEPT !.status = "active", !.into = None]
  <2>1. disk[r] \in RuleFiles /\ disk[r].status = "active"
    BY <1>1, FilesAre DEF Merge, Mergeable, Active
  <2>2. copy \in RuleFiles /\ copy.status = "active" /\ copy.history = disk[r].history
    BY <2>1 DEF RuleFiles, Statuses
  <2>3. Faithful(copy, disk[r])
    BY <2>1, CopiesAreFaithful
  <2>4. Absorber(m) = Save(r, copy)
    BY <1>1, <1>7 DEF Absorber
  <2> HIDE DEF copy
  <2>5. Absorber(m) \in Plain("merge")
    BY <1>1, <2>1, <2>2, <2>3, <2>4, PlainJobs DEF Quiet
  <2>6. AbsorbLast(r, s, m) \in Seq(Plain("merge"))
    <3>1. <<Absorber(m)>> \in Seq(Plain("merge"))
      BY <2>5, ShortLists
    <3>2. <<Absorber(m)>> \o rest \in Seq(Plain("merge"))
      BY ONLY <1>3, <3>1
    <3> QED BY <1>4, <1>6, <2>5, <3>2
  <2> QED BY <1>1, <2>6, BeginKeeps
<1>8. CASE m \in NewIds
  <2> DEFINE list == <<Absorber(m)>> \o rest
  <2>1. ~ Exists(m)
    BY <1>8, NewIdsAreRules
  <2>2. Absorber(m) = Save(m, NewRule("me", Merged))
    BY <2>1 DEF Absorber
  <2>3. NewRule("me", Merged) \in RuleFiles
    BY DEF NewRule, RuleFiles, Statuses
  <2>4. Absorber(m) \in Jobs
    BY <2>2, <2>3 DEF Save, Jobs
  <2>5. /\ list \in Seq(Jobs) /\ 1 \in DOMAIN list /\ list[1] = Absorber(m)
        /\ \A i \in DOMAIN list \ {1} : list[i] \in Plain("merge")
    <3>1. <<Absorber(m)>> \in Seq(Jobs) /\ Len(<<Absorber(m)>>) = 1 /\ <<Absorber(m)>>[1] = Absorber(m)
      BY <2>4, ShortLists
    <3>2. /\ list \in Seq(Jobs) /\ Len(list) = 1 + Len(rest) /\ Len(rest) \in Nat /\ list[1] = Absorber(m)
          /\ \A i \in 2 .. Len(list) : list[i] = rest[i - 1] /\ i - 1 \in 1 .. Len(rest)
      BY ONLY <1>5, <3>1
    <3>3. \A i \in 1 .. Len(rest) : rest[i] \in Plain("merge")
      BY ONLY <1>3
    <3> HIDE DEF list
    <3>4. DOMAIN list = 1 .. Len(list) /\ Len(list) \in Nat /\ Len(list) >= 1
      BY ONLY <3>2
    <3>5. \A i \in DOMAIN list \ {1} : i \in 2 .. Len(list)
      BY ONLY <3>4
    <3> QED BY <3>2, <3>3, <3>4, <3>5
  <2>6. /\ jobs' = [jobs EXCEPT ![p] = list] /\ op' = [op EXCEPT ![p] = "merge"] /\ UNCHANGED <<disk, outdated>>
    BY <1>1, <1>6, <2>4 DEF Begin
  <2> HIDE DEF list
  <2>7. list[1] = Save(m, NewRule("me", Merged)) /\ Merged \notin Keys
    BY <2>2, <2>5, RuleStoreAssumption
  <2>8. list \in Seq(Jobs) /\ 1 \in DOMAIN list /\ \A i \in DOMAIN list \ {1} : list[i] \in Plain("merge")
    BY <2>5
  <2> QED BY ONLY IInv, RulesKept, p \in Procs, <1>8, <2>6, <2>7, <2>8, OneNewRule
<1> QED BY <1>1, <1>7, <1>8

LEMMA UnmergeKeeps ==
  ASSUME IInv, RulesKept, NEW p \in Procs, NEW m \in Rules, Unmerge(p, m) PROVE RulesKept'
<1> DEFINE originals == {r \in Rules : Exists(r) /\ disk[r].into = m}
           list == SetToSeq(originals)
           copy(r) == [disk[r] EXCEPT !.status = "active", !.into = None]
           back == [i \in DOMAIN list |-> Save(list[i], copy(list[i]))]
           off == Changed(disk[m], "removed", "cluster")
           end == Save(m, off)
<1>1. list \in Seq(originals)
  <2>1. IsFiniteSet(originals)
    BY RuleStoreAssumption, FS_Subset
  <2> QED BY <2>1, SetToSeqIsSequence
<1>2. ASSUME NEW r \in originals PROVE Save(r, copy(r)) \in Plain("unmerge")
  <2>1. r \in Rules /\ Exists(r) /\ disk[r] \in RuleFiles
    BY FilesAre
  <2>2. copy(r) \in RuleFiles /\ Faithful(copy(r), disk[r])
    BY <2>1, CopiesAreFaithful DEF RuleFiles, Statuses
  <2>3. "unmerge" \in SwitchOn
    BY DEF SwitchOn
  <2> HIDE DEF copy, originals
  <2> QED BY <2>1, <2>2, <2>3, PlainJobs
<1>3. end \in Plain("unmerge")
  <2>1. "removed" \in Statuses /\ "cluster" \in Writers
    BY DEF Statuses, Writers
  <2>2. Exists(m) /\ disk[m] \in RuleFiles /\ SaysWhyItIsOff(disk[m]) /\ ops \in Nat
    BY FilesAre DEF Unmerge, Sound
  <2>3. off \in RuleFiles /\ Faithful(off, disk[m]) /\ Quiet(off, disk[m])
    BY <2>1, <2>2, IntoStays, OffCopiesAreFaithful
  <2> HIDE DEF off
  <2> QED BY <2>2, <2>3, PlainJobs
<1>4. back \o <<end>> \in Seq(Plain("unmerge"))
  <2> HIDE DEF end, list, copy, originals
  <2>1. Len(list) \in Nat /\ DOMAIN list = 1 .. Len(list) /\ \A i \in DOMAIN list : list[i] \in originals
    BY <1>1
  <2>2. back \in [1 .. Len(list) -> Plain("unmerge")]
    BY <1>2, <2>1
  <2> HIDE DEF back
  <2>3. back \in Seq(Plain("unmerge"))
    BY <2>1, <2>2
  <2>4. <<end>> \in Seq(Plain("unmerge"))
    BY <1>3, ShortLists
  <2> QED BY ONLY <2>3, <2>4
<1>5. Begin(p, "unmerge", back \o <<end>>)
  BY DEF Unmerge
<1> HIDE DEF back, end
<1> QED BY <1>4, <1>5, BeginKeeps

LEMMA AutomationKeeps ==
  ASSUME IInv, RulesKept, NEW p \in Procs, Automation(p) PROVE RulesKept'
<1>1. CASE BeginPromotion(p)
  <2>1. /\ \A q \in Procs : op[q] # "promote"
        /\ jobs' = [jobs EXCEPT ![p] = <<>>] /\ op' = [op EXCEPT ![p] = "promote"] /\ UNCHANGED <<disk, outdated>>
    BY <1>1 DEF BeginPromotion, Begin
  <2>2. <<>> \in Seq(Plain("promote")) /\ Len(<<>>) <= 1
    OBVIOUS
  <2> QED BY <2>1, <2>2, PlainList
<1>2. ASSUME NEW r \in Rules, MaybeDemote(p, r) PROVE RulesKept'
  <2> DEFINE copy == [disk[r] EXCEPT !.mode = "advise"]
  <2>1. Exists(r) /\ Begin(p, "demote", <<Save(r, copy), Later("log", r)>>) /\ disk[r] \in RuleFiles
    BY <1>2, FilesAre DEF MaybeDemote
  <2>2. copy \in RuleFiles
    BY <2>1 DEF RuleFiles
  <2>3. Faithful(copy, disk[r]) /\ Quiet(copy, disk[r])
    BY <2>1, CopiesAreFaithful
  <2> HIDE DEF copy
  <2>4. Save(r, copy) \in Plain("demote") /\ Later("log", r) \in Plain("demote")
    BY <2>1, <2>2, <2>3, PlainJobs
  <2>5. <<Save(r, copy), Later("log", r)>> \in Seq(Plain("demote"))
    BY ONLY <2>4
  <2> QED BY <2>1, <2>5, BeginKeeps
<1>3. ASSUME NEW r \in Rules, Decay(p, r) PROVE RulesKept'
  BY <1>3, SwitchKeeps
<1>4. ASSUME NEW r \in Rules, MarkInjected(p, r) PROVE RulesKept'
  <2>1. Exists(r) /\ Begin(p, "inject", <<Write(r, disk[r])>>) /\ disk[r] \in RuleFiles
    BY <1>4, FilesAre DEF MarkInjected
  <2>2. Write(r, disk[r]) \in Plain("inject")
    BY <2>1, CopiesAreFaithful, PlainJobs
  <2>3. <<Write(r, disk[r])>> \in Seq(Plain("inject"))
    BY <2>2, ShortLists
  <2> QED BY <2>1, <2>3, BeginKeeps
<1>5. ASSUME NEW r \in Rules, CleanupSession(p, r) PROVE RulesKept'
  <2>1. Begin(p, "cleanup", <<Later("relook", r)>>)
    BY <1>5 DEF CleanupSession
  <2>2. <<Later("relook", r)>> \in Seq(Plain("cleanup"))
    BY PlainJobs, ShortLists
  <2> QED BY <2>1, <2>2, BeginKeeps
<1>6. ASSUME NEW r \in Rules, NEW event \in {"none", "flag", "retire"}, NEW meta \in BOOLEAN,
             Scan(p, r, event, meta)
      PROVE  RulesKept'
  <2> DEFINE first == CASE event = "flag" -> <<Save(r, Flagged(disk[r]))>>
                        [] event = "retire" -> <<Save(r, Retired(disk[r]))>>
                        [] event = "none" -> <<>>
             second == IF meta THEN <<Save(r, disk[r])>> ELSE <<>>
  <2>1. Exists(r) /\ disk[r] \in RuleFiles /\ Sound(r, disk[r]) /\ ops \in Nat
    BY <1>6, FilesAre DEF Scan
  <2>2. first \in Seq(Plain("scan"))
    <3>1. CASE event = "flag"
      <4>1. Flagged(disk[r]) \in RuleFiles /\ Faithful(Flagged(disk[r]), disk[r]) /\ Quiet(Flagged(disk[r]), disk[r])
        BY <2>1, CopiesAreSound, CopiesAreFaithful
      <4>2. Save(r, Flagged(disk[r])) \in Plain("scan")
        BY <2>1, <4>1, PlainJobs
      <4> QED BY <3>1, <4>2, ShortLists
    <3>2. CASE event = "retire"
      <4>1. Retired(disk[r]) \in RuleFiles /\ Faithful(Retired(disk[r]), disk[r]) /\ Quiet(Retired(disk[r]), disk[r])
        BY <1>6, <2>1, <3>2, OffCopiesAreSound, OffCopiesAreFaithful DEF Scan
      <4>2. Save(r, Retired(disk[r])) \in Plain("scan")
        BY <2>1, <4>1, PlainJobs
      <4> QED BY <3>2, <4>2, ShortLists
    <3>3. CASE event = "none"
      BY <3>3, ShortLists
    <3> QED BY <3>1, <3>2, <3>3
  <2>3. second \in Seq(Plain("scan")) /\ <<Later("sync", r)>> \in Seq(Plain("scan"))
    <3>1. Save(r, disk[r]) \in Plain("scan") /\ Later("sync", r) \in Plain("scan")
      BY <2>1, CopiesAreFaithful, PlainJobs
    <3> QED BY <3>1, ShortLists
  <2>4. Begin(p, "scan", first \o second \o <<Later("sync", r)>>)
    BY <1>6 DEF Scan
  <2> HIDE DEF first, second
  <2>5. first \o second \o <<Later("sync", r)>> \in Seq(Plain("scan"))
    BY ONLY <2>2, <2>3
  <2> QED BY <2>4, <2>5, BeginKeeps
<1> QED BY <1>1, <1>2, <1>3, <1>4, <1>5, <1>6 DEF Automation

\* A promotion makes a rule only if no rule of its user's has the key.
LEMMA PromoteKeeps ==
  ASSUME IInv, RulesKept, NEW p \in Procs, NEW c \in Cands, Promote(p, c) PROVE RulesKept'
<1>1. PICK r \in IF Matches(evid[c].key) # {} THEN Found(evid[c].key) ELSE NewIds :
        jobs' = [jobs EXCEPT ![p] = SavedThenMarked(c, r)]
  BY DEF Promote
<1>2. op[p] = "promote" /\ op' = op /\ UNCHANGED <<disk, outdated>>
  BY DEF Promote
<1>3. op' = [op EXCEPT ![p] = "promote"]
  BY <1>2, WriteBack DEF IInv, TypeOK
<1>4. evid[c].key \in Keys
  <2>1. c \in Made
    BY HeadIsGood DEF Promote
  <2> QED BY <2>1 DEF Made, IInv, TypeOK, Evidence
<1>5. r \in Rules /\ "promote" \in SwitchOn
  <2>1. NewIds \subseteq Rules /\ Found(evid[c].key) \subseteq Rules
    BY NewIdsAreRules DEF Found, Matches
  <2> QED BY <2>1 DEF SwitchOn
<1>6. /\ Promoted(c, r) \in Jobs /\ Promoted(c, r).rule = r /\ Copying(Promoted(c, r))
      /\ Keeps("promote", Promoted(c, r))
      /\ ~ Exists(r) => \A q \in Procs : \A j \in DOMAIN jobs[q] : jobs[q][j].rule # r
  <2>1. CASE Exists(r)
    <3> DEFINE copy == [disk[r] EXCEPT !.status = "active"]
    <3>1. disk[r] \in RuleFiles
      BY <1>5, <2>1, FilesAre
    <3>2. copy \in RuleFiles /\ Faithful(copy, disk[r])
      BY <3>1, CopiesAreFaithful DEF RuleFiles, Statuses
    <3>3. Promoted(c, r) = Save(r, copy)
      BY <2>1 DEF Promoted
    <3> HIDE DEF copy
    <3>4. Save(r, copy) \in Plain("promote")
      BY <1>5, <2>1, <3>2, PlainJobs
    <3> QED BY <2>1, <3>3, <3>4 DEF Plain, Save, Copying
  <2>2. CASE ~ Exists(r)
    <3> DEFINE copy == NewRule("me", evid[c].key)
    <3>1. copy \in RuleFiles
      BY <1>4 DEF NewRule, RuleFiles, Statuses
    <3>2. copy.born = "me" /\ copy.scope = "me" /\ copy.key = evid[c].key
      BY DEF NewRule
    <3>3. Promoted(c, r) = Save(r, copy)
      BY <2>2 DEF Promoted
    <3>4. Matches(evid[c].key) = {} /\ r \in NewIds
      BY <1>1, <2>2 DEF Found, Matches
    <3>5. ~ Taken(evid[c].key)
      <4> SUFFICES ASSUME NEW s \in There, disk[s].born = "me", disk[s].key = evid[c].key PROVE FALSE
        BY DEF Taken
      <4>1. Mine(disk[s])
        BY DEF RulesKept, FilesKept
      <4> QED BY <3>4, <4>1 DEF Mine, Matches, There
    <3>6. \A q \in Procs : \A j \in DOMAIN jobs[q] : jobs[q][j].rule # r
      BY <3>4 DEF NewIds, Unused
    <3> HIDE DEF copy
    <3>7. /\ Save(r, copy) \in Jobs /\ Save(r, copy).rule = r /\ Save(r, copy).rec = copy
          /\ Copying(Save(r, copy))
      BY <1>5, <3>1 DEF Save, Jobs, Copying
    <3> QED BY <1>5, <2>2, <3>2, <3>3, <3>5, <3>6, <3>7 DEF Keeps, Mine
  <2> QED BY <2>1, <2>2
<1> DEFINE list == SavedThenMarked(c, r)
<1>7. Mark(c, r) \in Jobs /\ ~ Copying(Mark(c, r))
  BY <1>5 DEF Mark, Jobs, Copying
<1>8. list \in Seq(Jobs) /\ DOMAIN list = {1, 2} /\ list[1] = Promoted(c, r) /\ list[2] = Mark(c, r)
  BY <1>6, <1>7 DEF SavedThenMarked
<1>9. \A i \in DOMAIN list : Copying(list[i]) => i = 1
  BY <1>7, <1>8
<1>10. \A i \in DOMAIN list : Keeps("promote", list[i])
  BY <1>6, <1>7, <1>8 DEF Keeps
<1>11. \A i, j \in DOMAIN list : Clash(list[i], list[j]) => i = j
  BY <1>9 DEF Clash
<1>12. \A i \in DOMAIN list, q \in Procs \ {p} : \A j \in DOMAIN jobs[q] : ~ Clash(list[i], jobs[q][j])
  BY <1>6, <1>8, <1>9 DEF Clash
<1>13. \A q \in Procs \ {p} : op[q] # "promote"
  BY <1>2 DEF RulesKept, OnePromotion
<1> HIDE DEF list
<1>14. jobs' = [jobs EXCEPT ![p] = list] /\ list \in Seq(Jobs) /\ UNCHANGED <<disk, outdated>>
  BY <1>1, <1>2, <1>8 DEF list
<1>15. PICK name : name = "promote"
  OBVIOUS
<1>16. op' = [op EXCEPT ![p] = name] /\ \A i \in DOMAIN list : Keeps(name, list[i])
  BY <1>3, <1>10, <1>15
<1> QED BY ONLY IInv, RulesKept, p \in Procs, <1>9, <1>11, <1>12, <1>13, <1>14, <1>16, JobsKept

\* The steps that write no rule.
LEMMA WritingKeeps ==
  ASSUME IInv, RulesKept, NEW p \in Procs,
         \/ Compare(p) \/ Refused(p) \/ MarkUsed(p) \/ LogDemotion(p) \/ SyncCounters(p) \/ Relook(p)
         \/ EndPromotion(p) \/ Die(p)
  PROVE  RulesKept'
<1>1. /\ jobs \in [Procs -> Seq(Jobs)] /\ op \in [Procs -> Operations \cup {None}]
      /\ UNCHANGED <<disk, outdated>>
  BY DEF IInv, TypeOK, Compare, Refused, MarkUsed, LogDemotion, SyncCounters, Relook, EndPromotion, Die
<1>2. jobs[p] \in {<<>>, Tail(jobs[p]), jobs[p]} /\ jobs = [jobs EXCEPT ![p] = jobs[p]]
      /\ op = [op EXCEPT ![p] = op[p]]
  BY <1>1, WriteBack
<1>3. \A rest : Done(p, rest) =>
        /\ jobs' = [jobs EXCEPT ![p] = rest]
        /\ op' = op \/ (rest = <<>> /\ op' = [op EXCEPT ![p] = None])
  <2> SUFFICES ASSUME NEW rest, Done(p, rest)
               PROVE  /\ jobs' = [jobs EXCEPT ![p] = rest]
                      /\ op' = op \/ (rest = <<>> /\ op' = [op EXCEPT ![p] = None])
    OBVIOUS
  <2>1. CASE rest = <<>> /\ op[p] # "promote"
    BY <2>1 DEF Done
  <2>2. CASE ~ (rest = <<>> /\ op[p] # "promote")
    BY <1>2, <2>2 DEF Done
  <2> QED BY <2>1, <2>2
<1>4. op[p] = "promote" => \A q \in Procs \ {p} : op[q] # "promote"
  BY DEF RulesKept, OnePromotion
<1>5. CASE Compare(p)
  <2>1. jobs' = [jobs EXCEPT ![p] = jobs[p]] /\ op' = op /\ jobs[p] # <<>>
    BY <1>2, <1>5 DEF Compare, Doing
  <2> QED BY <1>1, <1>2, <2>1, FewerJobs
<1>6. CASE EndPromotion(p)
  <2>1. jobs' = [jobs EXCEPT ![p] = <<>>] /\ op' = [op EXCEPT ![p] = None]
    BY <1>2, <1>6 DEF EndPromotion
  <2>2. <<>> \in Seq(Plain(None)) /\ None # "promote"
    BY RuleStoreAssumption DEF Operations
  <2> QED BY <1>1, <2>1, <2>2, PlainList
<1>7. CASE Die(p)
  <2>1. jobs' = [jobs EXCEPT ![p] = <<>>] /\ op' = [op EXCEPT ![p] = None]
    BY <1>7 DEF Die
  <2>2. <<>> \in Seq(Plain(None)) /\ None # "promote"
    BY RuleStoreAssumption DEF Operations
  <2> QED BY <1>1, <2>1, <2>2, PlainList
<1>8. ASSUME NEW rest \in {<<>>, Tail(jobs[p])}, jobs[p] # <<>>, Done(p, rest) PROVE RulesKept'
  <2>1. jobs' = [jobs EXCEPT ![p] = rest] /\ (op' = op \/ (rest = <<>> /\ op' = [op EXCEPT ![p] = None]))
    BY <1>3, <1>8
  <2> QED BY <1>1, <1>8, <2>1, FewerJobs
<1>9. CASE Refused(p)
  <2>1. PICK rest \in {<<>>, Tail(jobs[p])} : Done(p, rest)
    BY <1>9 DEF Refused
  <2> QED BY <1>8, <1>9, <2>1 DEF Refused, Doing
<1>10. CASE MarkUsed(p) \/ LogDemotion(p)
  BY <1>8, <1>10 DEF MarkUsed, LogDemotion, Doing
<1>11. ASSUME NEW job \in Plain(op[p]), jobs' = [jobs EXCEPT ![p] = <<job>>], op' = op PROVE RulesKept'
  <2>1. <<job>> \in Seq(Plain(op[p])) /\ Len(<<job>>) <= 1
    BY <1>11, ShortLists
  <2>2. op' = [op EXCEPT ![p] = op[p]]
    BY <1>2, <1>11
  <2> QED BY <1>1, <1>4, <1>11, <2>1, <2>2, PlainList
<1> DEFINE r == Head(jobs[p]).rule
<1>12. CASE SyncCounters(p)
  <2>1. jobs' = [jobs EXCEPT ![p] = <<Write(r, disk[r])>>] /\ op' = op
    BY <1>12 DEF SyncCounters
  <2>2. Head(jobs[p]) \in GoodJobs(There, Made) /\ Head(jobs[p]).do = "sync"
    BY <1>12, HeadIsGood DEF SyncCounters, Doing
  <2>3. r \in Rules /\ Exists(r)
    BY <2>2 DEF GoodJobs, There
  <2> HIDE DEF r
  <2>4. Write(r, disk[r]) \in Plain(op[p])
    BY <2>3, FilesAre, CopiesAreFaithful, PlainJobs
  <2> QED BY <1>11, <2>1, <2>4
<1>13. CASE Relook(p)
  <2> DEFINE off == Changed(disk[r], "suppressed", "session-cleanup")
  <2>1. \/ Active(r) /\ jobs' = [jobs EXCEPT ![p] = <<Save(r, off)>>] /\ op' = op
        \/ Done(p, <<>>)
    BY <1>13 DEF Relook
  <2>2. CASE Done(p, <<>>)
    BY <1>8, <1>13, <2>2 DEF Relook, Doing
  <2>3. Head(jobs[p]) \in Jobs
    BY <1>13, HeadIsGood DEF Relook, Doing, GoodJobs
  <2>4. r \in Rules
    BY <2>3 DEF Jobs
  <2> HIDE DEF r
  <2>5. CASE Active(r) /\ jobs' = [jobs EXCEPT ![p] = <<Save(r, off)>>] /\ op' = op
    <3>1. "suppressed" \in Statuses /\ "session-cleanup" \in Writers
      BY DEF Statuses, Writers
    <3>2. Exists(r) /\ disk[r] \in RuleFiles /\ SaysWhyItIsOff(disk[r]) /\ ops \in Nat
      BY <2>4, <2>5, FilesAre DEF Active, Sound
    <3>3. off \in RuleFiles /\ Faithful(off, disk[r]) /\ Quiet(off, disk[r])
      BY <3>1, <3>2, IntoStays, OffCopiesAreFaithful
    <3> HIDE DEF off
    <3>4. Save(r, off) \in Plain(op[p])
      BY <2>4, <3>2, <3>3, PlainJobs
    <3> QED BY <1>11, <2>5, <3>4
  <2> QED BY <2>1, <2>2, <2>5
<1> QED BY <1>5, <1>6, <1>7, <1>9, <1>10, <1>12, <1>13

LEMMA KeepsStepIsOK == IInv /\ RulesKept /\ [Next]_vars => RulesKept'
<1> SUFFICES ASSUME IInv, RulesKept, [Next]_vars PROVE RulesKept'
  OBVIOUS
<1>1. ASSUME NEW p \in Procs, Command(p) PROVE RulesKept'
  BY <1>1, SwitchKeeps, CorrectionKeeps, MergeKeeps, UnmergeKeeps DEF Command
<1>2. ASSUME NEW p \in Procs, Automation(p) PROVE RulesKept'
  BY <1>2, AutomationKeeps
<1>3. ASSUME NEW p \in Procs, Promotion(p) \/ Writing(p) \/ Die(p) PROVE RulesKept'
  BY <1>3, PromoteKeeps, CommitKeeps, WritingKeeps DEF Promotion, Writing
<1>4. CASE UNCHANGED vars
  BY <1>4 DEF vars, RulesKept, OneRulePerKey, FilesKept, CopiesKept, MadeOnce, OnePromotion, PromotesFirst,
              Keeps, Clash, Taken, Mine, InTime, Copying, SameRule, There, Exists
<1> QED BY <1>1, <1>2, <1>3, <1>4 DEF Next

LEMMA RulesAlwaysKept == Spec => []RulesKept
<1> QED BY InitKeeps, KeepsStepIsOK, Invariant, PTL DEF Spec

\* Promotion makes one rule for a key, however often it dies and is repeated
\* and whatever became of the rule (promoteSessionCandidates).
THEOREM PromotionMakesOneRule == Spec => []OneRulePerKey
<1> QED BY RulesAlwaysKept, PTL DEF RulesKept

\* What its user switched off is switched on by the user or a correction, or by
\* a copy that waited while it was switched off.
THEOREM SwitchedOffStaysOff == Spec => SuppressedStaysOff
<1>1. ASSUME IInv, RulesKept, NEW p \in Procs, NEW r \in Rules, Writes(p, r), Exists(r), OffByUser(disk[r]),
             disk'[r].status = "active"
      PROVE  op[p] \in SwitchOn \/ <<r, disk'[r]>> \in outdated
  <2> DEFINE job == Head(jobs[p])
  <2>1. /\ job.rule = r /\ jobs[p] # <<>> /\ job.do \in {"save", "write"}
        /\ disk' = [disk EXCEPT ![job.rule] = job.rec]
    BY <1>1 DEF Writes, Commit, Doing
  <2>2. jobs[p] \in Seq(Jobs)
    BY <1>1 DEF IInv, TypeOK
  <2>3. 1 \in DOMAIN jobs[p] /\ job = jobs[p][1]
    BY ONLY <2>1, <2>2
  <2>4. Keeps(op[p], job)
    BY <1>1, <2>3 DEF RulesKept, CopiesKept
  <2>5. disk'[r] = job.rec
    BY <1>1, <2>1 DEF IInv, TypeOK
  <2> HIDE DEF job
  <2> QED BY <1>1, <2>1, <2>4, <2>5 DEF Keeps, Copying, InTime
<1>2. IInv /\ RulesKept /\ [Next]_vars =>
        [\A p \in Procs, r \in Rules :
           Writes(p, r) /\ Exists(r) /\ OffByUser(disk[r]) /\ disk'[r].status = "active"
             => op[p] \in SwitchOn \/ <<r, disk'[r]>> \in outdated]_vars
  BY <1>1
<1> QED BY <1>2, RulesAlwaysKept, Invariant, PTL DEF Spec, SuppressedStaysOff
=============================================================================
