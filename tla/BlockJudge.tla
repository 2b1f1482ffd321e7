----------------------------- MODULE BlockJudge -----------------------------
(***************************************************************************)
(* The judge of blocks.  The hook that blocks an answer or a tool call     *)
(* records the violation and, within limits per session and per day, starts*)
(* a process that asks a model whether the block was right.  What waits to *)
(* be judged is known by a marker file, what was judged by the log of      *)
(* verdicts; nothing is locked.  The user may judge a block at any time.   *)
(* Enough wrong blocks turn their rule into advice.                        *)
(***************************************************************************)
EXTENDS Naturals, Sequences, FiniteSets, SequencesExt

CONSTANTS
  Violations,   \* ids of violations, most of them not yet used
  SessionOf,    \* the session each belongs to
  RuleOf,       \* and its rule, None for a built-in check
  Rules,
  None,
  SessionCap, DayCap,   \* JUDGE_CAP_PER_SESSION, JUDGE_CAP_PER_DAY
  DemoteMinJudged,      \* DEMOTE_MIN_JUDGED
  MaxOdd                \* bound: faults and the user's doings

ASSUME BlockJudgeAssumption ==
  /\ IsFiniteSet(Violations) /\ DOMAIN SessionOf = Violations
  /\ RuleOf \in [Violations -> Rules \cup {None}]
  /\ SessionCap \in Nat /\ DayCap \in Nat /\ DemoteMinJudged \in Nat \ {0}
  /\ MaxOdd \in Nat

VARIABLES
  pc,        \* for each violation, what its hook and then its judge do next
  marks,     \* judge-inflight: the markers
  aged,      \* those older than INFLIGHT_STALE_MS
  log,       \* verdicts.jsonl: the verdicts on each violation, in order
  seen,      \* the verdicts its hook or judge has read
  mode,      \* each rule's enforce_mode
  demoted,   \* the rules in demotions.jsonl
  past,      \* the violations before their rule's epoch
  odd,       \* faults and the user's doings so far
  called,    \* history: the judges that called the model
  lost,      \* history: those whose marker lapsed, or whose marker or verdict could not be written
  excused    \* history: those that a later judge let pass uncounted

files == <<marks, aged, log, mode, demoted, past>>
vars == <<pc, files, seen, odd, called, lost, excused>>

Steps ==
  {"unused", "list", "mark", "spawn", "read", "check", "verdict", "clear", "drop", "weigh", "save", "log", "done"}
Words == {"correct", "false_positive", "unsure"}
Entries == [by : {"auto", "user"}, word : Words]

TypeOK ==
  /\ pc \in [Violations -> Steps]
  /\ marks \subseteq Violations /\ aged \subseteq marks
  /\ log \in [Violations -> Seq(Entries)] /\ seen \in [Violations -> SUBSET Violations]
  /\ mode \in [Rules -> {"unset", "block", "advise"}] /\ demoted \subseteq Rules \cup {None}
  /\ past \subseteq Violations
  /\ odd \in Nat
  /\ called \subseteq Violations /\ lost \subseteq Violations /\ excused \subseteq Violations

Init ==
  /\ pc = [v \in Violations |-> "unused"]
  /\ marks = {} /\ aged = {}
  /\ log = [v \in Violations |-> <<>>] /\ seen = [v \in Violations |-> {}]
  /\ mode = [r \in Rules |-> "unset"] /\ demoted = {} /\ past = {}
  /\ odd = 0 /\ called = {} /\ lost = {} /\ excused = {}

Go(v, from, to) == pc[v] = from /\ pc' = [pc EXCEPT ![v] = to]

History == UNCHANGED <<called, lost, excused>>

-----------------------------------------------------------------------------
(* The caps *)

Recorded == {v \in Violations : pc[v] # "unused"}
JudgedByModel == {v \in Violations : \E i \in DOMAIN log[v] : log[v][i].by = "auto"}

\* Slip: a marker counts until somebody removes it.
AllMarks == marks

\* inflightIds: the markers that count.
LiveMarks == marks \ aged
List(v) ==
  /\ marks' = LiveMarks /\ aged' = {} /\ lost' = lost \cup aged
  /\ seen' = [seen EXCEPT ![v] = {}]   \* what was read is used up

\* withinJudgeCaps: the verdicts as they were read, the markers as listed now.
Counted(v) == (seen[v] \cup LiveMarks) \ {v}
WithinCaps(v) ==
  /\ Cardinality(Counted(v)) < DayCap
  /\ Cardinality({w \in Counted(v) \cap Recorded : SessionOf[w] = SessionOf[v]}) < SessionCap

-----------------------------------------------------------------------------
(* The hook *)

\* recordViolation, and the first half of withinJudgeCaps: the verdicts.
Record(v) ==
  /\ pc[v] = "unused"
  /\ pc' = [pc EXCEPT ![v] = "list"]
  /\ seen' = [seen EXCEPT ![v] = JudgedByModel]
  /\ UNCHANGED <<files, odd>> /\ History

\* Without consent, or past a cap, no judge is started.
HookLists(v) ==
  /\ (Go(v, "list", "mark") /\ WithinCaps(v)) \/ Go(v, "list", "done")
  /\ List(v)
  /\ UNCHANGED <<log, mode, demoted, past, odd, called, excused>>

\* markInflight
MarkInflight(v) ==
  /\ Go(v, "mark", "spawn")
  /\ marks' = marks \cup {v}
  /\ UNCHANGED <<aged, log, seen, mode, demoted, past, odd>> /\ History

Spawn(v) ==
  /\ Go(v, "spawn", "read")
  /\ UNCHANGED <<files, seen, odd>> /\ History

-----------------------------------------------------------------------------
(* The judge *)

ReadVerdicts(v) ==
  /\ Go(v, "read", "check")
  /\ seen' = [seen EXCEPT ![v] = JudgedByModel]
  /\ UNCHANGED <<files, odd>> /\ History

\* Judges that v cannot have counted: their marker lapsed or a write of theirs
\* failed, or they went from marker to verdict while v looked at the verdicts
\* and then at the markers.
Unknowable(v) == {w \in called \ Counted(v) : w \in lost \cup aged \/ w \in JudgedByModel \ seen[v]}

\* Slip: the marker goes first.
ClearedThenSaid(step) == CASE step = "check" -> "clear" [] step = "clear" -> "verdict" [] step = "verdict" -> "weigh"

\* setVerdict, then clearInflight.
SaidThenCleared(step) == CASE step = "check" -> "verdict" [] step = "verdict" -> "clear" [] step = "clear" -> "weigh"

\* The judge looks again, its own marker apart.
Check(v) ==
  /\ List(v)
  /\ \/ /\ Go(v, "check", SaidThenCleared("check")) /\ WithinCaps(v)
        /\ called' = called \cup {v} /\ excused' = excused \cup Unknowable(v)
     \/ /\ Go(v, "check", "drop")
        /\ UNCHANGED <<called, excused>>
  /\ UNCHANGED <<log, mode, demoted, past, odd>>

\* The model answers; one that fails or makes no sense is unsure.
SetVerdict(v) ==
  /\ Go(v, "verdict", SaidThenCleared("verdict"))
  /\ \E word \in Words : log' = [log EXCEPT ![v] = Append(@, [by |-> "auto", word |-> word])]
  /\ UNCHANGED <<marks, aged, seen, mode, demoted, past, odd>> /\ History

ClearInflight(v) ==
  /\ Go(v, "clear", SaidThenCleared("clear")) \/ Go(v, "drop", "done")
  /\ marks' = marks \ {v} /\ aged' = aged \ {v}
  /\ UNCHANGED <<log, seen, mode, demoted, past, odd>> /\ History

\* The last word, whoever said it.  Slip: it counts.
LastWord(v) == IF log[v] = <<>> THEN "none" ELSE Last(log[v]).word

\* effectiveVerdicts: the user's last word, or else the model's.
ByUser(v) == {i \in DOMAIN log[v] : log[v][i].by = "user"}
Effective(v) == IF ByUser(v) = {} THEN LastWord(v) ELSE log[v][Max(ByUser(v))].word

\* precisionByRule, for the rule of v.
Judged(r, word) == {w \in Recorded \ past : RuleOf[w] = r /\ Effective(w) = word}
Imprecise(r) ==
  LET right == Cardinality(Judged(r, "correct"))
      wrong == Cardinality(Judged(r, "false_positive"))
  IN right + wrong >= DemoteMinJudged /\ right < wrong

\* maybeDemote, after a judgement that is sure: the rule and the judgements are
\* read, then the rule is written.
Demotes(v) ==
  /\ RuleOf[v] # None /\ mode[RuleOf[v]] = "unset" /\ Imprecise(RuleOf[v])
  /\ \E i \in DOMAIN log[v] : log[v][i].by = "auto" /\ log[v][i].word # "unsure"
Weigh(v) ==
  /\ Go(v, "weigh", IF Demotes(v) THEN "save" ELSE "done")
  /\ UNCHANGED <<files, seen, odd>> /\ History

Demote(v) ==
  /\ Go(v, "save", "log")
  /\ mode' = [mode EXCEPT ![RuleOf[v]] = "advise"]
  /\ UNCHANGED <<marks, aged, log, demoted, past, seen, odd>> /\ History

LogDemotion(v) ==
  /\ Go(v, "log", "done")
  /\ demoted' = demoted \cup {RuleOf[v]}
  /\ UNCHANGED <<marks, aged, log, mode, past, seen, odd>> /\ History

-----------------------------------------------------------------------------
(* The user, and faults *)

Odd == odd < MaxOdd /\ odd' = odd + 1

\* forgen block --ok or --fp
UserJudges(v, word) ==
  /\ Odd /\ pc[v] # "unused"
  /\ log' = [log EXCEPT ![v] = Append(@, [by |-> "user", word |-> word])]
  /\ UNCHANGED <<pc, marks, aged, mode, demoted, past, seen>> /\ History

EnforceMode(r, to) ==
  /\ Odd
  /\ mode' = [mode EXCEPT ![r] = to]
  /\ UNCHANGED <<pc, marks, aged, log, demoted, past, seen>> /\ History

\* The rule blocks again, and what was judged so far counts no more.
RestoreDemoted(r) ==
  /\ Odd /\ mode[r] = "advise" /\ r \in demoted
  /\ mode' = [mode EXCEPT ![r] = "block"]
  /\ past' = past \cup {v \in Recorded : RuleOf[v] = r}
  /\ UNCHANGED <<pc, marks, aged, log, demoted, seen>> /\ History

\* Marker and verdict are best effort.
WriteFails(v) ==
  /\ Odd
  /\ Go(v, "mark", "spawn") \/ Go(v, "verdict", SaidThenCleared("verdict"))
  /\ lost' = lost \cup {v}
  /\ UNCHANGED <<files, seen, called, excused>>

\* A hook or a judge dies.
Die(v) ==
  /\ Odd /\ pc[v] \notin {"unused", "done"}
  /\ pc' = [pc EXCEPT ![v] = "done"]
  /\ UNCHANGED <<files, seen>> /\ History

\* A judge that is suspended for five minutes.
Stall(v) ==
  /\ Odd /\ v \in LiveMarks /\ pc[v] # "done"
  /\ aged' = aged \cup {v}
  /\ UNCHANGED <<pc, marks, log, mode, demoted, past, seen>> /\ History

\* The marker of one that is gone.
Age(v) ==
  /\ v \in LiveMarks /\ pc[v] = "done"
  /\ aged' = aged \cup {v}
  /\ UNCHANGED <<pc, marks, log, mode, demoted, past, seen, odd>> /\ History

-----------------------------------------------------------------------------
Hook(v) == HookLists(v) \/ MarkInflight(v) \/ Spawn(v)
Judge(v) ==
  \/ ReadVerdicts(v) \/ Check(v) \/ SetVerdict(v) \/ ClearInflight(v)
  \/ Weigh(v) \/ Demote(v) \/ LogDemotion(v)

Next ==
  \/ \E v \in Violations :
       \/ Record(v) \/ Hook(v) \/ Judge(v) \/ WriteFails(v) \/ Die(v) \/ Stall(v) \/ Age(v)
       \/ \E word \in {"correct", "false_positive"} : UserJudges(v, word)
  \/ \E r \in Rules : RestoreDemoted(r) \/ \E to \in {"block", "advise"} : EnforceMode(r, to)

\* Hooks and judges that were started run, and time passes.
Fairness == \A v \in Violations : WF_vars(Hook(v)) /\ WF_vars(Judge(v)) /\ WF_vars(Age(v))
Spec == Init /\ [][Next]_vars /\ Fairness

-----------------------------------------------------------------------------
(* Properties *)

\* A judgement that counts can be seen: its marker is there from before the
\* model is called until after its verdict is, unless it lapsed or was never
\* written (markInflight, setVerdict and clearInflight, in this order).
Begun == {v \in Violations : pc[v] \in {"spawn", "read", "check"}}
Shown == Begun \cup called \subseteq marks \cup JudgedByModel \cup lost

\* A judge calls the model once, after its last look at the caps, and removes
\* its marker after its verdict.
CallsOnce ==
  \A v \in called : pc[v] \notin {"unused", "list", "mark", "spawn", "read", "check", "drop"}
ClearsLast == \A v \in Violations : pc[v] = "clear" => v \in JudgedByModel \cup lost

\* The inductive invariant.
IInv == TypeOK /\ Shown /\ CallsOnce /\ ClearsLast

\* However many blocks come at once, no more judges call the model than the
\* caps allow, but for those no check could know of: their marker or verdict
\* was lost, or they passed from one to the other while a check looked at both
\* (withinJudgeCaps, block-judge.ts: "session 10, day 30").
CapsHold ==
  LET known == called \ excused
  IN /\ Cardinality(known) <= DayCap
     /\ \A v \in known : Cardinality({w \in known : SessionOf[w] = SessionOf[v]}) <= SessionCap

\* What the user said of a block stands until the user says something else:
\* no verdict of the model, before or after it, and no other step replaces it
\* (setVerdict: "user > auto").
UsersWordStands ==
  [][\A v \in Violations :
       ByUser(v)' # {} =>
         \/ ByUser(v) # {} /\ Effective(v)' = Effective(v)
         \/ log'[v] # log[v] /\ Last(log'[v]) = [by |-> "user", word |-> Effective(v)']]_vars

\* A judge that dies does not use up the caps for ever.
MarksLapse == \A v \in Violations : v \in LiveMarks ~> v \notin LiveMarks
=============================================================================
