--------------------------- MODULE StopHookProofs ---------------------------
(***************************************************************************)
(* What the hooks at the end of a turn may do: the judge of the blocks     *)
(* (BlockJudge), and the blocks themselves (StopLoop).                     *)
(*                                                                         *)
(* The caps of the judge hold for any number of blocks, any caps and any   *)
(* faults: a judge that called the model is seen by every later check, by its*)
(* marker or by its verdict, unless one of them was lost.  The user's verdict*)
(* stands because the last of his verdicts is always in the log.           *)
(*                                                                         *)
(* The limits of the blocks hold for any number of sessions, rules and faults:*)
(* the counters of a session hold every block of its rules since the last  *)
(* approval, but for those that faults took from them, a threshold's worth and*)
(* one more each; and a hook that                                          *)
(* is about to write the loop's file read a loop that was active and free to*)
(* bind.                                                                   *)
(***************************************************************************)
EXTENDS BlockJudge, StopLoop, FiniteSetTheorems, TLAPS

-----------------------------------------------------------------------------
(* The judge *)

USE DEF files, Go, History, List, Odd, LiveMarks

\* A verdict added to the log takes none of the others away.
LEMMA VerdictsStay ==
  ASSUME TypeOK, NEW v \in Violations, NEW entry \in Entries,
         log' = [log EXCEPT ![v] = Append(@, entry)]
  PROVE  /\ log' \in [Violations -> Seq(Entries)]
         /\ JudgedByModel \subseteq JudgedByModel'
         /\ entry.by = "auto" => v \in JudgedByModel'
<1>1. log \in [Violations -> Seq(Entries)] /\ log[v] \in Seq(Entries)
  BY DEF TypeOK
<1>2. /\ Append(log[v], entry) \in Seq(Entries)
      /\ Len(Append(log[v], entry)) = Len(log[v]) + 1
      /\ Append(log[v], entry)[Len(log[v]) + 1] = entry
      /\ \A i \in 1 .. Len(log[v]) : Append(log[v], entry)[i] = log[v][i]
  BY <1>1
<1>3. log' \in [Violations -> Seq(Entries)]
  BY <1>1, <1>2
<1>4. ASSUME NEW w \in JudgedByModel PROVE w \in JudgedByModel'
  <2>1. PICK i \in DOMAIN log[w] : log[w][i].by = "auto"
    BY DEF JudgedByModel
  <2>2. w \in Violations
    BY DEF JudgedByModel
  <2>3. CASE w # v
    <3>1. log'[w] = log[w]
      BY <1>1, <2>2, <2>3
    <3> QED BY <2>1, <2>2, <3>1 DEF JudgedByModel
  <2>4. CASE w = v
    <3>1. log'[w] = Append(log[v], entry) /\ i \in 1 .. Len(log[v]) /\ Len(log[v]) \in Nat
      BY <1>1, <2>1, <2>4
    <3>2. i \in DOMAIN log'[w] /\ log'[w][i] = log[w][i]
      BY <1>2, <2>4, <3>1
    <3> QED BY <2>1, <2>2, <3>2 DEF JudgedByModel
  <2> QED BY <2>3, <2>4
<1>5. ASSUME entry.by = "auto" PROVE v \in JudgedByModel'
  <2>1. log'[v] = Append(log[v], entry) /\ Len(log[v]) \in Nat
    BY <1>1
  <2>2. Len(log[v]) + 1 \in DOMAIN log'[v] /\ log'[v][Len(log[v]) + 1] = entry
    BY <1>2, <2>1
  <2> QED BY <1>5, <2>2 DEF JudgedByModel
<1> QED BY <1>3, <1>4, <1>5

LEMMA InitIsOK == Init => IInv
  BY BlockJudgeAssumption
     DEF Init, IInv, TypeOK, Shown, CallsOnce, ClearsLast, Begun, JudgedByModel, Steps,
         Entries, Words

\* A step that leaves the log alone and moves one violation on keeps the
\* invariant if it drops no marker that is still needed.
LEMMA Preserved ==
  ASSUME IInv, NEW v \in Violations, NEW to \in Steps, TypeOK',
         pc' = [pc EXCEPT ![v] = to], JudgedByModel \subseteq JudgedByModel',
         marks \ {v} \subseteq marks' \cup lost', lost \subseteq lost',
         called' \subseteq called \cup {v},
         to \in {"spawn", "read", "check"} \/ v \in called' =>
           v \in marks' \cup JudgedByModel' \cup lost',
         v \in called' =>
           to \notin {"unused", "list", "mark", "spawn", "read", "check", "drop"},
         to = "clear" => v \in JudgedByModel' \cup lost'
  PROVE  IInv'
<1> USE DEF IInv
<1>1. pc'[v] = to /\ \A w \in Violations \ {v} : pc'[w] = pc[w]
  BY DEF TypeOK
<1>2. Shown'
  BY <1>1 DEF Shown, Begun, TypeOK
<1>3. CallsOnce' /\ ClearsLast'
  BY <1>1 DEF CallsOnce, ClearsLast, TypeOK
<1> QED BY <1>2, <1>3

-----------------------------------------------------------------------------
(* Every step *)

LEMMA StepIsOK == IInv /\ [Next]_vars => IInv'
<1> SUFFICES ASSUME IInv, [Next]_vars PROVE IInv'
  OBVIOUS
<1> USE BlockJudgeAssumption DEF IInv
<1>1. CASE UNCHANGED vars
  BY <1>1 DEF vars, TypeOK, Shown, CallsOnce, ClearsLast, Begun, JudgedByModel
<1>2. ASSUME NEW v \in Violations, log' = log
      PROVE  JudgedByModel' = JudgedByModel
  BY <1>2 DEF JudgedByModel
<1>3. ASSUME NEW v \in Violations, Record(v) PROVE IInv'
  <2>1. TypeOK'
    BY <1>3 DEF Record, TypeOK, Steps, JudgedByModel
  <2> QED BY <1>2, <1>3, <2>1, Preserved DEF Record, TypeOK, Steps, CallsOnce
<1>4. ASSUME NEW v \in Violations, HookLists(v) PROVE IInv'
  <2>1. TypeOK'
    BY <1>4 DEF HookLists, TypeOK, Steps
  <2> QED BY <1>2, <1>4, <2>1, Preserved DEF HookLists, TypeOK, Steps, CallsOnce
<1>5. ASSUME NEW v \in Violations, MarkInflight(v) PROVE IInv'
  <2>1. TypeOK'
    BY <1>5 DEF MarkInflight, TypeOK, Steps
  <2> QED BY <1>2, <1>5, <2>1, Preserved DEF MarkInflight, TypeOK, Steps, CallsOnce
<1>6. ASSUME NEW v \in Violations, Spawn(v) PROVE IInv'
  <2>1. TypeOK'
    BY <1>6 DEF Spawn, TypeOK, Steps
  <2> QED BY <1>2, <1>6, <2>1, Preserved DEF Spawn, TypeOK, Steps, CallsOnce, Shown, Begun
<1>7. ASSUME NEW v \in Violations, ReadVerdicts(v) PROVE IInv'
  <2>1. TypeOK'
    BY <1>7 DEF ReadVerdicts, TypeOK, Steps, JudgedByModel
  <2> QED BY <1>2, <1>7, <2>1, Preserved DEF ReadVerdicts, TypeOK, Steps, CallsOnce, Shown,
                                             Begun
<1>8. ASSUME NEW v \in Violations, Check(v) PROVE IInv'
  <2>1. TypeOK'
    BY <1>8 DEF Check, TypeOK, Steps, SaidThenCleared, Unknowable
  <2>2. v \in marks \cup JudgedByModel \cup lost
    BY <1>8 DEF Check, Shown, Begun
  <2> QED BY <1>2, <1>8, <2>1, <2>2, Preserved DEF Check, TypeOK, Steps, CallsOnce,
                                                   SaidThenCleared
<1>9. ASSUME NEW v \in Violations, SetVerdict(v) PROVE IInv'
  <2>1. PICK word \in Words : log' = [log EXCEPT ![v] = Append(@, [by |-> "auto", word |-> word])]
    BY <1>9 DEF SetVerdict
  <2>2. [by |-> "auto", word |-> word] \in Entries
    BY DEF Entries
  <2>3. log' \in [Violations -> Seq(Entries)] /\ JudgedByModel \subseteq JudgedByModel' /\ v \in JudgedByModel'
    BY <2>1, <2>2, VerdictsStay
  <2>4. TypeOK'
    BY <1>9, <2>3 DEF SetVerdict, TypeOK, Steps, SaidThenCleared
  <2> QED BY <1>9, <2>3, <2>4, Preserved DEF SetVerdict, TypeOK, Steps, SaidThenCleared
<1>10. ASSUME NEW v \in Violations, ClearInflight(v) PROVE IInv'
  <2>1. TypeOK'
    BY <1>10 DEF ClearInflight, TypeOK, Steps, SaidThenCleared
  <2>2. v \in called => v \in JudgedByModel \cup lost
    BY <1>10 DEF ClearInflight, CallsOnce, ClearsLast
  <2> QED BY <1>2, <1>10, <2>1, <2>2, Preserved DEF ClearInflight, TypeOK, Steps,
                                                    SaidThenCleared
<1>11. ASSUME NEW v \in Violations, Weigh(v) PROVE IInv'
  <2>1. TypeOK'
    BY <1>11 DEF Weigh, TypeOK, Steps
  <2> QED BY <1>2, <1>11, <2>1, Preserved DEF Weigh, TypeOK, Steps, Shown
<1>12. ASSUME NEW v \in Violations, Demote(v) PROVE IInv'
  <2>1. TypeOK'
    BY <1>12 DEF Demote, TypeOK, Steps
  <2> QED BY <1>2, <1>12, <2>1, Preserved DEF Demote, TypeOK, Steps, Shown
<1>13. ASSUME NEW v \in Violations, LogDemotion(v) PROVE IInv'
  <2>1. RuleOf[v] \in Rules \cup {None}
    OBVIOUS
  <2>2. TypeOK'
    BY <1>13, <2>1 DEF LogDemotion, TypeOK, Steps
  <2> QED BY <1>2, <1>13, <2>2, Preserved DEF LogDemotion, TypeOK, Steps, Shown
<1>14. ASSUME NEW v \in Violations, WriteFails(v) PROVE IInv'
  <2>1. TypeOK'
    <3>1. pc' = [pc EXCEPT ![v] = "spawn"] \/ pc' = [pc EXCEPT ![v] = "clear"]
      BY <1>14 DEF WriteFails, SaidThenCleared
    <3>2. pc' \in [Violations -> Steps]
      BY <3>1 DEF TypeOK, Steps
    <3>3. lost' \subseteq Violations /\ odd' \in Nat
      BY <1>14 DEF WriteFails, TypeOK
    <3>4. UNCHANGED <<marks, aged, log, mode, demoted, past, seen, called, excused>>
      BY <1>14 DEF WriteFails
    <3> QED BY <3>2, <3>3, <3>4 DEF TypeOK
  <2> QED BY <1>2, <1>14, <2>1, Preserved DEF WriteFails, TypeOK, Steps, SaidThenCleared,
                                              CallsOnce
<1>15. ASSUME NEW v \in Violations, Die(v) PROVE IInv'
  <2>1. TypeOK'
    BY <1>15 DEF Die, TypeOK, Steps
  <2> QED BY <1>2, <1>15, <2>1, Preserved DEF Die, TypeOK, Steps, Shown
<1>16. ASSUME NEW v \in Violations, Stall(v) \/ Age(v) PROVE IInv'
  <2>1. aged' = aged \cup {v} /\ v \in marks /\ odd' \in Nat
    BY <1>16 DEF Stall, Age, TypeOK
  <2>2. UNCHANGED <<pc, marks, log, mode, demoted, past, seen, called, lost, excused>>
    BY <1>16 DEF Stall, Age
  <2>3. TypeOK'
    BY <2>1, <2>2 DEF TypeOK
  <2> QED BY <2>2, <2>3 DEF Shown, CallsOnce, ClearsLast, Begun, JudgedByModel
<1>17. ASSUME NEW v \in Violations, NEW word \in {"correct", "false_positive"}, UserJudges(v, word)
       PROVE  IInv'
  <2>1. [by |-> "user", word |-> word] \in Entries
    BY DEF Entries, Words
  <2>2. log' \in [Violations -> Seq(Entries)] /\ JudgedByModel \subseteq JudgedByModel'
    BY <1>17, <2>1, VerdictsStay DEF UserJudges
  <2>3. TypeOK'
    BY <1>17, <2>2 DEF UserJudges, TypeOK
  <2> QED BY <1>17, <2>2, <2>3 DEF UserJudges, Shown, CallsOnce, ClearsLast, Begun
<1>18. ASSUME NEW r \in Rules, RestoreDemoted(r) PROVE IInv'
  <2>1. TypeOK'
    <3>1. past' \subseteq Violations /\ mode' \in [Rules -> {"unset", "block", "advise"}]
      BY <1>18 DEF RestoreDemoted, TypeOK, Recorded
    <3> QED BY <1>18, <3>1 DEF RestoreDemoted, TypeOK
  <2>2. UNCHANGED <<pc, marks, log, called, lost>>
    BY <1>18 DEF RestoreDemoted
  <2> QED BY <2>1, <2>2 DEF Shown, CallsOnce, ClearsLast, Begun, JudgedByModel
<1>19. ASSUME NEW r \in Rules, NEW to \in {"block", "advise"}, EnforceMode(r, to) PROVE IInv'
  BY <1>19 DEF EnforceMode, TypeOK, Shown, CallsOnce, ClearsLast, Begun, JudgedByModel
<1> QED
  BY <1>1, <1>3, <1>4, <1>5, <1>6, <1>7, <1>8, <1>9, <1>10, <1>11, <1>12, <1>13, <1>14, <1>15,
     <1>16, <1>17, <1>18, <1>19 DEF Next, Hook, Judge

\* Every reachable state satisfies the inductive invariant (block-judge.ts,
\* markInflight to clearInflight).
THEOREM Invariant == Spec => []IInv
  BY InitIsOK, StepIsOK, PTL DEF Spec

-----------------------------------------------------------------------------
(* The caps *)

\* Whom a check does not count, it cannot know of.
LEMMA UncountedAreUnknowable ==
  ASSUME IInv, NEW v \in Violations
  PROVE  called \ {v} \subseteq Counted(v) \cup Unknowable(v)
<1> SUFFICES ASSUME NEW w \in called, w # v, w \notin Counted(v) PROVE w \in Unknowable(v)
  OBVIOUS
<1>1. w \in marks \cup JudgedByModel \cup lost
  BY DEF IInv, Shown
<1> QED BY <1>1 DEF Unknowable, Counted

\* A set that is one larger than a part of a small set is small.
LEMMA OneMore ==
  ASSUME NEW S, NEW T, IsFiniteSet(T), NEW v, S \subseteq T \cup {v},
         NEW cap \in Nat, Cardinality(T) < cap
  PROVE  Cardinality(S) <= cap
<1>1. IsFiniteSet(T \cup {v}) /\ Cardinality(T \cup {v}) <= Cardinality(T) + 1
  <2>1. T \cup {v} = T \/ v \notin T
    OBVIOUS
  <2>2. Cardinality(T) \in Nat
    BY FS_CardinalityType
  <2> QED BY <2>1, <2>2, FS_AddElement
<1>2. Cardinality(S) <= Cardinality(T \cup {v}) /\ Cardinality(S) \in Nat
  BY <1>1, FS_Subset, FS_CardinalityType
<1> QED BY <1>1, <1>2, FS_CardinalityType

LEMMA CheckKeepsCaps ==
  ASSUME IInv, CapsHold, NEW v \in Violations, Check(v) PROVE CapsHold'
<1> DEFINE known == called \ excused
           inSession(u) == {w \in known : SessionOf[w] = SessionOf[u]}
<1> USE BlockJudgeAssumption
<1>1. CASE UNCHANGED <<called, excused>>
  BY <1>1 DEF CapsHold
<1>2. CASE WithinCaps(v) /\ called' = called \cup {v} /\ excused' = excused \cup Unknowable(v)
  <2>1. IsFiniteSet(Counted(v)) /\ Counted(v) \subseteq Violations
    <3>1. Counted(v) \subseteq Violations
      BY DEF IInv, TypeOK, Counted
    <3> QED BY <3>1, FS_Subset
  <2>2. known' \subseteq Counted(v) \cup {v}
    BY <1>2, UncountedAreUnknowable
  <2>3. Cardinality(known') <= DayCap
    BY <1>2, <2>1, <2>2, OneMore DEF WithinCaps
  <2>4. ASSUME NEW u \in known' PROVE Cardinality(inSession(u)') <= SessionCap
    <3>1. CASE SessionOf[u] = SessionOf[v]
      <4> DEFINE T == {w \in Counted(v) \cap Recorded : SessionOf[w] = SessionOf[v]}
      <4>1. IsFiniteSet(T) /\ Cardinality(T) < SessionCap
        BY <1>2, <2>1, FS_Subset DEF WithinCaps
      <4>2. called \subseteq Recorded
        BY DEF IInv, TypeOK, CallsOnce, Recorded
      <4>3. inSession(u)' \subseteq T \cup {v}
        BY <1>2, <2>2, <3>1, <4>2
      <4> QED BY <4>1, <4>3, OneMore
    <3>2. CASE SessionOf[u] # SessionOf[v]
      <4>1. u \in known /\ inSession(u)' \subseteq inSession(u)
        BY <1>2, <3>2
      <4>2. Cardinality(inSession(u)) <= SessionCap
        BY <4>1 DEF CapsHold
      <4>3. IsFiniteSet(inSession(u))
        BY FS_Subset DEF IInv, TypeOK
      <4> QED BY <4>1, <4>2, <4>3, FS_Subset, FS_CardinalityType
    <3> QED BY <3>1, <3>2
  <2> QED BY <2>3, <2>4 DEF CapsHold
<1> QED BY <1>1, <1>2 DEF Check

\* No step but a judge's check changes who called the model.
LEMMA OnlyChecksCall ==
  ASSUME [Next]_vars, \A v \in Violations : ~ Check(v) PROVE UNCHANGED <<called, excused>>
  BY DEF Next, Hook, Judge, vars, Record, HookLists, MarkInflight, Spawn, ReadVerdicts,
         SetVerdict,
         ClearInflight, Weigh, Demote, LogDemotion, UserJudges, EnforceMode, RestoreDemoted,
         WriteFails, Die, Stall, Age

\* The judges that called the model, but for those no later check could see,
\* are no more than the caps allow (withinJudgeCaps, "session 10, day 30").
THEOREM CapsAreKept == Spec => []CapsHold
<1>1. Init => CapsHold
  BY BlockJudgeAssumption, FS_EmptySet DEF Init, CapsHold
<1>2. IInv /\ CapsHold /\ [Next]_vars => CapsHold'
  BY CheckKeepsCaps, OnlyChecksCall DEF CapsHold
<1> QED BY <1>1, <1>2, Invariant, PTL DEF Spec

-----------------------------------------------------------------------------
(* The user's word *)

\* What is added to a log leaves what was there.
LEMMA LogGrows ==
  ASSUME TypeOK, NEW v \in Violations, NEW entry \in Entries,
         log' = [log EXCEPT ![v] = Append(@, entry)]
  PROVE  /\ Len(log[v]) \in Nat /\ DOMAIN log[v] = 1 .. Len(log[v])
         /\ DOMAIN log'[v] = 1 .. (Len(log[v]) + 1)
         /\ log'[v][Len(log[v]) + 1] = entry /\ Last(log'[v]) = entry
         /\ \A i \in DOMAIN log[v] : log'[v][i] = log[v][i]
         /\ \A w \in Violations \ {v} : log'[w] = log[w]
<1>1. log[v] \in Seq(Entries) /\ log'[v] = Append(log[v], entry)
  BY DEF TypeOK
<1> QED BY <1>1 DEF TypeOK, Last

\* Of a set of numbers that has a largest, Max is it.
LEMMA MaxOf ==
  ASSUME NEW S, \E i \in S : \A j \in S : i >= j
  PROVE  Max(S) \in S /\ \A j \in S : Max(S) >= j
BY DEF Max

\* The word of a user who spoke is in the log: of his verdicts one is the last.
SpokeLast ==
  \A v \in Violations : ByUser(v) # {} =>
    \E i \in ByUser(v) : \A j \in ByUser(v) : i >= j

\* Then that one is the one that counts.
LEMMA LastOfUser ==
  ASSUME SpokeLast, NEW v \in Violations, ByUser(v) # {}
  PROVE  Max(ByUser(v)) \in ByUser(v)
BY MaxOf DEF SpokeLast

\* A verdict of the model changes nothing that the user said.
LEMMA ModelAnswers ==
  ASSUME TypeOK, SpokeLast, NEW v \in Violations, NEW entry \in Entries, entry.by = "auto",
         log' = [log EXCEPT ![v] = Append(@, entry)]
  PROVE  /\ ByUser(v)' = ByUser(v)
         /\ ByUser(v) # {} => Effective(v)' = Effective(v)
<1>1. ByUser(v)' = ByUser(v)
  BY LogGrows DEF ByUser
<1>2. ASSUME ByUser(v) # {} PROVE Effective(v)' = Effective(v)
  <2>1. Max(ByUser(v)) \in DOMAIN log[v]
    BY <1>2, LastOfUser DEF ByUser
  <2>2. \A i \in DOMAIN log[v] : log'[v][i] = log[v][i]
    BY LogGrows
  <2>3. log'[v][Max(ByUser(v))] = log[v][Max(ByUser(v))]
    BY <2>1, <2>2, Zenon
  <2>4. Max(ByUser(v)') = Max(ByUser(v))
    BY <1>1, Zenon
  <2>5. Effective(v)' = log'[v][Max(ByUser(v)')].word /\ Effective(v) = log[v][Max(ByUser(v))].word
    BY <1>1, <1>2, Zenon DEF Effective
  <2> QED BY <2>3, <2>4, <2>5, Zenon
<1> QED BY <1>1, <1>2

\* What the user says is what counts.
LEMMA UserSpeaks ==
  ASSUME TypeOK, NEW v \in Violations, NEW entry \in Entries, entry.by = "user",
         log' = [log EXCEPT ![v] = Append(@, entry)]
  PROVE  /\ Len(log[v]) + 1 \in ByUser(v)'
         /\ \A i \in ByUser(v)' : Len(log[v]) + 1 >= i
         /\ Effective(v)' = entry.word
<1> DEFINE new == Len(log[v]) + 1
<1>1. /\ new \in Nat /\ DOMAIN log'[v] = 1 .. new /\ log'[v][new] = entry
  <2>1. /\ Len(log[v]) \in Nat /\ DOMAIN log'[v] = 1 .. (Len(log[v]) + 1)
        /\ log'[v][Len(log[v]) + 1] = entry
    BY LogGrows
  <2> QED BY <2>1
<1> HIDE DEF new
<1>2. new \in ByUser(v)' /\ \A i \in ByUser(v)' : i \in 1 .. new
  <2>1. ByUser(v)' = {i \in 1 .. new : log'[v][i].by = "user"}
    BY <1>1 DEF ByUser
  <2>2. new \in 1 .. new
    BY <1>1, LogGrows DEF new
  <2> QED BY <1>1, <2>1, <2>2
<1>3. Max(ByUser(v)') = new
  <2>1. \E i \in ByUser(v)' : \A j \in ByUser(v)' : i >= j
    BY <1>1, <1>2
  <2>2. /\ Max(ByUser(v)') \in ByUser(v)'
        /\ \A j \in ByUser(v)' : Max(ByUser(v)') >= j
    BY <2>1, MaxOf
  <2>3. ASSUME NEW m \in ByUser(v)', m >= new PROVE m = new
    <3>1. m \in 1 .. new
      BY <1>2
    <3> QED BY <1>1, <2>3, <3>1
  <2>4. Max(ByUser(v)') >= new
    BY <1>2, <2>2, Zenon
  <2> QED BY <2>2, <2>3, <2>4, Zenon
<1>4. Effective(v)' = log'[v][new].word
  <2>1. Effective(v)' = log'[v][Max(ByUser(v)')].word
    BY <1>2 DEF Effective
  <2> QED BY <1>3, <2>1
<1>5. \A i \in ByUser(v)' : new >= i
  BY <1>1, <1>2
<1> QED BY <1>1, <1>2, <1>4, <1>5 DEF new

\* What the user said of a block counts until he says something else: the
\* model's verdict may come before or after (setVerdict and effectiveVerdicts,
\* signals.ts: "user > auto").
THEOREM UsersWordIsKept == Spec => UsersWordStands
<1> DEFINE Stands(v) ==
      ByUser(v)' # {} =>
        \/ ByUser(v) # {} /\ Effective(v)' = Effective(v)
        \/ log'[v] # log[v] /\ Last(log'[v]) = [by |-> "user", word |-> Effective(v)']
<1>1. Init => SpokeLast
  BY DEF Init, SpokeLast, ByUser
<1>2. IInv /\ SpokeLast /\ [Next]_vars => SpokeLast' /\ [\A v \in Violations : Stands(v)]_vars
  <2> SUFFICES ASSUME IInv, SpokeLast, [Next]_vars
               PROVE  SpokeLast' /\ \A v \in Violations : Stands(v)
    OBVIOUS
  <2> USE DEF IInv
  <2>1. CASE log' = log
    BY <2>1 DEF SpokeLast, ByUser, Effective, LastWord
  <2>2. ASSUME NEW v \in Violations, NEW entry \in Entries,
               log' = [log EXCEPT ![v] = Append(@, entry)]
        PROVE  SpokeLast' /\ \A w \in Violations : Stands(w)
    <3>1. ASSUME NEW w \in Violations \ {v}
          PROVE  ByUser(w)' = ByUser(w) /\ Effective(w)' = Effective(w)
      BY <2>2, LogGrows DEF ByUser, Effective, LastWord
    <3>2. CASE entry.by = "auto"
      <4>1. ByUser(v)' = ByUser(v) /\ (ByUser(v) # {} => Effective(v)' = Effective(v))
        BY <2>2, <3>2, ModelAnswers
      <4> QED BY <3>1, <4>1 DEF SpokeLast
    <3>3. CASE entry.by = "user"
      <4>1. /\ Len(log[v]) + 1 \in ByUser(v)'
            /\ \A i \in ByUser(v)' : Len(log[v]) + 1 >= i
            /\ Effective(v)' = entry.word
        BY <2>2, <3>3, UserSpeaks
      <4>2. Last(log'[v]) = [by |-> "user", word |-> Effective(v)']
        BY <2>2, <3>3, <4>1, LogGrows DEF Entries
      <4>3. DOMAIN log'[v] # DOMAIN log[v]
        <5>1. /\ Len(log[v]) \in Nat /\ DOMAIN log[v] = 1 .. Len(log[v])
              /\ DOMAIN log'[v] = 1 .. (Len(log[v]) + 1)
          BY <2>2, LogGrows
        <5> QED BY <5>1
      <4> QED BY <3>1, <4>1, <4>2, <4>3 DEF SpokeLast
    <3> QED BY <3>2, <3>3 DEF Entries
  <2>3. ASSUME NEW v \in Violations, SetVerdict(v)
        PROVE  \E entry \in Entries : log' = [log EXCEPT ![v] = Append(@, entry)]
    BY <2>3 DEF SetVerdict, Entries
  <2>4. ASSUME NEW v \in Violations, NEW word \in {"correct", "false_positive"}, UserJudges(v, word)
        PROVE  \E entry \in Entries : log' = [log EXCEPT ![v] = Append(@, entry)]
    BY <2>4 DEF UserJudges, Entries, Words
  <2> QED
    BY <2>1, <2>2, <2>3, <2>4
       DEF Next, Hook, Judge, vars, Record, HookLists, MarkInflight, Spawn, ReadVerdicts, Check,
           ClearInflight, Weigh, Demote, LogDemotion, EnforceMode, RestoreDemoted, WriteFails, Die,
           Stall, Age
<1> QED BY <1>1, <1>2, Invariant, PTL DEF Spec, UsersWordStands

-----------------------------------------------------------------------------
(* The blocks of a stop *)

\* A loop in the file is a loop whatever the hook, the agent or the clock do to it.
LEMMA PlanTyped ==
  ASSUME NEW s \in Sessions, NEW l \in Loops PROVE Plan(l, s) \in Loops
<1>1. ASSUME Holds(l) PROVE l.blocks + 1 \in 0 .. MaxBlocks
  BY <1>1, StopLoopAssumption, SMT DEF StopLoopAssumption, Loops, Holds
<1> QED BY <1>1 DEF Plan, Loops

LEMMA FreshTyped == Fresh \subseteq Loops
<1>1. 0 \in 0 .. MaxBlocks /\ 1 .. MaxStories \subseteq 0 .. MaxStories
  BY StopLoopAssumption DEF StopLoopAssumption
<1> QED BY <1>1 DEF Fresh, Loops, Modes

\* Before any stop no hook has read or counted anything.
LEMMA LoopInitInv == LoopInit => LoopIInv
<1> SUFFICES ASSUME LoopInit PROVE LoopIInv
  OBVIOUS
<1>1. LoopTypeOK
  BY FreshTyped DEF LoopInit, LoopTypeOK
<1>2. CopiesBindable
  BY DEF LoopInit, CopiesBindable
<1>3. CountsBlocks
  BY StopLoopAssumption DEF StopLoopAssumption, LoopInit, CountsBlocks
<1> QED BY <1>1, <1>2, <1>3 DEF LoopIInv

\* What the agent, the user and the clock do leaves the hooks' state alone.
LEMMA WorldStep ==
  ASSUME LoopIInv, NEW s \in Sessions, TryStop(s) \/ User(s) \/ Agent(s) \/ LoopAges
  PROVE  LoopIInv'
<1> USE DEF LoopIInv, LoopTypeOK
<1>1. CountsBlocks'
  BY DEF CountsBlocks, TryStop, User, Prompt, Cancel, Agent, StartLoop, ResumeLoop, EditLoop,
         LoopAges,
         hooks, counters
<1>2. CopiesBindable'
  <2>1. copy' = copy /\ \A q \in Sessions : turn'[q] = "write" => turn[q] = "write"
    BY DEF TryStop, User, Prompt, Cancel, Agent, StartLoop, ResumeLoop, EditLoop, LoopAges,
           Enters, hooks
  <2> QED BY <2>1 DEF CopiesBindable
<1>3. loop' \in Loops \cup {NoLoop}
  <2>1. CASE TryStop(s) \/ User(s)
    BY <2>1 DEF TryStop, User, Prompt, Cancel
  <2>2. CASE StartLoop(s)
    BY <2>2, FreshTyped DEF StartLoop
  <2>3. CASE ResumeLoop(s)
    <3>1. loop \in Loops /\ 0 \in 0 .. MaxBlocks
      BY <2>3, StopLoopAssumption DEF ResumeLoop, StopLoopAssumption
    <3>2. PICK o \in {loop.owner, Nobody}, b \in {loop.blocks, 0}, m \in Modes :
            loop' = [loop EXCEPT !.active = TRUE, !.owner = o, !.blocks = b, !.mode = m]
      BY <2>3, Zenon DEF ResumeLoop
    <3>3. o \in Sessions \cup {Nobody} /\ b \in 0 .. MaxBlocks
      BY <3>1 DEF Loops
    <3> QED BY <3>1, <3>2, <3>3 DEF Loops
  <2>4. CASE EditLoop(s)
    <3>1. loop \in Loops
      BY <2>4 DEF EditLoop
    <3>2. CASE \E m \in Modes : loop' = [loop EXCEPT !.mode = m]
      BY <3>1, <3>2 DEF Loops
    <3>3. CASE loop.pending > 0 /\ loop' = [loop EXCEPT !.pending = @ - 1]
      <4>1. loop.pending - 1 \in 0 .. MaxStories
        BY <3>1, <3>3, StopLoopAssumption DEF Loops, StopLoopAssumption
      <4> QED BY <3>1, <3>3, <4>1 DEF Loops
    <3> QED BY <2>4, <3>2, <3>3 DEF EditLoop, Modes
  <2>5. CASE LoopAges
    BY <2>5 DEF LoopAges, Loops, Modes
  <2> QED BY <2>1, <2>2, <2>3, <2>4, <2>5 DEF Agent
<1>4. LoopTypeOK'
  <2>1. UNCHANGED <<copy, halt, count, blocked, builtin, faults>>
    BY DEF TryStop, User, Prompt, Cancel, Agent, StartLoop, ResumeLoop, EditLoop, LoopAges,
           hooks, counters
  <2>2. turn' \in [Sessions -> {"work", "read", "write", "guard", "idle"}]
    BY DEF TryStop, User, Prompt, Cancel, Agent, StartLoop, ResumeLoop, EditLoop, LoopAges,
           Enters
  <2>3. starts' = starts \/ starts' = starts + 1
    BY Zenon DEF TryStop, User, Prompt, Cancel, Agent, StartLoop, ResumeLoop, EditLoop, LoopAges
  <2> QED BY <1>3, <2>1, <2>2, <2>3
<1> QED BY <1>1, <1>2, <1>4

\* What one more fault allows.
LEMMA FaultsCover ==
  ASSUME faults \in Nat
  PROVE  /\ faults * (Threshold + 1) \in Nat /\ Threshold \in Nat
         /\ (faults + 1) * (Threshold + 1) = faults * (Threshold + 1) + Threshold + 1
BY StopLoopAssumption DEF StopLoopAssumption

\* A fault covers a block, whatever becomes of the counters.
LEMMA FaultAdds ==
  ASSUME LoopIInv, faults' = faults + 1,
         count' \in [Sessions -> [StopRules -> Nat]],
         blocked' \in [Sessions -> [StopRules -> Nat]],
         \A q \in Sessions, p \in StopRules : blocked'[q][p] <= blocked[q][p] + 1
  PROVE  CountsBlocks'
<1> DEFINE Capped(c) == IF c < Threshold THEN c ELSE Threshold
           cover == faults * (Threshold + 1)
<1>1. cover \in Nat /\ Threshold \in Nat /\ (faults + 1) * (Threshold + 1) = cover + Threshold + 1
  BY FaultsCover DEF LoopIInv, LoopTypeOK
<1> SUFFICES ASSUME NEW q \in Sessions, NEW p \in StopRules
             PROVE  blocked'[q][p] <= Capped(count'[q][p]) + (faults + 1) * (Threshold + 1)
  BY DEF CountsBlocks
<1>2. blocked[q][p] <= Capped(count[q][p]) + cover
  BY DEF LoopIInv, CountsBlocks
<1>3. blocked[q][p] \in Nat /\ count[q][p] \in Nat /\ count'[q][p] \in Nat
      /\ blocked'[q][p] \in Nat
  BY DEF LoopIInv, LoopTypeOK
<1>4. Capped(count[q][p]) <= Threshold /\ Capped(count[q][p]) \in Nat
      /\ Capped(count'[q][p]) \in Nat
  BY <1>1, <1>3
<1>5. blocked'[q][p] <= blocked[q][p] + 1
  OBVIOUS
<1> HIDE DEF cover, Capped
<1> QED BY <1>1, <1>2, <1>3, <1>4, <1>5

\* stop-guard counts what it blocks.
LEMMA GuardStep ==
  ASSUME LoopIInv, NEW s \in Sessions,
         GuardHook(s) \/ GuardDies(s) \/ (\E r \in StopRules : CountFails(s, r))
  PROVE  LoopIInv'
<1> USE DEF LoopIInv, LoopTypeOK, Judges, Enters, unjudged
<1>1. turn'[s] # "write" /\ \A q \in Sessions \ {s} : turn'[q] = turn[q]
  BY DEF GuardHook, GuardSkips, GuardPasses, BuiltinBlocks, RuleHit, GuardDies, CountFails
<1>2. CopiesBindable'
  <2>1. copy' = copy
    BY DEF GuardHook, GuardSkips, GuardPasses, BuiltinBlocks, RuleHit, GuardDies, CountFails
  <2> QED BY <1>1, <2>1 DEF CopiesBindable
<1>3. CASE GuardSkips(s)
  BY <1>2, <1>3, FaultsCover DEF GuardSkips, Approved, CountsBlocks
<1>4. CASE GuardPasses(s)
  <2>1. LoopTypeOK'
    BY <1>4 DEF GuardPasses, Approved
  <2>2. CountsBlocks'
    BY <1>4, FaultsCover DEF GuardPasses, Approved, CountsBlocks
  <2> QED BY <1>2, <2>1, <2>2
<1>5. CASE BuiltinBlocks(s)
  BY <1>2, <1>5 DEF BuiltinBlocks, CountsBlocks
<1>6. ASSUME NEW r \in StopRules, RuleHit(s, r) PROVE LoopIInv'
  <2>1. CASE count[s][r] + 1 > Threshold
    <3>1. /\ count' = [count EXCEPT ![s][r] = 0]
          /\ blocked' = [blocked EXCEPT ![s] = [q \in StopRules |-> 0]]
          /\ UNCHANGED <<loop, copy, starts, builtin, faults>>
      BY <1>6, <2>1, Zenon DEF RuleHit, Approved
    <3>2. LoopTypeOK'
      BY <1>6, <3>1 DEF RuleHit
    <3>3. CountsBlocks'
      BY <3>1, FaultsCover DEF CountsBlocks
    <3> QED BY <1>2, <3>2, <3>3
  <2>2. CASE ~(count[s][r] + 1 > Threshold)
    <3>1. /\ count' = [count EXCEPT ![s][r] = @ + 1]
          /\ blocked' = [blocked EXCEPT ![s][r] = @ + 1]
          /\ turn' = [turn EXCEPT ![s] = turn'[s]] /\ turn'[s] \in {"work", "idle"}
          /\ halt' = [halt EXCEPT ![s] = FALSE]
          /\ UNCHANGED <<loop, copy, starts, builtin, faults>>
      BY <1>6, <2>2, Zenon DEF RuleHit, Blocked
    <3>2. LoopTypeOK'
      <4>1. count' \in [Sessions -> [StopRules -> Nat]] /\ blocked' \in [Sessions -> [StopRules -> Nat]]
        BY <3>1
      <4>2. turn' \in [Sessions -> {"work", "read", "write", "guard", "idle"}]
        BY <3>1
      <4>3. halt' \in [Sessions -> BOOLEAN]
        BY <3>1
      <4> QED BY <3>1, <4>1, <4>2, <4>3
    <3>3. CountsBlocks'
      BY <2>2, <3>1, FaultsCover DEF CountsBlocks
    <3> QED BY <1>2, <3>2, <3>3
  <2> QED BY <2>1, <2>2
<1>7. CASE GuardDies(s)
  <2>1. ASSUME NEW gone \in SUBSET StopRules,
               count' = [count EXCEPT ![s] =
                           [r \in StopRules |-> IF r \in gone THEN 0 ELSE @[r]]]
        PROVE  LoopIInv'
    <3>1. /\ turn' = [turn EXCEPT ![s] = turn'[s]] /\ turn'[s] \in {"work", "idle"}
          /\ halt' = [halt EXCEPT ![s] = FALSE]
          /\ UNCHANGED <<loop, copy, starts, blocked, builtin>> /\ faults' = faults + 1
      BY <1>7, Zenon DEF GuardDies, Fault
    <3>2. LoopTypeOK'
      <4>1. count' \in [Sessions -> [StopRules -> Nat]]
        BY <2>1
      <4>2. turn' \in [Sessions -> {"work", "read", "write", "guard", "idle"}]
        BY <3>1
      <4>3. halt' \in [Sessions -> BOOLEAN] /\ faults' \in Nat
        BY <3>1
      <4> QED BY <3>1, <4>1, <4>2, <4>3
    <3>4. CountsBlocks'
      BY <3>1, <3>2, FaultAdds
    <3> QED BY <1>2, <3>2, <3>4
  <2>2. ASSUME NEW r \in StopRules, count' = [count EXCEPT ![s][r] = @ + 1] PROVE LoopIInv'
    <3>1. /\ turn' = [turn EXCEPT ![s] = turn'[s]] /\ turn'[s] \in {"work", "idle"}
          /\ halt' = [halt EXCEPT ![s] = FALSE]
          /\ UNCHANGED <<loop, copy, starts, blocked, builtin>> /\ faults' = faults + 1
      BY <1>7, Zenon DEF GuardDies, Fault
    <3>2. LoopTypeOK'
      <4>1. count' \in [Sessions -> [StopRules -> Nat]]
        BY <2>2
      <4>2. turn' \in [Sessions -> {"work", "read", "write", "guard", "idle"}]
        BY <3>1
      <4>3. halt' \in [Sessions -> BOOLEAN] /\ faults' \in Nat
        BY <3>1
      <4> QED BY <3>1, <4>1, <4>2, <4>3
    <3>4. CountsBlocks'
      BY <3>1, <3>2, FaultAdds
    <3> QED BY <1>2, <3>2, <3>4
  <2> QED BY <1>7, <2>1, <2>2, Zenon DEF GuardDies
<1>8. ASSUME NEW r \in StopRules, CountFails(s, r) PROVE LoopIInv'
  <2>1. /\ turn' = [turn EXCEPT ![s] = turn'[s]] /\ turn'[s] \in {"work", "idle"}
        /\ halt' = [halt EXCEPT ![s] = FALSE] /\ faults' = faults + 1
        /\ blocked' = [blocked EXCEPT ![s][r] = @ + 1]
        /\ UNCHANGED count \/ count' = [count EXCEPT ![s][r] = 0]
        /\ UNCHANGED <<loop, copy, starts, builtin>>
    BY <1>8, Zenon DEF CountFails, Fault, Blocked
  <2>2. LoopTypeOK'
    <3>1. count' \in [Sessions -> [StopRules -> Nat]] /\ blocked' \in [Sessions -> [StopRules -> Nat]]
      BY <2>1
    <3>2. turn' \in [Sessions -> {"work", "read", "write", "guard", "idle"}]
      BY <2>1
    <3>3. halt' \in [Sessions -> BOOLEAN] /\ faults' \in Nat
      BY <2>1
    <3> QED BY <2>1, <3>1, <3>2, <3>3
  <2>3. \A q \in Sessions, p \in StopRules : blocked'[q][p] <= blocked[q][p] + 1
    BY <2>1
  <2>4. CountsBlocks'
    BY <2>1, <2>2, <2>3, FaultAdds
  <2> QED BY <1>2, <2>2, <2>4
<1> QED BY <1>3, <1>4, <1>5, <1>6, <1>7, <1>8 DEF GuardHook

\* context-guard writes only a loop it may bind.
LEMMA LoopStep ==
  ASSUME LoopIInv, NEW s \in Sessions, LoopHook(s) \/ LoopHookDies(s) PROVE LoopIInv'
<1> USE DEF LoopIInv, LoopTypeOK, Enters, counters
<1>1. CountsBlocks'
  <2>1. UNCHANGED <<count, blocked>> /\ (faults' = faults \/ faults' = faults + 1)
    BY DEF LoopHook, ReadLoop, BypassLoop, WriteLoop, LoopHookDies, Fault
  <2> QED BY <2>1, FaultsCover DEF CountsBlocks
<1>2. CopiesBindable'
  BY DEF LoopHook, ReadLoop, BypassLoop, WriteLoop, LoopHookDies, Answer, CopiesBindable,
         Bindable
<1>3. loop' \in Loops \cup {NoLoop}
  <2>1. CASE WriteLoop(s)
    <3>1. copy[s] \in Loops
      BY <2>1 DEF WriteLoop, CopiesBindable, Bindable
    <3> QED BY <2>1, <3>1, PlanTyped DEF WriteLoop
  <2> QED BY <2>1 DEF LoopHook, ReadLoop, BypassLoop, LoopHookDies
<1>4. LoopTypeOK'
  <2> USE DEF LoopHook, ReadLoop, BypassLoop, WriteLoop, LoopHookDies, Answer, Fault
  <2>1. UNCHANGED <<count, blocked, builtin, starts>> /\ faults' \in Nat
    OBVIOUS
  <2>2. turn' \in [Sessions -> {"work", "read", "write", "guard", "idle"}]
    OBVIOUS
  <2>3. copy' \in [Sessions -> Loops \cup {NoLoop}]
    OBVIOUS
  <2>4. halt' \in [Sessions -> BOOLEAN]
    <3>1. Holds(copy[s]) \in BOOLEAN
      BY DEF Holds
    <3>2. halt' = halt \/ \E b \in BOOLEAN : halt' = [halt EXCEPT ![s] = b]
      BY <3>1, Zenon
    <3> QED BY <3>2
  <2> QED BY <1>3, <2>1, <2>2, <2>3, <2>4
<1> QED BY <1>1, <1>2, <1>4

\* IInv holds in every reachable state.
THEOREM LoopInvariant == LoopSpec => []LoopIInv
<1>1. LoopIInv /\ [LoopNext]_loopVars => LoopIInv'
  <2> SUFFICES ASSUME LoopIInv, [LoopNext]_loopVars PROVE LoopIInv'
    OBVIOUS
  <2>1. CASE LoopNext
    <3>1. CASE LoopAges
      <4>1. CASE Sessions = {}
        <5>1. loop' \in Loops
          BY <3>1 DEF LoopAges, LoopIInv, LoopTypeOK, Loops, Modes
        <5>2. LoopTypeOK'
          BY <3>1, <5>1 DEF LoopAges, LoopIInv, LoopTypeOK, hooks, counters
        <5> QED BY <4>1, <5>2 DEF LoopIInv, CopiesBindable, CountsBlocks
      <4>2. CASE Sessions # {}
        BY <3>1, <4>2, WorldStep
      <4> QED BY <4>1, <4>2
    <3>2. ASSUME NEW s \in Sessions, TryStop(s) \/ User(s) \/ Agent(s) PROVE LoopIInv'
      BY <3>2, WorldStep
    <3>3. ASSUME NEW s \in Sessions, LoopHook(s) \/ GuardHook(s) \/ Faulty(s) PROVE LoopIInv'
      BY <3>3, GuardStep, LoopStep DEF Faulty
    <3> QED BY <2>1, <3>1, <3>2, <3>3 DEF LoopNext
  <2>2. CASE UNCHANGED loopVars
    BY <2>2 DEF loopVars, LoopIInv, LoopTypeOK, CopiesBindable, CountsBlocks
  <2> QED BY <2>1, <2>2
<1> QED BY <1>1, LoopInitInv, PTL DEF LoopSpec

\* Every reachable state is well typed.
THEOREM LoopTypeCorrect == LoopSpec => []LoopTypeOK
BY LoopInvariant, PTL DEF LoopIInv

\* Between two approvals a rule blocks a session at most Threshold times, and
\* Threshold + 1 times more for every fault that may have emptied its counter
\* (stop-guard.ts:428-449, 731-747).
THEOREM RulesGiveUp == LoopSpec => []RuleBlocksBounded
<1>1. LoopIInv => RuleBlocksBounded
  BY FaultsCover DEF LoopIInv, LoopTypeOK, CountsBlocks, RuleBlocksBounded
<1> QED BY <1>1, LoopInvariant, PTL

\* A loop switched off stays off and a bound loop stays bound, unless a hook
\* writes back an outdated copy (context-guard.ts:556-621).
THEOREM LoopsSettle == LoopSpec => LoopSettled
<1> DEFINE Settled ==
      loop # NoLoop /\ loop' # NoLoop /\ starts' = starts /\ ~StaleWrite =>
        (loop'.active => loop.active) /\ loop.owner \in {Nobody, loop'.owner}
<1>1. LoopIInv /\ [LoopNext]_loopVars => [Settled]_loopVars
  <2> SUFFICES ASSUME LoopIInv, LoopNext PROVE Settled
    OBVIOUS
  <2> USE DEF LoopIInv, LoopTypeOK
  <2>1. CASE loop' = loop
    BY <2>1
  <2>2. CASE LoopAges
    BY <2>2 DEF LoopAges, Loops
  <2>3. ASSUME NEW s \in Sessions, EditLoop(s) PROVE Settled
    BY <2>3 DEF EditLoop, Loops
  <2>4. ASSUME NEW s \in Sessions, StartLoop(s) \/ ResumeLoop(s) PROVE Settled
    <3>1. starts' = starts + 1 /\ starts \in Nat
      BY <2>4 DEF StartLoop, ResumeLoop
    <3> QED BY <3>1
  <2>5. ASSUME NEW s \in Sessions, WriteLoop(s), loop # NoLoop, ~StaleWrite PROVE Settled
    <3>1. turn'[s] # "write"
      BY <2>5 DEF WriteLoop, Answer, Enters
    <3>2. copy[s] = loop /\ turn[s] = "write"
      BY <2>5, <3>1 DEF WriteLoop, StaleWrite
    <3>3. loop \in Loops /\ loop.active /\ loop.owner \in {Nobody, s}
      BY <2>5, <3>2 DEF CopiesBindable, Bindable
    <3>4. loop'.owner = s
      BY <2>5, <3>2, <3>3 DEF WriteLoop, Plan, Loops
    <3> QED BY <3>3, <3>4
  <2>6. ASSUME NEW s \in Sessions, Cancel(s) PROVE Settled
    BY <2>6 DEF Cancel
  <2>7. ASSUME NEW s \in Sessions,
               TryStop(s) \/ Prompt(s) \/ ReadLoop(s) \/ BypassLoop(s) \/ GuardHook(s) \/ Faulty(s)
        PROVE  loop' = loop
    BY <2>7
       DEF TryStop, Prompt, ReadLoop, BypassLoop, GuardHook, GuardSkips, GuardPasses,
           BuiltinBlocks, RuleHit, Faulty, GuardDies, LoopHookDies, CountFails, unjudged
  <2> QED BY <2>1, <2>2, <2>3, <2>4, <2>5, <2>6, <2>7 DEF LoopNext, User, Agent, LoopHook
<1> QED BY <1>1, LoopInvariant, PTL DEF LoopSpec, LoopSettled
=============================================================================
