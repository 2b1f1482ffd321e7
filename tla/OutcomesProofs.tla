--------------------------- MODULE OutcomesProofs ---------------------------
(***************************************************************************)
(* That racing and dying hooks give every injection one verdict, lose none *)
(* and implement the ledger of outcomes.  The reason is the lock: whoever  *)
(* has reported on an injection holds it, and read the pending file as it  *)
(* still is.                                                               *)
(***************************************************************************)
EXTENDS Outcomes, TLAPS

USE DEF hooks, history, counts

LEMMA InitIsOK == Init => IInv
<1> SUFFICES ASSUME Init PROVE IInv
  OBVIOUS
<1> USE OutcomesAssumption DEF Init
<1>1. TypeOK
  <2>1. cut \in [Injections -> Nat] /\ errors \in [Injections -> Nat] /\ verdicts \in [Injections -> Seq(Verdicts)]
    OBVIOUS
  <2>2. /\ given \in [Procs -> SUBSET Injections] /\ took \in [Procs -> SUBSET Injections]
        /\ aim \in [Procs -> SUBSET Injections] /\ told \in [Procs -> SUBSET Injections]
        /\ pc \in [Procs -> Stages \cup {None}]
    OBVIOUS
  <2>3. /\ turn \in {"idle", "working"} /\ cache \subseteq Solutions /\ flagged \subseteq Solutions
        /\ pending \subseteq Injections /\ old \subseteq pending /\ inside \subseteq Procs
        /\ gave \subseteq Injections /\ missed \subseteq Injections
    OBVIOUS
  <2>4. prompts \in 0 .. MaxPrompts /\ events \in Nat /\ faults \in Nat
    OBVIOUS
  <2>5. expired \in BOOLEAN
    OBVIOUS
  <2> QED BY <2>1, <2>2, <2>3, <2>4, <2>5 DEF TypeOK
<1>2. LockHeld
  BY DEF LockHeld, Reporting
<1>3. GivenFresh
  BY DEF GivenFresh
<1>4. OneVerdict /\ OneError
  BY DEF OneVerdict, OneError
<1> QED BY <1>1, <1>2, <1>3, <1>4 DEF IInv

-----------------------------------------------------------------------------
(* Steps of the session *)

\* Nothing but the clock, the cache, the turn and the counts changes.
LEMMA QuietSteps ==
  ASSUME IInv, QuietPrompt \/ Interrupt \/ FiveMinutes \/ CacheExpires PROVE IInv'
<1> USE OutcomesAssumption DEF IInv, QuietPrompt, Interrupt, FiveMinutes, CacheExpires
<1>1. TypeOK'
  <2>1. /\ turn' \in {"idle", "working"} /\ cache' \subseteq Solutions /\ old' \subseteq pending
        /\ faults' \in Nat
    BY DEF TypeOK
  <2>3. prompts' \in 0 .. MaxPrompts
    BY DEF TypeOK
  <2>4. expired' \in BOOLEAN
    BY DEF TypeOK
  <2>2. UNCHANGED <<pending, flagged, verdicts, errors, inside, pc, given, took, aim, told, events, gave, missed, cut>>
    OBVIOUS
  <2> QED BY <2>1, <2>2, <2>3, <2>4 DEF TypeOK
<1>2. prompts <= prompts' /\ prompts \in Nat /\ prompts' \in Nat
  BY DEF TypeOK
<1>3. LockHeld'
  BY DEF LockHeld, Reporting
<1>4. GivenFresh'
  BY <1>2 DEF GivenFresh, Injections
<1>5. OneVerdict' /\ OneError'
  BY DEF OneVerdict, OneError, Untold, Unblamed, Reporting
<1> QED BY <1>1, <1>3, <1>4, <1>5

\* A hook begins that gives nothing.
LEMMA BeginSteps ==
  ASSUME IInv, NEW p \in Procs, NEW stage \in {"error", "correct", "stop"}, Begin(p, stage),
         UNCHANGED <<cache, pending, flagged, old, verdicts, errors, inside, prompts, faults, history>>,
         turn' \in {"idle", "working"}, events' \in Nat
  PROVE  IInv'
<1> USE OutcomesAssumption DEF IInv, Begin
<1>1. TypeOK'
  BY DEF TypeOK, Stages
<1>2. p \notin inside /\ given[p] = {}
  BY DEF LockHeld, GivenFresh, Stages
<1>3. LockHeld'
  BY <1>2 DEF LockHeld, Reporting, TypeOK
<1>4. GivenFresh'
  BY <1>2 DEF GivenFresh, TypeOK
<1>5. OneVerdict' /\ OneError'
  BY <1>2 DEF OneVerdict, OneError, Untold, Unblamed, Reporting, TypeOK
<1> QED BY <1>1, <1>3, <1>4, <1>5

LEMMA PromptStep ==
  ASSUME IInv, NEW p \in Procs, NEW matched \in SUBSET Solutions, Prompt(p, matched) PROVE IInv'
<1> USE OutcomesAssumption DEF IInv, Prompt
<1>1. prompts \in Nat /\ prompts' = prompts + 1 /\ prompts + 1 \in 1 .. MaxPrompts
  BY DEF TypeOK
<1>2. matched \X {prompts + 1} \in SUBSET Injections
  BY <1>1 DEF Injections
<1>3. TypeOK'
  BY <1>1, <1>2 DEF TypeOK, Stages
<1>4. p \notin inside
  BY DEF LockHeld
<1>5. LockHeld'
  BY <1>4 DEF LockHeld, Reporting, TypeOK
<1>6. GivenFresh'
  <2>1. /\ given'[p] = matched \X {prompts + 1} /\ pc'[p] = "commit"
        /\ \A q \in Procs \ {p} : given'[q] = given[q] /\ pc'[q] = pc[q]
    BY DEF TypeOK
  <2>2. \A i \in given'[p] : i \in Injections /\ i[2] = prompts + 1 /\ i[2] > prompts
    BY <1>1, <1>2, <2>1
  <2>3. \A i \in Injections : i[2] \in Nat
    BY DEF Injections
  <2>4. \A i \in given'[p] : i \notin gave /\ i \notin pending /\ verdicts[i] = <<>> /\ errors[i] = 0
                             /\ \A q \in Procs : i \notin given[q]
    BY <2>2 DEF GivenFresh
  <2>5. \A i \in Injections : i[2] > prompts' => i[2] > prompts /\ i \notin given'[p]
    BY <1>1, <2>2, <2>3
  <2> QED BY <2>1, <2>4, <2>5 DEF GivenFresh
<1>7. OneVerdict' /\ OneError'
  BY <1>4 DEF OneVerdict, OneError, Untold, Unblamed, Reporting, TypeOK
<1> QED BY <1>3, <1>5, <1>6, <1>7

-----------------------------------------------------------------------------
(* Steps of the hooks *)

\* commitSessionCacheEntries gives no more than the prompt's hook meant to.
LEMMA CommitStep ==
  ASSUME IInv, NEW p \in Procs, Commit(p) PROVE IInv'
<1> USE OutcomesAssumption DEF IInv, Commit
<1> DEFINE new == {i \in given[p] : i[1] \notin cache}
<1>1. PICK to \in {None, "flush"} : pc' = [pc EXCEPT ![p] = to] /\ (to = None => new = {})
  <2>1. pc' = [pc EXCEPT ![p] = IF new = {} THEN None ELSE "flush"]
    OBVIOUS
  <2>2. CASE new = {}
    <3>1. pc' = [pc EXCEPT ![p] = None]
      BY ONLY <2>1, <2>2
    <3> QED BY ONLY <3>1, <2>2
  <2>3. CASE new # {}
    <3>1. pc' = [pc EXCEPT ![p] = "flush"]
      BY ONLY <2>1, <2>3
    <3> QED BY ONLY <3>1, <2>3, OutcomesAssumption DEF Stages
  <2> QED BY ONLY <2>2, <2>3
<1>2. TypeOK'
  <2>1. new \in SUBSET Injections /\ cache' \subseteq Solutions /\ gave' \subseteq Injections
    BY DEF TypeOK, Injections
  <2>2. pc' \in [Procs -> Stages \cup {None}] /\ given' \in [Procs -> SUBSET Injections]
    BY <1>1, <2>1 DEF TypeOK, Stages
  <2> QED BY <2>1, <2>2 DEF TypeOK
<1>3. p \notin inside
  BY DEF LockHeld
<1>4. /\ pc'[p] = to /\ given'[p] = new
      /\ \A q \in Procs \ {p} : given'[q] = given[q] /\ pc'[q] = pc[q]
  BY <1>1 DEF TypeOK
<1>5. LockHeld'
  <2>1. \A q \in inside : q \in Procs /\ q # p /\ pc'[q] = pc[q]
    BY <1>3, <1>4 DEF TypeOK
  <2> QED BY <2>1 DEF LockHeld, Reporting, TypeOK
<1>6. GivenFresh'
  BY <1>1, <1>4 DEF GivenFresh, Stages, TypeOK
<1>7. OneVerdict' /\ OneError'
  BY <1>3, <1>4 DEF OneVerdict, OneError, Untold, Unblamed, Reporting, TypeOK
<1> QED BY <1>2, <1>5, <1>6, <1>7

\* A hook that ends a stage without rewriting the file, in whatever way.
LEMMA LeaveSteps ==
  ASSUME IInv, NEW p \in Procs, NEW to \in {None, "append"}, to = "append" => pc[p] = "flush",
         pc' = [pc EXCEPT ![p] = to],
         given' = [given EXCEPT ![p] = IF to = None THEN {} ELSE given[p]],
         took' = [took EXCEPT ![p] = {}], aim' = [aim EXCEPT ![p] = {}],
         told' = [told EXCEPT ![p] = {}], inside' = inside \ {p},
         UNCHANGED <<turn, cache, pending, flagged, old, verdicts, errors, prompts, events, gave, expired>>,
         faults' \in Nat, missed' \subseteq Injections, Cut(p)
  PROVE  IInv'
<1> USE OutcomesAssumption DEF IInv
<1>1. cut' \in [Injections -> Nat] /\ \A i \in Injections : cut'[i] >= cut[i] /\ (i \in told[p] => cut'[i] = cut[i] + 1)
  BY DEF Cut, TypeOK
<1>2. /\ pc' \in [Procs -> Stages \cup {None}] /\ given' \in [Procs -> SUBSET Injections]
      /\ took' \in [Procs -> SUBSET Injections] /\ aim' \in [Procs -> SUBSET Injections]
      /\ told' \in [Procs -> SUBSET Injections]
  BY DEF TypeOK, Stages
<1>3. TypeOK'
  BY <1>1, <1>2 DEF TypeOK
<1>4. /\ pc'[p] = to /\ given'[p] \subseteq given[p] /\ (to = None => given'[p] = {})
      /\ took'[p] = {} /\ aim'[p] = {} /\ told'[p] = {}
      /\ \A q \in Procs \ {p} : /\ given'[q] = given[q] /\ pc'[q] = pc[q] /\ took'[q] = took[q]
                                /\ aim'[q] = aim[q] /\ told'[q] = told[q]
  BY DEF TypeOK
<1>5. LockHeld'
  <2>1. p \notin inside' /\ \A q \in inside' : q \in inside /\ q \in Procs \ {p}
    BY DEF TypeOK
  <2> QED BY <1>4, <2>1 DEF LockHeld, Reporting
<1>6. GivenFresh'
  BY <1>4 DEF GivenFresh, Stages
<1>7. ASSUME NEW i \in Injections PROVE Len(verdicts[i]) \in Nat /\ cut[i] \in Nat /\ cut'[i] \in Nat
  BY <1>1 DEF TypeOK
<1>8. OneVerdict'
  <2> SUFFICES ASSUME NEW i \in Injections
               PROVE  /\ Len(verdicts[i]) <= cut'[i] + 1
                      /\ i \in pending /\ Untold(i)' => Len(verdicts[i]) <= cut'[i]
    BY DEF OneVerdict
  <2>1. Len(verdicts[i]) <= cut[i] + 1 /\ (i \in pending /\ Untold(i) => Len(verdicts[i]) <= cut[i])
    BY DEF OneVerdict
  <2>2. Untold(i)' => Untold(i) \/ i \in told[p]
    BY <1>4 DEF Untold, Reporting
  <2> QED BY <1>1, <1>7, <2>1, <2>2
<1>9. OneError'
  <2> SUFFICES ASSUME NEW i \in Injections
               PROVE  /\ errors[i] <= cut'[i] + 1
                      /\ i \in pending /\ Unblamed(i)' => errors[i] <= cut'[i]
    BY DEF OneError
  <2>1. /\ errors[i] <= cut[i] + 1 /\ (i \in pending /\ Unblamed(i) => errors[i] <= cut[i])
        /\ errors[i] \in Nat
    BY DEF OneError, TypeOK
  <2>2. Unblamed(i)' => Unblamed(i) \/ i \in told[p]
    BY <1>4 DEF Unblamed, TypeOK
  <2> QED BY <1>1, <1>7, <2>1, <2>2
<1> QED BY <1>3, <1>5, <1>6, <1>8, <1>9

\* The same of a stage that is left.
LEMMA StageLeaves ==
  ASSUME IInv, NEW p \in Procs, NEW stage \in Stages, pc[p] = stage, Leave(p, stage), inside' = inside \ {p},
         UNCHANGED <<turn, cache, pending, flagged, old, verdicts, errors, prompts, events, gave, expired>>,
         faults' \in Nat, missed' \subseteq Injections, Cut(p)
  PROVE  IInv'
<1>1. CASE stage = "flush"
  <2>1. /\ pc' = [pc EXCEPT ![p] = "append"] /\ "append" # None
        /\ took' = [took EXCEPT ![p] = {}] /\ aim' = [aim EXCEPT ![p] = {}] /\ told' = [told EXCEPT ![p] = {}]
        /\ given' = [given EXCEPT ![p] = given[p]]
    BY <1>1, OutcomesAssumption DEF Leave, After, Stages
  <2> QED BY <1>1, <2>1, LeaveSteps
<1>2. CASE stage # "flush"
  <2>1. /\ pc' = [pc EXCEPT ![p] = None]
        /\ took' = [took EXCEPT ![p] = {}] /\ aim' = [aim EXCEPT ![p] = {}] /\ told' = [told EXCEPT ![p] = {}]
        /\ given' = [given EXCEPT ![p] = {}]
    BY <1>2 DEF Leave, After
  <2>2. None = "append" => pc[p] = "flush"
    BY OutcomesAssumption DEF Stages
  <2> QED BY <2>1, <2>2, LeaveSteps
<1> QED BY <1>1, <1>2

LEMMA FailureSteps ==
  ASSUME IInv, NEW p \in Procs, NEW stage \in Stages,
         CommitFails(p) \/ Die(p) \/ LockFails(p, stage) \/ WriteFails(p, stage)
  PROVE  IInv'
<1> USE OutcomesAssumption DEF IInv, Fault, Missed, Leave, After
<1>1. p \notin inside => told[p] = {} /\ inside \ {p} = inside
  BY DEF LockHeld, TypeOK
<1>2. told[p] = {} /\ cut' = cut => Cut(p)
  BY DEF Cut, TypeOK
<1>3. p \in inside => pc[p] # "commit"
  BY DEF LockHeld
<1>4. CASE CommitFails(p)
  <2> USE <1>4 DEF CommitFails
  <2>1. pc[p] = "commit" /\ p \notin inside
    BY <1>3
  <2>2. Cut(p) /\ missed' = missed
    BY <1>1, <1>2, <2>1
  <2>3. inside' = inside \ {p} /\ faults' \in Nat /\ missed' \subseteq Injections
    BY <1>1, <2>1, <2>2 DEF TypeOK
  <2>4. pc' = [pc EXCEPT ![p] = None] /\ given' = [given EXCEPT ![p] = IF None = None THEN {} ELSE given[p]]
    OBVIOUS
  <2> QED BY <2>2, <2>3, <2>4, LeaveSteps DEF Stages
<1>5. CASE Die(p)
  <2> USE <1>5 DEF Die
  <2>1. faults' \in Nat /\ missed' \subseteq Injections
    BY DEF TypeOK
  <2>2. given' = [given EXCEPT ![p] = IF None = None THEN {} ELSE given[p]]
    OBVIOUS
  <2> QED BY <2>1, <2>2, LeaveSteps DEF Stages
<1>6. CASE LockFails(p, stage)
  <2> USE <1>6 DEF LockFails
  <2>1. inside' = inside \ {p} /\ Cut(p)
    BY <1>1, <1>2
  <2>2. faults' \in Nat /\ missed' \subseteq Injections
    BY DEF TypeOK
  <2> HIDE DEF LockFails
  <2> QED BY <1>6, <2>1, <2>2, StageLeaves DEF LockFails
<1>7. CASE WriteFails(p, stage)
  <2>1. faults' \in Nat /\ missed' \subseteq Injections
    BY <1>7 DEF TypeOK, WriteFails
  <2> QED BY <1>7, <2>1, StageLeaves DEF WriteFails
<1> QED BY <1>4, <1>5, <1>6, <1>7

\* The lock is free, so nobody has reported anything the file does not say.
LEMMA TakeStep ==
  ASSUME IInv, NEW p \in Procs, NEW stage \in Stages, Take(p, stage) PROVE IInv'
<1> USE OutcomesAssumption DEF IInv, Take, Read
<1>1. PICK targets \in Targets(stage) : aim' = [aim EXCEPT ![p] = targets]
  OBVIOUS
<1>2. /\ targets \subseteq pending /\ (stage = "append" => targets = {})
      /\ stage \in {"flush", "correct", "stop"} => targets = pending
      /\ stage = "error" => \A i \in targets : i[1] \notin flagged
  <2>1. CASE stage = "append"
    BY <2>1 DEF Targets
  <2>2. CASE stage = "error"
    BY <2>2 DEF Targets, Blamed
  <2>3. CASE stage \in {"flush", "correct", "stop"}
    BY <2>3 DEF Targets
  <2> QED BY <2>1, <2>2, <2>3 DEF Stages
<1>3. /\ aim'[p] = targets /\ took'[p] = pending /\ inside = {} /\ inside' = {p}
      /\ \A q \in Procs \ {p} : aim'[q] = aim[q] /\ took'[q] = took[q]
  BY <1>1 DEF TypeOK
<1>4. \A q \in Procs : told[q] = {}
  BY DEF LockHeld
<1>5. TypeOK'
  BY <1>1, <1>2 DEF TypeOK
<1>6. LockHeld'
  BY <1>2, <1>3, <1>4 DEF LockHeld, Reporting, Stages
<1>7. GivenFresh'
  BY DEF GivenFresh
<1>8. OneVerdict' /\ OneError'
  BY <1>3, <1>4 DEF OneVerdict, OneError, Untold, Unblamed, Reporting
<1> QED BY <1>5, <1>6, <1>7, <1>8

\* A report is on an injection that is pending and that this hook has not
\* reported on.
LEMMA ReportStep ==
  ASSUME IInv, NEW p \in Procs, NEW stage \in Stages, NEW i \in aim[p], Report(p, stage, i) PROVE IInv'
<1> USE OutcomesAssumption DEF IInv
<1>1. /\ inside = {p} /\ i \in pending /\ i \in Injections /\ i \notin told[p] /\ pc[p] = stage
      /\ stage \in {"flush", "correct", "stop", "error"}
      /\ stage = "error" => i[1] \notin flagged
  BY DEF Report, LockHeld, TypeOK, Stages
<1>2. /\ told'[p] = told[p] \cup {i} /\ told' \in [Procs -> SUBSET Injections]
      /\ \A q \in Procs \ {p} : told'[q] = told[q]
  BY <1>1 DEF Report, TypeOK
<1>3. UNCHANGED <<turn, cache, pending, flagged, old, inside, pc, given, took, aim, prompts, events, faults, gave, missed, expired, cut>>
  BY DEF Report
<1>4. \A q \in Procs : i \notin given[q] /\ ~ i[2] > prompts
  BY <1>1 DEF GivenFresh
<1>5. ASSUME NEW j \in Injections PROVE verdicts[j] \in Seq(Verdicts) /\ Len(verdicts[j]) \in Nat /\ errors[j] \in Nat /\ cut[j] \in Nat
  BY DEF TypeOK
<1>6. CASE stage = "error"
  <2>1. verdicts' = verdicts /\ errors' = [errors EXCEPT ![i] = errors[i] + 1]
    BY <1>6 DEF Report
  <2>2. /\ errors' \in [Injections -> Nat] /\ errors'[i] = errors[i] + 1
        /\ \A j \in Injections \ {i} : errors'[j] = errors[j]
    BY <1>1, <2>1 DEF TypeOK
  <2>3. TypeOK'
    BY <1>2, <1>3, <2>1, <2>2 DEF TypeOK
  <2>4. LockHeld'
    BY <1>1, <1>2, <1>3, <1>6, <2>1 DEF LockHeld, Reporting
  <2>5. GivenFresh'
    BY <1>3, <1>4, <2>1, <2>2 DEF GivenFresh
  <2>6. OneVerdict'
    BY <1>1, <1>2, <1>3, <1>6, <2>1 DEF OneVerdict, Untold, Reporting
  <2>7. Unblamed(i) /\ ~ Unblamed(i)' /\ \A j \in Injections \ {i} : Unblamed(j)' => Unblamed(j)
    BY <1>1, <1>2, <1>3, <1>6 DEF Unblamed
  <2>8. OneError'
    BY <1>1, <1>3, <1>5, <2>2, <2>7 DEF OneError
  <2> QED BY <2>3, <2>4, <2>5, <2>6, <2>8
<1>7. CASE stage # "error"
  <2>1. errors' = errors /\ verdicts' = [verdicts EXCEPT ![i] = Append(verdicts[i], VerdictOf(stage))]
    BY <1>7 DEF Report
  <2>2. VerdictOf(stage) \in Verdicts
    BY <1>1, <1>7 DEF VerdictOf, Verdicts
  <2>3. /\ verdicts' \in [Injections -> Seq(Verdicts)] /\ verdicts'[i] = Append(verdicts[i], VerdictOf(stage))
        /\ \A j \in Injections \ {i} : verdicts'[j] = verdicts[j]
    BY <1>1, <1>5, <2>1, <2>2 DEF TypeOK
  <2>4. verdicts'[i] # <<>> /\ Last(verdicts'[i]) = VerdictOf(stage) /\ Len(verdicts'[i]) = Len(verdicts[i]) + 1
    BY <1>5, <1>1, <2>2, <2>3 DEF Last
  <2>5. TypeOK'
    BY <1>2, <1>3, <2>1, <2>3 DEF TypeOK
  <2>6. LockHeld'
    <3>1. ASSUME NEW q \in Procs, NEW j \in Injections, Reporting(q)', j \in told'[q]
          PROVE  verdicts'[j] # <<>> /\ Last(verdicts'[j]) = VerdictOf(pc'[q])
      <4>1. q = p /\ Reporting(p) /\ pc'[q] = stage
        BY <1>1, <1>3, <3>1 DEF Reporting
      <4>2. CASE j = i
        BY <2>4, <4>1, <4>2
      <4>3. CASE j # i
        <5>1. j \in told[p] /\ verdicts'[j] = verdicts[j]
          BY <1>2, <2>3, <3>1, <4>1, <4>3
        <5> QED BY <1>1, <4>1, <5>1 DEF LockHeld
      <4> QED BY <4>2, <4>3
    <3> QED BY <1>1, <1>2, <1>3, <1>7, <3>1 DEF LockHeld, Reporting
  <2>7. GivenFresh'
    BY <1>3, <1>4, <2>1, <2>3 DEF GivenFresh
  <2>8. OneError'
    BY <1>1, <1>2, <1>3, <1>7, <2>1 DEF OneError, Unblamed
  <2>9. Untold(i) /\ ~ Untold(i)' /\ \A j \in Injections \ {i} : Untold(j)' => Untold(j)
    BY <1>1, <1>2, <1>3, <1>7 DEF Untold, Reporting, LockHeld
  <2>10. OneVerdict'
    <3> SUFFICES ASSUME NEW j \in Injections
                 PROVE  /\ Len(verdicts'[j]) <= cut[j] + 1
                        /\ j \in pending /\ Untold(j)' => Len(verdicts'[j]) <= cut[j]
      BY <1>3 DEF OneVerdict
    <3>1. Len(verdicts[j]) <= cut[j] + 1 /\ (j \in pending /\ Untold(j) => Len(verdicts[j]) <= cut[j])
      BY DEF OneVerdict
    <3> QED BY <1>1, <1>5, <2>3, <2>4, <2>9, <3>1
  <2> QED BY <2>5, <2>6, <2>7, <2>8, <2>10
<1> QED BY <1>6, <1>7

\* The file is rewritten from what it still is: only the prompt's own, new
\* injections are added to it, and nothing reported on stays open to a second
\* report.
LEMMA RewriteStep ==
  ASSUME IInv, NEW p \in Procs, NEW stage \in Stages, Rewrite(p, stage) PROVE IInv'
<1> USE OutcomesAssumption DEF IInv
<1>1. /\ inside = {p} /\ inside' = {} /\ pc[p] = stage /\ took[p] = pending /\ told[p] = aim[p]
      /\ stage \in {"flush", "append", "correct", "error", "stop"}
  BY DEF Rewrite, LockHeld, TypeOK, Stages
<1>2. UNCHANGED <<turn, cache, verdicts, errors, prompts, events, faults, gave, missed, expired, cut>>
  BY DEF Rewrite
<1>3. PICK to \in {None, "append"} :
        /\ pc' = [pc EXCEPT ![p] = to] /\ (to = "append" <=> stage = "flush")
        /\ given' = [given EXCEPT ![p] = IF stage = "flush" THEN given[p] ELSE {}]
  <2>1. CASE stage = "flush"
    <3>1. pc' = [pc EXCEPT ![p] = "append"] /\ given' = [given EXCEPT ![p] = given[p]]
      BY <2>1 DEF Rewrite, Leave, After, Stages
    <3> QED BY <2>1, <3>1
  <2>2. CASE stage # "flush"
    <3>1. pc' = [pc EXCEPT ![p] = None] /\ given' = [given EXCEPT ![p] = {}]
      BY <2>2 DEF Rewrite, Leave, After
    <3> QED BY <2>2, <3>1 DEF Stages
  <2> QED BY <2>1, <2>2
<1>4. /\ took' = [took EXCEPT ![p] = {}] /\ aim' = [aim EXCEPT ![p] = {}] /\ told' = [told EXCEPT ![p] = {}]
  BY DEF Rewrite, Leave
<1>5. /\ pending' \subseteq Injections /\ flagged' \subseteq Solutions /\ old' \subseteq pending'
      /\ stage = "error" => pending' = pending /\ flagged \subseteq flagged' /\ \A i \in told[p] : i[1] \in flagged'
      /\ stage = "append" => pending' = pending \cup given[p] /\ flagged' = flagged
      /\ stage \notin {"error", "append"} => pending' = {}
  <2>1. CASE stage = "error"
    <3>1. pending' = took[p] /\ flagged' = flagged \cup {i[1] : i \in told[p]} /\ old' \subseteq pending'
      BY <2>1 DEF Rewrite, Kept, Flagged
    <3>2. {i[1] : i \in told[p]} \subseteq Solutions
      BY DEF TypeOK, Injections
    <3> QED BY <1>1, <2>1, <3>1, <3>2 DEF TypeOK
  <2>2. CASE stage = "append"
    <3>1. pending' = took[p] \cup given[p] /\ flagged' = flagged /\ old' \subseteq pending'
      BY <2>2 DEF Rewrite, Kept, Flagged
    <3> QED BY <1>1, <2>2, <3>1 DEF TypeOK
  <2>3. CASE stage \in {"flush", "correct", "stop"}
    <3>1. pending' = {} /\ flagged' = {} /\ old' \subseteq pending'
      BY <2>3 DEF Rewrite, Kept, Flagged
    <3> QED BY <2>3, <3>1 DEF TypeOK
  <2> QED BY <1>1, <2>1, <2>2, <2>3
<1>6. TypeOK'
  <2>1. /\ pc' \in [Procs -> Stages \cup {None}] /\ given' \in [Procs -> SUBSET Injections]
        /\ took' \in [Procs -> SUBSET Injections] /\ aim' \in [Procs -> SUBSET Injections]
        /\ told' \in [Procs -> SUBSET Injections]
    BY <1>3, <1>4 DEF TypeOK, Stages
  <2> QED BY <1>1, <1>2, <1>5, <2>1 DEF TypeOK
<1>7. /\ given'[p] \subseteq given[p] /\ (pc'[p] # "append" => given'[p] = {}) /\ pc'[p] \in {None, "append"}
      /\ stage # "flush" => given'[p] = {}
      /\ \A q \in Procs \ {p} : given'[q] = given[q] /\ pc'[q] = pc[q]
      /\ \A q \in Procs : took'[q] = {} /\ aim'[q] = {} /\ told'[q] = {}
  <2>1. \A q \in Procs \ {p} : took[q] = {} /\ aim[q] = {} /\ told[q] = {}
    BY <1>1 DEF LockHeld
  <2> QED BY <1>3, <1>4, <2>1 DEF TypeOK, Stages
<1>8. LockHeld'
  BY <1>1, <1>7 DEF LockHeld, Reporting
<1>9. GivenFresh'
  <2>1. ASSUME NEW i \in Injections, i[2] > prompts \/ (\E q \in Procs : i \in given'[q])
        PROVE  i \notin pending' /\ verdicts[i] = <<>> /\ errors[i] = 0
    <3>1. i[2] > prompts \/ \E q \in Procs : i \in given[q]
      BY <1>7, <2>1
    <3>2. i \notin pending /\ verdicts[i] = <<>> /\ errors[i] = 0
      BY <3>1 DEF GivenFresh
    <3>3. stage = "append" => i \notin given[p]
      BY <1>7, <2>1 DEF GivenFresh
    <3> QED BY <1>1, <1>5, <3>2, <3>3
  <2>2. \A q, r \in Procs : q # r => given'[q] \cap given'[r] = {}
    BY <1>7 DEF GivenFresh
  <2>3. /\ \A q \in Procs : given'[q] # {} => pc'[q] \in {"commit", "flush", "append"}
        /\ \A i \in Injections : i[2] > prompts => i \notin gave /\ \A q \in Procs : i \notin given'[q]
        /\ \A q \in Procs : pc'[q] = "commit" => given'[q] \cap gave = {}
    BY <1>7 DEF GivenFresh, Stages
  <2> QED BY <1>2, <2>1, <2>2, <2>3 DEF GivenFresh
<1>10. ASSUME NEW i \in Injections
       PROVE /\ verdicts[i] \in Seq(Verdicts) /\ Len(verdicts[i]) \in Nat /\ errors[i] \in Nat /\ cut[i] \in Nat
             /\ i \in pending' => i \in pending \/ (Len(verdicts[i]) = 0 /\ errors[i] = 0)
  BY <1>1, <1>5 DEF TypeOK, GivenFresh
<1>11. OneVerdict'
  <2>1. \A i \in pending' : i \in pending => Untold(i)
    BY <1>1, <1>5 DEF Untold, Reporting
  <2> QED BY <1>2, <1>5, <1>10, <2>1 DEF OneVerdict
<1>12. OneError'
  <2>1. \A i \in pending' : i \in pending /\ Unblamed(i)' => Unblamed(i)
    BY <1>1, <1>5 DEF Unblamed
  <2> QED BY <1>2, <1>5, <1>10, <2>1 DEF OneError
<1> QED BY <1>6, <1>8, <1>9, <1>11, <1>12

LEMMA StepIsOK == IInv /\ [Next]_vars => IInv'
<1> SUFFICES ASSUME IInv, [Next]_vars PROVE IInv'
  OBVIOUS
<1>1. CASE QuietPrompt \/ Interrupt \/ FiveMinutes \/ CacheExpires
  BY <1>1, QuietSteps
<1>2. ASSUME NEW p \in Procs, NEW matched \in SUBSET Solutions, Prompt(p, matched) PROVE IInv'
  BY <1>2, PromptStep
<1>3. ASSUME NEW p \in Procs, Event(p, "error") \/ Event(p, "correct") \/ EndTurn(p) PROVE IInv'
  <2>1. events' \in Nat /\ turn' \in {"idle", "working"}
    BY <1>3 DEF Event, EndTurn, IInv, TypeOK
  <2>2. /\ Begin(p, "error") \/ Begin(p, "correct") \/ Begin(p, "stop")
        /\ UNCHANGED <<cache, pending, flagged, old, verdicts, errors, inside, prompts, faults, history>>
    BY <1>3 DEF Event, EndTurn
  <2> QED BY <2>1, <2>2, BeginSteps
<1>4. ASSUME NEW p \in Procs, Hook(p) PROVE IInv'
  BY <1>4, CommitStep, FailureSteps, TakeStep, RewriteStep, ReportStep DEF Hook, Stages
<1>5. CASE UNCHANGED vars
  BY <1>5 DEF vars, IInv, TypeOK, LockHeld, GivenFresh, OneVerdict, OneError, Untold, Unblamed, Reporting
<1> QED BY <1>1, <1>2, <1>3, <1>4, <1>5 DEF Next

\* In every reachable state the file a hook has reported on is still the one
\* it read, and what the prompts' hooks give is fresh.
THEOREM Invariant == Spec => []IInv
<1> QED BY InitIsOK, StepIsOK, PTL DEF Spec

\* An injection gets one verdict, and one more at most for every report that
\* was not followed by the rewrite (mutatePending).
THEOREM VerdictsOnce == Spec => []OneVerdict
<1> QED BY Invariant, PTL DEF IInv

\* An error is put down to an injection once while it is pending
\* (attributeError).
THEOREM ErrorsOnce == Spec => []OneError
<1> QED BY Invariant, PTL DEF IInv

-----------------------------------------------------------------------------
(* No injection is lost *)

\* A hook loses what it gives only by a fault of its own, which is recorded.
LEMMA NothingLost == IInv /\ NothingVanishes /\ [Next]_vars => NothingVanishes'
<1> SUFFICES ASSUME IInv, NothingVanishes, [Next]_vars, NEW i \in gave' PROVE
      i \in pending' \/ verdicts'[i] # <<>> \/ i \in missed' \/ OnItsWay(i)'
  BY DEF NothingVanishes
<1> USE OutcomesAssumption DEF IInv
<1>1. ASSUME pending' = pending, verdicts' = verdicts, gave' = gave, missed' = missed,
             \A p \in Procs : given[p] \subseteq given'[p]
      PROVE  i \in pending' \/ verdicts'[i] # <<>> \/ i \in missed' \/ OnItsWay(i)'
  BY <1>1 DEF NothingVanishes, OnItsWay
<1>2. CASE QuietPrompt \/ Interrupt \/ FiveMinutes \/ CacheExpires \/ UNCHANGED vars
  BY <1>1, <1>2 DEF QuietPrompt, Interrupt, FiveMinutes, CacheExpires, vars
<1>3. ASSUME NEW p \in Procs, NEW matched \in SUBSET Solutions, Prompt(p, matched)
      PROVE  i \in pending' \/ verdicts'[i] # <<>> \/ i \in missed' \/ OnItsWay(i)'
  <2>1. given[p] = {}
    BY <1>3 DEF Prompt, GivenFresh, Stages
  <2> QED BY <1>1, <1>3, <2>1 DEF Prompt, TypeOK
<1>4. ASSUME NEW p \in Procs, Event(p, "error") \/ Event(p, "correct") \/ EndTurn(p)
      PROVE  i \in pending' \/ verdicts'[i] # <<>> \/ i \in missed' \/ OnItsWay(i)'
  BY <1>1, <1>4 DEF Event, EndTurn, Begin
<1>5. ASSUME NEW p \in Procs, NEW stage \in Stages, Take(p, stage) \/ \E j \in aim[p] : Report(p, stage, j)
      PROVE  i \in pending' \/ verdicts'[i] # <<>> \/ i \in missed' \/ OnItsWay(i)'
  <2>1. CASE Take(p, stage)
    BY <1>1, <2>1 DEF Take, Read
  <2>2. ASSUME NEW j \in aim[p], Report(p, stage, j)
        PROVE  i \in pending' \/ verdicts'[i] # <<>> \/ i \in missed' \/ OnItsWay(i)'
    <3>1. /\ pending' = pending /\ gave' = gave /\ missed' = missed /\ given' = given
          /\ i \in Injections /\ verdicts[i] \in Seq(Verdicts)
      BY <2>2 DEF Report, TypeOK
    <3>2. verdicts[i] # <<>> => verdicts'[i] # <<>>
      <4>1. CASE verdicts' = verdicts
        BY <4>1
      <4>2. CASE verdicts' = [verdicts EXCEPT ![j] = Append(verdicts[j], VerdictOf(stage))]
        <5>1. verdicts'[i] = verdicts[i] \/ (i = j /\ verdicts'[i] = Append(verdicts[i], VerdictOf(stage)))
          BY <3>1, <4>2 DEF TypeOK
        <5> QED BY <3>1, <5>1
      <4> QED BY <2>2, <4>1, <4>2 DEF Report
    <3> QED BY <3>1, <3>2 DEF NothingVanishes, OnItsWay
  <2> QED BY <1>5, <2>1, <2>2
<1>6. ASSUME NEW p \in Procs, Commit(p)
      PROVE  i \in pending' \/ verdicts'[i] # <<>> \/ i \in missed' \/ OnItsWay(i)'
  <2> DEFINE new == {j \in given[p] : j[1] \notin cache}
  <2>1. /\ pending' = pending /\ verdicts' = verdicts /\ missed' = missed /\ gave' = gave \cup new
        /\ given'[p] = new /\ \A q \in Procs \ {p} : given'[q] = given[q]
    BY <1>6 DEF Commit, TypeOK
  <2>2. i \in new \/ (i \in gave /\ i \notin given[p])
    BY <1>6, <2>1 DEF GivenFresh, Commit
  <2> QED BY <2>1, <2>2 DEF NothingVanishes, OnItsWay
<1>7. ASSUME NEW p \in Procs, NEW stage \in Stages,
             CommitFails(p) \/ Die(p) \/ LockFails(p, stage) \/ WriteFails(p, stage)
      PROVE  i \in pending' \/ verdicts'[i] # <<>> \/ i \in missed' \/ OnItsWay(i)'
  <2>1. /\ pending' = pending /\ verdicts' = verdicts /\ gave' = gave
        /\ \A q \in Procs \ {p} : given'[q] = given[q]
    BY <1>7 DEF CommitFails, Die, LockFails, WriteFails, Leave, TypeOK
  <2>2. i \in given[p] => i \in missed' \/ i \in given'[p]
    <3> SUFFICES ASSUME i \in given[p] PROVE i \in missed' \/ i \in given'[p]
      OBVIOUS
    <3>1. pc[p] \in {"flush", "append"}
      BY <2>1 DEF GivenFresh
    <3>2. CASE Die(p)
      BY <3>1, <3>2 DEF Die, Missed
    <3>3. CASE LockFails(p, stage) \/ WriteFails(p, stage)
      <4>1. /\ pc[p] = stage /\ missed' = missed \cup IF stage = "append" THEN given[p] ELSE {}
            /\ Leave(p, stage)
        BY <3>3 DEF LockFails, WriteFails, Missed
      <4>2. CASE stage = "append"
        BY <4>1, <4>2
      <4>3. CASE stage = "flush"
        <5>1. given' = [given EXCEPT ![p] = given[p]]
          BY <4>1, <4>3 DEF Leave, After, Stages
        <5> QED BY <5>1 DEF TypeOK
      <4> QED BY <3>1, <4>1, <4>2, <4>3
    <3> QED BY <1>7, <3>1, <3>2, <3>3 DEF CommitFails
  <2>3. missed \subseteq missed'
    BY <1>7 DEF CommitFails, Die, LockFails, WriteFails, Missed
  <2> QED BY <2>1, <2>2, <2>3 DEF NothingVanishes, OnItsWay
<1>8. ASSUME NEW p \in Procs, NEW stage \in Stages, Rewrite(p, stage)
      PROVE  i \in pending' \/ verdicts'[i] # <<>> \/ i \in missed' \/ OnItsWay(i)'
  <2>1. /\ verdicts' = verdicts /\ gave' = gave /\ missed' = missed /\ pending' = Kept(p, stage)
        /\ \A q \in Procs \ {p} : given'[q] = given[q]
        /\ pc[p] = stage /\ p \in inside /\ told[p] = aim[p] /\ took[p] = pending /\ i \in Injections
    BY <1>8 DEF Rewrite, Leave, TypeOK, LockHeld
  <2>2. i \in given[p] => i \in given'[p] \/ stage = "append"
    <3>1. CASE stage = "flush"
      <4>1. given' = [given EXCEPT ![p] = given[p]]
        BY <1>8, <3>1 DEF Rewrite, Leave, After, Stages
      <4> QED BY <4>1 DEF TypeOK
    <3> QED BY <2>1, <3>1 DEF GivenFresh, LockHeld
  <2>3. CASE stage \in {"append", "error"}
    <3>1. pending \subseteq pending' /\ (stage = "append" => given[p] \subseteq pending')
      BY <2>1, <2>3 DEF Kept
    <3> QED BY <2>1, <2>2, <3>1 DEF NothingVanishes, OnItsWay
  <2>4. CASE stage \in {"flush", "correct", "stop"}
    <3>1. i \in pending => verdicts[i] # <<>>
      BY <2>1, <2>4 DEF LockHeld, Reporting
    <3> QED BY <2>1, <2>2, <2>4, <3>1 DEF NothingVanishes, OnItsWay
  <2> QED BY <2>1, <2>3, <2>4 DEF Stages, LockHeld
<1>9. ASSUME NEW p \in Procs, Hook(p)
      PROVE  i \in pending' \/ verdicts'[i] # <<>> \/ i \in missed' \/ OnItsWay(i)'
  <2>1. "stop" \in Stages
    BY DEF Stages
  <2>2. CASE Commit(p) \/ CommitFails(p) \/ Die(p)
    BY <1>6, <1>7, <2>1, <2>2
  <2>3. CASE ~ (Commit(p) \/ CommitFails(p) \/ Die(p))
    BY <1>5, <1>7, <1>8, <1>9, <2>3 DEF Hook
  <2> QED BY <2>2, <2>3
<1> QED BY <1>2, <1>3, <1>4, <1>9 DEF Next

\* Whatever interleaving of hooks, an injection is pending, judged, on its way
\* or missed by a fault of the hook that made it.
THEOREM NoneVanishes == Spec => []NothingVanishes
<1>1. Init => NothingVanishes
  BY DEF Init, NothingVanishes
<1> QED BY <1>1, NothingLost, Invariant, PTL DEF Spec

-----------------------------------------------------------------------------
(* One injection of a solution *)

\* What the cache has kept since it last expired.
CacheKnows ==
  /\ ~ expired => \A i \in gave : i[1] \in cache
  /\ \A p \in Procs : \A i, j \in given[p] : i[2] = j[2]

LEMMA CacheKnowsStays == IInv /\ CacheKnows /\ [Next]_vars => CacheKnows'
<1> SUFFICES ASSUME IInv, CacheKnows, [Next]_vars PROVE CacheKnows'
  OBVIOUS
<1> USE OutcomesAssumption DEF IInv
<1>1. ASSUME expired' = expired, cache' = cache, gave' = gave, \A p \in Procs : given'[p] \subseteq given[p]
      PROVE  CacheKnows'
  BY <1>1 DEF CacheKnows
<1>2. CASE UNCHANGED vars \/ QuietPrompt \/ Interrupt \/ FiveMinutes
  BY <1>1, <1>2 DEF QuietPrompt, Interrupt, FiveMinutes, vars
<1>3. CASE CacheExpires
  BY <1>3 DEF CacheExpires, CacheKnows
<1>4. ASSUME NEW p \in Procs, NEW matched \in SUBSET Solutions, Prompt(p, matched) PROVE CacheKnows'
  <2>1. /\ given'[p] = matched \X {prompts + 1} /\ \A q \in Procs \ {p} : given'[q] = given[q]
        /\ expired' = expired /\ cache' = cache /\ gave' = gave
    BY <1>4 DEF Prompt, TypeOK
  <2> QED BY <2>1 DEF CacheKnows
<1>5. ASSUME NEW p \in Procs, Event(p, "error") \/ Event(p, "correct") \/ EndTurn(p) PROVE CacheKnows'
  BY <1>1, <1>5 DEF Event, EndTurn, Begin
<1>6. ASSUME NEW p \in Procs, Commit(p) PROVE CacheKnows'
  <2> DEFINE new == {i \in given[p] : i[1] \notin cache}
  <2>1. /\ cache' = cache \cup {i[1] : i \in new} /\ gave' = gave \cup new /\ expired' = expired
        /\ given'[p] = new /\ \A q \in Procs \ {p} : given'[q] = given[q]
    BY <1>6 DEF Commit, TypeOK
  <2> QED BY <2>1 DEF CacheKnows
<1>7. ASSUME NEW p \in Procs, NEW stage \in Stages,
             \/ Take(p, stage) \/ Rewrite(p, stage) \/ LockFails(p, stage) \/ WriteFails(p, stage)
             \/ (\E i \in aim[p] : Report(p, stage, i)) \/ CommitFails(p) \/ Die(p)
      PROVE  CacheKnows'
  <2>1. expired' = expired /\ cache' = cache /\ gave' = gave
    BY <1>7 DEF Take, Read, Rewrite, LockFails, WriteFails, Report, CommitFails, Die
  <2>2. \A q \in Procs : given'[q] \subseteq given[q]
    <3>1. CASE given' = given
      BY <3>1
    <3>2. CASE given' = [given EXCEPT ![p] = {}]
      BY <3>2 DEF TypeOK
    <3>3. CASE given' = [given EXCEPT ![p] = given[p]]
      BY <3>3 DEF TypeOK
    <3>4. ASSUME NEW s, Leave(p, s) PROVE given' = [given EXCEPT ![p] = {}] \/ given' = [given EXCEPT ![p] = given[p]]
      <4>1. CASE After(s) = None
        BY <3>4, <4>1 DEF Leave
      <4>2. CASE After(s) # None
        BY <3>4, <4>2 DEF Leave
      <4> QED BY <4>1, <4>2
    <3> QED BY <1>7, <3>1, <3>2, <3>3, <3>4 DEF Take, Read, Rewrite, LockFails, WriteFails, Report, CommitFails, Die
  <2> QED BY <1>1, <2>1, <2>2
<1>8. ASSUME NEW p \in Procs, Hook(p) PROVE CacheKnows'
  <2>1. "stop" \in Stages
    BY DEF Stages
  <2> QED BY <1>6, <1>7, <1>8, <2>1 DEF Hook
<1> QED BY <1>2, <1>3, <1>4, <1>5, <1>8 DEF Next

\* The injections a commit makes are of other solutions than all before.
LEMMA InjectedOnceStays == IInv /\ CacheKnows /\ InjectedOnce /\ [Next]_vars => InjectedOnce'
<1> SUFFICES ASSUME IInv, CacheKnows, InjectedOnce, [Next]_vars PROVE InjectedOnce'
  OBVIOUS
<1>1. ASSUME NEW p \in Procs, Commit(p) PROVE InjectedOnce'
  <2> DEFINE new == {i \in given[p] : i[1] \notin cache}
  <2>1. gave' = gave \cup new /\ expired' = expired
    BY <1>1 DEF Commit
  <2>2. \A i, j \in new : i[1] = j[1] => i = j
    <3> SUFFICES ASSUME NEW i \in new, NEW j \in new, i[1] = j[1] PROVE i = j
      OBVIOUS
    <3>1. i \in Solutions \X (1 .. MaxPrompts) /\ j \in Solutions \X (1 .. MaxPrompts)
      BY DEF IInv, TypeOK, Injections
    <3>2. i[2] = j[2]
      BY DEF CacheKnows
    <3> QED BY <3>1, <3>2
  <2>3. ~ expired => \A i \in gave, j \in new : i[1] # j[1]
    BY DEF CacheKnows
  <2> QED BY <2>1, <2>2, <2>3 DEF InjectedOnce
<1>2. CASE \A p \in Procs : ~ Commit(p)
  <2>1. gave' = gave /\ (expired => expired')
    BY <1>2 DEF Next, Hook, Prompt, QuietPrompt, Event, Begin, EndTurn, Interrupt, FiveMinutes, CacheExpires,
                Take, Read, Rewrite, LockFails, WriteFails, Report, CommitFails, Die, vars
  <2> QED BY <2>1 DEF InjectedOnce
<1> QED BY <1>1, <1>2

\* Two hooks that match a solution at once inject it once
\* (commitSessionCacheEntries), unless the cache expired in between.
THEOREM InjectedOnceOnly == Spec => []InjectedOnce
<1>1. Init => CacheKnows /\ InjectedOnce
  BY DEF Init, CacheKnows, InjectedOnce
<1> QED BY <1>1, CacheKnowsStays, InjectedOnceStays, Invariant, PTL DEF Spec

-----------------------------------------------------------------------------
(* The ledger of outcomes *)

\* Only the rewrite of a pending file changes what the ledger shows: a report
\* is about injections that are open until then.
LEMMA StepRefines == IInv /\ [Next]_vars => [Ledger!Next]_Fate
<1> SUFFICES ASSUME IInv, [Next]_vars PROVE [Ledger!Next]_Fate
  OBVIOUS
<1> USE OutcomesAssumption DEF IInv
<1>1. ASSUME UNCHANGED <<pending, verdicts>> PROVE Fate' = Fate
  BY <1>1 DEF Fate
<1>2. ASSUME NEW p \in Procs, NEW stage \in Stages, NEW i \in aim[p], Report(p, stage, i) PROVE Fate' = Fate
  <2>1. pending' = pending /\ i \in pending /\ \A j \in Injections \ {i} : verdicts'[j] = verdicts[j]
    <3>1. pending' = pending /\ i \in pending
      BY <1>2 DEF Report, LockHeld
    <3>2. CASE verdicts' = verdicts
      BY <3>1, <3>2
    <3>3. CASE verdicts' = [verdicts EXCEPT ![i] = Append(verdicts[i], VerdictOf(stage))]
      BY <3>1, <3>3 DEF TypeOK
    <3> QED BY <1>2, <3>2, <3>3, <3>1 DEF Report
  <2>2. \A j \in Injections : Fate[j]' = Fate[j]
    BY <2>1 DEF Fate
  <2> QED BY <2>2 DEF Fate
<1>3. ASSUME NEW p \in Procs, NEW stage \in Stages, Rewrite(p, stage) PROVE [Ledger!Next]_Fate
  <2>1. /\ pc[p] = stage /\ took[p] = pending /\ told[p] = aim[p] /\ p \in inside /\ verdicts' = verdicts
        /\ pending' = Kept(p, stage) /\ stage \in {"flush", "append", "correct", "error", "stop"}
    BY <1>3 DEF Rewrite, LockHeld, Stages
  <2>2. CASE stage = "error"
    <3>1. pending' = pending
      BY <2>1, <2>2 DEF Kept
    <3> QED BY <1>1, <2>1, <3>1
  <2>3. CASE stage = "append"
    <3>1. pending' = pending \cup given[p]
      BY <2>1, <2>3 DEF Kept
    <3>2. given[p] \in SUBSET Injections /\ \A i \in given[p] : Fate[i] = "none"
      BY DEF TypeOK, GivenFresh, Fate
    <3>3. Fate' = [i \in Injections |-> IF i \in given[p] THEN "open" ELSE Fate[i]]
      BY <2>1, <3>1 DEF Fate
    <3> QED BY <3>2, <3>3 DEF Ledger!Next, Ledger!Open
  <2>4. CASE stage \in {"flush", "correct", "stop"}
    <3>1. pending' = {} /\ VerdictOf(stage) \in Verdicts
      <4>1. pending' = {}
        BY <2>1, <2>4 DEF Kept
      <4>2. VerdictOf(stage) \in Verdicts
        BY <2>4 DEF VerdictOf, Verdicts
      <4> QED BY <4>1, <4>2
    <3>2. \A i \in pending : verdicts[i] # <<>> /\ Last(verdicts[i]) = VerdictOf(stage)
      BY <2>1, <2>4 DEF LockHeld, Reporting, TypeOK
    <3>3. \A i \in Injections : Fate[i] = "open" <=> i \in pending
      <4> SUFFICES ASSUME NEW i \in Injections PROVE Fate[i] = "open" <=> i \in pending
        OBVIOUS
      <4>1. i \notin pending /\ verdicts[i] # <<>> => Last(verdicts[i]) \in Verdicts
        BY DEF TypeOK, Last
      <4>2. "open" \notin Verdicts
        BY DEF Verdicts
      <4> HIDE DEF IInv
      <4> QED BY <4>1, <4>2 DEF Fate
    <3>4. Fate' = [i \in Injections |-> IF Fate[i] = "open" THEN VerdictOf(stage) ELSE Fate[i]]
      BY <2>1, <3>1, <3>2, <3>3 DEF Fate
    <3> QED BY <3>1, <3>4 DEF Ledger!Next, Ledger!Settle
  <2> QED BY <2>1, <2>2, <2>3, <2>4
<1>4. CASE UNCHANGED vars
  BY <1>1, <1>4 DEF vars
<1>5. ASSUME NEW p \in Procs, NEW stage \in Stages,
             \/ Commit(p) \/ CommitFails(p) \/ Die(p)
             \/ Take(p, stage) \/ LockFails(p, stage) \/ WriteFails(p, stage)
      PROVE  Fate' = Fate
  BY <1>1, <1>5 DEF Commit, CommitFails, Die, Take, Read, LockFails, WriteFails
<1>6. ASSUME NEW p \in Procs, Hook(p) PROVE [Ledger!Next]_Fate
  <2>1. "stop" \in Stages
    BY DEF Stages
  <2> QED BY <1>2, <1>3, <1>5, <1>6, <2>1 DEF Hook
<1>7. ASSUME NEW p \in Procs, Event(p, "error") \/ Event(p, "correct") \/ EndTurn(p)
                              \/ \E matched \in SUBSET Solutions : Prompt(p, matched)
      PROVE  Fate' = Fate
  BY <1>1, <1>7 DEF Event, EndTurn, Prompt
<1>8. CASE QuietPrompt \/ Interrupt \/ FiveMinutes \/ CacheExpires
  BY <1>1, <1>8 DEF QuietPrompt, Interrupt, FiveMinutes, CacheExpires
<1> QED BY <1>4, <1>6, <1>7, <1>8 DEF Next

\* The racing hooks, dying at any point, implement the ledger, in which every
\* injection keeps the verdict it was given.
THEOREM Implementation == Spec => VerdictsAreFinal
<1>1. Init => Ledger!Init
  BY DEF Init, Ledger!Init, Fate
<1> QED BY <1>1, StepRefines, Invariant, PTL DEF Spec, VerdictsAreFinal, Ledger!Spec
=============================================================================
