------------------------------ MODULE Outcomes ------------------------------
(***************************************************************************)
(* What becomes of the solutions injected into one session.  The hook of a *)
(* prompt gives the session solutions it has not had yet, accepts what is  *)
(* still pending and makes the new ones pending; a failed tool, a          *)
(* correction and the end of a turn judge what is pending.  All of them    *)
(* rewrite the session's pending file under its lock (module FileLock),    *)
(* but add their events to the outcome log one by one before that: whoever *)
(* dies in between has reported injections that are still pending.         *)
(***************************************************************************)
EXTENDS Naturals, Sequences, FiniteSets, SequencesExt

CONSTANTS
  Solutions,
  Score,          \* match scores of the solutions, in order only
  MinScore,       \* MIN_ERROR_MATCH_SCORE
  MaxAttributed,  \* MAX_ATTRIBUTED_PER_ERROR
  MaxPerSession,  \* MAX_SOLUTIONS_PER_SESSION
  Procs,
  None,
  MaxPrompts, MaxEvents, MaxFaults   \* bounds: prompts; tool failures and corrections; faults

\* What a hook does next: the prompt's hook has the first three stages.
Stages == {"commit", "flush", "append", "correct", "error", "stop"}

ASSUME OutcomesAssumption ==
  /\ Score \in [Solutions -> Nat] /\ MinScore \in Nat
  /\ MaxAttributed \in Nat /\ MaxPerSession \in Nat
  /\ None \notin Stages
  /\ MaxPrompts \in Nat /\ MaxEvents \in Nat /\ MaxFaults \in Nat

\* An injection is a solution given at some prompt.
Injections == Solutions \X (1 .. MaxPrompts)
Verdicts == {"accept", "correct", "unknown"}

VARIABLES
  turn,      \* is the agent working?
  cache,     \* solution-cache: the solutions this session has had
  pending,   \* outcome-pending: the injections in it
  flagged,   \* and the solutions in its __error_flagged
  old,       \* the pending ones of more than five minutes
  verdicts,  \* the outcome log: each injection's verdicts, in order
  errors,    \* and how often an error was put down to it
  inside,    \* the hooks that hold the pending file's lock
  pc,        \* what each hook does next
  given,     \* the injections a prompt's hook makes
  took,      \* the pending injections a hook read
  aim, told, \* those it reports on, and has reported on
  prompts, events, faults, \* counted for the bounds
  gave,      \* history: all injections made
  missed,    \* history: injections that were never put down as pending
  expired,   \* history: did the cache expire?
  cut        \* history: how often a report on an injection was not followed by the rewrite

hooks == <<pc, given, took, aim, told>>
history == <<gave, missed, expired, cut>>
counts == <<prompts, events, faults>>
vars == <<turn, cache, pending, flagged, old, verdicts, errors, inside, hooks, counts, history>>

TypeOK ==
  /\ turn \in {"idle", "working"}
  /\ cache \subseteq Solutions /\ flagged \subseteq Solutions
  /\ pending \subseteq Injections /\ old \subseteq pending
  /\ verdicts \in [Injections -> Seq(Verdicts)] /\ errors \in [Injections -> Nat]
  /\ inside \subseteq Procs
  /\ pc \in [Procs -> Stages \cup {None}]
  /\ given \in [Procs -> SUBSET Injections]
  /\ took \in [Procs -> SUBSET Injections]
  /\ aim \in [Procs -> SUBSET Injections] /\ told \in [Procs -> SUBSET Injections]
  /\ prompts \in 0 .. MaxPrompts /\ events \in Nat /\ faults \in Nat
  /\ gave \subseteq Injections /\ missed \subseteq Injections /\ expired \in BOOLEAN /\ cut \in [Injections -> Nat]

Init ==
  /\ turn = "idle" /\ cache = {} /\ pending = {} /\ flagged = {} /\ old = {}
  /\ verdicts = [i \in Injections |-> <<>>] /\ errors = [i \in Injections |-> 0]
  /\ inside = {}
  /\ pc = [p \in Procs |-> None] /\ given = [p \in Procs |-> {}]
  /\ took = [p \in Procs |-> {}] /\ aim = [p \in Procs |-> {}] /\ told = [p \in Procs |-> {}]
  /\ prompts = 0 /\ events = 0 /\ faults = 0
  /\ gave = {} /\ missed = {} /\ expired = FALSE /\ cut = [i \in Injections |-> 0]

-----------------------------------------------------------------------------
(* The session *)

Begin(p, stage) == pc[p] = None /\ pc' = [pc EXCEPT ![p] = stage] /\ UNCHANGED <<given, took, aim, told>>

\* The matches that pass the gate, which knows the cache as it was.
Prompt(p, matched) ==
  /\ turn = "idle" /\ prompts < MaxPrompts
  /\ matched # {} /\ matched \cap cache = {}
  /\ Cardinality(matched) + Cardinality(cache) <= MaxPerSession
  /\ pc[p] = None
  /\ pc' = [pc EXCEPT ![p] = "commit"]
  /\ given' = [given EXCEPT ![p] = matched \X {prompts + 1}]
  /\ turn' = "working" /\ prompts' = prompts + 1
  /\ UNCHANGED <<cache, pending, flagged, old, verdicts, errors, inside, took, aim, told, events, faults, history>>

\* A prompt that nothing new matches accepts nothing either.
QuietPrompt ==
  /\ turn = "idle" /\ prompts < MaxPrompts
  /\ turn' = "working" /\ prompts' = prompts + 1
  /\ UNCHANGED <<cache, pending, flagged, old, verdicts, errors, inside, hooks, events, faults, history>>

\* Failed tools and corrections may come at once.
Event(p, stage) ==
  /\ turn = "working" /\ events < MaxEvents
  /\ Begin(p, stage)
  /\ events' = events + 1
  /\ UNCHANGED <<turn, cache, pending, flagged, old, verdicts, errors, inside, prompts, faults, history>>

\* The Stop hook runs at the end of every turn the user does not interrupt.
EndTurn(p) ==
  /\ turn = "working" /\ turn' = "idle"
  /\ Begin(p, "stop")
  /\ UNCHANGED <<cache, pending, flagged, old, verdicts, errors, inside, counts, history>>

Interrupt ==
  /\ turn = "working" /\ turn' = "idle"
  /\ UNCHANGED <<cache, pending, flagged, old, verdicts, errors, inside, hooks, counts, history>>

FiveMinutes ==
  /\ old # pending /\ old' = pending
  /\ UNCHANGED <<turn, cache, pending, flagged, verdicts, errors, inside, hooks, counts, history>>

\* A cache without a commit for a day counts as none.
CacheExpires ==
  /\ cache # {} /\ faults < MaxFaults
  /\ cache' = {} /\ faults' = faults + 1 /\ expired' = TRUE
  /\ UNCHANGED <<turn, pending, flagged, old, verdicts, errors, inside, hooks, prompts, events, gave, missed, cut>>

-----------------------------------------------------------------------------
(* The hooks *)

\* Where a hook goes after a stage: only the prompt's has two.
After(stage) == IF stage = "flush" THEN "append" ELSE None

Leave(p, stage) ==
  /\ pc' = [pc EXCEPT ![p] = After(stage)]
  /\ took' = [took EXCEPT ![p] = {}] /\ aim' = [aim EXCEPT ![p] = {}] /\ told' = [told EXCEPT ![p] = {}]
  /\ given' = [given EXCEPT ![p] = IF After(stage) = None THEN {} ELSE @]

\* Slip: what another hook has given meanwhile is given again.
CommitAll(p) ==
  /\ pc[p] = "commit"
  /\ cache' = cache \cup {i[1] : i \in given[p]}
  /\ gave' = gave \cup given[p]
  /\ pc' = [pc EXCEPT ![p] = "flush"]
  /\ UNCHANGED <<turn, pending, flagged, old, verdicts, errors, inside, given, took, aim, told, counts, missed, expired, cut>>

\* commitSessionCacheEntries, under the cache's own lock.
Commit(p) ==
  LET new == {i \in given[p] : i[1] \notin cache}
  IN /\ pc[p] = "commit"
     /\ cache' = cache \cup {i[1] : i \in new}
     /\ gave' = gave \cup new
     /\ given' = [given EXCEPT ![p] = new]
     /\ pc' = [pc EXCEPT ![p] = IF new = {} THEN None ELSE "flush"]
     /\ UNCHANGED <<turn, pending, flagged, old, verdicts, errors, inside, took, aim, told, counts, missed, expired, cut>>

\* The best of the recent, relevant injections no error was yet put down to.
Blamed ==
  LET eligible == {i \in pending \ old : i[1] \notin flagged /\ Score[i[1]] >= MinScore}
      most == IF Cardinality(eligible) < MaxAttributed THEN Cardinality(eligible) ELSE MaxAttributed
  IN {blamed \in SUBSET eligible :
        /\ Cardinality(blamed) = most
        /\ \A i \in blamed, j \in eligible \ blamed : Score[i[1]] >= Score[j[1]]}

Targets(stage) == CASE stage = "append" -> {{}} [] stage = "error" -> Blamed [] OTHER -> {pending}

Read(p, stage) ==
  /\ pc[p] = stage /\ stage # "commit" /\ p \notin inside
  /\ took' = [took EXCEPT ![p] = pending]
  /\ \E targets \in Targets(stage) : aim' = [aim EXCEPT ![p] = targets]
  /\ inside' = inside \cup {p}
  /\ UNCHANGED <<turn, cache, pending, flagged, old, verdicts, errors, pc, given, told, counts, history>>

\* Slip: without the lock.
TakeAnyway(p, stage) == Read(p, stage)

\* mutatePending: the lock, and the pending file as it is now.
Take(p, stage) == inside = {} /\ Read(p, stage)

VerdictOf(stage) ==
  CASE stage = "flush" -> "accept" [] stage = "correct" -> "correct" [] stage = "stop" -> "unknown"

\* appendOutcome
Report(p, stage, i) ==
  /\ pc[p] = stage /\ p \in inside /\ i \in aim[p] \ told[p]
  /\ told' = [told EXCEPT ![p] = @ \cup {i}]
  /\ IF stage = "error"
     THEN errors' = [errors EXCEPT ![i] = @ + 1] /\ UNCHANGED verdicts
     ELSE verdicts' = [verdicts EXCEPT ![i] = Append(@, VerdictOf(stage))] /\ UNCHANGED errors
  /\ UNCHANGED <<turn, cache, pending, flagged, old, inside, pc, given, took, aim, counts, history>>

\* Slip: a correction leaves the injections pending, as an error does.
KeptByCorrection(p, stage) ==
  CASE stage = "append" -> took[p] \cup given[p] [] stage \in {"error", "correct"} -> took[p] [] OTHER -> {}

\* Slip: the new injections replace the pending ones.
KeptOnlyNew(p, stage) ==
  CASE stage = "append" -> given[p] [] stage = "error" -> took[p] [] OTHER -> {}

\* What is pending afterwards.
Kept(p, stage) ==
  CASE stage = "append" -> took[p] \cup given[p] [] stage = "error" -> took[p] [] OTHER -> {}

\* Slip: the flags of the last error only.
FlaggedLast(p, stage) == IF stage = "error" THEN {i[1] : i \in told[p]} ELSE {}

\* Only an error and new injections keep __error_flagged.
Flagged(p, stage) ==
  CASE stage = "error" -> flagged \cup {i[1] : i \in told[p]} [] stage = "append" -> flagged [] OTHER -> {}

\* writePending, or the removal of the file.
Rewrite(p, stage) ==
  /\ pc[p] = stage /\ p \in inside /\ told[p] = aim[p]
  /\ pending' = Kept(p, stage) /\ flagged' = Flagged(p, stage) /\ old' = old \cap Kept(p, stage)
  /\ inside' = inside \ {p}
  /\ Leave(p, stage)
  /\ UNCHANGED <<turn, cache, verdicts, errors, counts, history>>

-----------------------------------------------------------------------------
(* Faults *)

Cut(p) == cut' = [i \in Injections |-> IF i \in told[p] THEN cut[i] + 1 ELSE cut[i]]
Missed(p, lost) == missed' = missed \cup IF lost THEN given[p] ELSE {}
Fault == faults < MaxFaults /\ faults' = faults + 1

\* The cache's lock cannot be had: nothing is injected.
CommitFails(p) ==
  /\ Fault /\ pc[p] = "commit"
  /\ Leave(p, "commit")
  /\ UNCHANGED <<turn, cache, pending, flagged, old, verdicts, errors, inside, prompts, events, history>>

\* The pending file's lock cannot be had: the stage is skipped.
LockFails(p, stage) ==
  /\ Fault /\ pc[p] = stage /\ stage # "commit" /\ p \notin inside
  /\ Leave(p, stage) /\ Missed(p, stage = "append")
  /\ UNCHANGED <<turn, cache, pending, flagged, old, verdicts, errors, inside, prompts, events, gave, expired, cut>>

\* A write fails: the rest of the stage is skipped.
WriteFails(p, stage) ==
  /\ Fault /\ pc[p] = stage /\ p \in inside
  /\ inside' = inside \ {p}
  /\ Leave(p, stage) /\ Missed(p, stage = "append") /\ Cut(p)
  /\ UNCHANGED <<turn, cache, pending, flagged, old, verdicts, errors, prompts, events, gave, expired>>

\* The hook dies or is killed at its time limit; its lock is recovered.
Die(p) ==
  /\ Fault /\ pc[p] # None
  /\ pc' = [pc EXCEPT ![p] = None]
  /\ given' = [given EXCEPT ![p] = {}] /\ took' = [took EXCEPT ![p] = {}]
  /\ aim' = [aim EXCEPT ![p] = {}] /\ told' = [told EXCEPT ![p] = {}]
  /\ inside' = inside \ {p}
  /\ Missed(p, pc[p] # "commit") /\ Cut(p)
  /\ UNCHANGED <<turn, cache, pending, flagged, old, verdicts, errors, prompts, events, gave, expired>>

-----------------------------------------------------------------------------
Hook(p) ==
  \/ Commit(p) \/ CommitFails(p) \/ Die(p)
  \/ \E stage \in Stages :
       \/ Take(p, stage) \/ Rewrite(p, stage) \/ LockFails(p, stage) \/ WriteFails(p, stage)
       \/ \E i \in aim[p] : Report(p, stage, i)

Next ==
  \/ QuietPrompt \/ Interrupt \/ FiveMinutes \/ CacheExpires
  \/ \E p \in Procs :
       \/ \E matched \in SUBSET Solutions : Prompt(p, matched)
       \/ Event(p, "error") \/ Event(p, "correct") \/ EndTurn(p) \/ Hook(p)

Spec == Init /\ [][Next]_vars

-----------------------------------------------------------------------------
(* Properties *)

Reporting(p) == p \in inside /\ pc[p] \in {"flush", "correct", "stop"}

\* Whoever has reported on injections holds the lock, and the file is still the
\* one it read: what it said of them is only now about to become true.
LockHeld ==
  /\ \A p, q \in inside : p = q
  /\ \A p \in inside : pc[p] \notin {None, "commit"} /\ took[p] = pending
  /\ \A p \in Procs \ inside : took[p] = {}
  /\ \A p \in Procs : told[p] \subseteq aim[p] /\ aim[p] \subseteq took[p]
  /\ \A p \in Procs : Reporting(p) => aim[p] = took[p]
  /\ \A p \in Procs, i \in Injections :
       Reporting(p) /\ i \in told[p] => verdicts[i] # <<>> /\ Last(verdicts[i]) = VerdictOf(pc[p])
  /\ \A p \in inside : pc[p] = "error" => \A i \in aim[p] : i[1] \notin flagged
  /\ \A p \in inside : pc[p] = "append" => aim[p] = {}

\* A prompt's injections are its own, and nothing is known of them until they
\* are pending.
GivenFresh ==
  /\ \A p \in Procs : given[p] # {} => pc[p] \in {"commit", "flush", "append"}
  /\ \A p, q \in Procs : p # q => given[p] \cap given[q] = {}
  /\ \A i \in Injections :
       i[2] > prompts \/ (\E p \in Procs : i \in given[p])
         => i \notin pending /\ verdicts[i] = <<>> /\ errors[i] = 0
  /\ \A i \in Injections : i[2] > prompts => i \notin gave /\ \A p \in Procs : i \notin given[p]
  /\ \A p \in Procs : pc[p] = "commit" => given[p] \cap gave = {}

\* An injection gets one verdict: the second of two hooks that race finds it no
\* longer pending, and only a report that was cut off before its rewrite is
\* repeated (mutatePending: racing hooks must not "lose or duplicate outcome
\* events").
Untold(i) == \A p \in Procs : Reporting(p) => i \notin told[p]
OneVerdict ==
  \A i \in Injections :
    /\ Len(verdicts[i]) <= cut[i] + 1
    /\ i \in pending /\ Untold(i) => Len(verdicts[i]) <= cut[i]

\* An error is put down to an injection once while it is pending
\* (attributeError: "one error event per (session, solution) pair per
\* pending-cycle").
Unblamed(i) == i[1] \notin flagged /\ \A p \in inside : pc[p] = "error" => i \notin told[p]
OneError ==
  \A i \in Injections :
    /\ errors[i] <= cut[i] + 1
    /\ i \in pending /\ Unblamed(i) => errors[i] <= cut[i]

\* The inductive invariant.
IInv == TypeOK /\ LockHeld /\ GivenFresh /\ OneVerdict /\ OneError

\* Every injection is pending, has its verdict, is still on its way there, or
\* was missed by a fault of its own hook: no other hook's rewrite loses it.
OnItsWay(i) == \E p \in Procs : i \in given[p]
NothingVanishes ==
  \A i \in gave : i \in pending \/ verdicts[i] # <<>> \/ i \in missed \/ OnItsWay(i)

\* Two hooks that match the same solution at once inject it once
\* (commitSessionCacheEntries, M-3), unless a day passed in between.
InjectedOnce == ~ expired => \A i, j \in gave : i[1] = j[1] => i = j

\* The promise: injections and their verdicts, without hooks and faults.
Fate ==
  [i \in Injections |->
     IF i \in pending THEN "open" ELSE IF verdicts[i] # <<>> THEN Last(verdicts[i]) ELSE "none"]
Ledger == INSTANCE OutcomeLedger WITH fate <- Fate
VerdictsAreFinal == Ledger!Spec

\* What is unknown is what was pending when the session ended
\* (finalizeSession: "At session end").
UnknownAtSessionEnd ==
  [][prompts' # prompts => \A i \in Injections : "unknown" \notin ToSet(verdicts[i])]_vars
=============================================================================
