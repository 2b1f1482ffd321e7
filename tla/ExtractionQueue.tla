-------------------------- MODULE ExtractionQueue ---------------------------
(***************************************************************************)
(* The retry queue shared by all runner processes: fresh runs that failed  *)
(* enqueue their masked summary, and every runner may claim one due entry, *)
(* run its phases and report back.  Each operation holds the file lock for *)
(* its whole read-modify-write, so it is one step here; what interleaves   *)
(* are the runners between claimDue and completeEntry, whose model calls   *)
(* take minutes, may fail at any phase and may outlive the claim.          *)
(***************************************************************************)
EXTENDS RetryQueue

CONSTANTS
  Sessions, Phases, Workers,
  Idle,        \* a worker without an entry
  MaxJobs,     \* bound: jobs queued in a behaviour
  MaxCrashes   \* bound: runners that die holding an entry

VARIABLES
  queue,        \* the entries of extraction-queue.json
  work,         \* what each runner holds between claimDue and completeEntry
  jobs,         \* number of jobs queued so far: a job's id and summary
  crashes,      \* number of runners that died holding an entry
  owed,         \* history: <<summary, phase>> queued, not yet processed nor
                \* reported as given up
  displaced,    \* history: those whose summary a later one replaced
  exposed       \* history: those queued into an entry some runner was then
                \* working on a copy of

vars == <<queue, work, jobs, crashes, owed, displaced, exposed>>

Texts == 1 .. MaxJobs
Units(text, phases) == {text} \X phases
UnitsOf(e) == Units(e.text, e.phases)
Pending == UNION {UnitsOf(e) : e \in queue}

Entry == Entries(Texts, Sessions, Texts, Phases)
Job == [id : Texts, text : Texts, left : SUBSET Phases, lease : 0 .. ClaimTime]

ASSUME WorkAssumption == Idle \notin Job /\ {MaxJobs, MaxCrashes} \subseteq Nat

TypeOK ==
  /\ queue \subseteq Entry
  /\ work \in [Workers -> Job \cup {Idle}]
  /\ jobs \in 0 .. MaxJobs /\ crashes \in 0 .. MaxCrashes
  /\ owed \cup displaced \cup exposed \subseteq Texts \X Phases

Init ==
  /\ queue = {}
  /\ work = [w \in Workers |-> Idle]
  /\ jobs = 0 /\ crashes = 0
  /\ owed = {} /\ displaced = {} /\ exposed = {}

-----------------------------------------------------------------------------
\* A runner is between claimDue and completeEntry of the entry.
Held(e) == \E w \in Workers : work[w] # Idle /\ work[w].id = e.id

\* enqueue: a fresh run of session s failed at some phase.  Entries dropped
\* for age or for the limit are returned and logged.
Enqueue(s, phases) ==
  LET text  == jobs + 1
      added == Added(queue, text, s, text, phases)
      kept  == Trim(added)
      gone  == Aged(queue) \cup (added \ kept)
      under == OfSession(queue \ Aged(queue), s)
  IN  /\ jobs < MaxJobs
      /\ jobs' = text
      /\ queue' = kept
      /\ owed' = (owed \cup Units(text, phases)) \ UNION {UnitsOf(e) : e \in gone}
      /\ displaced' = displaced \cup UNION {UnitsOf(e) : e \in under}
      /\ exposed' = IF \E e \in under : Held(e)
                    THEN exposed \cup Units(text, phases) ELSE exposed
      /\ UNCHANGED <<work, crashes>>

\* claimDue: the first due, unclaimed entry is leased to the runner, which
\* takes a copy of it.
ClaimDue(w) ==
  /\ work[w] = Idle
  /\ Due(queue) # {}
  /\ LET e == Oldest(Due(queue))
     IN  /\ queue' = Claim(queue, e)
         /\ work' = [work EXCEPT ![w] = [id |-> e.id, text |-> e.text,
                                          left |-> e.phases, lease |-> ClaimTime]]
  /\ UNCHANGED <<jobs, crashes, owed, displaced, exposed>>

\* runPhases: one phase of the copy succeeds.
RunPhase(w, ph) ==
  /\ work[w] # Idle
  /\ ph \in work[w].left
  /\ work' = [work EXCEPT ![w].left = @ \ {ph}]
  /\ owed' = owed \ {<<work[w].text, ph>>}
  /\ UNCHANGED <<queue, jobs, crashes, displaced, exposed>>

\* completeEntry, after the last phase or the first failure.  The entry found
\* by id may have been given another summary since it was claimed, which then
\* goes with it, or keeps only the phases the runner failed at.
CompleteEntry(w) ==
  /\ work[w] # Idle
  /\ work' = [work EXCEPT ![w] = Idle]
  /\ LET job   == work[w]
         found == WithId(queue, job.id)
         e     == Oldest(found)
     IN  IF found = {}
         THEN UNCHANGED <<queue, owed>>
         ELSE /\ queue' = Completed(queue, e, job.left)
              /\ owed' = IF job.left # {} /\ e.attempts + 1 >= MaxAttempts
                         THEN owed \ Units(e.text, job.left) ELSE owed
  /\ UNCHANGED <<jobs, crashes, displaced, exposed>>

\* The runner process dies; its claim lapses with time.
Crash(w) ==
  /\ work[w] # Idle
  /\ crashes < MaxCrashes
  /\ crashes' = crashes + 1
  /\ work' = [work EXCEPT ![w] = Idle]
  /\ UNCHANGED <<queue, jobs, owed, displaced, exposed>>

Tick ==
  /\ queue' = {Older(e) : e \in queue}
  /\ work' = [w \in Workers |-> IF work[w] = Idle THEN Idle
                                ELSE [work[w] EXCEPT !.lease = Less(@)]]
  /\ UNCHANGED <<jobs, crashes, owed, displaced, exposed>>

Retry(w) == ClaimDue(w) \/ CompleteEntry(w) \/ \E ph \in Phases : RunPhase(w, ph)

Next ==
  \/ Tick
  \/ \E s \in Sessions, phases \in (SUBSET Phases) \ {{}} : Enqueue(s, phases)
  \/ \E w \in Workers : Retry(w) \/ Crash(w)

Spec == Init /\ [][Next]_vars

\* Time passes, and runners keep being started (every session start, Stop and
\* session end starts one) and go on once started.
FairSpec == Spec /\ WF_vars(Tick) /\ \A w \in Workers : WF_vars(Retry(w))

-----------------------------------------------------------------------------
\* At most one entry per session, within the size limit.
QueueShape ==
  /\ OnePerSession(queue)
  /\ Cardinality(queue) <= MaxQueue

\* "So that other runners do not take the same entry at the same time"
\* (extraction-queue.ts:259): two runners within their lease never hold the
\* same entry, even after a runner that overran its lease reports back.
ClaimExclusion ==
  \A v, w \in Workers :
    /\ v # w /\ work[v] # Idle /\ work[w] # Idle
    /\ work[v].lease > 0 /\ work[w].lease > 0
    => work[v].id # work[w].id

\* Whatever was queued is processed, still queued or reported as given up,
\* with two exceptions to the "no loss" of auto-compound-runner.ts:705: its
\* summary was replaced by a later one of the session, or was queued while a
\* runner worked on an older one, whose report may take it off the queue.
NothingVanishes == owed \subseteq Pending \cup displaced \cup exposed

\* Numbers are given out once: a job's number is above every earlier one, and
\* no two entries carry the same summary.
NumbersFresh ==
  /\ \A u \in owed : u[1] <= jobs
  /\ \A e \in queue : e.id <= jobs /\ e.text <= jobs
  /\ \A e, f \in queue : e.text = f.text => e = f
  /\ \A w \in Workers : work[w] # Idle => work[w].id <= jobs /\ work[w].text <= jobs

\* While a lease runs nobody else finds its entry due: the claim still stands,
\* or the back-off set by another runner's report outlasts the lease.
LeaseCovered ==
  \A w \in Workers, e \in queue :
    work[w] # Idle /\ e.id = work[w].id =>
      e.claim >= work[w].lease \/ e.wait >= work[w].lease

\* A runner has left to do whatever of its summary is still owed, whoever
\* else works on a copy of the same entry.
CopiesComplete ==
  \A w \in Workers : work[w] # Idle =>
    \A ph \in Phases :
      <<work[w].text, ph>> \in owed \ (displaced \cup exposed) => ph \in work[w].left

\* A runner's copy is out of date only if the summary that has replaced it was
\* queued under its eyes.
OldCopiesExpose ==
  \A w \in Workers, e \in queue :
    work[w] # Idle /\ e.id = work[w].id /\ e.text # work[w].text =>
      Units(e.text, Phases) \cap owed \subseteq exposed

IInv ==
  /\ TypeOK /\ IsFiniteSet(queue) /\ QueueShape
  /\ NumbersFresh /\ LeaseCovered /\ CopiesComplete /\ OldCopiesExpose
  /\ ClaimExclusion /\ NothingVanishes

\* The queue keeps no work forever: attempts are bounded, so every summary is
\* processed, given up or displaced in the end, and the queue, with no more
\* than MaxJobs of them, becomes empty.
QueueDrains == (queue # {}) ~> (queue = {})
=============================================================================
