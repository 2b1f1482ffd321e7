----------------------------- MODULE RetryQueue -----------------------------
(***************************************************************************)
(* The queue of failed extraction work in src/core/extraction-queue.ts, as *)
(* operators on its contents.  The file's array is a set of entries whose  *)
(* id is an arrival number: ids are unique and entries are only appended   *)
(* and removed, so arrival order is array order.  Clock values are kept as *)
(* time left (wait for nextAt, claim for claimedUntil) and time passed     *)
(* (age), in one unit: the code only compares them with the current time.  *)
(***************************************************************************)
EXTENDS Naturals, FiniteSets

CONSTANTS
  MaxAttempts,  \* MAX_ATTEMPTS
  MaxQueue,     \* MAX_QUEUE
  MaxAge,       \* MAX_AGE_MS
  ClaimTime,    \* CLAIM_MS
  Backoff       \* BACKOFF_MS: attempts made so far |-> time to the next one

ASSUME QueueAssumption ==
  /\ MaxAttempts \in Nat \ {0} /\ MaxQueue \in Nat \ {0}
  /\ MaxAge \in Nat /\ ClaimTime \in Nat \ {0}
  /\ Backoff \in [0 .. MaxAttempts - 1 -> Nat]

\* What completeEntry's back-off must cover for a claim to exclude others.
ASSUME BackoffAssumption == \A n \in 1 .. MaxAttempts - 1 : Backoff[n] >= ClaimTime

\* QueueEntry: work not yet done of a session's run, with its retry times.
Entries(ids, sessions, texts, phases) ==
  [id : ids, session : sessions, text : texts, phases : (SUBSET phases) \ {{}},
   age : 0 .. MaxAge + 1, attempts : 0 .. MaxAttempts - 1,
   wait : Nat, claim : 0 .. ClaimTime]

\* At most one entry of a session, and of an id.
OnePerSession(q) == \A e, f \in q : e.session = f.session \/ e.id = f.id => e = f

Oldest(q) == CHOOSE e \in q : \A f \in q : e.id <= f.id

Aged(q) == {e \in q : e.age > MaxAge}
OfSession(q, s) == {e \in q : e.session = s}
WithId(q, i) == {e \in q : e.id = i}

\* A job for a session already queued replaces that entry's summary and joins
\* its phases; attempts, times and claim stay those of the first job.
Merge(e, text, phases) == [e EXCEPT !.text = text, !.phases = @ \cup phases]

NewEntry(i, s, text, phases) ==
  [id |-> i, session |-> s, text |-> text, phases |-> phases,
   age |-> 0, attempts |-> 0, wait |-> Backoff[0], claim |-> 0]

\* Slip: the job is appended without looking for the session's entry.
AppendWithoutMerge(q, i, s, text, phases) ==
  (q \ Aged(q)) \cup {NewEntry(i, s, text, phases)}

\* The contents after a job is added, before the size limit is applied.
Added(q, i, s, text, phases) ==
  LET fresh == q \ Aged(q)
      same  == Oldest(OfSession(fresh, s))
  IN  IF OfSession(fresh, s) # {}
      THEN (fresh \ {same}) \cup {Merge(same, text, phases)}
      ELSE fresh \cup {NewEntry(i, s, text, phases)}

\* The oldest entries beyond MaxQueue are shifted out.
Trim(q) == {e \in q : Cardinality({f \in q : f.id > e.id}) < MaxQueue}

\* Slip: a claimed entry can be claimed again.
DueIgnoringClaims(q) == {e \in q : e.wait = 0}

\* What claimDue may take, oldest first.
Due(q) == {e \in q : e.wait = 0 /\ e.claim = 0}
Claim(q, e) == (q \ {e}) \cup {[e EXCEPT !.claim = ClaimTime]}

\* Slip: the attempt is not counted.
RetriedUncounted(e, remaining) ==
  [e EXCEPT !.phases = remaining, !.claim = 0, !.wait = Backoff[e.attempts]]

\* Slip: a failed entry keeps its old due time.
RetriedAtOnce(e, remaining) ==
  [e EXCEPT !.attempts = @ + 1, !.phases = remaining, !.claim = 0]

\* The entry after an attempt that left phases undone.
Retried(e, remaining) ==
  [e EXCEPT !.attempts = @ + 1, !.phases = remaining, !.claim = 0,
            !.wait = IF e.attempts + 1 < MaxAttempts THEN Backoff[e.attempts + 1] ELSE @]

\* Slip: any answer removes the entry.
CompletedAlways(q, e, remaining) == q \ {e}

\* Slip: one more attempt is allowed.
CompletedOnceMore(q, e, remaining) ==
  LET r == Retried(e, remaining)
  IN  IF remaining = {} \/ r.attempts > MaxAttempts
      THEN q \ {e} ELSE (q \ {e}) \cup {r}

\* completeEntry: nothing left or no attempt left removes the entry.
Completed(q, e, remaining) ==
  LET r == Retried(e, remaining)
  IN  IF remaining = {} \/ r.attempts >= MaxAttempts
      THEN q \ {e} ELSE (q \ {e}) \cup {r}

\* One unit of time.
Less(n) == IF n = 0 THEN 0 ELSE n - 1
Older(e) == [e EXCEPT !.age = IF @ > MaxAge THEN @ ELSE @ + 1,
                      !.wait = Less(@), !.claim = Less(@)]
=============================================================================
