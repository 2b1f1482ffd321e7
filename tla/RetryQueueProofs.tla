-------------------------- MODULE RetryQueueProofs --------------------------
(***************************************************************************)
(* What the operators of the retry queue return, for every size limit, age *)
(* limit, claim time and back-off table: the lemmas that the proofs about  *)
(* its users rest on.                                                      *)
(***************************************************************************)
EXTENDS RetryQueue, FiniteSetTheorems, TLAPS

\* Every set of numbers has a least one.
LEMMA LeastNumber ==
  ASSUME NEW T \in SUBSET Nat, T # {}
  PROVE  \E x \in T : \A y \in T : x <= y
<1> DEFINE R == {u \in Nat \X Nat : u[1] < u[2]}
<1>1. PICK x \in T : \A y \in T : ~ (<<y, x>> \in R)
  <2> HIDE DEF R
  <2>1. IsWellFoundedOn(R, Nat)
    BY NatLessThanWellFounded DEF R, OpToRel
  <2> QED BY <2>1, WFMin
<1>2. ASSUME NEW y \in T PROVE x <= y
  <2>1. <<y, x>> \in Nat \X Nat /\ <<y, x>>[1] = y /\ <<y, x>>[2] = x
    OBVIOUS
  <2> QED BY <1>1, <2>1
<1> QED BY <1>2

\* The entry that is taken first is one of the queue, and none came before it.
LEMMA OldestIsFirst ==
  ASSUME NEW q, q # {}, \A e \in q : e.id \in Nat
  PROVE  Oldest(q) \in q /\ \A f \in q : Oldest(q).id <= f.id
<1> DEFINE ids == {e.id : e \in q}
<1>1. PICK x \in ids : \A y \in ids : x <= y
  <2>1. ids \in SUBSET Nat /\ ids # {}
    OBVIOUS
  <2> QED BY <2>1, LeastNumber
<1>2. PICK e \in q : e.id = x
  BY <1>1
<1>3. \A f \in q : e.id <= f.id
  BY <1>1, <1>2
<1> QED BY <1>3 DEF Oldest

\* An id names one entry: the first with that id is the only one.
LEMMA FoundById ==
  ASSUME NEW q, OnePerSession(q), \A e \in q : e.id \in Nat,
         NEW i, WithId(q, i) # {}
  PROVE  /\ Oldest(WithId(q, i)) \in q
         /\ Oldest(WithId(q, i)).id = i
         /\ \A e \in q : e.id = i => e = Oldest(WithId(q, i))
<1>1. Oldest(WithId(q, i)) \in WithId(q, i)
  <2>1. \A e \in WithId(q, i) : e.id \in Nat
    BY DEF WithId
  <2> QED BY <2>1, OldestIsFirst
<1> QED BY <1>1 DEF WithId, OnePerSession

-----------------------------------------------------------------------------
(* Single entries *)

\* Each change of an entry yields an entry, with its id and session kept.
LEMMA MergeType ==
  ASSUME NEW I, NEW S, NEW T, NEW P, NEW e \in Entries(I, S, T, P),
         NEW text \in T, NEW phases \in SUBSET P
  PROVE  /\ Merge(e, text, phases) \in Entries(I, S, T, P)
         /\ Merge(e, text, phases).id = e.id
         /\ Merge(e, text, phases).session = e.session
         /\ Merge(e, text, phases).text = text
         /\ Merge(e, text, phases).phases = e.phases \cup phases
         /\ Merge(e, text, phases).age = e.age
         /\ Merge(e, text, phases).wait = e.wait
         /\ Merge(e, text, phases).claim = e.claim
BY DEF Merge, Entries

LEMMA NewEntryType ==
  ASSUME NEW I, NEW S, NEW T, NEW P, NEW i \in I, NEW s \in S,
         NEW text \in T, NEW phases \in (SUBSET P) \ {{}}
  PROVE  NewEntry(i, s, text, phases) \in Entries(I, S, T, P)
BY QueueAssumption DEF NewEntry, Entries, QueueAssumption

LEMMA ClaimType ==
  ASSUME NEW I, NEW S, NEW T, NEW P, NEW e \in Entries(I, S, T, P)
  PROVE  LET c == [e EXCEPT !.claim = ClaimTime]
         IN  /\ c \in Entries(I, S, T, P)
             /\ c.id = e.id /\ c.session = e.session /\ c.text = e.text
             /\ c.phases = e.phases /\ c.claim = ClaimTime
             /\ c.wait = e.wait /\ c.attempts = e.attempts /\ c.age = e.age
BY QueueAssumption DEF Entries, QueueAssumption

\* An entry put back after a failed attempt has its claim cleared and waits
\* at least as long as a claim lasts.
LEMMA RetriedType ==
  ASSUME NEW I, NEW S, NEW T, NEW P, NEW e \in Entries(I, S, T, P),
         NEW left \in SUBSET P, left # {}, e.attempts + 1 < MaxAttempts
  PROVE  LET r == Retried(e, left)
         IN  /\ r \in Entries(I, S, T, P)
             /\ r.id = e.id /\ r.session = e.session /\ r.text = e.text
             /\ r.phases = left /\ r.age = e.age
             /\ r.wait >= ClaimTime
<1> DEFINE r == Retried(e, left)
<1>1. e.attempts \in Nat /\ e.attempts + 1 \in 1 .. MaxAttempts - 1
  BY QueueAssumption DEF QueueAssumption, Entries
<1>2. Backoff[e.attempts + 1] \in Nat /\ Backoff[e.attempts + 1] >= ClaimTime
  BY <1>1, QueueAssumption, BackoffAssumption DEF QueueAssumption, BackoffAssumption
<1>3. r = [e EXCEPT !.attempts = e.attempts + 1, !.phases = left, !.claim = 0,
                    !.wait = Backoff[e.attempts + 1]]
  BY <1>1 DEF Retried, Entries
<1> HIDE DEF r
<1>4. r \in Entries(I, S, T, P)
  <2>1. e.attempts + 1 \in 0 .. MaxAttempts - 1 /\ 0 \in 0 .. ClaimTime
    BY <1>1, QueueAssumption DEF QueueAssumption
  <2> QED BY <1>2, <1>3, <2>1 DEF Entries
<1>5. r.id = e.id /\ r.session = e.session /\ r.text = e.text /\ r.phases = left
      /\ r.age = e.age /\ r.wait >= ClaimTime
  BY <1>2, <1>3 DEF Entries
<1> QED BY <1>4, <1>5 DEF r

LEMMA OlderType ==
  ASSUME NEW I, NEW S, NEW T, NEW P, NEW e \in Entries(I, S, T, P)
  PROVE  /\ Older(e) \in Entries(I, S, T, P)
         /\ Older(e).id = e.id /\ Older(e).session = e.session
         /\ Older(e).text = e.text /\ Older(e).phases = e.phases
         /\ Older(e).wait = Less(e.wait) /\ Older(e).claim = Less(e.claim)
<1>1. e.age \in 0 .. MaxAge + 1 /\ e.wait \in Nat /\ e.claim \in 0 .. ClaimTime
  BY DEF Entries
<1>2. (IF e.age > MaxAge THEN e.age ELSE e.age + 1) \in 0 .. MaxAge + 1
  <2>1. MaxAge \in Nat
    BY QueueAssumption DEF QueueAssumption
  <2> QED BY <1>1, <2>1
<1>3. Less(e.wait) \in Nat
  BY <1>1 DEF Less
<1>4. Less(e.claim) \in 0 .. ClaimTime
  <2>1. ClaimTime \in Nat
    BY QueueAssumption DEF QueueAssumption
  <2> QED BY <1>1, <2>1 DEF Less
<1> QED BY <1>2, <1>3, <1>4 DEF Older, Entries

-----------------------------------------------------------------------------
(* The whole queue *)

\* A new job either joins its session's only live entry or becomes an entry.
LEMMA AddedCases ==
  ASSUME NEW I \in SUBSET Nat, NEW S, NEW T, NEW P,
         NEW q \in SUBSET Entries(I, S, T, P), OnePerSession(q),
         NEW i, NEW s, NEW text, NEW phases
  PROVE  LET fresh == q \ Aged(q)
             added == Added(q, i, s, text, phases)
         IN  \/ \E same \in fresh :
                  /\ OfSession(fresh, s) = {same}
                  /\ added = (fresh \ {same}) \cup {Merge(same, text, phases)}
             \/ /\ OfSession(fresh, s) = {}
                /\ added = fresh \cup {NewEntry(i, s, text, phases)}
<1> DEFINE fresh == q \ Aged(q)
<1>1. CASE OfSession(fresh, s) # {}
  <2>1. PICK same \in fresh : same.session = s
    BY <1>1 DEF OfSession
  <2>2. OfSession(fresh, s) = {same}
    BY <2>1 DEF OfSession, OnePerSession
  <2>3. Oldest({same}) = same
    <3>1. same.id \in Nat
      BY DEF Entries
    <3>2. Oldest({same}) \in {same}
      BY <3>1, OldestIsFirst
    <3> QED BY <3>2
  <2> QED BY <1>1, <2>1, <2>2, <2>3 DEF Added
<1>2. CASE OfSession(fresh, s) = {}
  BY <1>2 DEF Added
<1> QED BY <1>1, <1>2

\* Adding a job keeps the entries well formed and one per session.
LEMMA AddedShape ==
  ASSUME NEW I \in SUBSET Nat, NEW S, NEW T, NEW P,
         NEW q \in SUBSET Entries(I, S, T, P), OnePerSession(q), IsFiniteSet(q),
         NEW i \in I, \A e \in q : e.id # i, NEW s \in S,
         NEW text \in T, NEW phases \in (SUBSET P) \ {{}}
  PROVE  LET added == Added(q, i, s, text, phases)
         IN  /\ added \subseteq Entries(I, S, T, P)
             /\ OnePerSession(added)
             /\ IsFiniteSet(added)
<1> DEFINE fresh == q \ Aged(q)
           added == Added(q, i, s, text, phases)
           new   == NewEntry(i, s, text, phases)
<1>0. IsFiniteSet(fresh) /\ fresh \subseteq q
  BY FS_Difference
<1>1. ASSUME NEW same \in fresh, OfSession(fresh, s) = {same},
             added = (fresh \ {same}) \cup {Merge(same, text, phases)}
      PROVE  added \subseteq Entries(I, S, T, P) /\ OnePerSession(added) /\ IsFiniteSet(added)
  <2> DEFINE m == Merge(same, text, phases)
  <2>1. m \in Entries(I, S, T, P) /\ m.id = same.id /\ m.session = same.session
    <3>1. same \in Entries(I, S, T, P) /\ phases \in SUBSET P
      BY <1>0
    <3> QED BY <3>1, MergeType
  <2> HIDE DEF m, fresh, added
  <2>2. added = (fresh \ {same}) \cup {m}
    BY <1>1 DEF m
  <2>3. OnePerSession(added)
    BY <1>0, <1>1, <2>1, <2>2 DEF OnePerSession
  <2>4. IsFiniteSet(added)
    BY <1>0, <2>2, FS_RemoveElement, FS_AddElement
  <2> QED BY <1>0, <2>1, <2>2, <2>3, <2>4
<1>2. ASSUME OfSession(fresh, s) = {}, added = fresh \cup {new}
      PROVE  added \subseteq Entries(I, S, T, P) /\ OnePerSession(added) /\ IsFiniteSet(added)
  <2>1. new \in Entries(I, S, T, P)
    BY NewEntryType
  <2>2. new.id = i /\ new.session = s
    BY DEF NewEntry
  <2> HIDE DEF new, fresh, added
  <2>3. OnePerSession(added)
    BY <1>0, <1>2, <2>2 DEF OnePerSession, OfSession
  <2>4. IsFiniteSet(added)
    BY <1>0, <1>2, FS_AddElement
  <2> QED BY <1>0, <1>2, <2>1, <2>3, <2>4
<1> QED BY <1>1, <1>2, AddedCases

\* The size limit keeps at most MaxQueue entries, and adds none.
LEMMA TrimBound ==
  ASSUME NEW q, IsFiniteSet(q), \A e \in q : e.id \in Nat, OnePerSession(q)
  PROVE  /\ Trim(q) \subseteq q
         /\ IsFiniteSet(Trim(q))
         /\ Cardinality(Trim(q)) <= MaxQueue
<1> DEFINE after(e) == {f \in q : f.id > e.id}
           rank == [e \in Trim(q) |-> Cardinality(after(e))]
<1>1. Trim(q) \subseteq q
  BY DEF Trim
<1>2. IsFiniteSet(Trim(q))
  BY <1>1, FS_Subset
<1>3. MaxQueue \in Nat \ {0}
  BY QueueAssumption DEF QueueAssumption
<1>4. \A e \in q : IsFiniteSet(after(e)) /\ Cardinality(after(e)) \in Nat
  BY FS_Subset, FS_CardinalityType
<1>5. ASSUME NEW e \in q, NEW f \in q, e.id < f.id
      PROVE  Cardinality(after(f)) < Cardinality(after(e))
  <2>1. f \in after(e) /\ f \notin after(f) /\ after(f) \subseteq after(e)
    BY <1>5
  <2> HIDE DEF after
  <2>2. /\ Cardinality(after(f)) <= Cardinality(after(e))
        /\ Cardinality(after(f)) # Cardinality(after(e))
    BY <1>4, <2>1, FS_Subset
  <2> QED BY <1>4, <2>2
<1>6. rank \in Injection(Trim(q), 0 .. MaxQueue - 1)
  <2>1. \A e \in Trim(q) : rank[e] \in 0 .. MaxQueue - 1
    BY <1>1, <1>3, <1>4 DEF Trim
  <2>2. ASSUME NEW e \in Trim(q), NEW f \in Trim(q), rank[e] = rank[f] PROVE e = f
    <3> HIDE DEF after
    <3>1. ~(e.id < f.id) /\ ~(f.id < e.id)
      BY <1>1, <1>4, <1>5, <2>2
    <3> QED BY <1>1, <3>1 DEF OnePerSession
  <2> QED BY <2>1, <2>2 DEF Injection, IsInjective
<1>7. IsFiniteSet(0 .. MaxQueue - 1) /\ Cardinality(0 .. MaxQueue - 1) = MaxQueue
  BY <1>3, FS_Interval
<1>8. Cardinality(Trim(q)) <= Cardinality(0 .. MaxQueue - 1)
  BY <1>6, <1>7, FS_Injection
<1> QED BY <1>1, <1>2, <1>7, <1>8

\* Replacing an entry by one with its id and session keeps the shape.
LEMMA ReplaceShape ==
  ASSUME NEW q, IsFiniteSet(q), OnePerSession(q),
         NEW e \in q, NEW f, f.id = e.id, f.session = e.session
  PROVE  LET r == (q \ {e}) \cup {f}
         IN  /\ OnePerSession(r) /\ IsFiniteSet(r)
             /\ Cardinality(r) <= Cardinality(q)
<1> DEFINE r == (q \ {e}) \cup {f}
<1>1. OnePerSession(r)
  BY DEF OnePerSession
<1>2. Cardinality(q) \in Nat
  BY FS_CardinalityType
<1>3. IsFiniteSet(q \ {e}) /\ Cardinality(q \ {e}) = Cardinality(q) - 1
  BY FS_RemoveElement
<1>4. IsFiniteSet(r) /\ Cardinality(r) <= Cardinality(q \ {e}) + 1
  <2> DEFINE d == q \ {e}
  <2> HIDE DEF d
  <2>1. IsFiniteSet(d) /\ Cardinality(d) \in Nat
    BY <1>3, FS_CardinalityType DEF d
  <2>2. /\ IsFiniteSet(d \cup {f})
        /\ Cardinality(d \cup {f}) = IF f \in d THEN Cardinality(d) ELSE Cardinality(d) + 1
    BY <2>1, FS_AddElement
  <2>3. Cardinality(d \cup {f}) <= Cardinality(d) + 1
    BY <2>1, <2>2
  <2> QED BY <2>2, <2>3 DEF d
<1> QED BY <1>1, <1>2, <1>3, <1>4

\* Time moves every entry on and changes none's identity.
LEMMA OlderShape ==
  ASSUME NEW I, NEW S, NEW T, NEW P, NEW q \in SUBSET Entries(I, S, T, P),
         IsFiniteSet(q), OnePerSession(q)
  PROVE  LET r == {Older(e) : e \in q}
         IN  /\ r \subseteq Entries(I, S, T, P)
             /\ OnePerSession(r) /\ IsFiniteSet(r)
             /\ Cardinality(r) <= Cardinality(q)
<1> DEFINE r == {Older(e) : e \in q}
           step == [e \in q |-> Older(e)]
<1>1. r \subseteq Entries(I, S, T, P)
  BY OlderType
<1>2. OnePerSession(r)
  BY OlderType DEF OnePerSession
<1>3. step \in Surjection(q, r)
  BY DEF Surjection
<1>4. IsFiniteSet(r) /\ Cardinality(r) <= Cardinality(q)
  BY <1>3, FS_Surjection
<1> QED BY <1>1, <1>2, <1>4
=============================================================================
