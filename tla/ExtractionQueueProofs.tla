------------------------ MODULE ExtractionQueueProofs ------------------------
(***************************************************************************)
(* The retry queue under any number of sessions, phases, runners, jobs and *)
(* crashes: one entry per session within the limit, leases that exclude,   *)
(* and no queued work that disappears without a report.                    *)
(***************************************************************************)
EXTENDS ExtractionQueue, RetryQueueProofs

\* The constants as numbers.
LEMMA Bounds ==
  /\ MaxJobs \in Nat /\ MaxCrashes \in Nat /\ ClaimTime \in Nat \ {0}
  /\ MaxQueue \in Nat \ {0} /\ MaxAttempts \in Nat \ {0} /\ MaxAge \in Nat
  /\ Texts \subseteq Nat
BY WorkAssumption, QueueAssumption DEF WorkAssumption, QueueAssumption, Texts

\* The empty queue satisfies the invariant.
LEMMA InitInv == Init => IInv
<1> SUFFICES ASSUME Init PROVE IInv
  OBVIOUS
<1>1. TypeOK
  BY Bounds DEF Init, TypeOK
<1>2. IsFiniteSet(queue) /\ QueueShape
  BY Bounds, FS_EmptySet DEF Init, QueueShape, OnePerSession
<1>3. NumbersFresh /\ LeaseCovered /\ CopiesComplete /\ OldCopiesExpose /\ ClaimExclusion
      /\ NothingVanishes
  BY DEF Init, NumbersFresh, LeaseCovered, CopiesComplete, OldCopiesExpose, ClaimExclusion, NothingVanishes
<1> QED BY <1>1, <1>2, <1>3 DEF IInv

\* What a new job does to the queue: its entries are old ones, the session's
\* entry with the new summary, or a new entry.
LEMMA EnqueueEntries ==
  ASSUME IInv, NEW s \in Sessions, NEW phases \in (SUBSET Phases) \ {{}}, Enqueue(s, phases)
  PROVE  LET fresh == queue \ Aged(queue)
             added == Added(queue, jobs + 1, s, jobs + 1, phases)
         IN  /\ jobs + 1 \in Texts
             /\ added \subseteq Entry /\ OnePerSession(added) /\ IsFiniteSet(added)
             /\ queue' \subseteq added /\ IsFiniteSet(queue') /\ Cardinality(queue') <= MaxQueue
             /\ \/ \E same \in fresh :
                     /\ OfSession(fresh, s) = {same}
                     /\ added = (fresh \ {same}) \cup {Merge(same, jobs + 1, phases)}
                \/ /\ OfSession(fresh, s) = {}
                   /\ added = fresh \cup {NewEntry(jobs + 1, s, jobs + 1, phases)}
<1> DEFINE added == Added(queue, jobs + 1, s, jobs + 1, phases)
<1>1. jobs \in Nat /\ jobs + 1 \in Texts /\ Texts \in SUBSET Nat
  BY Bounds DEF IInv, TypeOK, Enqueue, Texts
<1>2. queue \in SUBSET Entries(Texts, Sessions, Texts, Phases) /\ OnePerSession(queue)
      /\ IsFiniteSet(queue)
  BY DEF IInv, TypeOK, Entry, QueueShape
<1>3. \A e \in queue : e.id # jobs + 1
  <2>1. \A e \in queue : e.id <= jobs
    BY DEF IInv, NumbersFresh
  <2> QED BY <1>1, <2>1
<1>4. added \subseteq Entry /\ OnePerSession(added) /\ IsFiniteSet(added)
  BY <1>1, <1>2, <1>3, AddedShape DEF Entry
<1>5. queue' = Trim(added)
  BY DEF Enqueue
<1>6. \A e \in added : e.id \in Nat
  BY <1>1, <1>4 DEF Entry, Entries
<1>7. queue' \subseteq added /\ IsFiniteSet(queue') /\ Cardinality(queue') <= MaxQueue
  <2> HIDE DEF added
  <2> QED BY <1>4, <1>5, <1>6, TrimBound
<1> QED BY <1>1, <1>2, <1>4, <1>7, AddedCases

\* A new job keeps the invariant.
LEMMA EnqueueStep ==
  ASSUME IInv, NEW s \in Sessions, NEW phases \in (SUBSET Phases) \ {{}}, Enqueue(s, phases)
  PROVE  IInv'
<1> DEFINE text  == jobs + 1
           fresh == queue \ Aged(queue)
           added == Added(queue, text, s, text, phases)
           gone  == Aged(queue) \cup (added \ Trim(added))
           under == OfSession(fresh, s)
<1>1. /\ text \in Texts
      /\ added \subseteq Entry /\ OnePerSession(added) /\ IsFiniteSet(added)
      /\ queue' \subseteq added /\ IsFiniteSet(queue') /\ Cardinality(queue') <= MaxQueue
      /\ \/ \E same \in fresh :
              /\ under = {same}
              /\ added = (fresh \ {same}) \cup {Merge(same, text, phases)}
         \/ /\ under = {}
            /\ added = fresh \cup {NewEntry(text, s, text, phases)}
  BY EnqueueEntries
<1>2. /\ jobs' = text /\ work' = work /\ crashes' = crashes
      /\ queue' = Trim(added)
      /\ owed' = (owed \cup Units(text, phases)) \ UNION {UnitsOf(e) : e \in gone}
      /\ displaced' = displaced \cup UNION {UnitsOf(e) : e \in under}
      /\ exposed' = IF \E e \in under : Held(e)
                    THEN exposed \cup Units(text, phases) ELSE exposed
  BY DEF Enqueue
<1>3. /\ jobs \in Nat /\ text \in Nat /\ text = jobs + 1 /\ Texts \subseteq Nat
      /\ fresh \subseteq queue /\ queue \subseteq Entry
  BY Bounds DEF IInv, TypeOK
\* The entries after the step, one by one.
<1>4. ASSUME NEW e \in added
      PROVE  \/ e \in fresh /\ e \notin under
             \/ /\ e.text = text /\ phases \subseteq e.phases
                /\ \/ e.id = text
                   \/ \E f \in under : e.id = f.id /\ e.claim = f.claim /\ e.wait = f.wait
  <2>1. CASE \E same \in fresh :
              /\ under = {same}
              /\ added = (fresh \ {same}) \cup {Merge(same, text, phases)}
    <3>1. PICK same \in fresh :
              /\ under = {same}
              /\ added = (fresh \ {same}) \cup {Merge(same, text, phases)}
      BY <2>1
    <3>2. same \in Entries(Texts, Sessions, Texts, Phases) /\ phases \in SUBSET Phases
      BY <1>3 DEF Entry
    <3>3. /\ Merge(same, text, phases).text = text
          /\ Merge(same, text, phases).phases = same.phases \cup phases
          /\ Merge(same, text, phases).id = same.id
          /\ Merge(same, text, phases).claim = same.claim
          /\ Merge(same, text, phases).wait = same.wait
      BY <1>1, <3>2, MergeType
    <3> HIDE DEF added, fresh, under, text
    <3> QED BY <3>1, <3>3
  <2>2. CASE under = {} /\ added = fresh \cup {NewEntry(text, s, text, phases)}
    <3>1. /\ NewEntry(text, s, text, phases).text = text
          /\ NewEntry(text, s, text, phases).id = text
          /\ NewEntry(text, s, text, phases).phases = phases
      BY DEF NewEntry
    <3> HIDE DEF added, fresh, under, text
    <3> QED BY <2>2, <3>1
  <2> QED BY <1>1, <2>1, <2>2
<1>5. under \subseteq queue
  BY DEF OfSession
<1>6. /\ \A e \in queue : e.id <= jobs /\ e.text <= jobs /\ e.id \in Nat /\ e.text \in Nat
      /\ \A w \in Workers : work[w] # Idle =>
           work[w].id \in Nat /\ work[w].id <= jobs /\ work[w].text \in Nat /\ work[w].text <= jobs
  <2>1. \A w \in Workers : work[w] # Idle => work[w].id \in Nat /\ work[w].text \in Nat
    BY <1>3 DEF IInv, TypeOK, Job
  <2> QED BY <1>3, <2>1 DEF IInv, TypeOK, NumbersFresh, Entry, Entries
<1> HIDE DEF text, added, fresh, under
<1>7. TypeOK'
  <2>1. displaced' \subseteq Texts \X Phases
    <3>1. ASSUME NEW e \in queue PROVE UnitsOf(e) \subseteq Texts \X Phases
      BY <1>3 DEF UnitsOf, Units, Entry, Entries
    <3> QED BY <1>2, <1>5, <3>1 DEF IInv, TypeOK
  <2>2. owed' \subseteq Texts \X Phases
    BY <1>1, <1>2 DEF IInv, TypeOK, Units
  <2>3. jobs' \in 0 .. MaxJobs
    BY <1>1, <1>2, Bounds DEF Texts
  <2>4. exposed' \subseteq Texts \X Phases
    BY <1>1, <1>2 DEF IInv, TypeOK, Units
  <2> QED BY <1>1, <1>2, <2>1, <2>2, <2>3, <2>4 DEF IInv, TypeOK
<1>8. QueueShape'
  BY <1>1 DEF QueueShape, OnePerSession
<1>9. NumbersFresh'
  <2>1. ASSUME NEW e \in added PROVE e.id <= text /\ e.text <= text
    BY <1>3, <1>4, <1>5, <1>6
  <2>2. ASSUME NEW e \in added, NEW f \in added, e.text = f.text PROVE e = f
    <3>1. CASE e \in fresh /\ f \in fresh
      BY <1>3, <2>2, <3>1 DEF IInv, NumbersFresh
    <3>2. CASE e \notin fresh /\ f \notin fresh
      <4>1. CASE under = {}
        <5>1. added = fresh \cup {NewEntry(text, s, text, phases)}
          BY <1>1, <4>1
        <5> QED BY <3>2, <5>1
      <4>2. CASE under # {}
        <5>1. PICK same \in fresh : added = (fresh \ {same}) \cup {Merge(same, text, phases)}
          BY <1>1, <4>2
        <5> QED BY <3>2, <5>1
      <4> QED BY <4>1, <4>2
    <3>3. CASE (e \in fresh /\ f \notin fresh) \/ (e \notin fresh /\ f \in fresh)
      <4>1. \A g \in added : g \notin fresh => g.text = text
        BY <1>4
      <4>2. \A g \in added : g \in fresh => g.text <= jobs /\ g.text \in Nat
        BY <1>3, <1>6
      <4> QED BY <1>3, <2>2, <3>3, <4>1, <4>2
    <3> QED BY <3>1, <3>2, <3>3
  <2>3. \A w \in Workers : work[w] # Idle => work[w].id <= text /\ work[w].text <= text
    BY <1>3, <1>6
  <2>4. \A u \in owed' : u[1] <= text
    <3>1. \A u \in owed : u[1] \in Nat /\ u[1] <= jobs
      BY <1>3 DEF IInv, TypeOK, NumbersFresh
    <3> QED BY <1>2, <1>3, <3>1 DEF Units
  <2> QED BY <1>1, <1>2, <2>1, <2>2, <2>3, <2>4 DEF NumbersFresh
<1>10. LeaseCovered'
  <2> SUFFICES ASSUME NEW w \in Workers, NEW e \in added, work[w] # Idle, e.id = work[w].id
               PROVE  e.claim >= work[w].lease \/ e.wait >= work[w].lease
    BY <1>1, <1>2 DEF LeaseCovered
  <2>1. e.id # text
    BY <1>3, <1>6
  <2>2. PICK f \in queue : e.id = f.id /\ e.claim = f.claim /\ e.wait = f.wait
    BY <1>3, <1>4, <1>5, <2>1
  <2> QED BY <2>2 DEF IInv, LeaseCovered
<1>11. CopiesComplete'
  <2> SUFFICES ASSUME NEW w \in Workers, work[w] # Idle, NEW ph \in Phases,
                      <<work[w].text, ph>> \in owed' \ (displaced' \cup exposed')
               PROVE  ph \in work[w].left
    BY <1>2 DEF CopiesComplete
  <2>1. work[w].text # text
    BY <1>3, <1>6
  <2>2. <<work[w].text, ph>> \in owed \ (displaced \cup exposed)
    BY <1>2, <2>1 DEF Units
  <2> QED BY <2>2 DEF IInv, CopiesComplete
<1>14. OldCopiesExpose'
  <2> SUFFICES ASSUME NEW w \in Workers, NEW e \in added, work[w] # Idle,
                      e.id = work[w].id, e.text # work[w].text,
                      NEW u \in Units(e.text, Phases) \cap owed'
               PROVE  u \in exposed'
    BY <1>1, <1>2 DEF OldCopiesExpose
  <2>1. u[1] = e.text /\ (u \in owed \/ u \in Units(text, phases))
    BY <1>2 DEF Units
  <2>2. e.id # text
    BY <1>3, <1>6
  <2>3. CASE e \in fresh /\ e \notin under
    <3>1. e.text # text
      BY <1>3, <1>6, <2>3
    <3>2. u \in owed
      BY <2>1, <3>1 DEF Units
    <3>3. u \in exposed
      BY <1>3, <2>3, <3>2 DEF IInv, OldCopiesExpose
    <3> QED BY <1>2, <3>3
  <2>4. CASE e.text = text /\ \E f \in under : e.id = f.id
    <3>1. \E f \in under : Held(f)
      BY <2>4 DEF Held
    <3>2. u \notin owed
      BY <1>3, <2>1, <2>4 DEF IInv, NumbersFresh
    <3> QED BY <1>2, <2>1, <3>1, <3>2
  <2> QED BY <1>4, <2>2, <2>3, <2>4
<1>12. ClaimExclusion'
  BY <1>2 DEF IInv, ClaimExclusion
<1>13. NothingVanishes'
  <2> SUFFICES ASSUME NEW u \in owed', u \notin displaced', u \notin exposed'
               PROVE  u \in Pending'
    BY DEF NothingVanishes
  <2>1. ASSUME NEW e \in added, u \in UnitsOf(e) PROVE u \in Pending'
    BY <1>2, <2>1 DEF Pending
  <2>2. CASE u \in Units(text, phases)
    <3>1. PICK e \in added : e.text = text /\ phases \subseteq e.phases
      <4>1. CASE under = {}
        <5>1. NewEntry(text, s, text, phases) \in added
          BY <1>1, <4>1
        <5> QED BY <5>1 DEF NewEntry
      <4>2. CASE under # {}
        <5>1. PICK same \in fresh : added = (fresh \ {same}) \cup {Merge(same, text, phases)}
          BY <1>1, <4>2
        <5>2. same \in Entries(Texts, Sessions, Texts, Phases) /\ phases \in SUBSET Phases
          BY <1>3 DEF Entry
        <5>3. /\ Merge(same, text, phases).text = text
              /\ Merge(same, text, phases).phases = same.phases \cup phases
          BY <1>1, <5>2, MergeType
        <5> QED BY <5>1, <5>3
      <4> QED BY <4>1, <4>2
    <3> QED BY <2>1, <2>2, <3>1 DEF UnitsOf, Units
  <2>3. CASE u \notin Units(text, phases)
    <3>1. u \in owed /\ u \notin displaced /\ u \notin exposed
      BY <1>2, <2>3
    <3>2. PICK e \in queue : u \in UnitsOf(e)
      BY <3>1 DEF IInv, NothingVanishes, Pending
    <3>3. e \notin Aged(queue) /\ e \notin under
      BY <1>2, <3>2
    <3>4. e \in added
      BY <1>1, <3>2, <3>3 DEF fresh
    <3> QED BY <2>1, <3>2, <3>4
  <2> QED BY <2>2, <2>3
<1> QED BY <1>1, <1>7, <1>8, <1>9, <1>10, <1>11, <1>12, <1>13, <1>14 DEF IInv

-----------------------------------------------------------------------------
\* Leasing the oldest due entry to an idle runner keeps the invariant: an entry
\* that is due is under no running lease.
LEMMA ClaimStep ==
  ASSUME IInv, NEW w \in Workers, ClaimDue(w)
  PROVE  IInv'
<1> DEFINE e == Oldest(Due(queue))
           c == [e EXCEPT !.claim = ClaimTime]
           job == [id |-> e.id, text |-> e.text, left |-> e.phases, lease |-> ClaimTime]
<1>1. queue \subseteq Entry /\ OnePerSession(queue) /\ IsFiniteSet(queue)
      /\ Cardinality(queue) <= MaxQueue /\ Cardinality(queue) \in Nat
  BY FS_CardinalityType DEF IInv, TypeOK, QueueShape
<1>2. e \in Due(queue)
  <2>1. Due(queue) # {} /\ \A f \in Due(queue) : f.id \in Nat
    BY <1>1, Bounds DEF ClaimDue, Due, Entry, Entries
  <2> QED BY <2>1, OldestIsFirst
<1>3. e \in queue /\ e.wait = 0 /\ e.claim = 0
  BY <1>2 DEF Due
<1>4. /\ queue' = (queue \ {e}) \cup {c}
      /\ work[w] = Idle /\ work' = [work EXCEPT ![w] = job]
      /\ jobs' = jobs /\ crashes' = crashes /\ owed' = owed /\ displaced' = displaced
      /\ exposed' = exposed
  BY DEF ClaimDue, Claim
<1> HIDE DEF e
<1>5. /\ c \in Entry /\ c.id = e.id /\ c.session = e.session /\ c.text = e.text
      /\ c.phases = e.phases /\ c.claim = ClaimTime
  BY <1>1, <1>3, ClaimType DEF Entry
<1>6. e \in Entry /\ job \in Job
  <2>1. e \in Entry
    BY <1>1, <1>3
  <2> QED BY <2>1, Bounds DEF Entry, Entries, Job
<1>7. work' \in [Workers -> Job \cup {Idle}] /\ work'[w] = job /\ job # Idle
      /\ \A v \in Workers \ {w} : work'[v] = work[v]
  BY <1>4, <1>6, WorkAssumption DEF IInv, TypeOK, WorkAssumption
<1>8. \A v \in Workers : work[v] # Idle => work[v] \in Job /\ work[v].lease \in Nat
  BY Bounds DEF IInv, TypeOK, Job
<1> HIDE DEF c
<1>9. ASSUME NEW f \in queue' PROVE \/ f \in queue /\ f # e
                                  \/ f = c
  BY <1>4
<1>10. TypeOK'
  BY <1>1, <1>4, <1>5, <1>7 DEF IInv, TypeOK
<1>11. IsFiniteSet(queue') /\ QueueShape'
  <2>1. /\ OnePerSession(queue') /\ IsFiniteSet(queue')
        /\ Cardinality(queue') <= Cardinality(queue)
    BY <1>1, <1>3, <1>4, <1>5, ReplaceShape
  <2>2. Cardinality(queue') \in Nat
    BY <2>1, FS_CardinalityType
  <2> QED BY <1>1, <2>1, <2>2, Bounds DEF QueueShape
<1>12. NumbersFresh'
  <2>1. \A f \in queue' : f.id <= jobs /\ f.text <= jobs
    BY <1>3, <1>5, <1>9 DEF IInv, NumbersFresh
  <2>2. \A f, g \in queue' : f.text = g.text => f = g
    BY <1>3, <1>5, <1>9 DEF IInv, NumbersFresh
  <2>3. \A v \in Workers : work'[v] # Idle => work'[v].id <= jobs /\ work'[v].text <= jobs
    BY <1>3, <1>7 DEF IInv, NumbersFresh
  <2>4. \A u \in owed' : u[1] <= jobs
    BY <1>4 DEF IInv, NumbersFresh
  <2> QED BY <1>4, <2>1, <2>2, <2>3, <2>4 DEF NumbersFresh
\* No running lease is on the entry that was due.
<1>13. \A v \in Workers : work[v] # Idle /\ work[v].id = e.id => work[v].lease = 0
  BY <1>3, <1>8 DEF IInv, LeaseCovered
<1>14. LeaseCovered'
  <2> SUFFICES ASSUME NEW v \in Workers, NEW f \in queue', work'[v] # Idle, f.id = work'[v].id
               PROVE  f.claim >= work'[v].lease \/ f.wait >= work'[v].lease
    BY DEF LeaseCovered
  <2>1. CASE f = c
    <3>1. CASE v = w
      BY <1>5, <1>7, <2>1, <3>1, Bounds
    <3>2. CASE v # w
      <4>1. work'[v].lease = 0
        BY <1>5, <1>7, <1>13, <2>1, <3>2
      <4> QED BY <1>5, <2>1, <4>1, Bounds
    <3> QED BY <3>1, <3>2
  <2>2. CASE f \in queue /\ f # e
    <3>1. v # w
      BY <1>1, <1>3, <1>7, <2>2 DEF OnePerSession
    <3> QED BY <1>7, <2>2, <3>1 DEF IInv, LeaseCovered
  <2> QED BY <1>9, <2>1, <2>2
<1>15. CopiesComplete'
  <2> SUFFICES ASSUME NEW v \in Workers, work'[v] # Idle, NEW ph \in Phases,
                      <<work'[v].text, ph>> \in owed \ (displaced \cup exposed)
               PROVE  ph \in work'[v].left
    BY <1>4 DEF CopiesComplete
  <2>1. CASE v # w
    BY <1>7, <2>1 DEF IInv, CopiesComplete
  <2>2. CASE v = w
    <3>1. <<e.text, ph>> \in Pending
      BY <1>7, <2>2 DEF IInv, NothingVanishes
    <3>2. PICK f \in queue : f.text = e.text /\ ph \in f.phases
      BY <3>1 DEF Pending, UnitsOf, Units
    <3>3. f = e
      BY <1>3, <3>2 DEF IInv, NumbersFresh
    <3> QED BY <1>7, <2>2, <3>2, <3>3
  <2> QED BY <2>1, <2>2
<1>18. OldCopiesExpose'
  <2> SUFFICES ASSUME NEW v \in Workers, NEW f \in queue', work'[v] # Idle,
                      f.id = work'[v].id, f.text # work'[v].text
               PROVE  Units(f.text, Phases) \cap owed \subseteq exposed
    BY <1>4 DEF OldCopiesExpose
  <2>1. PICK g \in queue : g.id = f.id /\ g.text = f.text
    BY <1>3, <1>5, <1>9
  <2>2. CASE v # w
    BY <1>7, <2>1, <2>2 DEF IInv, OldCopiesExpose
  <2>3. CASE v = w
    <3>1. g.id = e.id /\ g.text # e.text
      BY <1>7, <2>1, <2>3
    <3> QED BY <1>1, <1>3, <3>1 DEF OnePerSession
  <2> QED BY <2>2, <2>3
<1>16. ClaimExclusion'
  <2> SUFFICES ASSUME NEW u \in Workers, NEW v \in Workers, u # v,
                      work'[u] # Idle, work'[v] # Idle,
                      work'[u].lease > 0, work'[v].lease > 0
               PROVE  work'[u].id # work'[v].id
    BY DEF ClaimExclusion
  <2>1. CASE u # w /\ v # w
    BY <1>7, <2>1 DEF IInv, ClaimExclusion
  <2>2. CASE u = w
    BY <1>7, <1>13, <2>2
  <2>3. CASE v = w
    BY <1>7, <1>13, <2>3
  <2> QED BY <2>1, <2>2, <2>3
<1>17. NothingVanishes'
  <2>1. UnitsOf(c) = UnitsOf(e)
    BY <1>5 DEF UnitsOf
  <2>2. Pending \subseteq Pending'
    BY <1>4, <2>1 DEF Pending
  <2> QED BY <1>4, <2>2 DEF IInv, NothingVanishes
<1> QED BY <1>10, <1>11, <1>12, <1>14, <1>15, <1>16, <1>17, <1>18 DEF IInv

\* A phase that succeeds is no longer owed, by whoever ran it.
LEMMA RunPhaseStep ==
  ASSUME IInv, NEW w \in Workers, NEW ph \in Phases, RunPhase(w, ph)
  PROVE  IInv'
<1>1. /\ work[w] # Idle
      /\ work' = [work EXCEPT ![w] = [work[w] EXCEPT !.left = work[w].left \ {ph}]]
      /\ owed' = owed \ {<<work[w].text, ph>>}
      /\ queue' = queue /\ jobs' = jobs /\ crashes' = crashes /\ displaced' = displaced
      /\ exposed' = exposed
  BY DEF RunPhase
<1>2. work[w] \in Job
  BY <1>1 DEF IInv, TypeOK
<1> DEFINE job == [work[w] EXCEPT !.left = work[w].left \ {ph}]
<1>3. /\ job \in Job /\ job.id = work[w].id /\ job.text = work[w].text
      /\ job.lease = work[w].lease /\ job.left = work[w].left \ {ph}
  BY <1>2 DEF Job
<1> HIDE DEF job
<1>4. work' \in [Workers -> Job \cup {Idle}] /\ work'[w] = job /\ job # Idle
      /\ \A v \in Workers \ {w} : work'[v] = work[v]
  BY <1>1, <1>3, WorkAssumption DEF IInv, TypeOK, WorkAssumption, job
<1>5. TypeOK'
  BY <1>1, <1>4 DEF IInv, TypeOK
<1>6. IsFiniteSet(queue') /\ QueueShape'
  BY <1>1 DEF IInv, QueueShape
<1>7. \A v \in Workers : work'[v] # Idle =>
        /\ work[v] # Idle /\ work'[v].id = work[v].id /\ work'[v].text = work[v].text
        /\ work'[v].lease = work[v].lease
        /\ v # w => work'[v].left = work[v].left
  BY <1>1, <1>3, <1>4
<1>8. NumbersFresh' /\ LeaseCovered' /\ ClaimExclusion' /\ OldCopiesExpose'
  <2>1. NumbersFresh' /\ LeaseCovered' /\ ClaimExclusion'
    BY <1>1, <1>7 DEF IInv, NumbersFresh, LeaseCovered, ClaimExclusion
  <2>2. OldCopiesExpose'
    BY <1>1, <1>7 DEF IInv, OldCopiesExpose
  <2> QED BY <2>1, <2>2
<1>9. CopiesComplete'
  <2> SUFFICES ASSUME NEW v \in Workers, work'[v] # Idle, NEW p \in Phases,
                      <<work'[v].text, p>> \in owed' \ (displaced \cup exposed)
               PROVE  p \in work'[v].left
    BY <1>1 DEF CopiesComplete
  <2>1. p \in work[v].left
    BY <1>1, <1>7 DEF IInv, CopiesComplete
  <2>2. v = w => p # ph
    BY <1>1, <1>3, <1>4
  <2> QED BY <1>3, <1>4, <1>7, <2>1, <2>2
<1>10. NothingVanishes'
  BY <1>1 DEF IInv, NothingVanishes, Pending
<1> QED BY <1>5, <1>6, <1>8, <1>9, <1>10 DEF IInv

\* What a report does to the queue.
LEMMA CompleteCases ==
  ASSUME IInv, NEW w \in Workers, CompleteEntry(w)
  PROVE  \/ /\ \A e \in queue : e.id # work[w].id
            /\ queue' = queue /\ owed' = owed
         \/ \E e \in queue :
              /\ e.id = work[w].id
              /\ \/ /\ work[w].left = {} \/ e.attempts + 1 >= MaxAttempts
                    /\ queue' = queue \ {e}
                    /\ owed' = owed \ Units(e.text, work[w].left)
                 \/ /\ work[w].left # {} /\ e.attempts + 1 < MaxAttempts
                    /\ queue' = (queue \ {e}) \cup {Retried(e, work[w].left)}
                    /\ owed' = owed
<1> DEFINE job == work[w]
           e == Oldest(WithId(queue, job.id))
<1>1. CASE WithId(queue, job.id) = {}
  BY <1>1 DEF CompleteEntry, WithId
<1>2. CASE WithId(queue, job.id) # {}
  <2>1. OnePerSession(queue) /\ queue \subseteq Entry /\ \A f \in queue : f.id \in Nat
    BY Bounds DEF IInv, TypeOK, QueueShape, Entry, Entries
  <2>2. e \in queue /\ e.id = job.id
    BY <1>2, <2>1, FoundById
  <2>3. /\ queue' = Completed(queue, e, job.left)
        /\ owed' = IF job.left # {} /\ e.attempts + 1 >= MaxAttempts
                   THEN owed \ Units(e.text, job.left) ELSE owed
    BY <1>2 DEF CompleteEntry
  <2> HIDE DEF e
  <2>4. e \in Entry /\ e.attempts + 1 \in Nat /\ MaxAttempts \in Nat
    BY <2>1, <2>2, Bounds DEF Entry, Entries
  <2>5. Retried(e, job.left).attempts = e.attempts + 1
    BY <2>4 DEF Retried, Entry, Entries
  <2>6. CASE job.left = {} \/ e.attempts + 1 >= MaxAttempts
    <3>1. queue' = queue \ {e}
      BY <2>3, <2>5, <2>6 DEF Completed
    <3>2. owed' = owed \ Units(e.text, job.left)
      BY <2>3, <2>6 DEF Units
    <3> QED BY <2>2, <2>3, <2>6, <3>1, <3>2
  <2>7. CASE ~(job.left = {} \/ e.attempts + 1 >= MaxAttempts)
    <3>1. queue' = (queue \ {e}) \cup {Retried(e, job.left)}
      BY <2>3, <2>5, <2>7 DEF Completed
    <3>2. job.left # {} /\ e.attempts + 1 < MaxAttempts /\ owed' = owed
      BY <2>3, <2>4, <2>7
    <3> HIDE DEF job
    <3> QED BY <2>2, <2>3, <3>1, <3>2 DEF job
  <2> QED BY <2>6, <2>7
<1> QED BY <1>1, <1>2

\* A report keeps the invariant, however late it comes: what it puts back waits
\* out every running lease, and what it takes off was done or given up, or was
\* queued while the runner already worked on an older summary.
LEMMA CompleteStep ==
  ASSUME IInv, NEW w \in Workers, CompleteEntry(w)
  PROVE  IInv'
<1> DEFINE job == work[w]
<1>1. /\ work[w] # Idle /\ work' = [work EXCEPT ![w] = Idle]
      /\ jobs' = jobs /\ crashes' = crashes
      /\ displaced' = displaced /\ exposed' = exposed
  BY DEF CompleteEntry
<1>2. work[w] \in Job
  BY <1>1 DEF IInv, TypeOK
<1>3. /\ queue \subseteq Entry /\ OnePerSession(queue) /\ IsFiniteSet(queue)
      /\ Cardinality(queue) <= MaxQueue /\ Cardinality(queue) \in Nat
  BY FS_CardinalityType DEF IInv, TypeOK, QueueShape
<1>4. work' \in [Workers -> Job \cup {Idle}]
  BY <1>1 DEF IInv, TypeOK
<1>5. \A v \in Workers : work'[v] # Idle => v # w /\ work'[v] = work[v]
  BY <1>1 DEF IInv, TypeOK
<1>6. ClaimExclusion'
  BY <1>5 DEF IInv, ClaimExclusion
<1>7. CASE queue' = queue /\ owed' = owed
  <2>1. TypeOK' /\ IsFiniteSet(queue') /\ QueueShape' /\ NothingVanishes'
    BY <1>1, <1>4, <1>7 DEF IInv, TypeOK, QueueShape, NothingVanishes, Pending
  <2>2. NumbersFresh' /\ LeaseCovered' /\ CopiesComplete' /\ OldCopiesExpose'
    BY <1>1, <1>5, <1>7 DEF IInv, NumbersFresh, LeaseCovered, CopiesComplete, OldCopiesExpose
  <2> QED BY <1>6, <2>1, <2>2 DEF IInv
<1>8. ASSUME NEW e \in queue, e.id = job.id,
             \/ /\ job.left = {} \/ e.attempts + 1 >= MaxAttempts
                /\ queue' = queue \ {e}
                /\ owed' = owed \ Units(e.text, job.left)
             \/ /\ job.left # {} /\ e.attempts + 1 < MaxAttempts
                /\ queue' = (queue \ {e}) \cup {Retried(e, job.left)}
                /\ owed' = owed
      PROVE  IInv'
  <2> DEFINE r == Retried(e, job.left)
  <2>1. owed' \subseteq owed
    BY <1>8
  <2>3. ASSUME job.left # {}, e.attempts + 1 < MaxAttempts
        PROVE  /\ r \in Entry /\ r.id = e.id /\ r.session = e.session /\ r.text = e.text
               /\ r.phases = job.left /\ r.wait >= ClaimTime
    <3>1. e \in Entries(Texts, Sessions, Texts, Phases) /\ job.left \in SUBSET Phases
      BY <1>2, <1>3 DEF Entry, Job
    <3>2. r \in Entries(Texts, Sessions, Texts, Phases)
          /\ r.id = e.id /\ r.session = e.session /\ r.text = e.text
          /\ r.phases = job.left /\ r.wait >= ClaimTime
      BY <2>3, <3>1, RetriedType
    <3> QED BY <3>2 DEF Entry
  <2> HIDE DEF r
  <2>4. ASSUME NEW f \in queue'
        PROVE  \/ f \in queue /\ f # e
               \/ /\ f \in Entry /\ f.id = e.id /\ f.session = e.session /\ f.text = e.text
                  /\ f.phases = job.left /\ f.wait >= ClaimTime
                  /\ f = r
    BY <1>8, <2>3 DEF r
  <2>5. TypeOK'
    BY <1>1, <1>3, <1>4, <2>1, <2>4 DEF IInv, TypeOK
  <2>6. IsFiniteSet(queue') /\ QueueShape'
    <3>1. OnePerSession(queue')
      BY <1>3, <2>4 DEF OnePerSession
    <3>2. IsFiniteSet(queue') /\ Cardinality(queue') <= Cardinality(queue)
      <4>1. CASE queue' = queue \ {e}
        <5>1. queue' \in SUBSET queue
          BY <4>1
        <5> QED BY <1>3, <5>1, FS_Subset
      <4>2. CASE queue' # queue \ {e}
        <5>1. queue' = (queue \ {e}) \cup {r} /\ r.id = e.id /\ r.session = e.session
          BY <1>8, <2>3, <4>2 DEF r
        <5> QED BY <1>3, <5>1, ReplaceShape
      <4> QED BY <4>1, <4>2
    <3>3. Cardinality(queue') \in Nat
      BY <3>2, FS_CardinalityType
    <3> QED BY <1>3, <3>1, <3>2, <3>3, Bounds DEF QueueShape
  <2>7. NumbersFresh'
    <3>1. \A f \in queue' : f.id <= jobs /\ f.text <= jobs
      BY <2>4 DEF IInv, NumbersFresh
    <3>2. \A f, g \in queue' : f.text = g.text => f = g
      BY <2>4 DEF IInv, NumbersFresh
    <3>3. \A u \in owed' : u[1] <= jobs
      BY <2>1 DEF IInv, NumbersFresh
    <3> QED BY <1>1, <1>5, <3>1, <3>2, <3>3 DEF IInv, NumbersFresh
  <2>8. LeaseCovered'
    <3> SUFFICES ASSUME NEW v \in Workers, NEW f \in queue', work'[v] # Idle,
                        f.id = work'[v].id
                 PROVE  f.claim >= work'[v].lease \/ f.wait >= work'[v].lease
      BY DEF LeaseCovered
    <3>1. work'[v] = work[v] /\ work[v].lease \in 0 .. ClaimTime
      BY <1>4, <1>5 DEF Job
    <3>2. CASE f \in queue
      BY <3>1, <3>2 DEF IInv, LeaseCovered
    <3>3. CASE f \notin queue
      <4>1. f \in Entry /\ f.wait >= ClaimTime
        BY <2>4, <3>3
      <4> QED BY <3>1, <4>1, Bounds DEF Entry, Entries
    <3> QED BY <3>2, <3>3
  <2>9. CopiesComplete' /\ OldCopiesExpose'
    <3>1. CopiesComplete'
      BY <1>1, <1>5, <2>1 DEF IInv, CopiesComplete
    <3>2. \A f \in queue' : \E g \in queue : g.id = f.id /\ g.text = f.text
      BY <2>4
    <3>3. OldCopiesExpose'
      BY <1>1, <1>5, <2>1, <3>2 DEF IInv, OldCopiesExpose
    <3> QED BY <3>1, <3>3
  <2>10. NothingVanishes'
    <3> SUFFICES ASSUME NEW u \in owed', u \notin displaced, u \notin exposed
                 PROVE  u \in Pending'
      BY <1>1 DEF NothingVanishes
    <3>1. u \in owed
      BY <2>1
    <3>2. PICK f \in queue : u \in UnitsOf(f)
      BY <3>1 DEF IInv, NothingVanishes, Pending
    <3>3. CASE f # e
      <4>1. f \in queue'
        BY <1>8, <3>2, <3>3
      <4> QED BY <3>2, <4>1 DEF Pending
    <3>4. CASE f = e
      <4>2. PICK ph \in Phases : u = <<e.text, ph>>
        BY <1>3, <3>2, <3>4 DEF UnitsOf, Units, Entry, Entries
      <4>1. job.text = e.text
        BY <1>1, <1>8, <3>1, <4>2 DEF IInv, OldCopiesExpose, Units
      <4>3. ph \in job.left
        BY <1>1, <3>1, <4>1, <4>2 DEF IInv, CopiesComplete
      <4>4. queue' = (queue \ {e}) \cup {r} /\ r.text = e.text /\ r.phases = job.left
        BY <1>8, <2>3, <4>2, <4>3 DEF r, Units
      <4>5. u \in UnitsOf(r)
        BY <4>2, <4>3, <4>4 DEF UnitsOf, Units
      <4> QED BY <4>4, <4>5 DEF Pending
    <3> QED BY <3>3, <3>4
  <2> QED BY <1>6, <2>5, <2>6, <2>7, <2>8, <2>9, <2>10 DEF IInv
<1> QED BY <1>7, <1>8, CompleteCases

\* A runner that dies leaves the queue and its claim as they are.
LEMMA CrashStep ==
  ASSUME IInv, NEW w \in Workers, Crash(w)
  PROVE  IInv'
<1>1. /\ work' = [work EXCEPT ![w] = Idle] /\ crashes' = crashes + 1 /\ crashes < MaxCrashes
      /\ queue' = queue /\ jobs' = jobs /\ owed' = owed /\ displaced' = displaced
      /\ exposed' = exposed
  BY DEF Crash
<1>2. work' \in [Workers -> Job \cup {Idle}]
      /\ \A v \in Workers : work'[v] # Idle => work'[v] = work[v]
  BY <1>1 DEF IInv, TypeOK
<1>3. TypeOK'
  BY <1>1, <1>2, Bounds DEF IInv, TypeOK
<1>4. IsFiniteSet(queue') /\ QueueShape' /\ NothingVanishes'
  BY <1>1 DEF IInv, QueueShape, NothingVanishes, Pending
<1>5. NumbersFresh' /\ LeaseCovered' /\ CopiesComplete' /\ OldCopiesExpose'
      /\ ClaimExclusion'
  BY <1>1, <1>2 DEF IInv, NumbersFresh, LeaseCovered, CopiesComplete, OldCopiesExpose,
                    ClaimExclusion
<1> QED BY <1>3, <1>4, <1>5 DEF IInv

\* Leases, claims and waits run down together.
LEMMA TickStep ==
  ASSUME IInv, Tick
  PROVE  IInv'
<1>1. /\ queue' = {Older(e) : e \in queue}
      /\ work' = [v \in Workers |-> IF work[v] = Idle THEN Idle
                                     ELSE [work[v] EXCEPT !.lease = Less(work[v].lease)]]
      /\ jobs' = jobs /\ crashes' = crashes /\ owed' = owed /\ displaced' = displaced
      /\ exposed' = exposed
  BY DEF Tick
<1>2. /\ queue \in SUBSET Entries(Texts, Sessions, Texts, Phases)
      /\ OnePerSession(queue) /\ IsFiniteSet(queue)
      /\ Cardinality(queue) <= MaxQueue /\ Cardinality(queue) \in Nat
  BY FS_CardinalityType DEF IInv, TypeOK, QueueShape, Entry
<1>3. \A e \in queue : /\ Older(e).id = e.id /\ Older(e).text = e.text
                       /\ Older(e).phases = e.phases
                       /\ Older(e).wait = Less(e.wait) /\ Older(e).claim = Less(e.claim)
  BY <1>2, OlderType
<1>4. ASSUME NEW v \in Workers, work[v] # Idle
      PROVE  /\ work'[v] \in Job /\ work'[v].id = work[v].id /\ work'[v].text = work[v].text
             /\ work'[v].left = work[v].left /\ work'[v].lease = Less(work[v].lease)
             /\ work[v].lease \in Nat
  <2>1. work[v] \in Job
    BY <1>4 DEF IInv, TypeOK
  <2>2. work'[v] = [work[v] EXCEPT !.lease = Less(work[v].lease)]
    BY <1>1, <1>4
  <2>3. work[v].lease \in 0 .. ClaimTime
    BY <2>1 DEF Job
  <2>4. Less(work[v].lease) \in 0 .. ClaimTime
    BY <2>3, Bounds DEF Less
  <2> QED BY <2>1, <2>2, <2>3, <2>4, Bounds DEF Job
<1>5. \A v \in Workers : work'[v] # Idle => work[v] # Idle
  BY <1>1
<1>6. \A m, n \in Nat : m >= n => Less(m) >= Less(n)
  BY DEF Less
<1>7. TypeOK' /\ IsFiniteSet(queue') /\ QueueShape'
  <2>1. /\ queue' \subseteq Entries(Texts, Sessions, Texts, Phases)
        /\ OnePerSession(queue') /\ IsFiniteSet(queue')
        /\ Cardinality(queue') <= Cardinality(queue)
    BY <1>1, <1>2, OlderShape
  <2>2. Cardinality(queue') \in Nat
    BY <2>1, FS_CardinalityType
  <2>3. work' \in [Workers -> Job \cup {Idle}]
    <3>1. \A v \in Workers : work'[v] \in Job \cup {Idle}
      <4> SUFFICES ASSUME NEW v \in Workers PROVE work'[v] \in Job \cup {Idle}
        OBVIOUS
      <4>1. CASE work[v] = Idle
        BY <1>1, <4>1
      <4>2. CASE work[v] # Idle
        BY <1>4, <4>2
      <4> QED BY <4>1, <4>2
    <3> QED BY <1>1, <3>1
  <2>4. TypeOK'
    BY <1>1, <2>1, <2>3 DEF IInv, TypeOK, Entry
  <2> QED BY <1>2, <2>1, <2>2, <2>4, Bounds DEF QueueShape
<1>8. NumbersFresh' /\ CopiesComplete' /\ OldCopiesExpose' /\ ClaimExclusion'
  <2>1. NumbersFresh'
    BY <1>1, <1>3, <1>4, <1>5 DEF IInv, NumbersFresh
  <2>2. CopiesComplete'
    BY <1>1, <1>4, <1>5 DEF IInv, CopiesComplete
  <2>3. ClaimExclusion'
    <3>1. \A n \in Nat : Less(n) > 0 => n > 0
      BY DEF Less
    <3> QED BY <1>4, <1>5, <3>1 DEF IInv, ClaimExclusion
  <2>4. OldCopiesExpose'
    BY <1>1, <1>3, <1>4, <1>5 DEF IInv, OldCopiesExpose
  <2> QED BY <2>1, <2>2, <2>3, <2>4
<1>9. LeaseCovered'
  <2> SUFFICES ASSUME NEW v \in Workers, NEW f \in queue', work'[v] # Idle, f.id = work'[v].id
               PROVE  f.claim >= work'[v].lease \/ f.wait >= work'[v].lease
    BY DEF LeaseCovered
  <2>1. PICK e \in queue : f = Older(e)
    BY <1>1
  <2>2. e.claim >= work[v].lease \/ e.wait >= work[v].lease
    BY <1>3, <1>4, <1>5, <2>1 DEF IInv, LeaseCovered
  <2>3. e.claim \in Nat /\ e.wait \in Nat
    BY <1>2, Bounds DEF Entries
  <2> QED BY <1>3, <1>4, <1>5, <1>6, <2>1, <2>2, <2>3
<1>10. NothingVanishes'
  <2>1. \A e \in queue : UnitsOf(Older(e)) = UnitsOf(e)
    BY <1>3 DEF UnitsOf
  <2>2. Pending \subseteq Pending'
    BY <1>1, <2>1 DEF Pending
  <2> QED BY <1>1, <2>2 DEF IInv, NothingVanishes
<1> QED BY <1>7, <1>8, <1>9, <1>10 DEF IInv

\* Every step of the runners, the clock and crashes keeps the invariant.
LEMMA StepInv == IInv /\ [Next]_vars => IInv'
<1> SUFFICES ASSUME IInv, [Next]_vars PROVE IInv'
  OBVIOUS
<1>1. CASE UNCHANGED vars
  BY <1>1 DEF vars, IInv, TypeOK, QueueShape, NumbersFresh, LeaseCovered, CopiesComplete,
              OldCopiesExpose, ClaimExclusion, NothingVanishes, Pending
<1>2. CASE Tick
  BY <1>2, TickStep
<1>3. ASSUME NEW s \in Sessions, NEW phases \in (SUBSET Phases) \ {{}}, Enqueue(s, phases)
      PROVE  IInv'
  BY <1>3, EnqueueStep
<1>4. ASSUME NEW w \in Workers, Retry(w) \/ Crash(w) PROVE IInv'
  BY <1>4, ClaimStep, CompleteStep, RunPhaseStep, CrashStep DEF Retry
<1> QED BY <1>1, <1>2, <1>3, <1>4 DEF Next

\* The inductive invariant holds in every reachable state.
THEOREM Invariant == Spec => []IInv
BY InitInv, StepInv, PTL DEF Spec

\* Every variable keeps its type.
THEOREM TypeCorrect == Spec => []TypeOK
<1>1. IInv => TypeOK
  BY DEF IInv
<1> QED BY Invariant, <1>1, PTL

\* The file never holds two entries of a session nor more than the limit,
\* whatever runs are queued and whenever reports come back.
THEOREM OneEntryPerSession == Spec => []QueueShape
<1>1. IInv => QueueShape
  BY DEF IInv
<1> QED BY Invariant, <1>1, PTL

\* Two runners within their lease never work on the same entry, for any
\* back-off that is at least one claim long.
THEOREM LeasesExclude == Spec => []ClaimExclusion
<1>1. IInv => ClaimExclusion
  BY DEF IInv
<1> QED BY Invariant, <1>1, PTL

\* No queued phase of a summary is forgotten, whatever crashes, lapsed leases
\* and late reports, unless a later summary replaced its own or it was queued
\* while a runner worked on an older one.
THEOREM QueuedWorkIsKept == Spec => []NothingVanishes
<1>1. IInv => NothingVanishes
  BY DEF IInv
<1> QED BY Invariant, <1>1, PTL
=============================================================================
