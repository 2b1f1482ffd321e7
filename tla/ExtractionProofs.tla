-------------------------- MODULE ExtractionProofs --------------------------
(***************************************************************************)
(* No part of a transcript is passed over, for any number of sessions,     *)
(* runners and phases, any window, limits and back-off, and wherever       *)
(* runners die, transcripts grow or are rewritten, and cursors are lost.   *)
(***************************************************************************)
EXTENDS Extraction, RetryQueueProofs

\* Two names that only shorten TypeOK.
USE DEF QueueEntry, Unit

\* The constants as numbers, and None apart from the values it stands beside.
LEMMA Bounds ==
  /\ MaxLen \in Nat /\ MaxGens \in Nat /\ MaxJobs \in Nat /\ MaxMishaps \in Nat
  /\ SigWindow \in Nat \ {0} /\ ClaimTime \in Nat \ {0} /\ MaxAttempts \in Nat \ {0}
  /\ None \notin Sessions /\ None \notin Nat /\ None \notin Fingerprint
BY NoneAssumption, LimitsAssumption, QueueAssumption
   DEF NoneAssumption, LimitsAssumption, QueueAssumption

\* A fingerprint is a sequence of generations, no longer than the window.
LEMMA FingerprintType ==
  ASSUME NEW sig \in Fingerprint
  PROVE  /\ sig # None /\ Len(sig) \in 0 .. SigWindow /\ DOMAIN sig = 1 .. Len(sig)
         /\ \A i \in DOMAIN sig : i \in Nat \ {0} /\ sig[i] \in Nat
<1>1. PICK n \in 0 .. SigWindow : sig \in [1 .. n -> 0 .. MaxGens]
  BY DEF Fingerprint
<1>2. n \in Nat
  BY Bounds
<1>3. Len(sig) = n
  BY <1>1, <1>2
<1>4. DOMAIN sig = 1 .. Len(sig) /\ Len(sig) \in 0 .. SigWindow
  BY <1>1, <1>3
<1>5. \A i \in DOMAIN sig : i \in Nat \ {0} /\ sig[i] \in Nat
  BY <1>1, <1>2, Bounds
<1> QED BY <1>4, <1>5, Bounds

\* The transcript and the generations of its messages go together.
LEMMA TranscriptType ==
  ASSUME TypeOK, NEW s \in Sessions
  PROVE  /\ Len(transcript[s]) \in Nat /\ Len(transcript[s]) <= MaxLen
         /\ Len(made[s]) = Len(transcript[s]) /\ DOMAIN made[s] = 1 .. Len(transcript[s])
         /\ DOMAIN transcript[s] = 1 .. Len(transcript[s])
         /\ gen[s] \in 0 .. MaxGens /\ gen[s] \in Nat
         /\ \A i \in 1 .. Len(transcript[s]) :
              made[s][i] \in 0 .. MaxGens /\ made[s][i] \in Nat /\ made[s][i] <= gen[s]
<1>1. /\ transcript[s] \in Seq(Kinds) /\ Len(transcript[s]) <= MaxLen
      /\ made[s] \in Seq(0 .. MaxGens) /\ Len(made[s]) = Len(transcript[s])
      /\ \A i \in DOMAIN made[s] : made[s][i] <= gen[s]
      /\ gen[s] \in 0 .. MaxGens
  BY DEF TypeOK
<1> HIDE DEF TypeOK
<1>2. Len(transcript[s]) \in Nat /\ DOMAIN made[s] = 1 .. Len(transcript[s])
      /\ DOMAIN transcript[s] = 1 .. Len(transcript[s])
  BY <1>1
<1>3. \A i \in 1 .. Len(transcript[s]) : made[s][i] \in 0 .. MaxGens
  <2>1. PICK S : S = 0 .. MaxGens
    OBVIOUS
  <2>2. made[s] \in Seq(S)
    BY <1>1, <2>1
  <2>3. \A i \in 1 .. Len(made[s]) : made[s][i] \in S
    BY <2>2
  <2> QED BY <1>1, <2>1, <2>3
<1> QED BY <1>1, <1>2, <1>3, Bounds

\* What a fingerprint is made of.
LEMMA SignatureType ==
  ASSUME TypeOK, NEW s \in Sessions
  PROVE  /\ Signature(s) \in Fingerprint /\ Signature(s) # None
         /\ DOMAIN Signature(s) = 1 .. Len(Signature(s)) /\ Len(Signature(s)) <= Len(transcript[s])
         /\ Len(Signature(s)) < SigWindow => Len(Signature(s)) = Len(transcript[s])
         /\ \A i \in DOMAIN Signature(s) : Signature(s)[i] = made[s][i]
<1> DEFINE w == Min2(Len(made[s]), SigWindow)
<1>1. w \in 0 .. SigWindow /\ w \in Nat /\ w <= Len(transcript[s])
      /\ (w < SigWindow => w = Len(transcript[s]))
  BY TranscriptType, Bounds DEF Min2
<1>2. Signature(s) = [i \in 1 .. w |-> made[s][i]]
  BY DEF Signature
<1> HIDE DEF w
<1>3. \A i \in 1 .. w : made[s][i] \in 0 .. MaxGens
  BY <1>1, TranscriptType
<1>4. Signature(s) \in [1 .. w -> 0 .. MaxGens]
  BY <1>2, <1>3
<1>5. Signature(s) \in Fingerprint
  BY <1>1, <1>4 DEF Fingerprint
<1>6. Len(Signature(s)) = w
  BY <1>1, <1>4
<1> QED BY <1>1, <1>2, <1>4, <1>5, <1>6, FingerprintType

-----------------------------------------------------------------------------
(* What keeps a cursor and a runner sound *)

\* What a fingerprint vouches for depends on its own transcript alone.
LEMMA VouchedKept ==
  ASSUME NEW s, made'[s] = made[s], gen'[s] = gen[s]
  PROVE  \A sig : /\ Whole(s, sig)' <=> Whole(s, sig)
                  /\ \A i : Vouched(s, sig, i)' <=> Vouched(s, sig, i)
BY DEF Whole, Vouched, Begins

LEMMA LostOfKept ==
  ASSUME NEW s, made'[s] = made[s], gen'[s] = gen[s], Lost' \subseteq Lost
  PROVE  \A sig : LostOf(s, sig)' \subseteq LostOf(s, sig)
BY VouchedKept DEF LostOf

\* A cursor that stays, of a transcript that stays, stays sound while nothing
\* becomes lost.
LEMMA SoundKept ==
  ASSUME NEW s, NEW sig, Sound(s, sig), Lost' \subseteq Lost,
         transcript'[s] = transcript[s], made'[s] = made[s], gen'[s] = gen[s],
         cursor'[s] = cursor[s]
  PROVE  Sound(s, sig)'
BY VouchedKept, LostOfKept DEF Sound

\* So does a runner that does not move.
LEMMA RunSoundKept ==
  ASSUME NEW q \in Runners, RunSound(q), run'[q] = run[q], Lost' \subseteq Lost,
         run[q].session \notin blind' => run[q].session \notin blind,
         LET s == run[q].session
         IN  s # None => /\ transcript'[s] = transcript[s] /\ made'[s] = made[s]
                         /\ gen'[s] = gen[s] /\ cursor'[s] = cursor[s]
  PROVE  RunSound(q)'
<1>0. PICK s, sig : s = run[q].session /\ sig = run[q].sig
  OBVIOUS
<1> SUFFICES ASSUME s # None, s \notin blind', run[q].pc # "reset"
             PROVE  /\ Sound(s, sig)'
                    /\ run[q].pc \in {"call", "enqueue", "keep", "advance"} =>
                         /\ Whole(s, sig) =>
                              cursor[s].offset <= run[q].to /\ run[q].to <= Len(transcript[s])
                         /\ \A u \in LostOf(s, sig) : u[1][3] <= run[q].to =>
                              run[q].pc # "advance" /\ u \in run[q].text \X run[q].left
  BY <1>0, VouchedKept, LostOfKept DEF RunSound
<1>1. Sound(s, sig)'
  BY <1>0, SoundKept DEF RunSound
<1> QED BY <1>0, <1>1 DEF RunSound

\* What has to be shown of a runner that moved.
LEMMA RunSoundAfter ==
  ASSUME NEW r \in Runners, NEW s, NEW n, NEW sig,
         s = run'[r].session, n = run'[r].to, sig = run'[r].sig,
         s # None /\ s \notin blind' /\ run'[r].pc # "reset" =>
           /\ Sound(s, sig)'
           /\ run'[r].pc \in {"call", "enqueue", "keep", "advance"} =>
                /\ Whole(s, sig)' => cursor'[s].offset <= n /\ n <= Len(transcript'[s])
                /\ \A u \in LostOf(s, sig)' : u[1][3] <= n =>
                     run'[r].pc # "advance" /\ u \in run'[r].text \X run'[r].left
  PROVE  RunSound(r)'
BY DEF RunSound

\* The fingerprint of a runner vouches for at least what its cursor's does.
LEMMA RunnerVouches ==
  ASSUME NEW s, NEW sig, NEW own, own \in {None, sig}
  PROVE  /\ Whole(s, own) => Whole(s, sig)
         /\ LostOf(s, own) \subseteq LostOf(s, sig)
         /\ Sound(s, sig) => Sound(s, own)
<1>1. Whole(s, own) => Whole(s, sig)
  BY DEF Whole
<1>2. LostOf(s, own) \subseteq LostOf(s, sig)
  BY <1>1 DEF LostOf, Vouched
<1> QED BY <1>1, <1>2 DEF Sound

-----------------------------------------------------------------------------
(* What keeps the copies of runners at retries *)

\* An entry that stays what it was stays what it was a copy of.
LEMMA CopyKept ==
  ASSUME NEW q \in Runners, NEW e, NEW f, CopyOf(q, e), f.text = e.text, f.phases = e.phases,
         run'[q].text = run[q].text, run'[q].took = run[q].took,
         \A u \in owed' : u[1] \in e.text \cup run[q].text => u \in owed
  PROVE  CopyOf(q, f)'
<1>1. f.text = run'[q].text \/ (f.text \X Phases) \cap owed' = {}
  <2>1. CASE e.text = run[q].text
    BY <2>1
  <2>2. CASE (e.text \X Phases) \cap owed = {}
    <3> SUFFICES ASSUME NEW u \in e.text \X Phases, u \in owed' PROVE FALSE
      OBVIOUS
    <3> QED BY <2>2
  <2> QED BY <2>1, <2>2 DEF CopyOf
<1>2. UnitsOf(f) \cap owed' = (run[q].text \X run[q].took) \cap owed'
  <2>1. UnitsOf(e) \cap owed = (run[q].text \X run[q].took) \cap owed
    BY DEF CopyOf
  <2>2. UnitsOf(f) = UnitsOf(e) /\ \A u \in UnitsOf(e) : u[1] \in e.text
    BY DEF UnitsOf
  <2>3. \A u \in run[q].text \X run[q].took : u[1] \in run[q].text
    OBVIOUS
  <2> QED BY <2>1, <2>2, <2>3
<1>3. UnitsOf(f)' = UnitsOf(f)
  BY DEF UnitsOf
<1> QED BY <1>1, <1>2, <1>3 DEF CopyOf

\* The retries go on as they were while the queue's entries keep what they
\* hold and nothing they could have is owed anew.
LEMMA RetriesKept ==
  ASSUME IInv,
         \A f \in queue' : \E e \in queue : e.id = f.id /\ e.text = f.text /\ e.phases = f.phases,
         \A u \in owed' : u \in owed \/ ~Written(u[1]),
         \A q \in Runners : run'[q].pc = "retry" =>
           /\ run[q].pc = "retry" /\ run'[q].entry = run[q].entry
           /\ run'[q].text = run[q].text /\ run'[q].took = run[q].took
           /\ run'[q].left \subseteq run[q].left
           /\ \/ run'[q].left = run[q].left
              \/ (run[q].text \X (run[q].took \ run'[q].left)) \cap owed' = {}
  PROVE  RetriesDone'
<1> SUFFICES ASSUME NEW q \in Runners, run'[q].pc = "retry"
             PROVE  /\ run'[q].left \subseteq run'[q].took
                    /\ (run'[q].text \X (run'[q].took \ run'[q].left)) \cap owed' = {}
                    /\ \A f \in queue' : f.id = run'[q].entry => CopyOf(q, f)'
  BY DEF RetriesDone
<1>1. /\ run[q].pc = "retry" /\ run'[q].entry = run[q].entry
      /\ run'[q].text = run[q].text /\ run'[q].took = run[q].took
      /\ run'[q].left \subseteq run[q].left
      /\ run[q].left \subseteq run[q].took
      /\ (run[q].text \X (run[q].took \ run[q].left)) \cap owed = {}
      /\ \A e \in queue : e.id = run[q].entry => CopyOf(q, e)
  BY DEF IInv, RetriesDone
<1>2. /\ \A m \in run[q].text : Written(m)
      /\ \A e \in queue : \A m \in e.text : Written(m)
  BY DEF IInv, TextsWritten
<1>3. (run[q].text \X (run[q].took \ run'[q].left)) \cap owed' = {}
  <2>1. CASE run'[q].left = run[q].left
    <3> SUFFICES ASSUME NEW u \in run[q].text \X (run[q].took \ run[q].left), u \in owed'
                 PROVE  FALSE
      BY <2>1
    <3>1. u \in owed
      BY <1>2
    <3> QED BY <1>1, <3>1
  <2>2. CASE run'[q].left # run[q].left
    BY <1>1, <2>2
  <2> QED BY <2>1, <2>2
<1>4. ASSUME NEW f \in queue', f.id = run'[q].entry PROVE CopyOf(q, f)'
  <2>1. PICK e \in queue : e.id = f.id /\ e.text = f.text /\ e.phases = f.phases
    OBVIOUS
  <2>2. CopyOf(q, e)
    BY <1>1, <1>4, <2>1
  <2>3. \A u \in owed' : u[1] \in e.text \cup run[q].text => u \in owed
    BY <1>2
  <2> QED BY <1>1, <2>1, <2>2, <2>3, CopyKept
<1> QED BY <1>1, <1>3, <1>4

-----------------------------------------------------------------------------
(* The steps of a runner *)

\* A step of one runner past its reset: what it has to show for the invariant.
LEMMA RunnerStep ==
  ASSUME IInv, NEW r \in Runners, TypeOK',
         transcript' = transcript, made' = made, gen' = gen, blind' = blind, jobs <= jobs',
         \A q \in Runners \ {r} : run'[q] = run[q],
         run'[r].session = run[r].session, run'[r].sig = run[r].sig,
         run[r].pc \notin {"idle", "reset"}, run'[r].pc \notin {"idle", "reset"},
         run'[r].pc \in Extracting => run[r].session # None,
         run'[r].pc = "enqueue" => run'[r].left # {},
         run'[r].pc = "retry" => run'[r].entry <= jobs',
         owed' \subseteq owed, Lost' \subseteq Lost,
         QueueOK', \A e \in queue' : \A m \in e.text : Written(m),
         \A m \in run'[r].text : Written(m), RetriesDone',
         \A t \in Sessions : t # run[r].session => cursor'[t] = cursor[t],
         run[r].session # None =>
           /\ cursor'[run[r].session].sig = cursor[run[r].session].sig
           /\ cursor'[run[r].session].runSize = cursor[run[r].session].runSize,
         RunSound(r)'
  PROVE  IInv'
<1> DEFINE s == run[r].session
<1>1. OwedIsThere'
  BY DEF IInv, OwedIsThere
<1>2. TextsWritten'
  BY DEF IInv, TextsWritten, Written
<1>3. \A t \in Sessions : cursor'[t].sig = cursor[t].sig /\ cursor'[t].runSize = cursor[t].runSize
  BY Bounds
<1>4. RunsWellFormed'
  <2>1. \A q \in Runners : run'[q].session = run[q].session /\ run'[q].sig = run[q].sig
    OBVIOUS
  <2>2. \A q \in Runners : run[q].session \in Sessions \cup {None}
    BY DEF IInv, TypeOK, Runner
  <2>3. ASSUME NEW q \in Runners
        PROVE /\ run'[q].pc = "idle" => run'[q].session = None
              /\ run'[q].pc \in {"reset"} \cup Extracting => run'[q].session # None
              /\ run'[q].pc = "enqueue" => run'[q].left # {}
              /\ run'[q].pc = "retry" => run'[q].entry <= jobs'
              /\ run'[q].session # None /\ run'[q].pc # "reset" =>
                   /\ run'[q].sig # None /\ Taken(run[q].session, run[q].sig)'
                   /\ cursor'[run'[q].session].sig \in {None, run'[q].sig}
    <3>1. CASE q = r
      <4>1. s # None => /\ run[r].sig # None /\ Taken(s, run[r].sig)
                        /\ cursor[s].sig \in {None, run[r].sig}
        BY DEF IInv, RunsWellFormed
      <4> QED BY <1>3, <2>2, <3>1, <4>1 DEF Taken
    <3>2. CASE q # r
      <4>1. run'[q] = run[q]
        BY <3>2
      <4>2. run[q].pc = "retry" => run[q].entry <= jobs'
        <5>1. run[q].entry \in Nat /\ jobs \in Nat /\ jobs' \in Nat
          BY Bounds DEF IInv, TypeOK, Runner
        <5> QED BY <5>1 DEF IInv, RunsWellFormed
      <4> QED BY <1>3, <2>2, <4>1, <4>2 DEF IInv, RunsWellFormed, Taken
    <3> QED BY <3>1, <3>2
  <2> QED BY <2>1, <2>3 DEF IInv, RunsWellFormed
<1>5. CursorsWellFormed'
  BY <1>3 DEF IInv, CursorsWellFormed, Taken
<1>6. \A q \in Runners : RunSound(q)'
  <2> SUFFICES ASSUME NEW q \in Runners, q # r PROVE RunSound(q)'
    OBVIOUS
  <2>1. run[q].session # None => run[q].session \in Sessions /\ run[q].session # s
    BY DEF IInv, TypeOK, Runner, RunsWellFormed
  <2> QED BY <2>1, RunSoundKept DEF IInv
<1>7. CursorsSound'
  <2> SUFFICES ASSUME NEW t \in Sessions, t \notin blind, NEW own, own = cursor[t].sig
               PROVE  Sound(t, own)'
    BY <1>3 DEF CursorsSound
  <2>1. CASE t # s
    <3>1. Sound(t, own)
      BY DEF IInv, CursorsSound
    <3> QED BY <2>1, <3>1, SoundKept
  <2>2. CASE t = s
    <3>1. PICK sig : sig = run[r].sig
      OBVIOUS
    <3>2. s # None /\ own \in {None, sig}
      BY <2>2, <3>1, Bounds DEF IInv, RunsWellFormed
    <3>3. Sound(t, sig)'
      BY <2>2, <3>1, <3>2 DEF RunSound
    <3>4. Whole(t, own)' => Whole(t, sig)'
      BY <3>2 DEF Whole
    <3>5. LostOf(t, own)' \subseteq LostOf(t, sig)'
      BY <3>2, <3>4 DEF LostOf, Vouched
    <3> QED BY <3>3, <3>4, <3>5 DEF Sound
  <2> QED BY <2>1, <2>2
<1> QED BY <1>1, <1>2, <1>4, <1>5, <1>6, <1>7 DEF IInv

\* The other runners stay as they are.
LEMMA RunMoved ==
  ASSUME run \in [Runners -> Runner], NEW r \in Runners, NEW x \in Runner,
         run' = [run EXCEPT ![r] = x]
  PROVE  run' \in [Runners -> Runner] /\ run'[r] = x /\ \A q \in Runners \ {r} : run'[q] = run[q]
OBVIOUS

\* A runner past its reset that has a session works for one of the sessions.
LEMMA RunnerFacts ==
  ASSUME IInv, NEW r \in Runners
  PROVE  /\ run \in [Runners -> Runner] /\ run[r] \in Runner
         /\ run[r].pc \in {"reset"} \cup Extracting => run[r].session \in Sessions
         /\ \A m \in run[r].text : Written(m)
BY DEF IInv, TypeOK, RunsWellFormed, TextsWritten, Runner

\* The new part is read, and consumed, skipped or handed to the model.
LEMMA ReadNewStep ==
  ASSUME IInv, NEW r \in Runners, NEW final \in BOOLEAN, ReadNew(r, final)
  PROVE  IInv'
<1>a. run[r].pc = "digest" /\ run[r].session \in Sessions
  <2>1. run[r].pc = "digest"
    BY DEF ReadNew
  <2> QED BY <2>1, RunnerFacts DEF Extracting
<1>b. PICK s \in Sessions : s = run[r].session
  BY <1>a
<1>c. PICK end : end = Len(transcript[s])
  OBVIOUS
<1> DEFINE seg == Digest(s, cursor[s].offset)
<1>1. /\ run[r].pc = "digest" /\ run[r] \in Runner /\ run[r].session = s /\ s # None
      /\ cursor[s] \in Cursor /\ run[r].sig # None
  BY <1>a, <1>b, Bounds DEF IInv, TypeOK, RunsWellFormed
<1>2. end \in 0 .. MaxLen /\ Messages(s, seg) \subseteq Message
      /\ \A m \in Messages(s, seg) : Written(m)
  <2>1. end \in Nat /\ end <= MaxLen /\ gen[s] \in Nat
        /\ \A i \in 1 .. end : made[s][i] \in 0 .. MaxGens /\ made[s][i] \in Nat /\ made[s][i] <= gen[s]
    BY <1>c, TranscriptType DEF IInv
  <2>2. cursor[s].offset \in Nat
    BY <1>1, Bounds DEF Cursor
  <2>3. seg \subseteq 1 .. end
    BY <1>c, <2>1, <2>2 DEF Digest
  <2> HIDE DEF seg
  <2>4. \A i \in seg : i \in 1 .. MaxLen /\ i \in 1 .. end
    BY <2>1, <2>3, Bounds
  <2>5. \A i \in seg : <<s, made[s][i], i>> \in Message
    BY <1>1, <2>1, <2>4 DEF Message
  <2>6. \A i \in seg : Written(<<s, made[s][i], i>>)
    BY <1>c, <2>1, <2>4 DEF Written
  <2> QED BY <2>1, <2>5, <2>6, Bounds DEF Messages
\* What the step may do, branch by branch.
<1>3. \/ \E why \in {"disabled", "other", "unavailable"} :
           run' = [run EXCEPT ![r].pc = "claim", ![r].skip = why] /\ owed' = owed
      \/ /\ run' = [run EXCEPT ![r].pc = "advance", ![r].skip = "other", ![r].to = end]
         /\ (seg = {} /\ owed' = owed) \/ owed' = owed \ (Messages(s, seg) \X Phases)
      \/ /\ run' = [run EXCEPT ![r].pc = "call", ![r].to = end,
                               ![r].text = Messages(s, seg),
                               ![r].left = Phases \ DonePhases(cursor[s], end)]
         /\ owed' = owed
  BY <1>1, <1>c DEF ReadNew
<1>4. /\ transcript' = transcript /\ made' = made /\ gen' = gen /\ cursor' = cursor /\ queue' = queue /\ jobs' = jobs
      /\ mishaps' = mishaps /\ blind' = blind
  BY DEF ReadNew, files
<1>5. owed' \subseteq owed /\ Lost' \subseteq Lost
  BY <1>3, <1>4 DEF Lost, Pending
\* What is not yet covered by the cursor is in the part that was read.
<1>d. PICK sig : sig = run[r].sig
  OBVIOUS
<1>6. ASSUME s \notin blind
      PROVE  /\ Sound(s, sig) /\ (Whole(s, sig) => cursor[s].offset <= end)
             /\ \A u \in LostOf(s, sig) : u[1][3] <= end =>
                  /\ u[1] \in Messages(s, seg) /\ u[2] \in Phases
                  /\ u[2] \notin DonePhases(cursor[s], end)
  <2>1. Sound(s, sig)
    BY <1>1, <1>6, <1>d DEF IInv, RunSound
  <2>2. cursor[s].offset \in Nat /\ end \in Nat
    BY <1>1, <1>2, Bounds DEF Cursor
  <2>3. ASSUME NEW u \in LostOf(s, sig), u[1][3] <= end
        PROVE  u[1] \in Messages(s, seg) /\ u[2] \in Phases /\ u[2] \notin DonePhases(cursor[s], end)
    <3>1. u \in owed /\ u[1][1] = s
      BY DEF LostOf, Lost
    <3>2. u \in Message \X Phases
      BY <3>1 DEF IInv, TypeOK
    <3>3. u[1] \in Message /\ u[2] \in Phases /\ u[1] = <<s, u[1][2], u[1][3]>> /\ u[1][3] \in Nat \ {0}
      BY <3>1, <3>2, Bounds DEF Message
    <3>4. u[1][2] = made[s][u[1][3]] /\ transcript[s][u[1][3]] # "noise"
      BY <3>1 DEF IInv, OwedIsThere
    <3>5. u[1][3] > cursor[s].offset
      BY <2>1 DEF Sound
    <3>6. u[1][3] \in seg
      BY <1>c, <2>2, <2>3, <3>3, <3>4, <3>5 DEF Digest
    <3>7. u[1] \in Messages(s, seg)
      BY <3>3, <3>4, <3>6 DEF Messages
    <3>8. cursor[s].end = end => u[2] \notin cursor[s].done
      BY <2>1, <2>3 DEF Sound
    <3> QED BY <3>3, <3>7, <3>8 DEF DonePhases
  <2>4. Whole(s, sig) => cursor[s].offset <= end
    BY <1>c, <2>1 DEF Sound
  <2> QED BY <2>1, <2>3, <2>4
<1> HIDE DEF seg
<1>7. /\ run' \in [Runners -> Runner] /\ \A q \in Runners \ {r} : run'[q] = run[q]
      /\ run'[r].session = run[r].session /\ run'[r].sig = run[r].sig
      /\ run'[r].pc \in {"claim", "advance", "call"}
      /\ \A m \in run'[r].text : Written(m)
      /\ run'[r].pc = "advance" => /\ run'[r].to = end
                                  /\ (seg = {} \/ owed' = owed \ (Messages(s, seg) \X Phases))
      /\ run'[r].pc = "call" => /\ run'[r].to = end /\ run'[r].text = Messages(s, seg)
                               /\ run'[r].left = Phases \ DonePhases(cursor[s], end)
  <2>0. run \in [Runners -> Runner] /\ \A m \in run[r].text : Written(m)
    BY DEF IInv, TypeOK, TextsWritten
  <2>1. CASE \E why \in {"disabled", "other", "unavailable"} :
               run' = [run EXCEPT ![r].pc = "claim", ![r].skip = why]
    <3>1. PICK why \in {"disabled", "other", "unavailable"} :
               run' = [run EXCEPT ![r] = [run[r] EXCEPT !.pc = "claim", !.skip = why]]
      BY <2>1
    <3>2. [run[r] EXCEPT !.pc = "claim", !.skip = why] \in Runner
      BY <1>1 DEF Runner
    <3>3. run'[r] = [run[r] EXCEPT !.pc = "claim", !.skip = why]
      BY <2>0, <3>1
    <3>4. /\ run'[r].session = run[r].session /\ run'[r].sig = run[r].sig
          /\ run'[r].pc = "claim" /\ run'[r].text = run[r].text
      BY <1>1, <3>3 DEF Runner
    <3>5. run' \in [Runners -> Runner] /\ \A q \in Runners \ {r} : run'[q] = run[q]
      BY <2>0, <3>1, <3>2
    <3> QED BY <2>0, <3>4, <3>5
  <2>2. CASE /\ run' = [run EXCEPT ![r].pc = "advance", ![r].skip = "other", ![r].to = end]
             /\ (seg = {} /\ owed' = owed) \/ owed' = owed \ (Messages(s, seg) \X Phases)
    <3> DEFINE x == [run[r] EXCEPT !.pc = "advance", !.skip = "other", !.to = end]
    <3>1. x \in Runner /\ x.session = run[r].session /\ x.sig = run[r].sig
          /\ x.pc = "advance" /\ x.text = run[r].text /\ x.to = end
      BY <1>1, <1>2 DEF Runner
    <3>2. run' = [run EXCEPT ![r] = x]
      BY <2>2
    <3> HIDE DEF x
    <3>3. run' \in [Runners -> Runner] /\ run'[r] = x /\ \A q \in Runners \ {r} : run'[q] = run[q]
      BY <2>0, <3>1, <3>2
    <3> QED BY <2>0, <2>2, <3>1, <3>3
  <2>3. CASE run' = [run EXCEPT ![r].pc = "call", ![r].to = end,
                               ![r].text = Messages(s, seg),
                               ![r].left = Phases \ DonePhases(cursor[s], end)]
    <3> DEFINE x == [run[r] EXCEPT !.pc = "call", !.to = end, !.text = Messages(s, seg),
                                   !.left = Phases \ DonePhases(cursor[s], end)]
    <3>1. x \in Runner /\ x.session = run[r].session /\ x.sig = run[r].sig
          /\ x.pc = "call" /\ x.text = Messages(s, seg) /\ x.to = end
          /\ x.left = Phases \ DonePhases(cursor[s], end)
      BY <1>1, <1>2 DEF Runner
    <3>2. run' = [run EXCEPT ![r] = x]
      BY <2>3
    <3> HIDE DEF x
    <3>3. run' \in [Runners -> Runner] /\ run'[r] = x /\ \A q \in Runners \ {r} : run'[q] = run[q]
      BY <2>0, <3>1, <3>2
    <3> QED BY <1>2, <3>1, <3>3
  <2> QED BY <1>3, <2>1, <2>2, <2>3
<1>8. TypeOK'
  BY <1>4, <1>5, <1>7 DEF IInv, TypeOK
<1>9. QueueOK' /\ \A e \in queue' : \A m \in e.text : Written(m)
  BY <1>4 DEF IInv, QueueOK, TextsWritten
<1>10. RunSound(r)'
  <2>1. PICK n : n = run'[r].to
    OBVIOUS
  <2> SUFFICES ASSUME s \notin blind
               PROVE  /\ Sound(s, sig)'
                      /\ run'[r].pc \in {"call", "advance"} =>
                           /\ Whole(s, sig) => cursor[s].offset <= n /\ n <= Len(transcript[s])
                           /\ \A u \in LostOf(s, sig)' : u[1][3] <= n =>
                                run'[r].pc # "advance" /\ u \in run'[r].text \X run'[r].left
    BY <1>1, <1>4, <1>7, <1>d, <2>1, RunSoundAfter, VouchedKept
  <2>2. /\ Sound(s, sig) /\ (Whole(s, sig) => cursor[s].offset <= end)
        /\ \A u \in LostOf(s, sig) : u[1][3] <= end =>
             /\ u[1] \in Messages(s, seg) /\ u[2] \in Phases
             /\ u[2] \notin DonePhases(cursor[s], end)
    BY <1>6
  <2>3. Sound(s, sig)'
    BY <1>4, <1>5, <2>2, SoundKept
  <2>4. end <= Len(transcript[s])
    BY <1>2, <1>c
  <2>5. ASSUME NEW u \in LostOf(s, sig)', u[1][3] <= end
        PROVE  /\ u[1] \in Messages(s, seg) /\ u[2] \in Phases \ DonePhases(cursor[s], end)
               /\ u = <<u[1], u[2]>> /\ u \in owed'
    <3>1. u \in LostOf(s, sig) /\ u \in owed'
      BY <1>4, <1>5, LostOfKept DEF LostOf, Lost
    <3>2. u \in owed /\ u \in Message \X Phases
      BY <3>1 DEF LostOf, Lost, IInv, TypeOK
    <3> QED BY <2>2, <2>5, <3>1, <3>2
  <2>6. CASE run'[r].pc = "advance"
    <3>1. ASSUME NEW u \in LostOf(s, sig)', u[1][3] <= end PROVE FALSE
      <4>1. u[1] \in Messages(s, seg) /\ u[2] \in Phases /\ u = <<u[1], u[2]>> /\ u \in owed'
        BY <2>5, <3>1
      <4> QED BY <1>7, <2>6, <4>1 DEF Messages
    <3> QED BY <1>7, <2>1, <2>2, <2>3, <2>4, <2>6, <3>1
  <2>7. CASE run'[r].pc = "call"
    <3>1. \A u \in LostOf(s, sig)' : u[1][3] <= end =>
            u \in Messages(s, seg) \X (Phases \ DonePhases(cursor[s], end))
      BY <2>5
    <3> QED BY <1>7, <2>1, <2>2, <2>3, <2>4, <2>7, <3>1
  <2>8. CASE run'[r].pc = "claim"
    BY <2>3, <2>8
  <2> QED BY <1>7, <2>6, <2>7, <2>8
<1>11. RetriesDone'
  BY <1>1, <1>4, <1>5, <1>7, RetriesKept
<1>12. jobs <= jobs'
  BY <1>4, Bounds DEF IInv, TypeOK
<1> QED BY <1>1, <1>4, <1>5, <1>7, <1>8, <1>9, <1>10, <1>11, <1>12, RunnerStep

\* A model call succeeds: what was sent is not owed in that phase.
LEMMA CallPhaseStep ==
  ASSUME IInv, NEW r \in Runners, NEW ph \in Phases, CallPhase(r, ph)
  PROVE  IInv'
<1>0. PICK s : s = run[r].session
  OBVIOUS
<1> DEFINE x == [run[r] EXCEPT !.left = @ \ {ph}]
<1>1. /\ run[r].pc \in {"call", "retry"} /\ run' = [run EXCEPT ![r] = x]
      /\ owed' = owed \ (run[r].text \X {ph})
      /\ transcript' = transcript /\ made' = made /\ gen' = gen /\ cursor' = cursor /\ queue' = queue /\ jobs' = jobs
      /\ mishaps' = mishaps /\ blind' = blind
  BY DEF CallPhase, files
<1>2. /\ x \in Runner /\ x.session = run[r].session /\ x.sig = run[r].sig
      /\ x.pc = run[r].pc /\ x.text = run[r].text /\ x.to = run[r].to
      /\ x.left = run[r].left \ {ph} /\ x.took = run[r].took /\ x.entry = run[r].entry
  BY RunnerFacts DEF Runner
<1> HIDE DEF x
<1>3. run' \in [Runners -> Runner] /\ run'[r] = x /\ \A q \in Runners \ {r} : run'[q] = run[q]
  BY <1>1, <1>2, RunMoved, RunnerFacts
<1>4. owed' \subseteq owed /\ Lost' \subseteq Lost
  BY <1>1 DEF Lost, Pending
<1>5. TypeOK'
  BY <1>1, <1>3, <1>4 DEF IInv, TypeOK
<1>6. QueueOK' /\ \A e \in queue' : \A m \in e.text : Written(m)
  BY <1>1 DEF IInv, QueueOK, TextsWritten
<1>7. RetriesDone'
  <2> SUFFICES ASSUME run[r].pc = "retry"
               PROVE  (run[r].text \X (run[r].took \ x.left)) \cap owed' = {}
    BY <1>1, <1>2, <1>3, <1>4, RetriesKept
  <2> SUFFICES ASSUME NEW u \in run[r].text \X (run[r].took \ (run[r].left \ {ph})), u \in owed'
               PROVE  FALSE
    BY <1>2
  <2>1. u \in run[r].text \X (run[r].took \ run[r].left)
    BY <1>1
  <2> QED BY <1>4, <2>1 DEF IInv, RetriesDone
<1>8. RunSound(r)'
  <2>1. PICK n, sig : n = run[r].to /\ sig = run[r].sig
    OBVIOUS
  <2> SUFFICES ASSUME s # None, s \notin blind
               PROVE  /\ Sound(s, sig)'
                      /\ run[r].pc = "call" =>
                           /\ Whole(s, sig) => cursor[s].offset <= n /\ n <= Len(transcript[s])
                           /\ \A u \in LostOf(s, sig)' : u[1][3] <= n =>
                                u \in run[r].text \X (run[r].left \ {ph})
    BY <1>0, <1>1, <1>2, <1>3, <2>1, RunSoundAfter, VouchedKept
  <2>2. Sound(s, sig) /\ Sound(s, sig)'
    BY <1>0, <1>1, <1>4, <2>1, SoundKept DEF IInv, RunSound
  <2>3. run[r].pc = "call" =>
          /\ Whole(s, sig) => cursor[s].offset <= n /\ n <= Len(transcript[s])
          /\ \A u \in LostOf(s, sig) : u[1][3] <= n => u \in run[r].text \X run[r].left
    BY <1>0, <2>1 DEF IInv, RunSound
  <2>4. ASSUME run[r].pc = "call", NEW u \in LostOf(s, sig)', u[1][3] <= n
        PROVE  u \in run[r].text \X (run[r].left \ {ph})
    <3>1. u \in LostOf(s, sig) /\ u \in owed'
      BY <1>1, <1>4, LostOfKept DEF LostOf, Lost
    <3>2. u \in run[r].text \X run[r].left
      BY <2>3, <2>4, <3>1
    <3>3. u \notin run[r].text \X {ph}
      BY <1>1, <3>1
    <3> QED BY <3>2, <3>3
  <2> QED BY <2>2, <2>3, <2>4
<1>9. x.pc \in Extracting => run[r].session # None
  BY <1>2, RunnerFacts, Bounds
<1>10. x.pc # "enqueue" /\ run[r].pc \notin {"idle", "reset"}
  BY <1>1, <1>2
<1>11. \A m \in x.text : Written(m)
  BY <1>2, RunnerFacts
<1>12. jobs <= jobs' /\ (x.pc = "retry" => x.entry <= jobs')
  <2>1. jobs' = jobs /\ jobs \in Nat
    BY <1>1, Bounds DEF IInv, TypeOK
  <2> QED BY <1>2, <2>1 DEF IInv, RunsWellFormed
<1> QED BY <1>1, <1>2, <1>3, <1>4, <1>5, <1>6, <1>7, <1>8, <1>9, <1>10, <1>11, <1>12, RunnerStep

\* The calls have ended, with every phase through or with some left.
LEMMA CalledStep ==
  ASSUME IInv, NEW r \in Runners, Called(r)
  PROVE  IInv'
<1>0. PICK s : s = run[r].session
  OBVIOUS
<1>1. /\ run[r].pc = "call"
      /\ transcript' = transcript /\ made' = made /\ gen' = gen /\ cursor' = cursor /\ queue' = queue /\ jobs' = jobs
      /\ owed' = owed /\ mishaps' = mishaps /\ blind' = blind
  BY DEF Called, files, history
<1>2. PICK x \in Runner :
         /\ run' = [run EXCEPT ![r] = x]
         /\ x.session = run[r].session /\ x.sig = run[r].sig
         /\ x.text = run[r].text /\ x.to = run[r].to /\ x.left = run[r].left
         /\ \/ x.pc = "advance" /\ run[r].left = {}
            \/ x.pc \in {"enqueue", "keep"} /\ run[r].left # {}
  <2>1. CASE run[r].left = {}
    <3> DEFINE x == [run[r] EXCEPT !.pc = "advance"]
    <3>1. run' = [run EXCEPT ![r] = x]
      BY <2>1 DEF Called, Goto
    <3>2. /\ x \in Runner /\ x.session = run[r].session /\ x.sig = run[r].sig
          /\ x.text = run[r].text /\ x.to = run[r].to /\ x.left = run[r].left /\ x.pc = "advance"
      BY RunnerFacts DEF Runner
    <3> HIDE DEF x
    <3> QED BY <2>1, <3>1, <3>2
  <2>2. CASE run[r].left # {}
    <3> DEFINE x == [run[r] EXCEPT !.pc = "enqueue"]
               y == [run[r] EXCEPT !.pc = "keep", !.skip = "unavailable"]
    <3>1. run' = [run EXCEPT ![r] = x] \/ run' = [run EXCEPT ![r] = y]
      BY <2>2 DEF Called, Goto
    <3>2. /\ x \in Runner /\ x.session = run[r].session /\ x.sig = run[r].sig
          /\ x.text = run[r].text /\ x.to = run[r].to /\ x.left = run[r].left /\ x.pc = "enqueue"
      BY RunnerFacts DEF Runner
    <3>3. /\ y \in Runner /\ y.session = run[r].session /\ y.sig = run[r].sig
          /\ y.text = run[r].text /\ y.to = run[r].to /\ y.left = run[r].left /\ y.pc = "keep"
      <4>1. run[r] \in Runner
        BY RunnerFacts
      <4> QED BY <4>1 DEF Runner
    <3> HIDE DEF x, y
    <3> QED BY <2>2, <3>1, <3>2, <3>3
  <2> QED BY <2>1, <2>2
<1>3. run' \in [Runners -> Runner] /\ run'[r] = x /\ \A q \in Runners \ {r} : run'[q] = run[q]
  BY <1>2, RunMoved, RunnerFacts
<1>4. Lost' = Lost
  BY <1>1 DEF Lost, Pending
<1>5. TypeOK'
  BY <1>1, <1>3 DEF IInv, TypeOK
<1>6. QueueOK' /\ \A e \in queue' : \A m \in e.text : Written(m)
  BY <1>1 DEF IInv, QueueOK, TextsWritten
<1>7. RunSound(r)'
  <2>1. PICK n, sig : n = run[r].to /\ sig = run[r].sig
    OBVIOUS
  <2> SUFFICES ASSUME s # None, s \notin blind
               PROVE  /\ Sound(s, sig)'
                      /\ Whole(s, sig) => cursor[s].offset <= n /\ n <= Len(transcript[s])
                      /\ \A u \in LostOf(s, sig)' : u[1][3] <= n =>
                           x.pc # "advance" /\ u \in run[r].text \X run[r].left
    BY <1>0, <1>1, <1>2, <1>3, <2>1, RunSoundAfter, VouchedKept
  <2>2. Sound(s, sig) /\ Sound(s, sig)'
    BY <1>0, <1>1, <1>4, <2>1, SoundKept DEF IInv, RunSound
  <2>3. /\ Whole(s, sig) => cursor[s].offset <= n /\ n <= Len(transcript[s])
        /\ \A u \in LostOf(s, sig) : u[1][3] <= n => u \in run[r].text \X run[r].left
    BY <1>0, <1>1, <2>1 DEF IInv, RunSound
  <2>4. LostOf(s, sig)' \subseteq LostOf(s, sig)
    BY <1>1, <1>4, LostOfKept
  <2> QED BY <1>2, <2>2, <2>3, <2>4
<1>8. run[r].session # None
  BY <1>1, RunnerFacts, Bounds DEF Extracting
<1>9. \A m \in x.text : Written(m)
  BY <1>2, RunnerFacts
<1>10. x.pc \notin {"idle", "reset", "retry"} /\ (x.pc = "enqueue" => x.left # {})
  BY <1>2
<1>11. RetriesDone' /\ jobs <= jobs'
  <2>1. jobs' = jobs /\ jobs \in Nat
    BY <1>1, Bounds DEF IInv, TypeOK
  <2>2. RetriesDone'
    BY <1>1, <1>3, <1>10, RetriesKept
  <2> QED BY <2>1, <2>2
<1> QED BY <1>1, <1>2, <1>3, <1>4, <1>5, <1>6, <1>7, <1>8, <1>9, <1>10, <1>11, RunnerStep

\* The phases left are queued with the text, or given up with an event: the
\* section that was read is covered before the cursor moves over it, and a
\* runner whose entry is merged under its eyes holds nothing that is owed.
LEMMA EnqueueRestStep ==
  ASSUME IInv, NEW r \in Runners, EnqueueRest(r)
  PROVE  IInv'
<1>0. PICK s \in Sessions : s = run[r].session
  BY RunnerFacts DEF EnqueueRest, Extracting
<1>a. PICK text, left : text = run[r].text /\ left = run[r].left
  OBVIOUS
<1> DEFINE x     == [run[r] EXCEPT !.pc = "advance"]
           fresh == queue \ Aged(queue)
           added == Added(queue, jobs + 1, s, text, left)
           gone  == Aged(queue) \cup (added \ Trim(added))
           under == OfSession(fresh, s)
           over  == UNION {UnitsOf(e) \ UnitsOf(Merge(e, text, left)) : e \in under}
           bare  == IF \E e \in under : Held(e) THEN text \X Phases ELSE {}
<1>1. /\ run[r].pc = "enqueue" /\ run' = [run EXCEPT ![r] = x]
      /\ jobs < MaxJobs /\ jobs' = jobs + 1 /\ queue' = Trim(added)
      /\ owed' = owed \ ((UNION {UnitsOf(e) : e \in gone}) \cup over \cup bare)
      /\ transcript' = transcript /\ made' = made /\ gen' = gen /\ cursor' = cursor
      /\ mishaps' = mishaps /\ blind' = blind
  BY <1>0, <1>a DEF EnqueueRest, Goto
<1>2. /\ x \in Runner /\ x.session = run[r].session /\ x.sig = run[r].sig
      /\ x.pc = "advance" /\ x.text = text /\ x.to = run[r].to /\ x.left = left
  BY <1>a, RunnerFacts DEF Runner
<1>3. /\ text \in SUBSET Message /\ left \in (SUBSET Phases) \ {{}} /\ \A m \in text : Written(m)
      /\ jobs \in Nat /\ jobs + 1 \in 1 .. MaxJobs
  <2>1. jobs \in Nat
    BY Bounds DEF IInv, TypeOK
  <2> QED BY <1>1, <1>a, <2>1, RunnerFacts, Bounds DEF Runner, IInv, RunsWellFormed
<1> HIDE DEF x
<1>4. run' \in [Runners -> Runner] /\ run'[r] = x /\ \A q \in Runners \ {r} : run'[q] = run[q]
  BY <1>1, <1>2, RunMoved, RunnerFacts
\* The entries after the job is added.
<1>b. PICK ids, texts : ids = 1 .. jobs + 1 /\ texts = SUBSET Message
  OBVIOUS
<1>c. ids \in SUBSET Nat /\ jobs + 1 \in ids /\ text \in texts
  BY <1>3, <1>b
<1> DEFINE E == Entries(ids, Sessions, texts, Phases)
<1>5. /\ queue \in SUBSET E /\ OnePerSession(queue) /\ IsFiniteSet(queue)
      /\ \A e \in queue : e.id # jobs + 1
  <2>1. \A e \in queue : e.id <= jobs /\ e.id \in Nat \ {0}
    BY Bounds DEF IInv, QueueOK, TypeOK, Entries
  <2> QED BY <1>3, <1>b, <2>1 DEF IInv, QueueOK, TypeOK, Entries
<1>6. added \subseteq E /\ OnePerSession(added) /\ IsFiniteSet(added)
  BY <1>3, <1>c, <1>5, AddedShape
<1>7. /\ fresh \ added \subseteq under
      /\ \A e \in under : Merge(e, text, left) \in added
      /\ \A e \in added : \/ e \in fresh
                          \/ \E same \in under :
                               /\ e.id = same.id /\ e.text = text
                               /\ e.phases = same.phases \cup left /\ e = Merge(same, text, left)
                          \/ e.id = jobs + 1 /\ e.text = text
      /\ \E e \in added : e.text = text /\ left \subseteq e.phases
  <2>1. ASSUME NEW same \in fresh, under = {same},
               added = (fresh \ {same}) \cup {Merge(same, text, left)}
        PROVE  <1>7!1 /\ <1>7!2 /\ <1>7!3 /\ <1>7!4
    <3>1. same \in Entries(ids, Sessions, texts, Phases) /\ left \in SUBSET Phases
      BY <1>3, <1>5
    <3>2. /\ Merge(same, text, left).text = text /\ Merge(same, text, left).id = same.id
          /\ Merge(same, text, left).phases = same.phases \cup left
      BY <1>c, <3>1, MergeType
    <3> HIDE DEF added, fresh, under
    <3> QED BY <2>1, <3>2
  <2>2. ASSUME under = {}, added = fresh \cup {NewEntry(jobs + 1, s, text, left)}
        PROVE  <1>7!1 /\ <1>7!2 /\ <1>7!3 /\ <1>7!4
    <3>1. /\ NewEntry(jobs + 1, s, text, left).text = text
          /\ NewEntry(jobs + 1, s, text, left).id = jobs + 1
          /\ NewEntry(jobs + 1, s, text, left).phases = left
      BY DEF NewEntry
    <3> HIDE DEF added, fresh, under
    <3> QED BY <2>2, <3>1
  <2> QED BY <1>c, <1>5, <2>1, <2>2, AddedCases
<1>15. /\ fresh \subseteq queue /\ queue \subseteq fresh \cup Aged(queue)
       /\ under \subseteq fresh /\ added \ Trim(added) \subseteq gone /\ Aged(queue) \subseteq gone
  BY DEF OfSession
<1> HIDE DEF added, fresh, under, gone
<1>8. queue' \subseteq added /\ IsFiniteSet(queue') /\ OnePerSession(queue')
  <2>1. \A e \in added : e.id \in Nat
    BY <1>3, <1>b, <1>6 DEF Entries
  <2>2. Trim(added) \subseteq added /\ IsFiniteSet(Trim(added))
    BY <1>6, <2>1, TrimBound
  <2> QED BY <1>1, <1>6, <2>2 DEF OnePerSession
<1>18. ASSUME NEW u \in owed'
       PROVE  /\ u \in owed /\ \A f \in gone : u \notin UnitsOf(f)
              /\ \A e \in under : u \in UnitsOf(e) => u \in UnitsOf(Merge(e, text, left))
              /\ (\E e \in under : Held(e)) => u \notin text \X Phases
  <2> DEFINE lost == UNION {UnitsOf(e) : e \in gone}
  <2>1. /\ u \in owed /\ u \notin lost /\ u \notin over /\ u \notin bare
    <3>1. owed' = owed \ (lost \cup over \cup bare)
      BY <1>1
    <3> HIDE DEF lost, over, bare
    <3> QED BY <3>1
  <2>2. \A f \in gone : u \notin UnitsOf(f)
    BY <2>1
  <2>3. \A e \in under : u \in UnitsOf(e) => u \in UnitsOf(Merge(e, text, left))
    BY <2>1
  <2>4. (\E e \in under : Held(e)) => u \notin text \X Phases
    BY <2>1
  <2> QED BY <2>1, <2>2, <2>3, <2>4
<1> HIDE DEF over, bare
<1>9. owed' \subseteq owed
  BY <1>1
\* A unit that was queued is queued still, or not counted any more.
<1>10. Lost' \subseteq Lost
  <2> SUFFICES ASSUME NEW u \in owed', u \notin Pending', NEW e \in queue, u \in UnitsOf(e)
               PROVE  FALSE
    BY <1>9 DEF Lost, Pending
  <2>1. \A f \in gone : u \notin UnitsOf(f)
    BY <1>18
  <2>2. \A f \in Trim(added) : u \notin UnitsOf(f)
    BY <1>1 DEF Pending, UnitsOf
  <2>3. \A f \in added : u \notin UnitsOf(f)
    BY <1>15, <2>1, <2>2
  <2>4. e \in under
    BY <1>7, <1>15, <2>1, <2>3
  <2> QED BY <1>7, <1>18, <2>3, <2>4
<1>11. TypeOK'
  <2>1. queue' \subseteq Entries(1 .. MaxJobs, Sessions, SUBSET Message, Phases)
    BY <1>3, <1>b, <1>6, <1>8, Bounds DEF Entries
  <2>2. jobs' \in 0 .. MaxJobs
    BY <1>1, <1>3, Bounds
  <2> QED BY <1>1, <1>4, <1>9, <2>1, <2>2 DEF IInv, TypeOK
<1>12. QueueOK' /\ \A e \in queue' : \A m \in e.text : Written(m)
  <2>1. \A e \in queue' : e.id <= jobs + 1
    BY <1>3, <1>b, <1>6, <1>8 DEF Entries
  <2>2. \A e \in queue' : \A m \in e.text : Written(m)
    BY <1>3, <1>7, <1>8, <1>15 DEF IInv, TextsWritten
  <2> QED BY <1>1, <1>8, <2>1, <2>2 DEF QueueOK
<1>13. RunSound(r)'
  <2>1. PICK n, sig : n = run[r].to /\ sig = run[r].sig
    OBVIOUS
  <2> SUFFICES ASSUME s # None, s \notin blind
               PROVE  /\ Sound(s, sig)'
                      /\ Whole(s, sig) => cursor[s].offset <= n /\ n <= Len(transcript[s])
                      /\ \A u \in LostOf(s, sig)' : u[1][3] <= n => FALSE
    BY <1>0, <1>1, <1>2, <1>4, <2>1, RunSoundAfter, VouchedKept
  <2>2. Sound(s, sig) /\ Sound(s, sig)'
    BY <1>0, <1>1, <1>10, <2>1, SoundKept DEF IInv, RunSound
  <2>3. /\ Whole(s, sig) => cursor[s].offset <= n /\ n <= Len(transcript[s])
        /\ \A u \in LostOf(s, sig) : u[1][3] <= n => u \in text \X left
    BY <1>0, <1>1, <1>a, <2>1 DEF IInv, RunSound
  <2>4. ASSUME NEW u \in LostOf(s, sig)', u[1][3] <= n PROVE FALSE
    <3>1. u \in text \X left
      BY <1>1, <1>10, <2>3, <2>4, LostOfKept
    <3>2. PICK e \in added : e.text = text /\ left \subseteq e.phases
      BY <1>7
    <3>3. u \in UnitsOf(e) /\ u \in owed' /\ u \notin Pending'
      BY <3>1, <3>2 DEF UnitsOf, LostOf, Lost
    <3>4. CASE e \in Trim(added)
      BY <1>1, <3>3, <3>4 DEF Pending, UnitsOf
    <3>5. CASE e \notin Trim(added)
      BY <1>15, <1>18, <3>2, <3>3, <3>5
    <3> QED BY <3>4, <3>5
  <2> QED BY <2>2, <2>3, <2>4
\* A runner at a retry keeps its copy, or what it is a copy of is exposed.
<1>16. RetriesDone'
  <2> SUFFICES ASSUME NEW q \in Runners \ {r}, run[q].pc = "retry"
               PROVE  /\ run[q].left \subseteq run[q].took
                      /\ (run[q].text \X (run[q].took \ run[q].left)) \cap owed' = {}
                      /\ \A f \in queue' : f.id = run[q].entry => CopyOf(q, f)'
    BY <1>2, <1>4 DEF RetriesDone
  <2>1. /\ run[q].left \subseteq run[q].took
        /\ (run[q].text \X (run[q].took \ run[q].left)) \cap owed = {}
        /\ \A e \in queue : e.id = run[q].entry => CopyOf(q, e)
        /\ run[q].entry <= jobs /\ run[q].entry \in Nat
    BY RunnerFacts, Bounds DEF IInv, RetriesDone, RunsWellFormed, Runner
  <2>2. (run[q].text \X (run[q].took \ run[q].left)) \cap owed' = {}
    BY <1>9, <2>1
  <2>3. ASSUME NEW f \in added, f.id = run[q].entry PROVE CopyOf(q, f)'
    <3>1. CASE f \in fresh
      <4>1. CopyOf(q, f)
        BY <1>15, <2>1, <2>3, <3>1
      <4> QED BY <1>4, <1>9, <4>1, CopyKept
    <3>2. ASSUME NEW same \in under, f.id = same.id, f.text = text,
                 f.phases = same.phases \cup left, f = Merge(same, text, left)
          PROVE  CopyOf(q, f)'
      <4>1. CopyOf(q, same) /\ Held(same)
        BY <1>15, <2>1, <2>3, <3>2 DEF Held
      <4>2. (text \X Phases) \cap owed' = {}
        BY <1>18, <4>1
      <4>3. f.phases \subseteq Phases
        BY <1>6 DEF Entries
      <4>4. UnitsOf(f) \cap owed' = {}
        BY <3>2, <4>2, <4>3 DEF UnitsOf
      <4>5. ASSUME NEW u \in run[q].text \X run[q].took, u \in owed' PROVE FALSE
        <5>1. u \in UnitsOf(same)
          BY <1>9, <4>1, <4>5 DEF CopyOf
        <5>2. u \in UnitsOf(f)
          BY <1>18, <3>2, <4>5, <5>1
        <5> QED BY <4>4, <4>5, <5>2
      <4>6. (run[q].text \X run[q].took) \cap owed' = {}
        BY <4>5
      <4>7. UnitsOf(f)' = UnitsOf(f) /\ run'[q] = run[q]
        BY <1>4 DEF UnitsOf
      <4> QED BY <3>2, <4>2, <4>4, <4>6, <4>7 DEF CopyOf
    <3>3. f.id # jobs + 1
      BY <1>3, <2>1, <2>3
    <3> QED BY <1>7, <3>1, <3>2, <3>3
  <2> QED BY <1>8, <2>1, <2>2, <2>3
<1>17. jobs <= jobs'
  BY <1>1, <1>3
<1>14. run[r].session # None
  BY <1>0, Bounds
<1> QED BY <1>1, <1>2, <1>3, <1>4, <1>9, <1>10, <1>11, <1>12, <1>13, <1>14, <1>16, <1>17, RunnerStep

\* What the steps that set fields of the cursor share: the runner does not
\* read any more, and its cursor has to be sound in its new form.
LEMMA CursorStep ==
  ASSUME IInv, NEW r \in Runners, NEW s \in Sessions, s = run[r].session,
         run[r].pc \in Extracting,
         NEW x \in Runner, run' = [run EXCEPT ![r] = x],
         x.session = run[r].session, x.sig = run[r].sig,
         x.pc \in {"clear", "claim", "mark"}, x.text \subseteq run[r].text,
         NEW c \in Cursor, cursor' = [cursor EXCEPT ![s] = c],
         c.sig = cursor[s].sig, c.runSize = cursor[s].runSize,
         UNCHANGED <<transcript, made, gen, queue, jobs, mishaps, history>>,
         NEW sig, sig = run[r].sig,
         s \notin blind =>
           /\ Whole(s, sig) => c.offset <= Len(transcript[s]) /\ c.end <= Len(transcript[s])
           /\ \A u \in LostOf(s, sig) : /\ u[1][3] > c.offset
                                        /\ u[1][3] <= c.end => u[2] \notin c.done
  PROVE  IInv'
<1>1. /\ transcript' = transcript /\ made' = made /\ gen' = gen /\ queue' = queue /\ jobs' = jobs
      /\ owed' = owed /\ mishaps' = mishaps /\ blind' = blind
  BY DEF history
<1>2. run' \in [Runners -> Runner] /\ run'[r] = x /\ \A q \in Runners \ {r} : run'[q] = run[q]
  BY RunMoved, RunnerFacts
<1>3. /\ cursor' \in [Sessions -> Cursor] /\ cursor'[s] = c
      /\ \A t \in Sessions : t # s => cursor'[t] = cursor[t]
  BY DEF IInv, TypeOK
<1>4. Lost' = Lost
  BY <1>1 DEF Lost, Pending
<1>5. TypeOK'
  BY <1>1, <1>2, <1>3 DEF IInv, TypeOK
<1>6. QueueOK' /\ \A e \in queue' : \A m \in e.text : Written(m)
  BY <1>1 DEF IInv, QueueOK, TextsWritten
<1>7. RunSound(r)'
  <2> SUFFICES ASSUME s # None, s \notin blind PROVE Sound(s, sig)'
    <3>1. PICK n : n = run'[r].to
      OBVIOUS
    <3> QED BY <1>1, <1>2, <3>1, RunSoundAfter
  <2>1. LostOf(s, sig)' \subseteq LostOf(s, sig)
    BY <1>1, <1>4, LostOfKept
  <2> QED BY <1>1, <1>3, <2>1, VouchedKept DEF Sound
<1>10. RetriesDone' /\ jobs <= jobs'
  <2>1. jobs' = jobs /\ jobs \in Nat
    BY <1>1, Bounds DEF IInv, TypeOK
  <2>2. x.pc # "retry"
    OBVIOUS
  <2>3. RetriesDone'
    BY <1>1, <1>2, <2>2, RetriesKept
  <2> QED BY <2>1, <2>3
<1>8. s # None /\ \A m \in x.text : Written(m)
  BY RunnerFacts, Bounds
<1>9. x.pc \notin {"idle", "reset", "retry", "enqueue"} /\ run[r].pc \notin {"idle", "reset"}
  BY DEF Extracting
<1> QED BY <1>1, <1>2, <1>3, <1>4, <1>5, <1>6, <1>7, <1>8, <1>9, <1>10, RunnerStep

\* The cursor moves to where the section that was read ended.
LEMMA AdvanceStep ==
  ASSUME IInv, NEW r \in Runners, Advance(r)
  PROVE  IInv'
<1>0. run[r].pc = "advance" /\ run[r].pc \in Extracting
  BY DEF Advance, Extracting
<1>1. PICK s \in Sessions : s = run[r].session
  BY <1>0, RunnerFacts
<1>2. PICK n : n = run[r].to
  OBVIOUS
<1> DEFINE x == [run[r] EXCEPT !.pc = IF run[r].skip = "no" THEN "clear" ELSE "claim",
                               !.to = 0, !.text = {}]
           c == [cursor[s] EXCEPT !.offset = n]
<1>3. run' = [run EXCEPT ![r] = x] /\ cursor' = [cursor EXCEPT ![s] = c]
  BY <1>1, <1>2 DEF Advance
<1>4. /\ x \in Runner /\ x.session = run[r].session /\ x.sig = run[r].sig
      /\ x.pc \in {"clear", "claim"} /\ x.text = {} /\ n \in 0 .. MaxLen
  <2>1. 0 \in 0 .. MaxLen /\ {} \in SUBSET Message /\ run[r] \in Runner
    BY RunnerFacts, Bounds
  <2> QED BY <1>2, <2>1 DEF Runner
<1>5. /\ c \in Cursor /\ c.sig = cursor[s].sig /\ c.runSize = cursor[s].runSize
      /\ c.offset = n /\ c.end = cursor[s].end /\ c.done = cursor[s].done
  <2>1. cursor[s] \in Cursor
    BY DEF IInv, TypeOK
  <2> QED BY <1>4, <2>1 DEF Cursor
<1> HIDE DEF x, c
<1>a. PICK sig : sig = run[r].sig
  OBVIOUS
<1>6. ASSUME s \notin blind
      PROVE  /\ Whole(s, sig) => c.offset <= Len(transcript[s]) /\ c.end <= Len(transcript[s])
             /\ \A u \in LostOf(s, sig) : /\ u[1][3] > c.offset
                                          /\ u[1][3] <= c.end => u[2] \notin c.done
  <2>1. /\ Sound(s, sig)
        /\ Whole(s, sig) => n <= Len(transcript[s])
        /\ \A u \in LostOf(s, sig) : ~(u[1][3] <= n)
    BY <1>0, <1>1, <1>2, <1>6, <1>a, Bounds DEF IInv, RunSound
  <2>2. \A u \in LostOf(s, sig) : u[1][3] > n
    <3> SUFFICES ASSUME NEW u \in LostOf(s, sig) PROVE u[1][3] > n
      OBVIOUS
    <3>1. u \in Message \X Phases
      BY DEF LostOf, Lost, IInv, TypeOK
    <3>2. u[1][3] \in Nat /\ n \in Nat
      BY <1>4, <3>1, Bounds DEF Message
    <3> QED BY <2>1, <3>2
  <2> QED BY <1>5, <2>1, <2>2 DEF Sound
<1>7. UNCHANGED <<transcript, made, gen, queue, jobs, mishaps, history>>
  BY DEF Advance
<1>8. x.pc \in {"clear", "claim", "mark"} /\ x.text \subseteq run[r].text
  BY <1>4
<1> QED BY <1>0, <1>1, <1>3, <1>4, <1>5, <1>6, <1>7, <1>8, <1>a, CursorStep

\* The kept phases are cleared.
LEMMA ClearDoneStep ==
  ASSUME IInv, NEW r \in Runners, ClearDone(r)
  PROVE  IInv'
<1>0. run[r].pc = "clear" /\ run[r].pc \in Extracting
  BY DEF ClearDone, Extracting
<1>1. PICK s \in Sessions : s = run[r].session
  BY <1>0, RunnerFacts
<1> DEFINE x == [run[r] EXCEPT !.pc = IF run[r].left = {} THEN "claim" ELSE "mark"]
           c == [cursor[s] EXCEPT !.end = 0, !.done = {}]
<1>3. run' = [run EXCEPT ![r] = x] /\ cursor' = [cursor EXCEPT ![s] = c]
  BY <1>1 DEF ClearDone, Goto
<1>4. /\ x \in Runner /\ x.session = run[r].session /\ x.sig = run[r].sig
      /\ x.pc \in {"claim", "mark"} /\ x.text = run[r].text
  BY RunnerFacts DEF Runner
<1>5. /\ c \in Cursor /\ c.sig = cursor[s].sig /\ c.runSize = cursor[s].runSize
      /\ c.offset = cursor[s].offset /\ c.end = 0 /\ c.done = {}
  <2>1. cursor[s] \in Cursor /\ 0 \in 0 .. MaxLen /\ {} \in SUBSET Phases
    BY Bounds DEF IInv, TypeOK
  <2> QED BY <2>1 DEF Cursor
<1> HIDE DEF x, c
<1>a. PICK sig : sig = run[r].sig
  OBVIOUS
<1>6. ASSUME s \notin blind
      PROVE  /\ Whole(s, sig) => c.offset <= Len(transcript[s]) /\ c.end <= Len(transcript[s])
             /\ \A u \in LostOf(s, sig) : /\ u[1][3] > c.offset
                                          /\ u[1][3] <= c.end => u[2] \notin c.done
  <2>1. Sound(s, sig)
    BY <1>0, <1>1, <1>6, <1>a, Bounds DEF IInv, RunSound
  <2>2. 0 <= Len(transcript[s])
    BY TranscriptType DEF IInv
  <2> QED BY <1>5, <2>1, <2>2 DEF Sound
<1>7. UNCHANGED <<transcript, made, gen, queue, jobs, mishaps, history>>
  BY DEF ClearDone
<1>8. x.pc \in {"clear", "claim", "mark"} /\ x.text \subseteq run[r].text
  BY <1>4
<1> QED BY <1>0, <1>1, <1>3, <1>4, <1>5, <1>6, <1>7, <1>8, <1>a, CursorStep

\* The phases that went through are kept for the section that was read: what
\* it still owes it owes in the others.
LEMMA KeepDoneStep ==
  ASSUME IInv, NEW r \in Runners, KeepDone(r)
  PROVE  IInv'
<1>0. run[r].pc = "keep" /\ run[r].pc \in Extracting
  BY DEF KeepDone, Extracting
<1>1. PICK s \in Sessions : s = run[r].session
  BY <1>0, RunnerFacts
<1>2. PICK n, done : n = run[r].to /\ done = Phases \ run[r].left
  OBVIOUS
<1> DEFINE x == [run[r] EXCEPT !.pc = "mark"]
           c == [cursor[s] EXCEPT !.end = IF done = {} THEN 0 ELSE n, !.done = done]
<1>3. run' = [run EXCEPT ![r] = x] /\ cursor' = [cursor EXCEPT ![s] = c]
  BY <1>1, <1>2 DEF KeepDone, Goto
<1>4. /\ x \in Runner /\ x.session = run[r].session /\ x.sig = run[r].sig
      /\ x.pc = "mark" /\ x.text = run[r].text /\ n \in 0 .. MaxLen
  BY <1>2, RunnerFacts DEF Runner
<1>5. /\ c \in Cursor /\ c.sig = cursor[s].sig /\ c.runSize = cursor[s].runSize
      /\ c.offset = cursor[s].offset /\ c.done = done
      /\ c.end = IF done = {} THEN 0 ELSE n
  <2>1. cursor[s] \in Cursor /\ done \in SUBSET Phases
        /\ (IF done = {} THEN 0 ELSE n) \in 0 .. MaxLen
    BY <1>2, <1>4, Bounds DEF IInv, TypeOK
  <2> QED BY <2>1 DEF Cursor
<1> HIDE DEF x, c
<1>a. PICK sig : sig = run[r].sig
  OBVIOUS
<1>6. ASSUME s \notin blind
      PROVE  /\ Whole(s, sig) => c.offset <= Len(transcript[s]) /\ c.end <= Len(transcript[s])
             /\ \A u \in LostOf(s, sig) : /\ u[1][3] > c.offset
                                          /\ u[1][3] <= c.end => u[2] \notin c.done
  <2>1. /\ Sound(s, sig)
        /\ Whole(s, sig) => n <= Len(transcript[s])
        /\ \A u \in LostOf(s, sig) : u[1][3] <= n => u \in run[r].text \X run[r].left
    BY <1>0, <1>1, <1>2, <1>6, <1>a, Bounds DEF IInv, RunSound
  <2>2. 0 <= Len(transcript[s])
    BY TranscriptType DEF IInv
  <2>3. Whole(s, sig) => c.end <= Len(transcript[s])
    BY <1>5, <2>1, <2>2
  <2>4. \A u \in LostOf(s, sig) : u[1][3] <= n => u[2] \notin done
    BY <1>2, <2>1
  <2> QED BY <1>5, <2>1, <2>3, <2>4 DEF Sound
<1>7. UNCHANGED <<transcript, made, gen, queue, jobs, mishaps, history>>
  BY DEF KeepDone
<1>8. x.pc \in {"clear", "claim", "mark"} /\ x.text \subseteq run[r].text
  BY <1>4
<1> QED BY <1>0, <1>1, <1>3, <1>4, <1>5, <1>6, <1>7, <1>8, <1>a, CursorStep

\* A queued entry is claimed, or none is: no unit leaves the queue.
LEMMA ClaimDueStep ==
  ASSUME IInv, NEW r \in Runners, ClaimDue(r)
  PROVE  IInv'
<1>1. /\ run[r].pc = "claim"
      /\ transcript' = transcript /\ made' = made /\ gen' = gen /\ cursor' = cursor /\ jobs' = jobs
      /\ owed' = owed /\ mishaps' = mishaps /\ blind' = blind
  BY DEF ClaimDue, history
<1>2. PICK E : E = Entries(1 .. MaxJobs, Sessions, SUBSET Message, Phases)
  OBVIOUS
<1>3. queue \in SUBSET E /\ IsFiniteSet(queue) /\ OnePerSession(queue)
  BY <1>2 DEF IInv, TypeOK, QueueOK
\* Both alternatives, by what they do to the runner and the queue.
<1>4. /\ queue' \in SUBSET E /\ IsFiniteSet(queue') /\ OnePerSession(queue')
      /\ Pending' = Pending /\ \A e \in queue' : e.id <= jobs /\ \A m \in e.text : Written(m)
      /\ \A f \in queue' : \E e \in queue : e.id = f.id /\ e.text = f.text /\ e.phases = f.phases
      /\ \E x \in Runner :
           /\ run' = [run EXCEPT ![r] = x]
           /\ x.session = run[r].session /\ x.sig = run[r].sig
           /\ \A m \in x.text : Written(m)
           /\ \/ x.pc = "mark"
              \/ /\ x.pc = "retry" /\ x.took = x.left /\ x.entry <= jobs
                 /\ \A f \in queue' : f.id = x.entry => f.text = x.text /\ f.phases = x.took
  <2>1. CASE Goto(r, "mark") /\ queue' = queue
    <3> DEFINE x == [run[r] EXCEPT !.pc = "mark"]
    <3>1. run' = [run EXCEPT ![r] = x]
      BY <2>1 DEF Goto
    <3>2. /\ x \in Runner /\ x.session = run[r].session /\ x.sig = run[r].sig
          /\ x.text = run[r].text /\ x.pc = "mark"
      BY RunnerFacts DEF Runner
    <3> HIDE DEF x
    <3> QED BY <1>3, <2>1, <3>1, <3>2, RunnerFacts DEF Pending, IInv, QueueOK, TextsWritten
  <2>2. CASE Due(queue) # {} /\ LET e == Oldest(Due(queue))
             IN  /\ queue' = Claim(queue, e)
                 /\ run' = [run EXCEPT ![r].pc = "retry", ![r].entry = e.id,
                                       ![r].text = e.text,
                                       ![r].left = e.phases, ![r].took = e.phases]
    <3>1. PICK e : e = Oldest(Due(queue))
      OBVIOUS
    <3>2. e \in queue /\ e \in E
      <4>1. \A f \in Due(queue) : f.id \in Nat
        BY <1>2, <1>3 DEF Due, Entries
      <4>2. e \in Due(queue)
        BY <2>2, <3>1, <4>1, OldestIsFirst
      <4> QED BY <1>3, <4>2 DEF Due
    <3>3. /\ e.id \in 0 .. MaxJobs /\ e.text \in SUBSET Message /\ e.phases \in SUBSET Phases
          /\ e.id <= jobs /\ \A m \in e.text : Written(m)
      BY <1>2, <3>2, Bounds DEF Entries, IInv, QueueOK, TextsWritten
    <3> DEFINE c == [e EXCEPT !.claim = ClaimTime]
               x == [run[r] EXCEPT !.pc = "retry", !.entry = e.id, !.text = e.text,
                                   !.left = e.phases, !.took = e.phases]
    <3>4. /\ c \in E /\ c.id = e.id /\ c.session = e.session /\ c.text = e.text
          /\ c.phases = e.phases
      BY <1>2, <3>2, ClaimType
    <3>5. queue' = (queue \ {e}) \cup {c} /\ run' = [run EXCEPT ![r] = x]
      BY <2>2, <3>1 DEF Claim
    <3>6. /\ x \in Runner /\ x.session = run[r].session /\ x.sig = run[r].sig
          /\ x.text = e.text /\ x.pc = "retry" /\ x.took = x.left /\ x.took = e.phases
          /\ x.entry = e.id
      <4>1. run[r] \in Runner
        BY RunnerFacts
      <4> QED BY <3>3, <4>1 DEF Runner
    <3> HIDE DEF c, x
    <3>7. OnePerSession(queue') /\ IsFiniteSet(queue')
      BY <1>3, <3>2, <3>4, <3>5, ReplaceShape
    <3>8. UnitsOf(c) = UnitsOf(e)
      BY <3>4 DEF UnitsOf
    <3>9. Pending' = Pending
      BY <3>2, <3>5, <3>8 DEF Pending, UnitsOf
    <3>10. \A f \in queue' : f.id <= jobs /\ \A m \in f.text : Written(m)
      BY <3>3, <3>4, <3>5 DEF IInv, QueueOK, TextsWritten
    <3>11. \A f \in queue' : \E g \in queue : g.id = f.id /\ g.text = f.text /\ g.phases = f.phases
      BY <3>2, <3>4, <3>5
    <3>12. ASSUME NEW f \in queue', f.id = e.id PROVE f.text = e.text /\ f.phases = e.phases
      <4>1. f = c \/ f = e
        BY <1>3, <3>2, <3>5, <3>12 DEF OnePerSession
      <4> QED BY <3>4, <4>1
    <3>13. queue' \in SUBSET E /\ x.entry <= jobs /\ \A m \in x.text : Written(m)
      BY <1>3, <3>3, <3>4, <3>5, <3>6
    <3>14. \A f \in queue' : f.id = x.entry => f.text = x.text /\ f.phases = x.took
      BY <3>6, <3>12
    <3> QED BY <3>5, <3>6, <3>7, <3>9, <3>10, <3>11, <3>13, <3>14
  <2> QED BY <2>1, <2>2 DEF ClaimDue
<1>5. PICK x \in Runner :
           /\ run' = [run EXCEPT ![r] = x]
           /\ x.session = run[r].session /\ x.sig = run[r].sig
           /\ \A m \in x.text : Written(m)
           /\ \/ x.pc = "mark"
              \/ /\ x.pc = "retry" /\ x.took = x.left /\ x.entry <= jobs
                 /\ \A f \in queue' : f.id = x.entry => f.text = x.text /\ f.phases = x.took
  BY <1>4
<1>6. run' \in [Runners -> Runner] /\ run'[r] = x /\ \A q \in Runners \ {r} : run'[q] = run[q]
  BY <1>5, RunMoved, RunnerFacts
<1>7. Lost' = Lost
  BY <1>1, <1>4 DEF Lost
<1>8. TypeOK'
  BY <1>1, <1>2, <1>4, <1>6 DEF IInv, TypeOK
<1>9. QueueOK' /\ \A e \in queue' : \A m \in e.text : Written(m)
  BY <1>1, <1>4 DEF QueueOK
<1>10. RunSound(r)'
  <2>1. PICK s, n, sig : s = run'[r].session /\ n = run'[r].to /\ sig = run'[r].sig
    OBVIOUS
  <2>2. ASSUME s # None, s \notin blind PROVE Sound(s, sig)'
    <3>1. Sound(s, sig)
      BY <1>1, <1>5, <1>6, <2>1, <2>2 DEF IInv, RunSound
    <3> QED BY <1>1, <1>7, <3>1, SoundKept
  <2> QED BY <1>1, <1>5, <1>6, <2>1, <2>2, RunSoundAfter
<1>11. x.pc \notin {"idle", "reset", "enqueue"} \cup Extracting
  BY <1>5 DEF Extracting
<1>12. RetriesDone'
  <2> SUFFICES ASSUME NEW q \in Runners, run'[q].pc = "retry"
               PROVE  /\ run'[q].left \subseteq run'[q].took
                      /\ (run'[q].text \X (run'[q].took \ run'[q].left)) \cap owed = {}
                      /\ \A f \in queue' : f.id = run'[q].entry => CopyOf(q, f)'
    BY <1>1 DEF RetriesDone
  <2>1. CASE q = r
    <3>1. /\ run'[q] = x /\ x.took = x.left
          /\ \A f \in queue' : f.id = x.entry => f.text = x.text /\ f.phases = x.took
      BY <1>5, <1>6, <2>1
    <3> QED BY <3>1 DEF CopyOf, UnitsOf
  <2>2. CASE q # r
    <3>1. run'[q] = run[q]
      BY <1>6, <2>2
    <3>2. /\ run[q].left \subseteq run[q].took
          /\ (run[q].text \X (run[q].took \ run[q].left)) \cap owed = {}
          /\ \A e \in queue : e.id = run[q].entry => CopyOf(q, e)
      BY <3>1 DEF IInv, RetriesDone
    <3>3. ASSUME NEW f \in queue', f.id = run[q].entry PROVE CopyOf(q, f)'
      <4>1. PICK e \in queue : e.id = f.id /\ e.text = f.text /\ e.phases = f.phases
        BY <1>4
      <4> QED BY <1>1, <3>1, <3>2, <3>3, <4>1, CopyKept
    <3> QED BY <3>1, <3>2, <3>3
  <2> QED BY <2>1, <2>2
<1>13. jobs <= jobs' /\ (x.pc = "retry" => x.entry <= jobs')
  <2>1. jobs' = jobs /\ jobs \in Nat
    BY <1>1, Bounds DEF IInv, TypeOK
  <2> QED BY <1>5, <2>1
<1> QED BY <1>1, <1>5, <1>6, <1>7, <1>8, <1>9, <1>10, <1>11, <1>12, <1>13, RunnerStep

\* The retried entry leaves the queue, or stays with what is left: what is
\* dropped of it was sent, was exposed or is given up with an event.
LEMMA CompleteEntryStep ==
  ASSUME IInv, NEW r \in Runners, CompleteEntry(r)
  PROVE  IInv'
<1> DEFINE x == [run[r] EXCEPT !.pc = "mark"]
<1>1. /\ run[r].pc = "retry" /\ run' = [run EXCEPT ![r] = x]
      /\ transcript' = transcript /\ made' = made /\ gen' = gen /\ cursor' = cursor /\ jobs' = jobs
      /\ mishaps' = mishaps /\ blind' = blind
  BY DEF CompleteEntry, Goto
<1>2. /\ x \in Runner /\ x.session = run[r].session /\ x.sig = run[r].sig
      /\ x.text = run[r].text /\ x.pc = "mark"
  BY RunnerFacts DEF Runner
<1> HIDE DEF x
<1>3. run' \in [Runners -> Runner] /\ run'[r] = x /\ \A q \in Runners \ {r} : run'[q] = run[q]
  BY <1>1, <1>2, RunMoved, RunnerFacts
<1>4. PICK E : E = Entries(1 .. MaxJobs, Sessions, SUBSET Message, Phases)
  OBVIOUS
<1>5. queue \in SUBSET E /\ IsFiniteSet(queue) /\ OnePerSession(queue)
      /\ \A e \in queue : e.id \in Nat /\ e.id <= jobs /\ \A m \in e.text : Written(m)
  BY <1>4 DEF IInv, TypeOK, QueueOK, TextsWritten, Entries
<1> DEFINE Kept ==
             /\ queue' \in SUBSET E /\ IsFiniteSet(queue') /\ OnePerSession(queue')
             /\ \A e \in queue' : e.id <= jobs /\ \A m \in e.text : Written(m)
             /\ owed' \subseteq owed /\ Lost' \subseteq Lost /\ RetriesDone'
\* The other retries are not disturbed by what keeps the entries' copies.
<1>a. ASSUME owed' \subseteq owed,
             \A f \in queue', q \in Runners \ {r} :
               run[q].pc = "retry" /\ f.id = run[q].entry => CopyOf(q, f)'
      PROVE  RetriesDone'
  <2> SUFFICES ASSUME NEW q \in Runners, run'[q].pc = "retry"
               PROVE  /\ run'[q].left \subseteq run'[q].took
                      /\ (run'[q].text \X (run'[q].took \ run'[q].left)) \cap owed' = {}
                      /\ \A f \in queue' : f.id = run'[q].entry => CopyOf(q, f)'
    BY DEF RetriesDone
  <2>1. q # r /\ run'[q] = run[q]
    BY <1>2, <1>3
  <2>2. /\ run[q].left \subseteq run[q].took
        /\ (run[q].text \X (run[q].took \ run[q].left)) \cap owed = {}
    BY <2>1 DEF IInv, RetriesDone
  <2> QED BY <1>a, <2>1, <2>2
<1>b. ASSUME owed' \subseteq owed, NEW f \in queue, NEW q \in Runners \ {r},
             run[q].pc = "retry", f.id = run[q].entry
      PROVE  CopyOf(q, f)'
  <2>1. CopyOf(q, f)
    BY <1>b DEF IInv, RetriesDone
  <2> QED BY <1>3, <1>b, <2>1, CopyKept
<1>6. Kept
  <2>1. CASE UNCHANGED <<queue, owed>>
    <3>1. RetriesDone'
      BY <1>a, <1>b, <2>1
    <3> QED BY <1>5, <2>1, <3>1 DEF Lost, Pending
  <2>2. CASE LET found == WithId(queue, run[r].entry)
                 e     == Oldest(found)
                 left  == run[r].left
             IN  /\ found # {}
                 /\ queue' = Completed(queue, e, left)
                 /\ owed' = IF left # {} /\ e.attempts + 1 >= MaxAttempts
                            THEN owed \ (e.text \X left) ELSE owed
    <3>1. PICK e, left, text, took :
            /\ e = Oldest(WithId(queue, run[r].entry)) /\ left = run[r].left
            /\ text = run[r].text /\ took = run[r].took
      OBVIOUS
    <3>2. /\ queue' = Completed(queue, e, left)
          /\ owed' = IF left # {} /\ e.attempts + 1 >= MaxAttempts
                     THEN owed \ (e.text \X left) ELSE owed
      BY <2>2, <3>1
    <3>3. e \in queue /\ e \in Entries(1 .. MaxJobs, Sessions, SUBSET Message, Phases)
          /\ left \in SUBSET Phases /\ e.id = run[r].entry
      <4>1. /\ Oldest(WithId(queue, run[r].entry)) \in queue
            /\ Oldest(WithId(queue, run[r].entry)).id = run[r].entry
        BY <1>5, <2>2, FoundById
      <4> QED BY <1>4, <1>5, <3>1, <4>1, RunnerFacts DEF Runner
    \* What is owed of the entry is in what is left of the copy.
    <3>4. /\ left \subseteq took /\ (text \X (took \ left)) \cap owed = {}
          /\ e.text = text \/ (e.text \X Phases) \cap owed = {}
          /\ UnitsOf(e) \cap owed = (text \X took) \cap owed
      <4>1. /\ left \subseteq took /\ (text \X (took \ left)) \cap owed = {}
            /\ CopyOf(r, e)
        BY <1>1, <3>1, <3>3 DEF IInv, RetriesDone
      <4> QED BY <3>1, <4>1 DEF CopyOf
    <3>a. ASSUME NEW u \in UnitsOf(e), u \in owed PROVE u \in e.text \X left
      <4>1. u \in text \X left
        BY <3>4, <3>a
      <4> QED BY <3>a, <4>1 DEF UnitsOf
    <3>b. ASSUME NEW u \in e.text \X left, u \in owed PROVE u \in UnitsOf(e)
      <4>1. e.text = text
        BY <3>3, <3>4, <3>b
      <4> QED BY <3>4, <3>b, <4>1
    \* The entry goes, with its phases done or its attempts used up.
    <3>5. ASSUME queue' = queue \ {e}, left = {} \/ e.attempts + 1 >= MaxAttempts
          PROVE  Kept
      <4>1. IsFiniteSet(queue') /\ OnePerSession(queue') /\ queue' \subseteq queue
        BY <1>5, <3>5, FS_Subset DEF OnePerSession
      <4>2. owed' \subseteq owed
        BY <3>2
      <4>3. Lost' \subseteq Lost
        <5> SUFFICES ASSUME NEW u \in owed', u \notin Pending'
                     PROVE  u \in owed /\ \A f \in queue : u \notin UnitsOf(f)
          BY DEF Lost, Pending
        <5>1. u \in owed /\ u \notin e.text \X left
          BY <3>2, <3>5
        <5>2. u \notin UnitsOf(e)
          BY <3>a, <5>1
        <5>3. \A f \in queue : f # e => u \notin UnitsOf(f)
          BY <3>5 DEF Pending, UnitsOf
        <5> QED BY <5>1, <5>2, <5>3
      <4>4. RetriesDone'
        BY <1>a, <1>b, <4>1, <4>2
      <4> QED BY <1>5, <4>1, <4>2, <4>3, <4>4
    \* The entry stays for another attempt.
    <3>6. ASSUME queue' = (queue \ {e}) \cup {Retried(e, left)}, left # {},
                 e.attempts + 1 < MaxAttempts
          PROVE  Kept
      <4> DEFINE f == Retried(e, left)
      <4>1. /\ f \in E /\ f.id = e.id /\ f.session = e.session /\ f.text = e.text
            /\ f.phases = left
        BY <1>4, <3>3, <3>6, RetriedType
      <4>2. queue' = (queue \ {e}) \cup {f}
        BY <3>6
      <4> HIDE DEF f
      <4>3. IsFiniteSet(queue') /\ OnePerSession(queue')
        BY <1>5, <3>3, <4>1, <4>2, ReplaceShape
      <4>4. owed' = owed
        <5>1. e.attempts \in Nat /\ MaxAttempts \in Nat
          BY <3>3, Bounds DEF Entries
        <5> QED BY <3>2, <3>6, <5>1
      <4>5. Lost' \subseteq Lost
        <5> SUFFICES ASSUME NEW u \in owed', u \notin Pending'
                     PROVE  u \in owed /\ \A g \in queue : u \notin UnitsOf(g)
          BY DEF Lost, Pending
        <5>1. u \in owed
          BY <4>4
        <5>2. \A g \in queue : g # e => u \notin UnitsOf(g)
          BY <4>2 DEF Pending, UnitsOf
        <5>3. u \notin e.text \X left
          BY <4>1, <4>2 DEF Pending, UnitsOf
        <5>4. u \notin UnitsOf(e)
          BY <3>a, <5>1, <5>3
        <5> QED BY <5>1, <5>2, <5>4
      <4>6. ASSUME NEW q \in Runners \ {r}, run[q].pc = "retry", f.id = run[q].entry
            PROVE  CopyOf(q, f)'
        <5>1. CopyOf(q, e)
          BY <3>3, <4>1, <4>6 DEF IInv, RetriesDone
        <5>2. UnitsOf(f) \cap owed = UnitsOf(e) \cap owed
          <6>1. UnitsOf(f) = e.text \X left
            BY <4>1 DEF UnitsOf
          <6> QED BY <3>a, <3>b, <6>1
        <5>3. UnitsOf(f)' = UnitsOf(f) /\ run'[q] = run[q]
          BY <1>3, <4>6 DEF UnitsOf
        <5> QED BY <4>1, <4>4, <5>1, <5>2, <5>3 DEF CopyOf
      <4>7. RetriesDone'
        <5>1. \A g \in queue' : g \in queue \/ g = f
          BY <4>2
        <5> QED BY <1>a, <1>b, <4>4, <4>6, <5>1
      <4>8. queue' \in SUBSET E /\ \A g \in queue' : g.id <= jobs /\ \A m \in g.text : Written(m)
        BY <1>5, <3>3, <4>1, <4>2
      <4> QED BY <4>3, <4>4, <4>5, <4>7, <4>8
    <3>7. \/ queue' = queue \ {e} /\ (left = {} \/ e.attempts + 1 >= MaxAttempts)
          \/ /\ queue' = (queue \ {e}) \cup {Retried(e, left)} /\ left # {}
             /\ e.attempts + 1 < MaxAttempts
      <4>1. e.attempts \in Nat /\ MaxAttempts \in Nat
        BY <3>3, Bounds DEF Entries
      <4>2. Retried(e, left).attempts = e.attempts + 1
        BY <3>3 DEF Retried, Entries
      <4> QED BY <3>2, <4>1, <4>2 DEF Completed
    <3> QED BY <3>5, <3>6, <3>7
  <2> QED BY <2>1, <2>2 DEF CompleteEntry
<1>7. TypeOK'
  BY <1>1, <1>3, <1>4, <1>6 DEF IInv, TypeOK
<1>8. QueueOK' /\ \A e \in queue' : \A m \in e.text : Written(m)
  BY <1>1, <1>6 DEF QueueOK
<1>9. RunSound(r)'
  <2>1. PICK s, n, sig : s = run'[r].session /\ n = run'[r].to /\ sig = run'[r].sig
    OBVIOUS
  <2>2. ASSUME s # None, s \notin blind PROVE Sound(s, sig)'
    <3>1. Sound(s, sig)
      BY <1>1, <1>2, <1>3, <2>1, <2>2 DEF IInv, RunSound
    <3> QED BY <1>1, <1>6, <3>1, SoundKept
  <2> QED BY <1>1, <1>2, <1>3, <2>1, <2>2, RunSoundAfter
<1>10. x.pc \notin {"idle", "reset", "enqueue", "retry"} \cup Extracting
  BY <1>2 DEF Extracting
<1>11. \A m \in x.text : Written(m)
  BY <1>2, RunnerFacts
<1>12. jobs <= jobs'
  BY <1>1, Bounds DEF IInv, TypeOK
<1> QED BY <1>1, <1>2, <1>3, <1>6, <1>7, <1>8, <1>9, <1>10, <1>11, <1>12, RunnerStep

-----------------------------------------------------------------------------
(* Runners that start and end *)

LEMMA IdleType ==
  /\ Idle \in Runner /\ Idle.pc = "idle" /\ Idle.session = None /\ Idle.text = {}
  /\ NoCursor \in Cursor /\ NoCursor.offset = 0 /\ NoCursor.end = 0 /\ NoCursor.done = {}
  /\ NoCursor.sig = None /\ NoCursor.runSize = None
<1>1. 0 \in 0 .. MaxLen /\ 0 \in 0 .. MaxJobs
  BY Bounds
<1> QED BY <1>1 DEF Idle, NoCursor, Runner, Cursor

\* A runner starts afresh, or is gone: the files stay as they are.
LEMMA RunOnly ==
  ASSUME IInv, NEW r \in Runners, NEW x \in Runner, run' = [run EXCEPT ![r] = x],
         UNCHANGED <<files, history>>, mishaps' \in 0 .. MaxMishaps,
         x.text = {}, x.pc \in {"idle", "reset", "claim"},
         x.pc = "reset" <=> x.session # None,
         \A q \in Runners \ {r} : x.session # None => run[q].session # x.session
  PROVE  IInv'
<1>1. /\ transcript' = transcript /\ made' = made /\ gen' = gen /\ cursor' = cursor /\ queue' = queue /\ jobs' = jobs
      /\ owed' = owed /\ blind' = blind
  BY DEF files, history
<1>2. run' \in [Runners -> Runner] /\ run'[r] = x /\ \A q \in Runners \ {r} : run'[q] = run[q]
  BY RunMoved, RunnerFacts
<1>3. TypeOK'
  BY <1>1, <1>2 DEF IInv, TypeOK
<1>4. OwedIsThere' /\ QueueOK' /\ CursorsWellFormed'
  BY <1>1 DEF IInv, OwedIsThere, QueueOK, CursorsWellFormed, Taken
<1>5. TextsWritten'
  BY <1>1, <1>2 DEF IInv, TextsWritten, Written
<1>6. RunsWellFormed'
  BY <1>1, <1>2 DEF IInv, RunsWellFormed, Extracting, Taken
<1>7. RetriesDone'
  BY <1>1, <1>2, RetriesKept
<1>8. Lost' = Lost
  BY <1>1 DEF Lost, Pending
<1>9. CursorsSound'
  <2> SUFFICES ASSUME NEW t \in Sessions \ blind, NEW own, own = cursor[t].sig
               PROVE  Sound(t, own)'
    BY <1>1 DEF CursorsSound
  <2>1. Sound(t, own)
    BY DEF IInv, CursorsSound
  <2> QED BY <1>1, <1>8, <2>1, SoundKept
<1>10. \A q \in Runners : RunSound(q)'
  <2>1. RunSound(r)'
    BY <1>2 DEF RunSound
  <2>2. ASSUME NEW q \in Runners \ {r} PROVE RunSound(q)'
    BY <1>1, <1>2, <1>8, <2>2, RunSoundKept DEF IInv
  <2> QED BY <2>1, <2>2
<1> QED BY <1>3, <1>4, <1>5, <1>6, <1>7, <1>9, <1>10 DEF IInv

LEMMA StartStep ==
  ASSUME IInv, NEW r \in Runners, NEW s \in Sessions, NEW consent \in BOOLEAN,
         Start(r, s, consent)
  PROVE  IInv'
<1> DEFINE x == [Idle EXCEPT !.pc = "reset", !.session = s, !.size = Len(transcript[s])]
<1>1. /\ x \in Runner /\ x.text = {} /\ x.pc = "reset" /\ x.session = s /\ s # None
  <2>1. Len(transcript[s]) \in 0 .. MaxLen
    BY TranscriptType, Bounds DEF IInv
  <2> QED BY <2>1, IdleType, Bounds DEF Runner
<1>2. run' = [run EXCEPT ![r] = x] /\ UNCHANGED <<files, history>> /\ mishaps' = mishaps
  BY DEF Start
<1> HIDE DEF x
<1>3. \A q \in Runners : run[q].session # s
  BY <1>1 DEF Start, Active, IInv, RunsWellFormed
<1>4. mishaps' \in 0 .. MaxMishaps
  BY <1>2 DEF IInv, TypeOK
<1> QED BY <1>1, <1>2, <1>3, <1>4, RunOnly

LEMMA StartQueueOnlyStep ==
  ASSUME IInv, NEW r \in Runners, StartQueueOnly(r)
  PROVE  IInv'
<1> DEFINE x == [Idle EXCEPT !.pc = "claim"]
<1>1. /\ x \in Runner /\ x.text = {} /\ x.pc = "claim" /\ x.session = None
  BY IdleType DEF Runner
<1>2. run' = [run EXCEPT ![r] = x] /\ UNCHANGED <<files, history>> /\ mishaps' = mishaps
  BY DEF StartQueueOnly
<1> HIDE DEF x
<1>3. mishaps' \in 0 .. MaxMishaps
  BY <1>2 DEF IInv, TypeOK
<1> QED BY <1>1, <1>2, <1>3, RunOnly

LEMMA CrashStep ==
  ASSUME IInv, NEW r \in Runners, Crash(r)
  PROVE  IInv'
<1>1. run' = [run EXCEPT ![r] = Idle] /\ UNCHANGED <<files, history>>
  BY DEF Crash
<1>2. mishaps' \in 0 .. MaxMishaps
  BY Bounds DEF Crash, IInv, TypeOK
<1> QED BY <1>1, <1>2, IdleType, RunOnly

\* markRun keeps what the cursor covers.
LEMMA MarkedCursor ==
  ASSUME IInv, NEW r \in Runners, Mark(r), cursor' # cursor
  PROVE  \E s \in Sessions, c \in Cursor :
           /\ s = run[r].session /\ cursor' = [cursor EXCEPT ![s] = c]
           /\ c.sig = run[r].sig /\ c.offset = cursor[s].offset
           /\ c.end = cursor[s].end /\ c.done = cursor[s].done
<1>1. run[r] \in Runner
  BY RunnerFacts
<1>2. PICK s \in Sessions : s = run[r].session
  <2>1. run[r].session # None
    BY DEF Mark
  <2>2. run[r].session \in Sessions \cup {None}
    BY <1>1 DEF Runner
  <2> QED BY <2>1, <2>2
<1>3. PICK b \in {"no", "disabled", "unavailable"} :
        cursor' = [cursor EXCEPT ![s].runSize = run[r].size, ![s].sig = run[r].sig, ![s].blocked = b]
  BY <1>2 DEF Mark
<1> DEFINE c == [cursor[s] EXCEPT !.runSize = run[r].size, !.sig = run[r].sig, !.blocked = b]
<1>4. cursor' = [cursor EXCEPT ![s] = c]
  BY <1>3
<1>5. /\ c \in Cursor /\ c.sig = run[r].sig /\ c.offset = cursor[s].offset
      /\ c.end = cursor[s].end /\ c.done = cursor[s].done
  <2>1. cursor[s] \in Cursor
    BY DEF IInv, TypeOK
  <2>2. run[r].size \in 0 .. MaxLen \cup {None} /\ run[r].sig \in Fingerprint \cup {None}
    BY <1>1 DEF Runner
  <2> QED BY <2>1, <2>2 DEF Cursor
<1> HIDE DEF c
<1> QED BY <1>2, <1>4, <1>5

\* The run is recorded with the fingerprint it took at its start, by which the
\* run was sound.
LEMMA MarkStep ==
  ASSUME IInv, NEW r \in Runners, Mark(r)
  PROVE  IInv'
<1>1. /\ run[r].pc = "mark" /\ run' = [run EXCEPT ![r] = Idle]
      /\ transcript' = transcript /\ made' = made /\ gen' = gen /\ queue' = queue /\ jobs' = jobs
      /\ owed' = owed /\ mishaps' = mishaps /\ blind' = blind
  BY DEF Mark, history
<1>2. CASE cursor' = cursor
  <2>1. UNCHANGED <<files, history>>
    BY <1>1, <1>2 DEF files, history
  <2>2. mishaps' \in 0 .. MaxMishaps
    BY <1>1 DEF IInv, TypeOK
  <2> QED BY <1>1, <2>1, <2>2, IdleType, RunOnly
<1>3. CASE cursor' # cursor
  <2>0. PICK s \in Sessions, c \in Cursor :
          /\ s = run[r].session /\ cursor' = [cursor EXCEPT ![s] = c]
          /\ c.sig = run[r].sig /\ c.offset = cursor[s].offset
          /\ c.end = cursor[s].end /\ c.done = cursor[s].done
    BY <1>3, MarkedCursor
  <2>4. /\ cursor' \in [Sessions -> Cursor] /\ cursor'[s] = c
        /\ \A t \in Sessions : t # s => cursor'[t] = cursor[t]
    BY <2>0 DEF IInv, TypeOK
  <2>5. run' \in [Runners -> Runner] /\ run'[r] = Idle /\ \A q \in Runners \ {r} : run'[q] = run[q]
    BY <1>1, IdleType, RunMoved, RunnerFacts
  <2>6. TypeOK'
    BY <1>1, <2>4, <2>5 DEF IInv, TypeOK
  <2>7. OwedIsThere' /\ QueueOK'
    BY <1>1 DEF IInv, OwedIsThere, QueueOK
  <2>8. TextsWritten'
    BY <1>1, <2>5, IdleType DEF IInv, TextsWritten, Written
  <2>9. run[r].sig # None /\ Taken(s, run[r].sig)
    BY <1>1, <2>0, Bounds DEF IInv, RunsWellFormed
  <2>10. CursorsWellFormed'
    BY <1>1, <2>0, <2>4, <2>9 DEF IInv, CursorsWellFormed, Taken
  <2>11. ASSUME NEW q \in Runners \ {r}, run[q].session # None
         PROVE  run[q].session \in Sessions /\ run[q].session # s
    BY <2>0, <2>11, RunnerFacts, Bounds DEF IInv, RunsWellFormed, Runner
  <2>12. RunsWellFormed'
    BY <1>1, <2>4, <2>5, <2>11, IdleType DEF IInv, RunsWellFormed, Extracting, Taken
  <2>13. RetriesDone'
    BY <1>1, <2>5, IdleType, RetriesKept
  <2>14. Lost' = Lost
    BY <1>1 DEF Lost, Pending
  <2>15. CursorsSound'
    <3> SUFFICES ASSUME NEW t \in Sessions, t \notin blind, NEW own, own = cursor'[t].sig
                 PROVE  Sound(t, own)'
      BY <1>1 DEF CursorsSound
    <3>1. CASE t # s
      <4>1. cursor'[t] = cursor[t] /\ Sound(t, own)
        BY <2>4, <3>1 DEF IInv, CursorsSound
      <4> QED BY <1>1, <2>14, <4>1, SoundKept
    <3>2. CASE t = s
      <4>1. own = run[r].sig
        BY <2>0, <2>4, <3>2
      <4>2. Sound(s, own)
        BY <1>1, <2>0, <3>2, <4>1, Bounds DEF IInv, RunSound
      <4>3. LostOf(s, own)' \subseteq LostOf(s, own)
        BY <1>1, <2>14, LostOfKept
      <4> QED BY <1>1, <2>0, <2>4, <3>2, <4>2, <4>3, VouchedKept DEF Sound
    <3> QED BY <3>1, <3>2
  <2>16. \A q \in Runners : RunSound(q)'
    <3>1. RunSound(r)'
      BY <2>5, IdleType DEF RunSound
    <3>2. ASSUME NEW q \in Runners \ {r} PROVE RunSound(q)'
      BY <1>1, <2>4, <2>5, <2>11, <2>14, RunSoundKept DEF IInv
    <3> QED BY <3>1, <3>2
  <2> QED BY <2>6, <2>7, <2>8, <2>10, <2>12, <2>13, <2>15, <2>16 DEF IInv
<1> QED BY <1>2, <1>3

\* A transcript that was replaced is read from its start: the cursor a runner
\* goes on from is sound, or its session is recorded as the blind case.
LEMMA ResetStep ==
  ASSUME IInv, NEW r \in Runners, ResetIfReplaced(r)
  PROVE  IInv'
<1>0. run[r].pc = "reset"
  BY DEF ResetIfReplaced
<1>1. PICK s \in Sessions : s = run[r].session
  BY <1>0, RunnerFacts
<1>2. PICK sig \in Fingerprint : sig = Signature(s)
  BY SignatureType DEF IInv
<1>3. sig # None /\ Taken(s, sig)
  <2>1. /\ DOMAIN sig = 1 .. Len(sig) /\ Len(sig) <= Len(transcript[s]) /\ Len(sig) \in Nat
        /\ Len(transcript[s]) \in Nat /\ \A i \in DOMAIN sig : sig[i] = made[s][i]
    BY <1>2, SignatureType, TranscriptType, FingerprintType, Bounds DEF IInv
  <2>2. ASSUME NEW i \in DOMAIN sig PROVE sig[i] <= gen[s] /\ ~(i > Len(transcript[s]))
    <3>1. i \in 1 .. Len(transcript[s])
      BY <2>1
    <3> QED BY <2>1, <3>1, TranscriptType DEF IInv
  <2> QED BY <1>2, <2>2, Bounds DEF Taken
<1> DEFINE x == [run[r] EXCEPT !.pc = "digest", !.sig = sig]
           c == Reset(cursor[s], sig)
<1>4. /\ run' = [run EXCEPT ![r] = x] /\ cursor' = [cursor EXCEPT ![s] = c]
      /\ blind' = IF cursor[s].sig \notin {None, sig} THEN blind \ {s}
                  ELSE IF cursor[s].sig = None /\ cursor[s] # NoCursor /\ gen[s] > 0
                       THEN blind \cup {s} ELSE blind
      /\ transcript' = transcript /\ made' = made /\ gen' = gen /\ queue' = queue /\ jobs' = jobs
      /\ owed' = owed /\ mishaps' = mishaps
  BY <1>1, <1>2 DEF ResetIfReplaced
<1>5. /\ x \in Runner /\ x.session = s /\ x.sig = sig /\ x.pc = "digest" /\ x.text = run[r].text
  <2>1. run[r] \in Runner
    BY RunnerFacts
  <2> QED BY <1>1, <2>1 DEF Runner
<1>6. /\ c \in Cursor /\ c.sig \in {None, sig}
      /\ \/ c = cursor[s] /\ cursor[s].sig \in {None, sig}
         \/ /\ c.sig = sig /\ c.offset = 0 /\ c.end = 0 /\ c.done = {} /\ c.runSize = None
  <2>1. CASE cursor[s].sig \in {None, sig}
    BY <2>1 DEF Reset, IInv, TypeOK
  <2>2. CASE cursor[s].sig \notin {None, sig}
    <3> DEFINE d == [NoCursor EXCEPT !.sig = sig]
    <3>1. /\ d \in Cursor /\ d.sig = sig /\ d.offset = 0 /\ d.end = 0 /\ d.done = {}
          /\ d.runSize = None
      BY IdleType DEF Cursor
    <3> QED BY <2>2, <3>1 DEF Reset
  <2> QED BY <2>1, <2>2
<1> HIDE DEF x, c
<1>7. /\ run' \in [Runners -> Runner] /\ run'[r] = x /\ \A q \in Runners \ {r} : run'[q] = run[q]
      /\ cursor' \in [Sessions -> Cursor] /\ cursor'[s] = c
      /\ \A t \in Sessions : t # s => cursor'[t] = cursor[t]
  BY <1>4, <1>5, <1>6, RunMoved, RunnerFacts DEF IInv, TypeOK
<1>8. TypeOK'
  BY <1>4, <1>7 DEF IInv, TypeOK
<1>9. OwedIsThere' /\ QueueOK'
  BY <1>4 DEF IInv, OwedIsThere, QueueOK
<1>10. TextsWritten'
  BY <1>4, <1>5, <1>7 DEF IInv, TextsWritten, Written
<1>11. CursorsWellFormed'
  BY <1>3, <1>4, <1>6, <1>7 DEF IInv, CursorsWellFormed, Taken
<1>12. ASSUME NEW q \in Runners \ {r}, run[q].session # None
       PROVE  run[q].session \in Sessions /\ run[q].session # s
  BY <1>1, <1>12, RunnerFacts, Bounds DEF IInv, RunsWellFormed, Runner
<1>13. RunsWellFormed'
  <2>1. \A q \in Runners : run'[q].session = run[q].session
    BY <1>1, <1>5, <1>7
  <2>2. ASSUME NEW q \in Runners
        PROVE /\ run'[q].pc = "idle" => run'[q].session = None
              /\ run'[q].pc \in {"reset"} \cup Extracting => run'[q].session # None
              /\ run'[q].pc = "enqueue" => run'[q].left # {}
              /\ run'[q].pc = "retry" => run'[q].entry <= jobs'
              /\ run'[q].session # None /\ run'[q].pc # "reset" =>
                   /\ run'[q].sig # None /\ (Taken(run[q].session, run[q].sig))'
                   /\ cursor'[run'[q].session].sig \in {None, run'[q].sig}
    <3>1. CASE q = r
      BY <1>3, <1>4, <1>5, <1>6, <1>7, <3>1, Bounds DEF Taken
    <3>2. CASE q # r
      <4>1. run'[q] = run[q]
        BY <1>7, <3>2
      <4> QED BY <1>4, <1>7, <1>12, <3>2, <4>1 DEF IInv, RunsWellFormed, Taken
    <3> QED BY <3>1, <3>2
  <2> QED BY <2>1, <2>2 DEF IInv, RunsWellFormed
<1>14. RetriesDone'
  BY <1>4, <1>5, <1>7, RetriesKept
<1>15. Lost' = Lost
  BY <1>4 DEF Lost, Pending
<1>16. ASSUME s \notin blind' PROVE Sound(s, sig)'
  <2>1. CASE c.offset = 0 /\ c.end = 0 /\ c.done = {}
    <3>1. \A u \in LostOf(s, sig)' : u[1][3] > 0
      <4>1. \A u \in owed : u[1][3] \in Nat \ {0}
        BY Bounds DEF IInv, TypeOK, Message
      <4> QED BY <1>4, <4>1 DEF LostOf, Lost
    <3>2. 0 <= Len(transcript[s])
      BY TranscriptType DEF IInv
    <3> QED BY <1>4, <1>7, <2>1, <3>1, <3>2 DEF Sound
  <2>2. CASE c = cursor[s] /\ cursor[s] # NoCursor /\ cursor[s].sig \in {None, sig}
    <3>1. s \notin blind /\ (cursor[s].sig = None => ~(gen[s] > 0))
      BY <1>3, <1>4, <1>16, <2>2
    <3>2. PICK own : own = cursor[s].sig
      OBVIOUS
    <3>3. Sound(s, own)
      BY <3>1, <3>2 DEF IInv, CursorsSound
    <3>4. own = sig \/ gen[s] = 0
      BY <2>2, <3>1, <3>2, TranscriptType DEF IInv
    <3>5. Sound(s, sig)
      BY <3>3, <3>4 DEF Sound, LostOf, Vouched, Whole
    <3> QED BY <1>4, <1>7, <1>15, <2>2, <3>5, SoundKept
  <2> QED BY <1>6, <2>1, <2>2, IdleType
<1>17. CursorsSound'
  <2> SUFFICES ASSUME NEW t \in Sessions, t \notin blind', NEW own, own = cursor'[t].sig
               PROVE  Sound(t, own)'
    BY DEF CursorsSound
  <2>1. CASE t # s
    <3>1. t \notin blind /\ own = cursor[t].sig
      BY <1>4, <1>7, <2>1
    <3>2. Sound(t, own)
      BY <3>1 DEF IInv, CursorsSound
    <3> QED BY <1>4, <1>7, <1>15, <2>1, <3>2, SoundKept
  <2>2. CASE t = s
    <3>1. Sound(s, sig)' /\ own \in {None, sig}
      BY <1>6, <1>7, <1>16, <2>2
    <3>2. Whole(s, own)' => Whole(s, sig)'
      BY <3>1 DEF Whole
    <3>3. LostOf(s, own)' \subseteq LostOf(s, sig)'
      BY <3>1, <3>2 DEF LostOf, Vouched
    <3> QED BY <2>2, <3>1, <3>2, <3>3 DEF Sound
  <2> QED BY <2>1, <2>2
<1>18. \A q \in Runners : RunSound(q)'
  <2>1. RunSound(r)'
    <3>1. PICK n : n = run'[r].to
      OBVIOUS
    <3> QED BY <1>5, <1>7, <1>16, <3>1, RunSoundAfter
  <2>2. ASSUME NEW q \in Runners \ {r} PROVE RunSound(q)'
    <3>1. run[q].session \notin blind' => run[q].session \notin blind \/ run[q].session = None
      BY <1>4, <1>12
    <3>2. CASE run[q].session = None
      BY <1>7, <3>2 DEF RunSound
    <3>3. CASE run[q].session # None
      BY <1>4, <1>7, <1>12, <1>15, <3>1, <3>3, RunSoundKept DEF IInv
    <3> QED BY <3>2, <3>3
  <2> QED BY <2>1, <2>2
<1> QED BY <1>8, <1>9, <1>10, <1>11, <1>13, <1>14, <1>17, <1>18 DEF IInv

-----------------------------------------------------------------------------
(* What happens around the runners *)

\* The fields of a cursor that the invariant is about stay, or all are lost:
\* what the queue's and the cursors' clocks and the cursors' limit do.
LEMMA CursorsAside ==
  ASSUME IInv, TypeOK', UNCHANGED <<transcript, made, gen, jobs, run, history>>,
         QueueOK', \A e \in queue' : \A m \in e.text : Written(m), Pending' = Pending,
         \A f \in queue' : \E e \in queue : e.id = f.id /\ e.text = f.text /\ e.phases = f.phases,
         \A s \in Sessions :
           \/ cursor'[s] = NoCursor
           \/ /\ cursor'[s].sig = cursor[s].sig /\ cursor'[s].runSize = cursor[s].runSize
              /\ cursor'[s].offset = cursor[s].offset
              /\ cursor'[s].end = cursor[s].end /\ cursor'[s].done = cursor[s].done
  PROVE  IInv'
<1>1. /\ transcript' = transcript /\ made' = made /\ gen' = gen /\ jobs' = jobs /\ run' = run
      /\ owed' = owed /\ blind' = blind
  BY DEF history
<1>2. OwedIsThere' /\ TextsWritten' /\ RetriesDone'
  <2>1. OwedIsThere' /\ TextsWritten'
    BY <1>1 DEF IInv, OwedIsThere, TextsWritten, Written
  <2>2. RetriesDone'
    BY <1>1, RetriesKept
  <2> QED BY <2>1, <2>2
<1>3. CursorsWellFormed'
  BY <1>1, IdleType DEF IInv, CursorsWellFormed, Taken
<1>4. \A q \in Runners : run[q].session \in Sessions \cup {None}
  BY RunnerFacts DEF Runner
<1>5. RunsWellFormed'
  BY <1>1, <1>4, IdleType DEF IInv, RunsWellFormed, Taken
<1>6. Lost' = Lost
  BY <1>1 DEF Lost
<1>7. ASSUME NEW s \in Sessions, NEW sig
      PROVE  /\ Sound(s, sig) => Sound(s, sig)'
             /\ cursor'[s] = NoCursor => Sound(s, sig)'
  <2>1. CASE cursor'[s] = NoCursor
    <3>1. \A u \in LostOf(s, sig)' : u[1][3] > 0
      <4>1. \A u \in owed : u[1][3] \in Nat \ {0}
        BY Bounds DEF IInv, TypeOK, Message
      <4> QED BY <1>1, <4>1 DEF LostOf, Lost
    <3>2. 0 <= Len(transcript[s])
      BY TranscriptType DEF IInv
    <3> QED BY <1>1, <2>1, <3>1, <3>2, IdleType DEF Sound
  <2>2. CASE cursor'[s] # NoCursor
    <3>1. LostOf(s, sig)' \subseteq LostOf(s, sig)
      BY <1>1, <1>6, LostOfKept
    <3> QED BY <1>1, <2>2, <3>1, VouchedKept DEF Sound
  <2> QED BY <2>1, <2>2
<1>8. CursorsSound'
  <2> SUFFICES ASSUME NEW s \in Sessions \ blind, NEW own, own = cursor'[s].sig
               PROVE  Sound(s, own)'
    BY <1>1 DEF CursorsSound
  <2>1. cursor'[s] = NoCursor \/ own = cursor[s].sig
    OBVIOUS
  <2>2. own = cursor[s].sig => Sound(s, own)
    BY DEF IInv, CursorsSound
  <2> QED BY <1>7, <2>1, <2>2
<1>9. ASSUME NEW q \in Runners PROVE RunSound(q)'
  <2>1. PICK s, n, sig : s = run[q].session /\ n = run[q].to /\ sig = run[q].sig
    OBVIOUS
  <2> SUFFICES ASSUME s # None, s \notin blind, run[q].pc # "reset"
               PROVE  /\ Sound(s, sig)'
                      /\ run[q].pc \in {"call", "enqueue", "keep", "advance"} =>
                           /\ Whole(s, sig) => cursor'[s].offset <= n /\ n <= Len(transcript[s])
                           /\ \A u \in LostOf(s, sig)' : u[1][3] <= n =>
                                run[q].pc # "advance" /\ u \in run[q].text \X run[q].left
    BY <1>1, <2>1, VouchedKept, RunSoundAfter
  <2>2. s \in Sessions
    BY <1>4, <2>1
  <2>3. Sound(s, sig)'
    BY <1>7, <2>1, <2>2 DEF IInv, RunSound
  <2>4. n \in Nat
    BY <2>1, RunnerFacts, Bounds DEF Runner
  <2>5. LostOf(s, sig)' \subseteq LostOf(s, sig)
    BY <1>1, <1>6, LostOfKept
  <2>6. run[q].pc \in {"call", "enqueue", "keep", "advance"} =>
          /\ Whole(s, sig) => cursor[s].offset <= n /\ n <= Len(transcript[s])
          /\ \A u \in LostOf(s, sig) : u[1][3] <= n =>
               run[q].pc # "advance" /\ u \in run[q].text \X run[q].left
    BY <2>1 DEF IInv, RunSound
  <2>7. cursor'[s].offset = 0 \/ cursor'[s].offset = cursor[s].offset
    BY <2>2, IdleType
  <2> QED BY <2>3, <2>4, <2>5, <2>6, <2>7
<1> QED BY <1>2, <1>3, <1>5, <1>8, <1>9 DEF IInv

LEMMA CrowdedOutStep ==
  ASSUME IInv, NEW s \in Sessions, CrowdedOut(s)
  PROVE  IInv'
<1>1. /\ cursor' = [cursor EXCEPT ![s] = NoCursor] /\ queue' = queue
      /\ UNCHANGED <<transcript, made, gen, jobs, run, history>>
  BY DEF CrowdedOut
<1>2. cursor' \in [Sessions -> Cursor]
  BY <1>1, IdleType DEF IInv, TypeOK
<1>3. mishaps' \in 0 .. MaxMishaps
  BY Bounds DEF CrowdedOut, IInv, TypeOK
<1>4. TypeOK'
  BY <1>1, <1>2, <1>3 DEF IInv, TypeOK, history
<1>5. QueueOK' /\ Pending' = Pending /\ \A e \in queue' : \A m \in e.text : Written(m)
  BY <1>1 DEF IInv, QueueOK, Pending, TextsWritten
<1>7. \A f \in queue' : \E e \in queue : e.id = f.id /\ e.text = f.text /\ e.phases = f.phases
  BY <1>1
<1>6. \A t \in Sessions : cursor'[t] = NoCursor \/ cursor'[t] = cursor[t]
  BY <1>1 DEF IInv, TypeOK
<1> QED BY <1>1, <1>4, <1>5, <1>6, <1>7, CursorsAside

LEMMA TickStep ==
  ASSUME IInv, Tick
  PROVE  IInv'
<1>1. /\ queue' = {Older(e) : e \in queue} /\ UNCHANGED <<transcript, made, gen, jobs, run, history>>
      /\ mishaps' = mishaps
      /\ cursor' = [s \in Sessions |-> IF cursor[s].blocked = "unavailable"
                                       THEN [cursor[s] EXCEPT !.blocked = "no"] ELSE cursor[s]]
  BY DEF Tick
<1>2. ASSUME NEW s \in Sessions
      PROVE  /\ cursor'[s] \in Cursor
             /\ cursor'[s].sig = cursor[s].sig /\ cursor'[s].runSize = cursor[s].runSize
             /\ cursor'[s].offset = cursor[s].offset
             /\ cursor'[s].end = cursor[s].end /\ cursor'[s].done = cursor[s].done
  <2> DEFINE d == [cursor[s] EXCEPT !.blocked = "no"]
  <2>1. cursor[s] \in Cursor
    BY DEF IInv, TypeOK
  <2>2. /\ d \in Cursor /\ d.sig = cursor[s].sig /\ d.runSize = cursor[s].runSize
        /\ d.offset = cursor[s].offset /\ d.end = cursor[s].end /\ d.done = cursor[s].done
    BY <2>1 DEF Cursor
  <2>3. cursor'[s] = d \/ cursor'[s] = cursor[s]
    BY <1>1
  <2> HIDE DEF d
  <2> QED BY <2>1, <2>2, <2>3
<1>3. PICK E, texts : E = Entries(1 .. MaxJobs, Sessions, texts, Phases) /\ texts = SUBSET Message
  OBVIOUS
<1>4. queue \in SUBSET E /\ IsFiniteSet(queue) /\ OnePerSession(queue)
  BY <1>3 DEF IInv, TypeOK, QueueOK
<1>5. queue' \subseteq E /\ IsFiniteSet(queue') /\ OnePerSession(queue')
  BY <1>1, <1>3, <1>4, OlderShape
<1>6. \A e \in queue : Older(e).id = e.id /\ Older(e).text = e.text /\ Older(e).phases = e.phases
  BY <1>3, <1>4, OlderType
<1>7. Pending' = Pending
  BY <1>1, <1>6 DEF Pending, UnitsOf
<1>8. QueueOK' /\ \A e \in queue' : \A m \in e.text : Written(m)
  BY <1>1, <1>5, <1>6 DEF IInv, QueueOK, TextsWritten
<1>9. cursor' \in [Sessions -> Cursor]
  BY <1>1, <1>2
<1>10. TypeOK'
  BY <1>1, <1>3, <1>5, <1>9 DEF IInv, TypeOK, history
<1>11. \A f \in queue' : \E e \in queue : e.id = f.id /\ e.text = f.text /\ e.phases = f.phases
  BY <1>1, <1>6
<1> QED BY <1>1, <1>2, <1>7, <1>8, <1>10, <1>11, CursorsAside

\* A message is appended: it is owed, and lies above every cursor.
LEMMA AppendStep ==
  ASSUME IInv, NEW s \in Sessions, NEW kind \in Kinds, Append1(s, kind)
  PROVE  IInv'
<1> DEFINE k == Len(transcript[s]) + 1
           new == <<s, gen[s], k>>
<1>1. /\ transcript' = [transcript EXCEPT ![s] = Append(@, kind)]
      /\ made' = [made EXCEPT ![s] = Append(@, gen[s])]
      /\ Len(transcript[s]) < MaxLen
      /\ gen' = gen /\ cursor' = cursor /\ queue' = queue /\ jobs' = jobs /\ run' = run
      /\ mishaps' = mishaps /\ blind' = blind
  BY DEF Append1
<1>2. \A t \in Sessions :
        /\ transcript[t] \in Seq(Kinds) /\ Len(transcript[t]) \in Nat /\ Len(transcript[t]) <= MaxLen
        /\ made[t] \in Seq(0 .. MaxGens) /\ Len(made[t]) = Len(transcript[t])
        /\ gen[t] \in 0 .. MaxGens /\ gen[t] \in Nat
  BY TranscriptType DEF IInv, TypeOK
<1>3. /\ transcript'[s] = Append(transcript[s], kind) /\ Len(transcript'[s]) = k
      /\ transcript'[s][k] = kind
      /\ \A i \in 1 .. Len(transcript[s]) : transcript'[s][i] = transcript[s][i]
      /\ \A t \in Sessions : t # s => transcript'[t] = transcript[t]
      /\ transcript' \in [Sessions -> Seq(Kinds)]
  BY <1>1, <1>2 DEF IInv, TypeOK
<1>a. /\ made'[s] = Append(made[s], gen[s]) /\ Len(made'[s]) = k /\ made'[s][k] = gen[s]
      /\ \A i \in 1 .. Len(transcript[s]) : made'[s][i] = made[s][i]
      /\ \A t \in Sessions : t # s => made'[t] = made[t]
      /\ made' \in [Sessions -> Seq(0 .. MaxGens)]
  <2>1. PICK S : S = 0 .. MaxGens
    OBVIOUS
  <2>2. made \in [Sessions -> Seq(S)] /\ gen[s] \in S /\ Len(made[s]) = Len(transcript[s])
    BY <1>2, <2>1 DEF IInv, TypeOK
  <2>3. made[s] \in Seq(S) /\ made'[s] = Append(made[s], gen[s])
    BY <1>1, <2>2
  <2>4. /\ Append(made[s], gen[s]) \in Seq(S) /\ Len(Append(made[s], gen[s])) = Len(made[s]) + 1
        /\ Append(made[s], gen[s])[Len(made[s]) + 1] = gen[s]
        /\ \A i \in 1 .. Len(made[s]) : Append(made[s], gen[s])[i] = made[s][i]
    BY <2>2, <2>3
  <2> QED BY <1>1, <2>1, <2>2, <2>3, <2>4
<1>4. k \in 1 .. MaxLen /\ new \in Message
  BY <1>1, <1>2, Bounds DEF Message
<1>5. /\ \A u \in owed' : u \in owed \/ (u \in {new} \X Phases /\ kind # "noise")
      /\ owed \subseteq owed'
  BY DEF Append1
<1>6. TypeOK'
  <2>1. \A t \in Sessions : Len(transcript'[t]) <= MaxLen
    <3>1. k <= MaxLen
      BY <1>4, Bounds
    <3> HIDE DEF k
    <3> QED BY <1>2, <1>3, <3>1
  <2>2. owed' \subseteq Message \X Phases
    BY <1>1, <1>4, <1>5 DEF IInv, TypeOK
  <2>3. ASSUME NEW t \in Sessions
        PROVE  Len(made'[t]) = Len(transcript'[t]) /\ \A i \in DOMAIN made'[t] : made'[t][i] <= gen[t]
    <3>1. CASE t = s
      <4>1. DOMAIN made'[s] = 1 .. k
        BY <1>a, <1>2
      <4>2. ASSUME NEW i \in 1 .. k PROVE made'[s][i] <= gen[s]
        <5>1. CASE i = k
          BY <1>2, <1>a, <5>1
        <5>2. CASE i # k
          <6>1. i \in 1 .. Len(transcript[s])
            <7>1. Len(transcript[s]) \in Nat /\ i \in 1 .. Len(transcript[s]) + 1
              BY <1>2
            <7> QED BY <5>2, <7>1
          <6> QED BY <1>a, <6>1, TranscriptType DEF IInv
        <5> QED BY <5>1, <5>2
      <4> HIDE DEF k
      <4> QED BY <1>3, <1>a, <3>1, <4>1, <4>2
    <3>2. CASE t # s
      BY <1>3, <1>a, <3>2 DEF IInv, TypeOK
    <3> QED BY <3>1, <3>2
  <2> QED BY <1>1, <1>3, <1>a, <2>1, <2>2, <2>3 DEF IInv, TypeOK
<1>7. \A t \in Sessions : Len(transcript[t]) <= Len(transcript'[t])
  <2>1. Len(transcript[s]) <= Len(transcript'[s])
    BY <1>2, <1>3
  <2>2. ASSUME NEW t \in Sessions, t # s PROVE Len(transcript[t]) <= Len(transcript'[t])
    <3>1. transcript'[t] = transcript[t] /\ Len(transcript[t]) \in Nat
      BY <1>2, <1>3, <2>2
    <3> QED BY <3>1
  <2> QED BY <2>1, <2>2
<1>8. OwedIsThere'
  <2> SUFFICES ASSUME NEW u \in owed'
               PROVE  /\ u[1][2] = made'[u[1][1]][u[1][3]] /\ u[1][3] <= Len(transcript'[u[1][1]])
                      /\ transcript'[u[1][1]][u[1][3]] # "noise"
    BY DEF OwedIsThere
  <2>1. CASE u \in owed
    <3>1. u[1][1] \in Sessions /\ u[1][3] \in 1 .. MaxLen
      BY <2>1 DEF IInv, TypeOK, Message
    <3>2. /\ u[1][2] = made[u[1][1]][u[1][3]] /\ u[1][3] <= Len(transcript[u[1][1]])
          /\ transcript[u[1][1]][u[1][3]] # "noise"
      BY <2>1 DEF IInv, OwedIsThere
    <3>3. u[1][3] \in 1 .. Len(transcript[u[1][1]])
      BY <1>2, <3>1, <3>2, Bounds
    <3>4. CASE u[1][1] = s
      <4>1. /\ u[1][3] <= k /\ transcript'[s][u[1][3]] = transcript[s][u[1][3]]
            /\ made'[s][u[1][3]] = made[s][u[1][3]]
        BY <1>2, <1>3, <1>a, <3>3, <3>4
      <4> QED BY <1>3, <3>2, <3>4, <4>1
    <3>5. CASE u[1][1] # s
      <4>1. transcript'[u[1][1]] = transcript[u[1][1]] /\ made'[u[1][1]] = made[u[1][1]]
        BY <1>3, <1>a, <3>1, <3>5
      <4> QED BY <3>2, <4>1
    <3> QED BY <3>4, <3>5
  <2>2. CASE u \in {new} \X Phases /\ kind # "noise"
    <3>1. u[1][1] = s /\ u[1][2] = gen[s] /\ u[1][3] = k
      BY <2>2
    <3> QED BY <1>2, <1>3, <1>a, <2>2, <3>1
  <2> QED BY <1>5, <2>1, <2>2
<1>9. ASSUME NEW m \in Message, Written(m) PROVE Written(m)'
  <2>1. m[1] \in Sessions /\ m[3] \in Nat
    BY Bounds DEF Message
  <2> QED BY <1>1, <1>2, <1>3, <1>7, <1>9, <2>1 DEF Written
<1>10. TextsWritten'
  BY <1>1, <1>9 DEF IInv, TextsWritten, TypeOK, Entries, Runner
<1>11. QueueOK'
  BY <1>1 DEF IInv, QueueOK
<1>12. ASSUME NEW t \in Sessions, NEW sig \in Fingerprint, Taken(t, sig) PROVE Taken(t, sig)'
  <2> SUFFICES ASSUME NEW i \in DOMAIN sig, i > Len(transcript'[t]) PROVE i > Len(transcript[t])
    BY <1>1, <1>12 DEF Taken
  <2>1. i \in Nat /\ Len(transcript[t]) \in Nat /\ Len(transcript'[t]) \in Nat
    BY <1>2, <1>3, <1>4, FingerprintType
  <2> QED BY <1>7, <2>1
<1>13. RunsWellFormed'
  <2>1. ASSUME NEW q \in Runners, run[q].session # None, run[q].pc # "reset"
        PROVE  (Taken(run[q].session, run[q].sig))'
    <3>1. run[q].session \in Sessions /\ run[q].sig \in Fingerprint /\ Taken(run[q].session, run[q].sig)
      BY <2>1, RunnerFacts DEF Runner, IInv, RunsWellFormed
    <3>2. PICK t, sig : t = run[q].session /\ sig = run[q].sig
      OBVIOUS
    <3>3. Taken(t, sig)'
      BY <1>12, <3>1, <3>2
    <3> QED BY <1>1, <3>2, <3>3 DEF Taken
  <2> QED BY <1>1, <2>1 DEF IInv, RunsWellFormed
<1>14. CursorsWellFormed'
  <2>1. ASSUME NEW t \in Sessions, cursor[t].sig # None PROVE (Taken(t, cursor[t].sig))'
    <3>1. PICK sig : sig = cursor[t].sig
      OBVIOUS
    <3>2. sig \in Fingerprint /\ Taken(t, sig)
      BY <2>1, <3>1 DEF IInv, TypeOK, Cursor, CursorsWellFormed
    <3>3. Taken(t, sig)'
      BY <1>12, <3>2
    <3> QED BY <1>1, <3>1, <3>3 DEF Taken
  <2> QED BY <1>1, <2>1 DEF IInv, CursorsWellFormed
<1>15. RetriesDone'
  <2>1. ~Written(new)
    <3>1. ~(gen[s] < gen[s]) /\ ~(k <= Len(transcript[s]))
      BY <1>2
    <3> QED BY <3>1 DEF Written
  <2>2. \A u \in owed' : u \in owed \/ ~Written(u[1])
    BY <1>5, <2>1
  <2> HIDE DEF new, k
  <2> QED BY <1>1, <2>2, RetriesKept
\* What a fingerprint vouches for of the longer transcript: what it did of the
\* shorter one, and the new message only if it vouches for the whole.
<1>16. ASSUME NEW t \in Sessions, NEW sig \in Fingerprint \cup {None}, sig # None => Taken(t, sig)
       PROVE  /\ Whole(t, sig)' => Whole(t, sig)
              /\ \A u \in LostOf(t, sig)' :
                   \/ u \in LostOf(t, sig)
                   \/ Whole(t, sig) /\ u[1][3] = Len(transcript[t]) + 1
  <2>1. /\ gen'[t] = gen[t] /\ Len(made[t]) = Len(transcript[t]) /\ Len(transcript[t]) \in Nat
        /\ Len(made'[t]) \in Nat /\ gen[t] \in Nat
        /\ \A i \in 1 .. Len(transcript[t]) : made'[t][i] = made[t][i]
        /\ \A i \in Nat : i <= Len(made'[t]) /\ i > Len(transcript[t]) =>
             t = s /\ i = Len(transcript[t]) + 1 /\ made'[t][i] = gen[t]
    <3>1. CASE t = s
      BY <1>1, <1>2, <1>a, <3>1
    <3>2. CASE t # s
      BY <1>1, <1>2, <1>a, <3>2
    <3> QED BY <3>1, <3>2
  <2>2. ASSUME sig # None, NEW i \in DOMAIN sig, i <= Len(made'[t]), made'[t][i] = sig[i]
        PROVE  i <= Len(transcript[t]) /\ made[t][i] = sig[i]
    <3>1. i \in Nat \ {0} /\ sig[i] \in Nat
      BY <1>16, <2>2, FingerprintType
    <3>2. ~(i > Len(transcript[t]))
      <4> SUFFICES ASSUME i > Len(transcript[t]) PROVE FALSE
        OBVIOUS
      <4>1. sig[i] = gen[t] /\ sig[i] < gen[t]
        BY <1>16, <2>1, <2>2, <3>1 DEF Taken
      <4> QED BY <2>1, <4>1
    <3> QED BY <2>1, <2>2, <3>1, <3>2
  <2>3. Whole(t, sig)' => Whole(t, sig)
    BY <2>1, <2>2 DEF Whole, Begins
  <2>4. ASSUME NEW u \in LostOf(t, sig)', u \notin LostOf(t, sig)
        PROVE  Whole(t, sig) /\ u[1][3] = Len(transcript[t]) + 1
    <3>1. u \in owed' /\ u \notin Pending /\ u[1][1] = t /\ (Vouched(t, sig, u[1][3]))'
      BY <1>1, <2>4 DEF LostOf, Lost, Pending, UnitsOf, Vouched, Whole, Begins
    <3>2. u \in Message \X Phases
      BY <1>6, <3>1 DEF TypeOK
    <3>3. u[1][3] \in Nat \ {0} /\ u[1][3] <= Len(made'[t])
      <4>1. u[1][3] <= Len(transcript'[t])
        BY <1>8, <3>1 DEF OwedIsThere
      <4>2. Len(made'[t]) = Len(transcript'[t])
        BY <1>6 DEF TypeOK
      <4> QED BY <3>2, <4>1, <4>2, Bounds DEF Message
    <3>4. Whole(t, sig)' \/ Vouched(t, sig, u[1][3])
      BY <2>2, <3>1, <3>3 DEF Vouched, Whole, Begins
    <3>5. u \notin owed
      <4> SUFFICES ASSUME u \in owed PROVE FALSE
        OBVIOUS
      <4>1. Vouched(t, sig, u[1][3])
        BY <2>3, <3>4 DEF Vouched
      <4> QED BY <2>4, <3>1, <4>1 DEF LostOf, Lost
    <3>6. t = s /\ u[1][3] = Len(transcript[t]) + 1
      <4>1. u[1] = new
        BY <1>5, <3>1, <3>5
      <4>2. new[1] = s /\ new[3] = Len(transcript[s]) + 1
        OBVIOUS
      <4> HIDE DEF new
      <4> QED BY <3>1, <4>1, <4>2
    <3>7. ASSUME sig # None, u[1][3] \in DOMAIN sig, sig[u[1][3]] = made'[t][u[1][3]]
          PROVE  FALSE
      <4>1. u[1][3] <= Len(transcript[t])
        BY <2>2, <3>3, <3>7
      <4> QED BY <2>1, <3>6, <4>1
    <3>8. Whole(t, sig)'
      BY <3>1, <3>7 DEF Vouched, Whole, Begins
    <3> QED BY <2>3, <3>6, <3>8
  <2> QED BY <2>3, <2>4
<1> HIDE DEF k, new
<1>17. ASSUME NEW t \in Sessions, NEW sig \in Fingerprint \cup {None}, sig # None => Taken(t, sig),
              Sound(t, sig)
       PROVE  Sound(t, sig)'
  <2>1. PICK c : c = cursor[t]
    OBVIOUS
  <2>2. /\ c.offset \in Nat /\ c.end \in Nat /\ Len(transcript[t]) \in Nat
        /\ Len(transcript'[t]) \in Nat
    BY <1>2, <1>3, <1>4, <2>1, Bounds DEF IInv, TypeOK, Cursor
  <2>3. /\ Whole(t, sig) => c.offset <= Len(transcript[t]) /\ c.end <= Len(transcript[t])
        /\ \A u \in LostOf(t, sig) : u[1][3] > c.offset /\ (u[1][3] <= c.end => u[2] \notin c.done)
    BY <1>17, <2>1 DEF Sound
  <2>4. Whole(t, sig)' => c.offset <= Len(transcript'[t]) /\ c.end <= Len(transcript'[t])
    BY <1>7, <1>16, <1>17, <2>2, <2>3
  <2>5. ASSUME NEW u \in LostOf(t, sig)'
        PROVE  u[1][3] > c.offset /\ (u[1][3] <= c.end => u[2] \notin c.done)
    <3>1. CASE u \in LostOf(t, sig)
      BY <2>3, <3>1
    <3>2. CASE Whole(t, sig) /\ u[1][3] = Len(transcript[t]) + 1
      BY <2>2, <2>3, <3>2
    <3> QED BY <1>16, <1>17, <3>1, <3>2
  <2> QED BY <1>1, <2>1, <2>4, <2>5 DEF Sound
<1>18. CursorsSound'
  <2> SUFFICES ASSUME NEW t \in Sessions \ blind, NEW own, own = cursor[t].sig PROVE Sound(t, own)'
    BY <1>1 DEF CursorsSound
  <2>1. /\ own \in Fingerprint \cup {None} /\ Sound(t, own)
        /\ own # None => Taken(t, own)
    BY DEF IInv, TypeOK, Cursor, CursorsWellFormed, CursorsSound
  <2> QED BY <1>17, <2>1
<1>19. ASSUME NEW q \in Runners PROVE RunSound(q)'
  <2>1. PICK t, n, sig : t = run[q].session /\ n = run[q].to /\ sig = run[q].sig
    OBVIOUS
  <2> SUFFICES ASSUME t # None, t \notin blind, run[q].pc # "reset"
               PROVE  /\ Sound(t, sig)'
                      /\ run[q].pc \in {"call", "enqueue", "keep", "advance"} =>
                           /\ Whole(t, sig)' => cursor[t].offset <= n /\ n <= Len(transcript'[t])
                           /\ \A u \in LostOf(t, sig)' : u[1][3] <= n =>
                                run[q].pc # "advance" /\ u \in run[q].text \X run[q].left
    BY <1>1, <2>1, RunSoundAfter
  <2>2. /\ t \in Sessions /\ n \in Nat /\ sig \in Fingerprint \cup {None} /\ Taken(t, sig)
    BY <2>1, RunnerFacts, Bounds DEF Runner, IInv, RunsWellFormed
  <2>3. /\ Sound(t, sig)
        /\ run[q].pc \in {"call", "enqueue", "keep", "advance"} =>
             /\ Whole(t, sig) => cursor[t].offset <= n /\ n <= Len(transcript[t])
             /\ \A u \in LostOf(t, sig) : u[1][3] <= n =>
                  run[q].pc # "advance" /\ u \in run[q].text \X run[q].left
    BY <2>1 DEF IInv, RunSound
  <2>4. Len(transcript[t]) <= Len(transcript'[t]) /\ Len(transcript[t]) \in Nat
        /\ Len(transcript'[t]) \in Nat
    BY <1>2, <1>3, <1>4, <1>7, <2>2
  <2>5. Sound(t, sig)'
    BY <1>17, <2>2, <2>3
  <2>6. ASSUME run[q].pc \in {"call", "enqueue", "keep", "advance"},
               NEW u \in LostOf(t, sig)', u[1][3] <= n
        PROVE  run[q].pc # "advance" /\ u \in run[q].text \X run[q].left
    <3>1. ~(Whole(t, sig) /\ u[1][3] = Len(transcript[t]) + 1)
      BY <2>2, <2>3, <2>4, <2>6
    <3> QED BY <1>16, <2>2, <2>3, <2>6, <3>1
  <2>7. Whole(t, sig)' => Whole(t, sig)
    BY <1>16, <2>2
  <2> QED BY <2>2, <2>3, <2>4, <2>5, <2>6, <2>7
<1> QED BY <1>6, <1>8, <1>10, <1>11, <1>13, <1>14, <1>15, <1>18, <1>19 DEF IInv

\* The transcript is rewritten after message k: a fingerprint that still
\* vouches for what follows k covers its window, so its session is blind
\* unless nothing beyond k was passed.
LEMMA ReplaceStep ==
  ASSUME IInv, NEW s \in Sessions, NEW k \in 0 .. MaxLen, NEW n \in 1 .. MaxLen, Replace(s, k, n)
  PROVE  IInv'
<1> DEFINE g == gen[s] + 1
           new == {<<s, g, i>> : i \in {j \in k + 1 .. n : transcript[s][j] # "noise"}}
<1>1. /\ gen' = [gen EXCEPT ![s] = g] /\ gen[s] < MaxGens
      /\ n \in DOMAIN transcript[s] /\ k <= n /\ k < Len(transcript[s])
      /\ transcript' = [transcript EXCEPT ![s] = SubSeq(@, 1, n)]
      /\ made' = [made EXCEPT ![s] = [i \in 1 .. n |-> IF i <= k THEN @[i] ELSE g]]
      /\ owed' = {u \in owed : u[1][1] = s => u[1][3] <= k} \cup (new \X Phases)
      /\ cursor' = cursor /\ queue' = queue /\ jobs' = jobs /\ run' = run /\ mishaps' = mishaps
      /\ blind' = IF k >= SigWindow /\ Passed(s, k) THEN blind \cup {s} ELSE blind
  BY DEF Replace
<1>2. \A t \in Sessions : transcript[t] \in Seq(Kinds) /\ Len(transcript[t]) \in Nat
                         /\ Len(transcript[t]) <= MaxLen /\ gen[t] \in Nat
  BY TranscriptType DEF IInv, TypeOK
<1>3. /\ n \in 1 .. Len(transcript[s]) /\ n \in Nat /\ k \in Nat /\ k <= n
      /\ g \in 0 .. MaxGens /\ g \in Nat /\ gen[s] < g
  <2>1. n \in 1 .. Len(transcript[s]) /\ n \in Nat /\ k \in Nat /\ k <= n
    BY <1>1, TranscriptType, Bounds DEF IInv
  <2>2. gen[s] \in Nat /\ MaxGens \in Nat /\ gen[s] < MaxGens
    BY <1>1, <1>2, Bounds
  <2> QED BY <2>1, <2>2
<1>4. SubSeq(transcript[s], 1, n) \in Seq(Kinds) /\ Len(SubSeq(transcript[s], 1, n)) = n
      /\ \A i \in 1 .. n : SubSeq(transcript[s], 1, n)[i] = transcript[s][i]
  BY <1>2, <1>3
<1>5. /\ transcript' \in [Sessions -> Seq(Kinds)] /\ transcript'[s] = SubSeq(transcript[s], 1, n)
      /\ gen' \in [Sessions -> 0 .. MaxGens] /\ gen'[s] = g /\ Len(transcript'[s]) = n
      /\ \A t \in Sessions : t # s => transcript'[t] = transcript[t] /\ gen'[t] = gen[t]
  BY <1>1, <1>3, <1>4 DEF IInv, TypeOK
<1>a. /\ made' \in [Sessions -> Seq(0 .. MaxGens)] /\ Len(made'[s]) = n /\ DOMAIN made'[s] = 1 .. n
      /\ \A i \in 1 .. n : made'[s][i] = IF i <= k THEN made[s][i] ELSE g
      /\ \A t \in Sessions : t # s => made'[t] = made[t]
  <2> DEFINE m == [i \in 1 .. n |-> IF i <= k THEN made[s][i] ELSE g]
  <2>1. \A i \in 1 .. n : made[s][i] \in 0 .. MaxGens
    <3>1. \A i \in 1 .. n : i \in 1 .. Len(transcript[s])
      BY <1>2, <1>3
    <3> QED BY <3>1, TranscriptType DEF IInv
  <2>2. m \in [1 .. n -> 0 .. MaxGens]
    BY <1>3, <2>1
  <2>3. made \in [Sessions -> Seq(0 .. MaxGens)] /\ made' = [made EXCEPT ![s] = m]
    BY <1>1 DEF IInv, TypeOK
  <2>4. m \in Seq(0 .. MaxGens) /\ Len(m) = n /\ DOMAIN m = 1 .. n
    <3>1. PICK S : S = 0 .. MaxGens
      OBVIOUS
    <3>2. m \in [1 .. n -> S]
      BY <2>2, <3>1
    <3> HIDE DEF m
    <3>3. m \in Seq(S) /\ Len(m) = n
      BY <1>3, <3>2
    <3> QED BY <3>1, <3>2, <3>3
  <2>5. \A i \in 1 .. n : m[i] = IF i <= k THEN made[s][i] ELSE g
    OBVIOUS
  <2> HIDE DEF m
  <2> QED BY <2>3, <2>4, <2>5
<1>6. new \subseteq Message /\ \A m \in new : m[1] = s /\ m[2] = g /\ m[3] \in k + 1 .. n
  <2> SUFFICES ASSUME NEW i \in k + 1 .. n PROVE <<s, g, i>> \in Message
    OBVIOUS
  <2>1. i \in 1 .. MaxLen
    BY <1>2, <1>3, Bounds
  <2> HIDE DEF g
  <2> QED BY <1>3, <2>1 DEF Message
<1>b. ASSUME NEW u \in owed' PROVE (u \in owed /\ (u[1][1] = s => u[1][3] <= k)) \/ u[1] \in new
  BY <1>1
<1>7. TypeOK'
  <2>1. ASSUME NEW t \in Sessions
        PROVE  /\ Len(transcript'[t]) <= MaxLen /\ Len(made'[t]) = Len(transcript'[t])
               /\ \A i \in DOMAIN made'[t] : made'[t][i] <= gen'[t]
    <3>1. CASE t = s
      <4>1. \A i \in 1 .. n : made'[s][i] <= g
        <5> SUFFICES ASSUME NEW i \in 1 .. n PROVE made'[s][i] <= g
          OBVIOUS
        <5>1. i \in 1 .. Len(transcript[s])
          BY <1>2, <1>3
        <5>2. made[s][i] \in Nat /\ made[s][i] <= gen[s]
          BY <5>1, TranscriptType DEF IInv
        <5>3. made'[s][i] = made[s][i] \/ made'[s][i] = g
          BY <1>a
        <5> QED BY <1>2, <1>3, <5>2, <5>3
      <4> HIDE DEF g
      <4> QED BY <1>5, <1>a, <3>1, <4>1, Bounds
    <3>2. CASE t # s
      BY <1>2, <1>5, <1>a, <3>2 DEF IInv, TypeOK
    <3> QED BY <3>1, <3>2
  <2>2. owed' \subseteq Message \X Phases
    BY <1>1, <1>6 DEF IInv, TypeOK
  <2>3. blind' \subseteq Sessions
    BY <1>1 DEF IInv, TypeOK
  <2> QED BY <1>1, <1>5, <1>a, <2>1, <2>2, <2>3 DEF IInv, TypeOK
<1>8. OwedIsThere'
  <2> SUFFICES ASSUME NEW u \in owed'
               PROVE  /\ u[1][2] = made'[u[1][1]][u[1][3]] /\ u[1][3] <= Len(transcript'[u[1][1]])
                      /\ transcript'[u[1][1]][u[1][3]] # "noise"
    BY DEF OwedIsThere
  <2>1. CASE u \in owed /\ u[1][1] # s
    <3>1. u[1][1] \in Sessions
      BY <2>1 DEF IInv, TypeOK, Message
    <3> QED BY <1>5, <1>a, <2>1, <3>1 DEF IInv, OwedIsThere
  <2>2. CASE u \in owed /\ u[1][1] = s /\ u[1][3] <= k
    <3>1. u[1][3] \in 1 .. n
      BY <1>3, <2>2, Bounds DEF IInv, TypeOK, Message
    <3>2. /\ u[1][2] = made[s][u[1][3]] /\ transcript[s][u[1][3]] # "noise"
      BY <2>2 DEF IInv, OwedIsThere
    <3> QED BY <1>3, <1>4, <1>5, <1>a, <2>2, <3>1, <3>2
  <2>3. CASE u[1] \in new
    <3>1. PICK i \in k + 1 .. n : u[1] = <<s, g, i>> /\ transcript[s][i] # "noise"
      BY <2>3
    <3>2. i \in 1 .. n /\ ~(i <= k)
      BY <1>3
    <3>3. u[1][1] = s /\ u[1][2] = g /\ u[1][3] = i
      BY <3>1
    <3>4. made'[s][i] = g /\ transcript'[s][i] = transcript[s][i] /\ i <= n
      BY <1>3, <1>4, <1>5, <1>a, <3>2
    <3> HIDE DEF g, new
    <3> QED BY <1>5, <3>1, <3>3, <3>4
  <2> QED BY <1>b, <2>1, <2>2, <2>3
\* A message of session s written before is of an earlier generation now.
<1>9. ASSUME NEW m \in Message, Written(m)
      PROVE  Written(m)' /\ (m[1] = s => m[2] < g)
  <2>1. m[1] \in Sessions /\ m[2] \in Nat
    BY Bounds DEF Message
  <2>2. CASE m[1] = s
    <3>1. m[2] < g
      BY <1>2, <1>9, <2>1, <2>2 DEF Written
    <3> QED BY <1>5, <2>2, <3>1 DEF Written
  <2>3. CASE m[1] # s
    BY <1>5, <1>9, <2>1, <2>3 DEF Written
  <2> QED BY <2>2, <2>3
<1>10. TextsWritten'
  BY <1>1, <1>9 DEF IInv, TextsWritten, TypeOK, Entries, Runner
<1>11. QueueOK'
  BY <1>1 DEF IInv, QueueOK
\* So is every fingerprint taken of it.
<1>12. ASSUME NEW t \in Sessions, NEW sig \in Fingerprint, Taken(t, sig)
       PROVE  Taken(t, sig)' /\ (t = s => \A i \in DOMAIN sig : sig[i] < g)
  <2>1. CASE t = s
    <3>1. \A i \in DOMAIN sig : sig[i] \in Nat /\ sig[i] <= gen[s]
      BY <1>12, <2>1, FingerprintType DEF Taken
    <3>2. \A i \in DOMAIN sig : sig[i] < g /\ sig[i] <= g
      BY <1>2, <1>3, <3>1
    <3> QED BY <1>5, <2>1, <3>2 DEF Taken
  <2>2. CASE t # s
    BY <1>5, <1>12, <2>2 DEF Taken
  <2> QED BY <2>1, <2>2
<1>13. RunsWellFormed'
  <2>1. ASSUME NEW q \in Runners, run[q].session # None, run[q].pc # "reset"
        PROVE  (Taken(run[q].session, run[q].sig))'
    <3>1. run[q].session \in Sessions /\ run[q].sig \in Fingerprint /\ Taken(run[q].session, run[q].sig)
      BY <2>1, RunnerFacts DEF Runner, IInv, RunsWellFormed
    <3>2. PICK t, sig : t = run[q].session /\ sig = run[q].sig
      OBVIOUS
    <3>3. Taken(t, sig)'
      BY <1>12, <3>1, <3>2
    <3> QED BY <1>1, <3>2, <3>3 DEF Taken
  <2> QED BY <1>1, <2>1 DEF IInv, RunsWellFormed
<1>14. CursorsWellFormed'
  <2>1. ASSUME NEW t \in Sessions, cursor[t].sig # None PROVE (Taken(t, cursor[t].sig))'
    <3>1. PICK sig : sig = cursor[t].sig
      OBVIOUS
    <3>2. sig \in Fingerprint /\ Taken(t, sig)
      BY <2>1, <3>1 DEF IInv, TypeOK, Cursor, CursorsWellFormed
    <3>3. Taken(t, sig)'
      BY <1>12, <3>2
    <3> QED BY <1>1, <3>1, <3>3 DEF Taken
  <2> QED BY <1>1, <2>1 DEF IInv, CursorsWellFormed
<1>15. RetriesDone'
  <2>1. ASSUME NEW u \in owed', u \notin owed PROVE ~Written(u[1])
    <3>1. u[1] \in Message /\ u[1][1] = s /\ u[1][2] = g
      BY <1>6, <1>b, <2>1
    <3>2. ~(g < g)
      BY <1>3
    <3> QED BY <1>9, <3>1, <3>2
  <2> HIDE DEF new, g
  <2> QED BY <1>1, <2>1, RetriesKept
<1> HIDE DEF new, g
\* What a fingerprint vouches for of the rewritten transcript: what it did of
\* the old one up to k, and what follows only if it vouches for the whole.
<1>16. ASSUME NEW sig \in Fingerprint \cup {None}, sig # None => Taken(s, sig)
       PROVE  /\ Whole(s, sig)' => Whole(s, sig) /\ k >= SigWindow
              /\ \A u \in LostOf(s, sig)' :
                   u \in LostOf(s, sig) \/ (Whole(s, sig)' /\ u[1][3] \in k + 1 .. n)
  <2>1. ASSUME sig # None, NEW i \in DOMAIN sig, i <= n, made'[s][i] = sig[i]
        PROVE  i \in Nat /\ i <= k /\ made[s][i] = sig[i]
    <3>1. i \in Nat \ {0} /\ sig[i] \in Nat /\ sig[i] < g
      BY <1>12, <1>16, <2>1, FingerprintType
    <3>2. i \in 1 .. n /\ made'[s][i] # g
      BY <1>3, <2>1, <3>1
    <3>3. i <= k
      BY <1>a, <3>2
    <3> QED BY <1>a, <2>1, <3>1, <3>2, <3>3
  <2>2. ASSUME Whole(s, sig)' PROVE Whole(s, sig) /\ k >= SigWindow
    <3>1. gen'[s] # 0
      BY <1>2, <1>3, <1>5
    <3>2. sig # None /\ Len(sig) = SigWindow
          /\ \A i \in DOMAIN sig : i <= Len(made'[s]) /\ made'[s][i] = sig[i]
      BY <2>2, <3>1 DEF Whole, Begins
    <3>3. \A i \in DOMAIN sig : i <= k /\ made[s][i] = sig[i]
      BY <1>a, <2>1, <3>2
    <3>4. SigWindow \in DOMAIN sig
      BY <1>16, <3>2, FingerprintType, Bounds
    <3>5. Len(made[s]) = Len(transcript[s])
      BY TranscriptType DEF IInv
    <3>6. \A i \in DOMAIN sig : i <= Len(made[s])
      <4> SUFFICES ASSUME NEW i \in DOMAIN sig PROVE i <= Len(made[s])
        OBVIOUS
      <4>1. i \in Nat /\ i <= k
        BY <1>16, <3>2, <3>3, FingerprintType
      <4> QED BY <1>1, <1>2, <1>3, <3>5, <4>1
    <3> QED BY <1>3, <3>2, <3>3, <3>4, <3>6, Bounds DEF Whole, Begins
  <2>3. ASSUME NEW u \in LostOf(s, sig)', u \notin LostOf(s, sig)
        PROVE  Whole(s, sig)' /\ u[1][3] \in k + 1 .. n
    <3>1. u \in owed' /\ u \notin Pending /\ u[1][1] = s /\ (Vouched(s, sig, u[1][3]))'
      BY <1>1, <2>3 DEF LostOf, Lost, Pending, UnitsOf, Vouched, Whole, Begins
    <3>2. u[1][3] \in Nat \ {0} /\ u[1][3] <= n
      <4>1. u \in Message \X Phases /\ u[1][3] <= Len(transcript'[s])
        BY <1>7, <1>8, <3>1 DEF TypeOK, OwedIsThere
      <4> QED BY <1>5, <4>1, Bounds DEF Message
    <3>3. Whole(s, sig)' \/ (Vouched(s, sig, u[1][3]) /\ u[1][3] <= k)
      BY <2>1, <3>1, <3>2 DEF Vouched, Whole, Begins
    <3>4. CASE u[1] \in new
      <4>1. u[1][3] \in k + 1 .. n
        BY <1>6, <3>4
      <4>2. ~(u[1][3] <= k)
        BY <1>3, <4>1
      <4> QED BY <3>3, <4>1, <4>2
    <3>5. CASE u \in owed
      <4>1. Vouched(s, sig, u[1][3])
        BY <2>2, <3>3 DEF Vouched
      <4> QED BY <2>3, <3>1, <3>5, <4>1 DEF LostOf, Lost
    <3> QED BY <1>b, <3>1, <3>4, <3>5
  <2> QED BY <2>2, <2>3
<1>17. ASSUME s \notin blind', NEW sig \in Fingerprint \cup {None}, sig # None => Taken(s, sig),
              Sound(s, sig)
       PROVE  Sound(s, sig)'
  <2>1. PICK c : c = cursor[s]
    OBVIOUS
  <2>2. c.offset \in Nat /\ c.end \in Nat
    BY <2>1, Bounds DEF IInv, TypeOK, Cursor
  <2>3. Whole(s, sig)' => c.offset <= k /\ c.end <= k
    <3>1. Whole(s, sig)' => ~Passed(s, k)
      BY <1>1, <1>16, <1>17
    <3> QED BY <1>3, <2>1, <2>2, <3>1 DEF Passed
  <2>4. ASSUME NEW u \in LostOf(s, sig)'
        PROVE  u[1][3] > c.offset /\ (u[1][3] <= c.end => u[2] \notin c.done)
    <3>1. CASE u \in LostOf(s, sig)
      BY <1>17, <2>1, <3>1 DEF Sound
    <3>2. CASE Whole(s, sig)' /\ u[1][3] \in k + 1 .. n
      BY <1>3, <2>2, <2>3, <3>2
    <3> QED BY <1>16, <1>17, <3>1, <3>2
  <2>5. Whole(s, sig)' => c.offset <= n /\ c.end <= n
    BY <1>3, <2>2, <2>3
  <2> QED BY <1>1, <1>5, <2>1, <2>4, <2>5 DEF Sound
\* The other sessions' transcripts and what they owe stay.
<1>18. ASSUME NEW t \in Sessions, t # s
       PROVE  \A sig : LostOf(t, sig)' = LostOf(t, sig) /\ (Whole(t, sig)' <=> Whole(t, sig))
  <2>1. \A u : u[1][1] = t => (u \in owed' <=> u \in owed)
    BY <1>1, <1>6, <1>b, <1>18
  <2>2. made'[t] = made[t] /\ gen'[t] = gen[t]
    BY <1>5, <1>a, <1>18
  <2> QED BY <1>1, <2>1, <2>2, VouchedKept DEF LostOf, Lost, Pending, UnitsOf
<1>19. ASSUME NEW t \in Sessions, t # s, NEW sig, Sound(t, sig) PROVE Sound(t, sig)'
  BY <1>1, <1>5, <1>18, <1>19 DEF Sound
<1>20. CursorsSound'
  <2> SUFFICES ASSUME NEW t \in Sessions, t \notin blind', NEW own, own = cursor[t].sig
               PROVE  Sound(t, own)'
    BY <1>1 DEF CursorsSound
  <2>1. /\ own \in Fingerprint \cup {None} /\ t \notin blind
        /\ own # None => Taken(t, own)
        /\ Sound(t, own)
    BY <1>1 DEF IInv, TypeOK, Cursor, CursorsWellFormed, CursorsSound
  <2> QED BY <1>17, <1>19, <2>1
<1>21. ASSUME NEW q \in Runners PROVE RunSound(q)'
  <2>1. PICK t, m, sig : t = run[q].session /\ m = run[q].to /\ sig = run[q].sig
    OBVIOUS
  <2> SUFFICES ASSUME t # None, t \notin blind', run[q].pc # "reset"
               PROVE  /\ Sound(t, sig)'
                      /\ run[q].pc \in {"call", "enqueue", "keep", "advance"} =>
                           /\ Whole(t, sig)' => cursor[t].offset <= m /\ m <= Len(transcript'[t])
                           /\ \A u \in LostOf(t, sig)' : u[1][3] <= m =>
                                run[q].pc # "advance" /\ u \in run[q].text \X run[q].left
    BY <1>1, <2>1, RunSoundAfter
  <2>2. t \in Sessions /\ m \in Nat /\ sig \in Fingerprint \cup {None} /\ Taken(t, sig)
    BY <2>1, RunnerFacts, Bounds DEF Runner, IInv, RunsWellFormed
  <2>3. /\ Sound(t, sig)
        /\ run[q].pc \in {"call", "enqueue", "keep", "advance"} =>
             /\ Whole(t, sig) => cursor[t].offset <= m /\ m <= Len(transcript[t])
             /\ \A u \in LostOf(t, sig) : u[1][3] <= m =>
                  run[q].pc # "advance" /\ u \in run[q].text \X run[q].left
    BY <1>1, <2>1 DEF IInv, RunSound
  <2>4. CASE t # s
    BY <1>5, <1>18, <1>19, <2>2, <2>3, <2>4
  <2>5. CASE t = s
    <3>1. Whole(s, sig)' => m <= k
      <4>1. Active(q, s)
        BY <2>1, <2>5 DEF Active, IInv, RunsWellFormed
      <4>2. Whole(s, sig)' => ~Passed(s, k)
        BY <1>1, <1>16, <2>2, <2>5
      <4> QED BY <1>3, <2>1, <2>2, <4>1, <4>2 DEF Passed
    <3>2. Sound(s, sig)'
      BY <1>17, <2>2, <2>3, <2>5
    <3>3. ASSUME run[q].pc \in {"call", "enqueue", "keep", "advance"},
                 NEW u \in LostOf(s, sig)', u[1][3] <= m
          PROVE  run[q].pc # "advance" /\ u \in run[q].text \X run[q].left
      <4>1. ~(Whole(s, sig)' /\ u[1][3] \in k + 1 .. n)
        BY <1>3, <2>2, <3>1, <3>3
      <4> QED BY <1>16, <2>2, <2>3, <2>5, <3>3, <4>1
    <3>4. Whole(s, sig)' => Whole(s, sig) /\ m <= n
      BY <1>3, <1>16, <2>2, <2>5, <3>1
    <3> QED BY <1>5, <2>3, <2>5, <3>2, <3>3, <3>4
  <2> QED BY <2>4, <2>5
<1> QED BY <1>7, <1>8, <1>10, <1>11, <1>13, <1>14, <1>15, <1>20, <1>21 DEF IInv

-----------------------------------------------------------------------------
(* The theorems *)

LEMMA InitInv == Init => IInv
<1> SUFFICES ASSUME Init PROVE IInv
  OBVIOUS
<1>1. TypeOK
  <2>1. 0 \in 0 .. MaxGens /\ 0 \in 0 .. MaxJobs /\ 0 \in 0 .. MaxMishaps
    BY Bounds
  <2>2. <<>> \in Seq(Kinds) /\ Len(<<>>) = 0 /\ 0 <= MaxLen
        /\ <<>> \in Seq(0 .. MaxGens) /\ DOMAIN <<>> = {}
    BY Bounds
  <2> QED BY <2>1, <2>2, IdleType DEF Init, TypeOK
<1>2. OwedIsThere /\ TextsWritten /\ QueueOK /\ RunsWellFormed /\ CursorsWellFormed /\ RetriesDone
  <2>1. QueueOK
    BY FS_EmptySet DEF Init, QueueOK, OnePerSession
  <2>2. \A r \in Runners : run[r].pc = "idle" /\ run[r].session = None /\ run[r].text = {}
    BY IdleType DEF Init
  <2>3. \A s \in Sessions : cursor[s].sig = None /\ cursor[s].runSize = None
    BY IdleType DEF Init
  <2>4. owed = {} /\ queue = {}
    BY DEF Init
  <2> QED BY <2>1, <2>2, <2>3, <2>4
          DEF OwedIsThere, TextsWritten, RunsWellFormed, CursorsWellFormed, RetriesDone, Extracting
<1>3. CursorsSound
  <2>1. owed = {} /\ \A s \in Sessions : cursor[s] = NoCursor /\ Len(transcript[s]) = 0
    BY DEF Init
  <2> QED BY <2>1, IdleType DEF CursorsSound, Sound, LostOf, Lost
<1>4. \A r \in Runners : RunSound(r)
  BY IdleType DEF Init, RunSound
<1> QED BY <1>1, <1>2, <1>3, <1>4 DEF IInv

LEMMA StepInv == IInv /\ [Next]_vars => IInv'
<1> SUFFICES ASSUME IInv, [Next]_vars PROVE IInv'
  OBVIOUS
<1>1. CASE Tick
  BY <1>1, TickStep
<1>2. ASSUME NEW s \in Sessions, NEW k \in 0 .. MaxLen, NEW n \in 1 .. MaxLen, Replace(s, k, n)
      PROVE  IInv'
  BY <1>2, ReplaceStep
<1>3. ASSUME NEW s \in Sessions, NEW kind \in Kinds, Append1(s, kind) PROVE IInv'
  BY <1>3, AppendStep
<1>4. ASSUME NEW s \in Sessions, CrowdedOut(s) PROVE IInv'
  BY <1>4, CrowdedOutStep
<1>5. ASSUME NEW r \in Runners, StartQueueOnly(r) PROVE IInv'
  BY <1>5, StartQueueOnlyStep
<1>6. ASSUME NEW r \in Runners, Crash(r) PROVE IInv'
  BY <1>6, CrashStep
<1>7. ASSUME NEW r \in Runners, NEW s \in Sessions, NEW consent \in BOOLEAN, Start(r, s, consent)
      PROVE  IInv'
  BY <1>7, StartStep
<1>8. ASSUME NEW r \in Runners, Step(r) PROVE IInv'
  <2>1. CASE ResetIfReplaced(r)
    BY <2>1, ResetStep
  <2>2. ASSUME NEW final \in BOOLEAN, ReadNew(r, final) PROVE IInv'
    BY <2>2, ReadNewStep
  <2>3. CASE Called(r)
    BY <2>3, CalledStep
  <2>4. CASE EnqueueRest(r)
    BY <2>4, EnqueueRestStep
  <2>5. CASE Advance(r)
    BY <2>5, AdvanceStep
  <2>6. CASE ClearDone(r)
    BY <2>6, ClearDoneStep
  <2>7. CASE KeepDone(r)
    BY <2>7, KeepDoneStep
  <2>8. CASE ClaimDue(r)
    BY <2>8, ClaimDueStep
  <2>9. CASE CompleteEntry(r)
    BY <2>9, CompleteEntryStep
  <2>10. CASE Mark(r)
    BY <2>10, MarkStep
  <2>11. ASSUME NEW ph \in Phases, CallPhase(r, ph) PROVE IInv'
    BY <2>11, CallPhaseStep
  <2> QED BY <1>8, <2>1, <2>2, <2>3, <2>4, <2>5, <2>6, <2>7, <2>8, <2>9, <2>10, <2>11 DEF Step
<1>9. CASE UNCHANGED vars
  <2>1. /\ transcript' = transcript /\ made' = made /\ gen' = gen /\ cursor' = cursor /\ queue' = queue
        /\ jobs' = jobs /\ run' = run /\ mishaps' = mishaps /\ owed' = owed
        /\ blind' = blind
    BY <1>9 DEF vars
  <2>2. TypeOK' /\ QueueOK' /\ Pending' = Pending /\ \A e \in queue' : \A m \in e.text : Written(m)
    BY <2>1 DEF IInv, TypeOK, QueueOK, Pending, TextsWritten
  <2>3. \A f \in queue' : \E e \in queue : e.id = f.id /\ e.text = f.text /\ e.phases = f.phases
    BY <2>1
  <2> QED BY <2>1, <2>2, <2>3, CursorsAside DEF history
<1> QED BY <1>1, <1>2, <1>3, <1>4, <1>5, <1>6, <1>7, <1>8, <1>9 DEF Next

\* The inductive invariant: every cursor, and every runner past its reset,
\* has dealt with what its fingerprint of the first 32 KB vouches for below
\* it, except in sessions that were rewritten behind that fingerprint's back.
THEOREM Invariant == Spec => []IInv
BY InitInv, StepInv, PTL DEF Spec

\* Every cursor, entry and runner keeps its shape (setCursor, enqueueEntry and
\* the runner's locals), within the bounds of the model.
THEOREM TypeCorrect == Spec => []TypeOK
<1>1. IInv => TypeOK
  BY DEF IInv
<1> QED BY <1>1, Invariant, PTL

\* A cursor with the transcript's own fingerprint vouches for all of it.
LEMMA PresentIsSound ==
  ASSUME IInv, NEW s \in Sessions \ blind, cursor[s].sig = Signature(s)
  PROVE  \A u \in Lost : u[1][1] = s => u[1][3] > cursor[s].offset
<1> SUFFICES ASSUME NEW u \in Lost, u[1][1] = s PROVE u[1][3] > cursor[s].offset
  OBVIOUS
<1>1. PICK sig \in Fingerprint : sig = Signature(s)
  BY SignatureType DEF IInv
<1>2. u[1][3] \in 1 .. Len(transcript[s]) /\ Len(transcript[s]) \in Nat
  <2>1. u \in owed /\ u[1][3] <= Len(transcript[s])
    BY DEF Lost, IInv, OwedIsThere
  <2>2. u[1][3] \in Nat \ {0}
    BY <2>1, Bounds DEF IInv, TypeOK, Message
  <2> QED BY <2>1, <2>2, TranscriptType DEF IInv
<1>3. /\ sig # None /\ DOMAIN sig = 1 .. Len(sig) /\ Len(sig) \in 0 .. SigWindow
      /\ Len(sig) <= Len(transcript[s]) /\ Len(made[s]) = Len(transcript[s])
      /\ Len(sig) < SigWindow => Len(sig) = Len(transcript[s])
      /\ \A i \in DOMAIN sig : sig[i] = made[s][i]
  BY <1>1, SignatureType, FingerprintType, TranscriptType DEF IInv
<1>4. CASE Len(sig) = SigWindow
  <2>1. \A i \in DOMAIN sig : i <= Len(made[s]) /\ made[s][i] = sig[i]
    BY <1>2, <1>3, Bounds
  <2>2. Whole(s, sig)
    BY <1>3, <1>4, <2>1 DEF Whole, Begins
  <2> QED BY <1>1, <2>2 DEF IInv, CursorsSound, Sound, LostOf, Vouched
<1>5. CASE Len(sig) # SigWindow
  <2>1. Len(sig) = Len(transcript[s])
    <3>1. \A n \in 0 .. SigWindow : n # SigWindow => n < SigWindow
      BY Bounds
    <3> QED BY <1>3, <1>5, <3>1
  <2>2. u[1][3] \in DOMAIN sig
    BY <1>2, <1>3, <2>1
  <2>3. Vouched(s, sig, u[1][3])
    BY <1>3, <2>2 DEF Vouched
  <2> QED BY <1>1, <2>3 DEF IInv, CursorsSound, Sound, LostOf
<1> QED BY <1>4, <1>5

\* No section of a transcript is left behind its cursor: what the cursor says
\* is read was sent to the model, is queued, or was given up with an event,
\* wherever runners died, transcripts grew or were rewritten.  Excepted are a
\* session rewritten so that the fingerprint of its first 32 KB does not tell
\* (blind), and the queue's two losses (see owed).
THEOREM NothingBehindTheCursor == Spec => []CoveredUnlessBlind
<1>1. ASSUME IInv PROVE CoveredUnlessBlind
  <2> SUFFICES ASSUME NEW s \in Sessions \ blind, cursor[s].sig = Signature(s),
                      NEW u \in Unread(s, Min2(cursor[s].offset, Len(transcript[s])))
               PROVE  FALSE
    BY DEF CoveredUnlessBlind, Covered
  <2>1. PICK n : n = Min2(cursor[s].offset, Len(transcript[s]))
    OBVIOUS
  <2>2. cursor[s].offset \in Nat /\ n \in Nat /\ n <= cursor[s].offset
    BY <1>1, <2>1, TranscriptType, Bounds DEF IInv, TypeOK, Cursor, Min2
  <2>3. u \in Lost /\ u[1] \in Messages(s, 1 .. n)
    BY <2>1 DEF Unread, Lost
  <2>4. u[1][1] = s /\ u[1][3] \in 1 .. n
    BY <2>3 DEF Messages
  <2>5. u[1][3] > cursor[s].offset
    BY <1>1, <2>3, <2>4, PresentIsSound
  <2> QED BY <2>2, <2>4, <2>5
<1> QED BY <1>1, Invariant, PTL

\* sessionNeedsRun hides nothing: while a session no runner works on has
\* unread content, a trigger with consent starts a run, unless the model was
\* unavailable within the hour or a rewrite kept the first 32 KB (blind).
THEOREM NothingIsHidden == Spec => []NothingHidden
<1>1. ASSUME IInv PROVE NothingHidden
  <2> SUFFICES ASSUME NEW s \in Sessions \ blind, ~NeedsRun(s, TRUE),
                      cursor[s].blocked # "unavailable",
                      NEW u \in Unread(s, Len(transcript[s]))
               PROVE  FALSE
    BY DEF NothingHidden
  <2>1. cursor[s].runSize # None /\ cursor[s].sig \in {None, Signature(s)}
        /\ ~(cursor[s].offset < Len(transcript[s]))
    BY DEF NeedsRun
  <2>2. cursor[s].sig = Signature(s)
    BY <1>1, <2>1 DEF IInv, CursorsWellFormed
  <2>3. Len(transcript[s]) \in Nat /\ cursor[s].offset \in Nat
    BY <1>1, TranscriptType, Bounds DEF IInv, TypeOK, Cursor
  <2>4. u \in Lost /\ u[1][1] = s /\ u[1][3] <= Len(transcript[s]) /\ u[1][3] \in Nat
    BY <2>3 DEF Unread, Lost, Messages
  <2>5. u[1][3] > cursor[s].offset
    BY <1>1, <2>2, <2>4, PresentIsSound
  <2> QED BY <2>1, <2>3, <2>4, <2>5
<1> QED BY <1>1, Invariant, PTL

\* Growth moves no cursor back: once the fingerprint covers its window, only
\* a rewrite of the transcript or the cursors' limit does.
THEOREM MovesBackOnlyOnReplacement == Spec => CursorMovesBackOnlyOnReplacement
<1> DEFINE Back(s) == /\ cursor[s].sig # None /\ Len(cursor[s].sig) = SigWindow
                      /\ cursor'[s].offset < cursor[s].offset
<1>1. ASSUME IInv, Next, NEW s \in Sessions \ blind, Back(s), Begins(s, cursor[s].sig)
      PROVE  cursor'[s] = NoCursor
  <2>1. cursor[s] \in Cursor /\ cursor \in [Sessions -> Cursor] /\ cursor[s].offset \in Nat
    BY <1>1, Bounds DEF IInv, TypeOK, Cursor
  <2>2. cursor'[s].offset # cursor[s].offset /\ cursor' # cursor
    BY <1>1, <2>1
  \* The fingerprint covers its window, so growth has left it as it is.
  <2>3. cursor[s].sig = Signature(s)
    <3>1. PICK sig \in Fingerprint : sig = cursor[s].sig
      BY <1>1, <2>1 DEF Cursor
    <3>2. DOMAIN sig = 1 .. SigWindow /\ Len(sig) = SigWindow
          /\ \A i \in 1 .. SigWindow : i <= Len(made[s]) /\ made[s][i] = sig[i]
      BY <1>1, <3>1, FingerprintType DEF Begins
    <3>3. SigWindow <= Len(made[s]) /\ Len(made[s]) \in Nat
      BY <1>1, <3>2, TranscriptType, Bounds DEF IInv
    <3>4. Min2(Len(made[s]), SigWindow) = SigWindow
      BY <3>3, Bounds DEF Min2
    <3>5. sig = [i \in 1 .. SigWindow |-> sig[i]]
      <4>1. PICK n \in 0 .. SigWindow : sig \in [1 .. n -> 0 .. MaxGens]
        BY <3>1 DEF Fingerprint
      <4> QED BY <3>2, <4>1
    <3> QED BY <3>1, <3>2, <3>4, <3>5 DEF Signature
  <2>4. ASSUME Tick PROVE FALSE
    <3>1. cursor'[s] = cursor[s] \/ cursor'[s] = [cursor[s] EXCEPT !.blocked = "no"]
      BY <2>4 DEF Tick
    <3> QED BY <2>1, <2>2, <3>1 DEF Cursor
  <2>5. ASSUME NEW t \in Sessions, CrowdedOut(t) PROVE cursor'[s] = NoCursor
    BY <2>1, <2>2, <2>5 DEF CrowdedOut
  <2>6. ASSUME NEW r \in Runners, ResetIfReplaced(r) PROVE FALSE
    <3>1. run[r].session = s
      BY <2>1, <2>2, <2>6 DEF ResetIfReplaced
    <3>2. cursor'[s] = cursor[s]
      BY <2>1, <2>3, <2>6, <3>1 DEF ResetIfReplaced, Reset
    <3> QED BY <2>2, <3>2
  <2>7. ASSUME NEW r \in Runners, Advance(r) PROVE FALSE
    <3>1. run[r].session = s
      BY <2>1, <2>2, <2>7 DEF Advance
    <3>2. cursor'[s].offset = run[r].to
      BY <2>1, <2>7, <3>1 DEF Advance, Cursor
    <3>3. run[r].sig = cursor[s].sig /\ run[r].pc = "advance" /\ s # None
      BY <1>1, <2>7, <3>1, Bounds DEF Advance, IInv, RunsWellFormed
    <3>4. cursor[s].offset <= run[r].to
      <4>1. Whole(s, run[r].sig)
        BY <1>1, <3>3 DEF Whole
      <4> QED BY <1>1, <3>1, <3>3, <4>1 DEF IInv, RunSound
    <3>5. run[r].to \in Nat
      BY <1>1, RunnerFacts, Bounds DEF Runner
    <3> QED BY <1>1, <2>1, <3>2, <3>4, <3>5
  <2>8. ASSUME NEW r \in Runners, ClearDone(r) \/ KeepDone(r) \/ Mark(r) PROVE FALSE
    <3>1. CASE ClearDone(r)
      BY <2>1, <2>2, <3>1 DEF ClearDone, Cursor
    <3>2. CASE KeepDone(r)
      BY <2>1, <2>2, <3>2 DEF KeepDone, Cursor
    <3>3. CASE Mark(r)
      <4>1. PICK t \in Sessions, c \in Cursor :
              cursor' = [cursor EXCEPT ![t] = c] /\ c.offset = cursor[t].offset
        BY <1>1, <2>2, <3>3, MarkedCursor
      <4> QED BY <2>1, <2>2, <4>1
    <3> QED BY <2>8, <3>1, <3>2, <3>3
  <2>9. ASSUME NEW r \in Runners, Step(r) PROVE FALSE
    <3>1. ASSUME \E final \in BOOLEAN : ReadNew(r, final) PROVE cursor' = cursor
      BY <3>1 DEF ReadNew, files
    <3>2. ASSUME Called(r) \/ (\E ph \in Phases : CallPhase(r, ph)) PROVE cursor' = cursor
      BY <3>2 DEF CallPhase, Called, files
    <3>3. ASSUME EnqueueRest(r) \/ ClaimDue(r) \/ CompleteEntry(r) PROVE cursor' = cursor
      BY <3>3 DEF EnqueueRest, ClaimDue, CompleteEntry
    <3> QED BY <2>2, <2>6, <2>7, <2>8, <2>9, <3>1, <3>2, <3>3 DEF Step
  <2>10. \/ Tick \/ (\E t \in Sessions : CrowdedOut(t)) \/ (\E r \in Runners : Step(r))
         \/ cursor' = cursor
    BY <1>1 DEF Next, Replace, Append1, StartQueueOnly, Crash, Start, files
  <2> QED BY <2>2, <2>4, <2>5, <2>9, <2>10
<1>2. IInv /\ [Next]_vars =>
        [\A s \in Sessions \ blind :
           /\ cursor[s].sig # None /\ Len(cursor[s].sig) = SigWindow
           /\ cursor'[s].offset < cursor[s].offset
           => ~Begins(s, cursor[s].sig) \/ cursor'[s] = NoCursor]_vars
  BY <1>1
<1> QED BY <1>2, Invariant, PTL DEF Spec, CursorMovesBackOnlyOnReplacement
=============================================================================
