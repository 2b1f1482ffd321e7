----------------------------- MODULE Extraction -----------------------------
(***************************************************************************)
(* Incremental extraction of a session's transcript: the cursor file of    *)
(* src/core/extraction-queue.ts, its retry queue, and the runner process   *)
(* of src/core/auto-compound-runner.ts that reads the new part of the      *)
(* transcript, sends its summary through the model phases and advances.    *)
(*                                                                         *)
(* A transcript is a sequence of message kinds; an offset is a length.  A  *)
(* host may rewrite the file (compaction, resume) from some message on;    *)
(* every message keeps the generation of the file it was written in, and   *)
(* the fingerprint is what the first window's messages are.  Every locked  *)
(* update of the cursor or queue file is one step; a runner can die or     *)
(* throw between any two of them.                                          *)
(***************************************************************************)
EXTENDS RetryQueue, Sequences

CONSTANTS
  Sessions, Runners, Phases,
  Kinds,           \* message kinds a transcript may hold
  MinNewUserMsgs,  \* MIN_NEW_USER_MSGS_FOR_PARTIAL
  SigWindow,       \* messages that fit in the fingerprinted 32 KB
  MaxLen, MaxGens, \* bounds: messages in a transcript, rewrites of it
  MaxJobs,         \* bound: jobs queued
  MaxMishaps,      \* bound: runners that die or throw, cursors crowded out
  None             \* an absent fingerprint or run size

\* transcriptSignature: a hash of what the file's first 32 KB hold.
Fingerprint == UNION {[1 .. n -> 0 .. MaxGens] : n \in 0 .. SigWindow}

AllKinds == {"talk", "brief", "correction", "noise", "inject"}
ASSUME NoneAssumption == None \notin Sessions \cup Nat \cup Fingerprint
ASSUME KindsAssumption == Kinds \subseteq AllKinds
ASSUME LimitsAssumption ==
  /\ {MinNewUserMsgs, SigWindow} \subseteq Nat \ {0}
  /\ {MaxLen, MaxGens, MaxJobs, MaxMishaps} \subseteq Nat

VARIABLES
  transcript,  \* the messages of each session's transcript file
  made,        \* the generation of the file each message was written in
  gen,         \* how often it has been rewritten
  cursor,      \* extraction-cursors.json, an entry per session
  queue,       \* extraction-queue.json
  jobs,        \* number of jobs queued so far, the next job's id
  run,         \* the local state of each runner process
  mishaps,     \* number of runners that died or threw and of cursors lost
  owed,        \* history: <<session, message, phase>> not yet sent to the
               \* model in that phase, nor given up with an event, nor left to
               \* one of the two losses of ExtractionQueue's NothingVanishes
  blind        \* history: sessions not reset since a rewrite that no
               \* fingerprint tells of: it kept the window but not what had
               \* been passed, or the cursor had no fingerprint yet

vars == <<transcript, made, gen, cursor, queue, jobs, run, mishaps, owed, blind>>
files == <<transcript, made, gen, cursor, queue, jobs>>
history == <<owed, blind>>

-----------------------------------------------------------------------------
(* The transcript *)

Min2(a, b) == IF a < b THEN a ELSE b

\* Slip: the hash covers the whole file.
SignatureOfAll(s) == made[s]

\* Only the first 32 KB are hashed: a rewrite of what follows them, and a
\* message appended after them, leave the fingerprint as it is.
Signature(s) == [i \in 1 .. Min2(Len(made[s]), SigWindow) |-> made[s][i]]

\* The messages after an offset that carry content (tool results and injected
\* context are passed over); a file that shrank is read from its start.
Digest(s, offset) ==
  LET from == IF offset > Len(transcript[s]) THEN 0 ELSE offset
  IN  {i \in from + 1 .. Len(transcript[s]) : transcript[s][i] # "noise"}
Has(s, seg, kind) == \E i \in seg : transcript[s][i] = kind

TooSmall(s, seg) == Cardinality(seg) < MinNewUserMsgs /\ ~Has(s, seg, "correction")
TooShort(s, seg) == Cardinality(seg) <= 1 /\ \A i \in seg : transcript[s][i] = "brief"

-----------------------------------------------------------------------------
(* The cursor file *)

NoCursor == [offset |-> 0, runSize |-> None, sig |-> None, blocked |-> "no",
             end |-> 0, done |-> {}]

\* Slip: the fingerprint is not compared.
NeedsRunBySize(s, consent) ==
  LET c == cursor[s]
  IN  \/ c.runSize = None
      \/ c.runSize # None /\ Len(transcript[s]) > c.runSize
      \/ /\ c.offset < Len(transcript[s])
         /\ c.blocked = "disabled" => consent
         /\ c.blocked # "unavailable"

\* sessionNeedsRun
NeedsRun(s, consent) ==
  LET c == cursor[s]
  IN  \/ c.runSize = None
      \/ c.runSize # None /\ Len(transcript[s]) > c.runSize
      \/ c.sig # None /\ c.sig # Signature(s)
      \/ /\ c.offset < Len(transcript[s])
         /\ c.blocked = "disabled" => consent
         /\ c.blocked # "unavailable"

\* Slip: a replaced transcript keeps its cursor.
ResetKeepingOffset(c, sig) == [c EXCEPT !.sig = IF @ = None THEN None ELSE sig]

\* resetIfReplaced
Reset(c, sig) == IF c.sig \in {None, sig} THEN c ELSE [NoCursor EXCEPT !.sig = sig]

\* getDonePhases
DonePhases(c, end) == IF c.end = end THEN c.done ELSE {}

-----------------------------------------------------------------------------
(* Runners *)

Idle == [pc |-> "idle", session |-> None, size |-> 0, sig |-> None,
         to |-> 0, text |-> {}, left |-> {}, took |-> {}, skip |-> "no", entry |-> 0]

Goto(r, pc) == run' = [run EXCEPT ![r].pc = pc]
Active(r, s) == run[r].session = s /\ run[r].pc # "idle"
Messages(s, seg) == {<<s, made[s][i], i>> : i \in seg}
UnitsOf(e) == e.text \X e.phases
Pending == UNION {UnitsOf(e) : e \in queue}

\* A runner is between claimDue and completeEntry of the entry.
Held(e) == \E q \in Runners : run[q].pc = "retry" /\ run[q].entry = e.id

Init ==
  /\ transcript = [s \in Sessions |-> <<>>]
  /\ made = [s \in Sessions |-> <<>>]
  /\ gen = [s \in Sessions |-> 0]
  /\ cursor = [s \in Sessions |-> NoCursor]
  /\ queue = {} /\ jobs = 0
  /\ run = [r \in Runners |-> Idle]
  /\ mishaps = 0
  /\ owed = {} /\ blind = {}

\* The session goes on: a message is appended to its transcript.
Append1(s, kind) ==
  /\ Len(transcript[s]) < MaxLen
  /\ transcript' = [transcript EXCEPT ![s] = Append(@, kind)]
  /\ made' = [made EXCEPT ![s] = Append(@, gen[s])]
  /\ owed' = IF kind = "noise" THEN owed
             ELSE owed \cup ({<<s, gen[s], Len(transcript[s]) + 1>>} \X Phases)
  /\ UNCHANGED <<gen, cursor, queue, jobs, run, mishaps, blind>>

\* A cursor, or the run under way, has gone beyond message k.
Passed(s, k) ==
  \/ cursor[s].offset > k \/ cursor[s].end > k
  \/ \E r \in Runners : Active(r, s) /\ run[r].to > k

\* The host rewrites the transcript after message k, perhaps to fewer messages
\* than it had; what it held there before is no longer there to be read.
Replace(s, k, n) ==
  /\ gen[s] < MaxGens
  /\ k <= n /\ n \in DOMAIN transcript[s] /\ k < Len(transcript[s])
  /\ gen' = [gen EXCEPT ![s] = @ + 1]
  /\ transcript' = [transcript EXCEPT ![s] = SubSeq(@, 1, n)]
  /\ made' = [made EXCEPT ![s] = [i \in 1 .. n |-> IF i <= k THEN @[i] ELSE gen[s] + 1]]
  /\ LET new == {i \in k + 1 .. n : transcript[s][i] # "noise"}
     IN  owed' = {u \in owed : u[1][1] = s => u[1][3] <= k}
                   \cup ({<<s, gen[s] + 1, i>> : i \in new} \X Phases)
  /\ blind' = IF k >= SigWindow /\ Passed(s, k) THEN blind \cup {s} ELSE blind
  /\ UNCHANGED <<cursor, queue, jobs, run, mishaps>>

\* A hook starts a runner that takes the session's runner lock (RunnerLock
\* says when that lock keeps other runners of the session out).
Start(r, s, consent) ==
  /\ run[r].pc = "idle" /\ transcript[s] # <<>>
  /\ \A q \in Runners : ~Active(q, s)
  /\ NeedsRun(s, consent)
  /\ run' = [run EXCEPT ![r] = [Idle EXCEPT !.pc = "reset", !.session = s,
                                         !.size = Len(transcript[s])]]
  /\ UNCHANGED <<files, mishaps, history>>

\* A hook finds nothing new but a due entry: a queue-only runner.
StartQueueOnly(r) ==
  /\ run[r].pc = "idle" /\ Due(queue) # {}
  /\ run' = [run EXCEPT ![r] = [Idle EXCEPT !.pc = "claim"]]
  /\ UNCHANGED <<files, mishaps, history>>

\* The fingerprint is taken after indexing, and kept for markRun.
ResetIfReplaced(r) ==
  LET s == run[r].session
  IN  /\ run[r].pc = "reset"
      /\ cursor' = [cursor EXCEPT ![s] = Reset(@, Signature(s))]
      /\ run' = [run EXCEPT ![r].pc = "digest", ![r].sig = Signature(s)]
      /\ blind' = IF cursor[s].sig \notin {None, Signature(s)} THEN blind \ {s}
                  ELSE IF cursor[s].sig = None /\ cursor[s] # NoCursor /\ gen[s] > 0
                       THEN blind \cup {s} ELSE blind
      /\ UNCHANGED <<transcript, made, gen, queue, jobs, mishaps, owed>>

\* The new part is read and judged.  Without consent, with too little text
\* or without a usable model nothing is consumed; content that must not be
\* sent is consumed and logged.  The runner's "final" argument only matters
\* here.
ReadNew(r, final) ==
  LET s   == run[r].session
      seg == Digest(s, cursor[s].offset)
      end == Len(transcript[s])
      skip(why) == run' = [run EXCEPT ![r].pc = "claim", ![r].skip = why]
      pass == run' = [run EXCEPT ![r].pc = "advance", ![r].skip = "other", ![r].to = end]
  IN  /\ run[r].pc = "digest"
      /\ \/ skip("disabled") /\ owed' = owed
         \/ /\ seg = {}
            /\ pass /\ owed' = owed
         \/ /\ seg # {}
            /\ (~final /\ TooSmall(s, seg)) \/ TooShort(s, seg)
            /\ skip("other") /\ owed' = owed
         \/ /\ seg # {} /\ ~TooShort(s, seg)
            /\ final \/ ~TooSmall(s, seg)
            /\ IF Has(s, seg, "inject")
               THEN pass /\ owed' = owed \ (Messages(s, seg) \X Phases)
               ELSE /\ owed' = owed
                    /\ \/ skip("unavailable")
                       \/ run' = [run EXCEPT ![r].pc = "call", ![r].to = end,
                              ![r].text = Messages(s, seg),
                              ![r].left = Phases \ DonePhases(cursor[s], end)]
      /\ UNCHANGED <<files, mishaps, blind>>

\* runPhases: the next model call succeeds.
CallPhase(r, ph) ==
  /\ run[r].pc \in {"call", "retry"}
  /\ ph \in run[r].left
  /\ run' = [run EXCEPT ![r].left = @ \ {ph}]
  /\ owed' = owed \ (run[r].text \X {ph})
  /\ UNCHANGED <<files, mishaps, blind>>

\* Every phase of the new part went through, or one failed: for a reason
\* that may pass (the rest is queued) or not (the cursor stays).
Called(r) ==
  /\ run[r].pc = "call"
  /\ \/ run[r].left = {} /\ Goto(r, "advance")
     \/ run[r].left # {} /\ Goto(r, "enqueue")
     \/ run[r].left # {} /\ run' = [run EXCEPT ![r].pc = "keep", ![r].skip = "unavailable"]
  /\ UNCHANGED <<files, mishaps, history>>

\* enqueue: an entry of the session takes the new summary, and the phases of
\* both.  Its own summary is displaced; the new one is exposed if a runner
\* works on a copy of the entry.
EnqueueRest(r) ==
  LET s     == run[r].session
      text  == run[r].text
      added == Added(queue, jobs + 1, s, text, run[r].left)
      gone  == Aged(queue) \cup (added \ Trim(added))
      under == OfSession(queue \ Aged(queue), s)
      displaced == UNION {UnitsOf(e) \ UnitsOf(Merge(e, text, run[r].left)) : e \in under}
      exposed   == IF \E e \in under : Held(e) THEN text \X Phases ELSE {}
  IN  /\ run[r].pc = "enqueue" /\ jobs < MaxJobs
      /\ jobs' = jobs + 1
      /\ queue' = Trim(added)
      /\ owed' = owed \ ((UNION {UnitsOf(e) : e \in gone}) \cup displaced \cup exposed)
      /\ Goto(r, "advance")
      /\ UNCHANGED <<transcript, made, gen, cursor, mishaps, blind>>

\* Slip: the cursor moves to the end of the file as it is now.
AdvanceToEnd(r) ==
  LET s == run[r].session
  IN  /\ run[r].pc = "advance"
      /\ cursor' = [cursor EXCEPT ![s].offset = Len(transcript[s])]
      /\ Goto(r, IF run[r].skip = "no" THEN "clear" ELSE "claim")
      /\ UNCHANGED <<transcript, made, gen, queue, jobs, mishaps, history>>

\* setCursor to where the digest ended.
Advance(r) ==
  LET s == run[r].session
  IN  /\ run[r].pc = "advance"
      /\ cursor' = [cursor EXCEPT ![s].offset = run[r].to]
      /\ run' = [run EXCEPT ![r].pc = IF run[r].skip = "no" THEN "clear" ELSE "claim",
                            ![r].to = 0, ![r].text = {}]
      /\ UNCHANGED <<transcript, made, gen, queue, jobs, mishaps, history>>

\* setDonePhases to none; a run whose call failed does not retry others.
ClearDone(r) ==
  LET s == run[r].session
  IN  /\ run[r].pc = "clear"
      /\ cursor' = [cursor EXCEPT ![s].end = 0, ![s].done = {}]
      /\ Goto(r, IF run[r].left = {} THEN "claim" ELSE "mark")
      /\ UNCHANGED <<transcript, made, gen, queue, jobs, mishaps, history>>

\* setDonePhases to the phases that went through; the rest waits for a login.
KeepDone(r) ==
  LET s == run[r].session
      done == Phases \ run[r].left
  IN  /\ run[r].pc = "keep"
      /\ cursor' = [cursor EXCEPT ![s].end = IF done = {} THEN 0 ELSE run[r].to,
                                  ![s].done = done]
      /\ Goto(r, "mark")
      /\ UNCHANGED <<transcript, made, gen, queue, jobs, mishaps, history>>

\* One queued entry per run, unless consent is off or there is no model.
ClaimDue(r) ==
  /\ run[r].pc = "claim"
  /\ \/ Goto(r, "mark") /\ queue' = queue
     \/ /\ run[r].skip # "unavailable" /\ Due(queue) # {}
        /\ LET e == Oldest(Due(queue))
           IN  /\ queue' = Claim(queue, e)
               /\ run' = [run EXCEPT ![r].pc = "retry", ![r].entry = e.id,
                                     ![r].text = e.text,
                                     ![r].left = e.phases, ![r].took = e.phases]
  /\ UNCHANGED <<transcript, made, gen, cursor, jobs, mishaps, history>>

\* completeEntry: the entry may have been given another summary since it was
\* claimed, which then goes with it or keeps only the phases that failed.
CompleteEntry(r) ==
  LET found == WithId(queue, run[r].entry)
      e     == Oldest(found)
      left  == run[r].left
  IN  /\ run[r].pc = "retry"
      /\ Goto(r, "mark")
      /\ \/ UNCHANGED <<queue, owed>>   \* gone, or the queue's lock timed out
         \/ /\ found # {}
            /\ queue' = Completed(queue, e, left)
            /\ owed' = IF left # {} /\ e.attempts + 1 >= MaxAttempts
                       THEN owed \ (e.text \X left) ELSE owed
      /\ UNCHANGED <<transcript, made, gen, cursor, jobs, mishaps, blind>>

\* Slip: every reason for skipping is recorded as a block.
MarkAnyReason(r) ==
  LET s == run[r].session
  IN  /\ run[r].pc = "mark"
      /\ run' = [run EXCEPT ![r] = Idle]
      /\ \/ cursor' = cursor
         \/ /\ s # None
            /\ cursor' = [cursor EXCEPT ![s].runSize = run[r].size,
                             ![s].sig = run[r].sig, ![s].blocked = run[r].skip]
      /\ UNCHANGED <<transcript, made, gen, queue, jobs, mishaps, history>>

\* markRun, unless indexing failed or there is no session to mark.
Mark(r) ==
  LET s == run[r].session
      blocked == IF run[r].skip \in {"disabled", "unavailable"} THEN run[r].skip ELSE "no"
  IN  /\ run[r].pc = "mark"
      /\ run' = [run EXCEPT ![r] = Idle]
      /\ \/ cursor' = cursor
         \/ /\ s # None
            /\ cursor' = [cursor EXCEPT ![s].runSize = run[r].size,
                                        ![s].sig = run[r].sig, ![s].blocked = blocked]
      /\ UNCHANGED <<transcript, made, gen, queue, jobs, mishaps, history>>

\* The runner is killed, or a file operation throws out of the extraction.
Crash(r) ==
  /\ run[r].pc # "idle" /\ mishaps < MaxMishaps
  /\ mishaps' = mishaps + 1
  /\ run' = [run EXCEPT ![r] = Idle]
  /\ UNCHANGED <<files, history>>

\* The cursors of as many other sessions as MAX_CURSORS are set after this
\* one's: setCursor keeps those touched last and drops it.
CrowdedOut(s) ==
  /\ cursor[s] # NoCursor /\ mishaps < MaxMishaps
  /\ mishaps' = mishaps + 1
  /\ cursor' = [cursor EXCEPT ![s] = NoCursor]
  /\ UNCHANGED <<transcript, made, gen, queue, jobs, run, history>>

\* Time: queue clocks run, and an "unavailable" block expires after an hour.
Tick ==
  /\ queue' = {Older(e) : e \in queue}
  /\ cursor' = [s \in Sessions |-> IF cursor[s].blocked = "unavailable"
                                   THEN [cursor[s] EXCEPT !.blocked = "no"] ELSE cursor[s]]
  /\ UNCHANGED <<transcript, made, gen, jobs, run, mishaps, history>>

Step(r) ==
  \/ ResetIfReplaced(r) \/ (\E final \in BOOLEAN : ReadNew(r, final)) \/ Called(r) \/ EnqueueRest(r) \/ Advance(r)
  \/ ClearDone(r) \/ KeepDone(r) \/ ClaimDue(r) \/ CompleteEntry(r) \/ Mark(r)
  \/ \E ph \in Phases : CallPhase(r, ph)

Next ==
  \/ Tick
  \/ \E s \in Sessions : \/ \E k \in 0 .. MaxLen, n \in 1 .. MaxLen : Replace(s, k, n)
                        \/ \E kind \in Kinds : Append1(s, kind)
                        \/ CrowdedOut(s)
  \/ \E r \in Runners : \/ StartQueueOnly(r) \/ Step(r) \/ Crash(r)
                        \/ \E s \in Sessions, consent \in BOOLEAN : Start(r, s, consent)

Spec == Init /\ [][Next]_vars

-----------------------------------------------------------------------------
Message == Sessions \X (0 .. MaxGens) \X (1 .. MaxLen)
Cursor == [offset : 0 .. MaxLen, runSize : 0 .. MaxLen \cup {None},
           sig : Fingerprint \cup {None}, blocked : {"no", "disabled", "unavailable"},
           end : 0 .. MaxLen, done : SUBSET Phases]
Unit == Message \X Phases
QueueEntry == Entries(1 .. MaxJobs, Sessions, SUBSET Message, Phases)
Runner == [pc : {"idle", "reset", "digest", "call", "enqueue", "advance", "clear",
                 "keep", "claim", "retry", "mark"},
           session : Sessions \cup {None}, size : 0 .. MaxLen,
           sig : Fingerprint \cup {None}, to : 0 .. MaxLen, text : SUBSET Message,
           left : SUBSET Phases, took : SUBSET Phases,
           skip : {"no", "disabled", "unavailable", "other"}, entry : 0 .. MaxJobs]

TypeOK ==
  /\ transcript \in [Sessions -> Seq(Kinds)] /\ \A s \in Sessions : Len(transcript[s]) <= MaxLen
  /\ gen \in [Sessions -> 0 .. MaxGens]
  /\ made \in [Sessions -> Seq(0 .. MaxGens)]
  /\ \A s \in Sessions : Len(made[s]) = Len(transcript[s]) /\ \A i \in DOMAIN made[s] : made[s][i] <= gen[s]
  /\ cursor \in [Sessions -> Cursor]
  /\ jobs \in 0 .. MaxJobs
  /\ queue \subseteq QueueEntry
  /\ run \in [Runners -> Runner]
  /\ mishaps \in 0 .. MaxMishaps
  /\ owed \subseteq Unit
  /\ blind \subseteq Sessions

\* What messages 1..n of the transcript still owe the model, in no queue.
Unread(s, n) == {u \in owed \ Pending : u[1] \in Messages(s, 1 .. n)}

Covered(s) == cursor[s].sig = Signature(s) =>
                Unread(s, Min2(cursor[s].offset, Len(transcript[s]))) = {}

\* Everything below a cursor whose fingerprint is the transcript's has been
\* sent to the model, is queued, or was given up with an event: neither a
\* crash between two updates, growth during a run nor a rewrite that reaches
\* into the fingerprinted window leaves a section behind the cursor unread.
\* Excepted are the rewrites no fingerprint tells of (blind), against
\* extraction-queue.ts:78, and a queued summary that another displaces or that
\* was queued under the eyes of a runner (see owed).
CoveredUnlessBlind == \A s \in Sessions \ blind : Covered(s)

\* sessionNeedsRun turns no trigger away while content is unread and no run
\* is under way, unless the model was unavailable within the hour.
NothingHidden ==
  \A s \in Sessions \ blind :
    /\ \A r \in Runners : ~Active(r, s)
    /\ Unread(s, Len(transcript[s])) # {}
    => NeedsRun(s, TRUE) \/ cursor[s].blocked = "unavailable"

\* The transcript still begins with what the fingerprint was taken of.
Begins(s, sig) == \A i \in DOMAIN sig : i <= Len(made[s]) /\ made[s][i] = sig[i]

\* "Appending does not change it" (extraction-queue.ts:78): once the
\* fingerprint covers its whole window, a cursor moves back only after the
\* transcript was rewritten or when other sessions' cursors crowd it out, so
\* no message is sent twice because the session went on.
CursorMovesBackOnlyOnReplacement ==
  [][\A s \in Sessions \ blind :
       /\ cursor[s].sig # None /\ Len(cursor[s].sig) = SigWindow
       /\ cursor'[s].offset < cursor[s].offset
       => ~Begins(s, cursor[s].sig) \/ cursor'[s] = NoCursor]_vars

-----------------------------------------------------------------------------
(* The inductive invariant *)

\* Only what the transcripts hold now is owed.
OwedIsThere ==
  \A u \in owed : LET s == u[1][1]
                  IN  /\ u[1][3] <= Len(transcript[s]) /\ u[1][2] = made[s][u[1][3]]
                      /\ transcript[s][u[1][3]] # "noise"

\* Texts in runners' hands and in the queue are of messages written by now.
Written(m) ==
  m[2] < gen[m[1]] \/ (m[2] = gen[m[1]] /\ m[3] <= Len(transcript[m[1]]))
TextsWritten ==
  /\ \A e \in queue : \A m \in e.text : Written(m)
  /\ \A r \in Runners : \A m \in run[r].text : Written(m)

QueueOK == IsFiniteSet(queue) /\ OnePerSession(queue) /\ \A e \in queue : e.id <= jobs

\* A fingerprint that was taken of the transcript by now: where the file has
\* become shorter since, it is of an older generation.
Taken(s, sig) ==
  \A i \in DOMAIN sig : /\ sig[i] <= gen[s]
                        /\ i > Len(transcript[s]) => sig[i] < gen[s]

\* Runner states the program can be in: one per session, with the fingerprint
\* it took at its start, which the cursor has too unless it has none.
Extracting == {"digest", "call", "enqueue", "advance", "clear", "keep"}
RunsWellFormed ==
  /\ \A q, r \in Runners : run[r].session # None /\ run[q].session = run[r].session => q = r
  /\ \A r \in Runners :
       /\ run[r].pc = "idle" => run[r].session = None
       /\ run[r].pc \in {"reset"} \cup Extracting => run[r].session # None
       /\ run[r].pc = "enqueue" => run[r].left # {}
       /\ run[r].pc = "retry" => run[r].entry <= jobs
       /\ run[r].session # None /\ run[r].pc # "reset" =>
            /\ run[r].sig # None /\ Taken(run[r].session, run[r].sig)
            /\ cursor[run[r].session].sig \in {None, run[r].sig}
CursorsWellFormed ==
  \A s \in Sessions :
    /\ cursor[s].runSize # None => cursor[s].sig # None
    /\ cursor[s].sig # None => Taken(s, cursor[s].sig)

\* What a retry already sent of its entry is not owed any more; all else that
\* the entry holds and is owed is in the copy, or the entry's summary is a
\* newer one that is exposed.
CopyOf(r, e) ==
  /\ e.text = run[r].text \/ (e.text \X Phases) \cap owed = {}
  /\ UnitsOf(e) \cap owed = (run[r].text \X run[r].took) \cap owed
RetriesDone ==
  \A r \in Runners : run[r].pc = "retry" =>
    /\ run[r].left \subseteq run[r].took
    /\ (run[r].text \X (run[r].took \ run[r].left)) \cap owed = {}
    /\ \A e \in queue : e.id = run[r].entry => CopyOf(r, e)

\* Owed and in no queue.
Lost == owed \ Pending

\* A fingerprint speaks for the whole transcript if it fills its window and
\* still is the transcript's, or if there was no rewrite yet; else only for
\* the messages it was taken of that are still there.
Whole(s, sig) == gen[s] = 0 \/ (sig # None /\ Len(sig) = SigWindow /\ Begins(s, sig))
Vouched(s, sig, i) ==
  Whole(s, sig) \/ (sig # None /\ i \in DOMAIN sig /\ sig[i] = made[s][i])
LostOf(s, sig) == {u \in Lost : u[1][1] = s /\ Vouched(s, sig, u[1][3])}

\* What a fingerprint vouches for below the cursor has been dealt with, and
\* the phases kept for a retry have had the section they are kept for.
Sound(s, sig) ==
  /\ Whole(s, sig) =>
       cursor[s].offset <= Len(transcript[s]) /\ cursor[s].end <= Len(transcript[s])
  /\ \A u \in LostOf(s, sig) :
       /\ u[1][3] > cursor[s].offset
       /\ u[1][3] <= cursor[s].end => u[2] \notin cursor[s].done
CursorsSound == \A s \in Sessions \ blind : Sound(s, cursor[s].sig)

\* So it has by the fingerprint of the runner at work; and what that runner
\* read has been sent but for the phases left.
RunSound(r) ==
  LET s   == run[r].session
      sig == run[r].sig
  IN  s # None /\ s \notin blind /\ run[r].pc # "reset" =>
        /\ Sound(s, sig)
        /\ run[r].pc \in {"call", "enqueue", "keep", "advance"} =>
             /\ Whole(s, sig) =>
                  cursor[s].offset <= run[r].to /\ run[r].to <= Len(transcript[s])
             /\ \A u \in LostOf(s, sig) : u[1][3] <= run[r].to =>
                  run[r].pc # "advance" /\ u \in run[r].text \X run[r].left

IInv ==
  /\ TypeOK /\ OwedIsThere /\ TextsWritten /\ QueueOK
  /\ RunsWellFormed /\ CursorsWellFormed /\ RetriesDone /\ CursorsSound
  /\ \A r \in Runners : RunSound(r)
=============================================================================
