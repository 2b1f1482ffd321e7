------------------------------- MODULE Resume -------------------------------
(***************************************************************************)
(* Going on after a limit.  When a host stops because its context is full  *)
(* or its usage is spent, the Stop hook leaves a marker in                 *)
(* pending-resume.json.  `forgen`, if it started the host, finds the marker*)
(* once the host has ended, removes it, waits, and starts the host again.  *)
(* All sessions share the one marker, without a lock, and writing it is    *)
(* not atomic: the file is opened, which empties it, and then filled.      *)
(***************************************************************************)
EXTENDS Naturals, FiniteSets

CONSTANTS
  Sessions,
  Wrapped,             \* those whose host `forgen` started
  MaxToken, MaxRate,   \* MAX_RESUMES_TOKEN, MAX_RESUMES_RATE
  None,
  MaxLimits            \* bound: limits run into

\* A usage limit that lasts beyond the hard cap of six hours is "far".
Reasons == {"token", "rate", "far"}

ASSUME ResumeAssumption ==
  /\ Wrapped \subseteq Sessions /\ None \notin Sessions /\ None \notin Reasons
  /\ MaxToken \in Nat /\ MaxRate \in Nat /\ MaxLimits \in Nat
  /\ IsFiniteSet(Sessions)

VARIABLES
  pc,        \* what each session's host, hook or wrapper does next
  marker,    \* pending-resume.json
  held,      \* the file each session's writer has open
  read,      \* the reason each wrapper has read
  tokens, rates,   \* the restarts of each kind each wrapper has counted
  limits,    \* limits run into so far: they are numbered
  since,     \* how many there were when the host of each session started
  files,     \* marker files created so far: they are numbered too
  restarts,  \* history: restarts decided on with the marker of each limit
  again,     \* history: a wrapper that found a limit in a transcript after
             \* the limit had restarted a session
  hit,       \* history: sessions that ran into a limit in this run of their host
  torn,      \* history: those whose hook did not get to fill the marker
  meddled,   \* history: those whose marker another session wrote over or removed
  why        \* history: why each wrapper ended

counts == <<tokens, rates>>
numbers == <<limits, since, files>>
history == <<restarts, again, hit, torn, meddled, why>>
vars == <<pc, marker, held, read, counts, numbers, history>>

Limits == 1 .. MaxLimits

\* The file, who wrote to it last and about which limit, and the reason it
\* gives, None while it is empty or garbled.
Markers == [file : Nat \ {0}, limit : Limits, by : Sessions, reason : Reasons \cup {None}]
NoMarker == [file |-> 0, limit |-> 0, by |-> None, reason |-> None]

\* A file open for writing, and the limit that is written about.
NoFile == [file |-> 0, limit |-> 0]

Steps ==
  {"running", "hook", "scan", "open", "fill", "look", "read", "remove", "wait", "ended"}

TypeOK ==
  /\ pc \in [Sessions -> Steps]
  /\ marker \in Markers \cup {NoMarker}
  /\ held \in [Sessions -> [file : Nat, limit : 0 .. MaxLimits]]
  /\ read \in [Sessions -> Reasons \cup {None}]
  /\ tokens \in [Sessions -> 0 .. MaxToken] /\ rates \in [Sessions -> 0 .. MaxRate]
  /\ limits \in 0 .. MaxLimits /\ since \in [Sessions -> 0 .. limits] /\ files \in Nat
  /\ restarts \in [Limits -> Nat] /\ again \subseteq (1 .. limits) \X Sessions
  /\ hit \subseteq Sessions /\ torn \subseteq Sessions /\ meddled \subseteq Sessions
  /\ why \in [Sessions -> {"no", "nothing", "stopped"}]

Init ==
  /\ pc = [s \in Sessions |-> "running"]
  /\ marker = NoMarker /\ held = [s \in Sessions |-> NoFile]
  /\ read = [s \in Sessions |-> None]
  /\ tokens = [s \in Sessions |-> 0] /\ rates = [s \in Sessions |-> 0]
  /\ limits = 0 /\ since = [s \in Sessions |-> 0] /\ files = 0
  /\ restarts = [l \in Limits |-> 0] /\ again = {}
  /\ hit = {} /\ torn = {} /\ meddled = {}
  /\ why = [s \in Sessions |-> "no"]

Go(s, from, to) == pc[s] = from /\ pc' = [pc EXCEPT ![s] = to]

\* The wrapper ends, and its counts with it.
End(s, from, reason) ==
  /\ Go(s, from, "ended") /\ why' = [why EXCEPT ![s] = reason]
  /\ tokens' = [tokens EXCEPT ![s] = 0] /\ rates' = [rates EXCEPT ![s] = 0]

\* Whoever changes the marker of another session meddles with it.
Meddle(s) == {marker.by} \ {s, None}

-----------------------------------------------------------------------------
(* Writing the marker *)

\* writeFileSync opens the file, or creates it.
Open(s, l, from, to) ==
  /\ Go(s, from, to)
  /\ LET file == IF marker = NoMarker THEN files + 1 ELSE marker.file
     IN /\ marker' = [file |-> file, limit |-> l, by |-> s, reason |-> None]
        /\ held' = [held EXCEPT ![s] = [file |-> file, limit |-> l]]
        /\ files' = IF marker = NoMarker THEN file ELSE files
  /\ hit' = hit \cup {s} /\ torn' = torn \ {s} /\ meddled' = (meddled \ {s}) \cup Meddle(s)
  /\ UNCHANGED <<read, counts, since, restarts, why>>

\* and writes to it, removed or not; two writers may garble it.
Fill(s, from, to, reason) ==
  /\ Go(s, from, to)
  /\ IF marker.file # held[s].file THEN UNCHANGED <<marker, meddled>>
     ELSE /\ \E says \in {reason} \cup (IF marker.reason = None THEN {} ELSE {None}) :
               marker' = [marker EXCEPT !.limit = held[s].limit, !.by = s, !.reason = says]
          /\ meddled' = meddled \cup Meddle(s) \cup (IF marker'.reason = None THEN {s} ELSE {})
  /\ held' = [held EXCEPT ![s] = NoFile]
  /\ UNCHANGED <<read, counts, numbers, restarts, again, hit, torn, why>>

\* The Stop hook of a session that ran into a limit.
HookOpens(s) ==
  /\ limits < MaxLimits /\ limits' = limits + 1
  /\ Open(s, limits', "running", "hook") /\ UNCHANGED again
HookFills(s) == \E reason \in Reasons : Fill(s, "hook", "running", reason)

\* The hook is killed in between, or the disk is full.
HookDies(s) ==
  /\ Go(s, "hook", "running") /\ held' = [held EXCEPT ![s] = NoFile]
  /\ torn' = torn \cup {s}
  /\ UNCHANGED <<marker, read, counts, numbers, restarts, again, hit, meddled, why>>

\* The hook is killed before, is switched off, or a forge-loop stops it first.
HookMisses(s) ==
  /\ pc[s] = "running" /\ limits < MaxLimits /\ limits' = limits + 1
  /\ hit' = hit \cup {s} /\ torn' = torn \cup {s}
  /\ UNCHANGED <<pc, marker, held, read, counts, since, files, restarts, again, meddled, why>>

-----------------------------------------------------------------------------
(* The wrapper: spawnClaude *)

\* Nothing follows the end of a host that nobody wraps.
HostEnds(s) ==
  /\ s \in Wrapped /\ Go(s, "running", "scan")
  /\ UNCHANGED <<marker, held, read, counts, numbers, history>>

\* Slip: what the scan finds replaces what the hook wrote.
ScanAfresh(s) ==
  /\ Go(s, "scan", "open") \/ Go(s, "scan", "look")
  /\ marker' = NoMarker /\ meddled' = meddled \cup Meddle(s)
  /\ UNCHANGED <<held, read, counts, numbers, restarts, again, hit, torn, why>>

\* Without a marker the end of a transcript is searched for a usage limit.
Scan(s) ==
  /\ (marker = NoMarker /\ Go(s, "scan", "open")) \/ Go(s, "scan", "look")
  /\ UNCHANGED <<marker, held, read, counts, numbers, history>>

\* The transcript is the newest of those that appeared in the directory since
\* the host started: it may be another session's, and a marker may have told of
\* its limit before.
ScanOpens(s) ==
  \E l \in since[s] + 1 .. limits :
    /\ Open(s, l, "open", "fill") /\ UNCHANGED limits
    /\ again' = IF restarts[l] > 0 THEN again \cup {<<l, s>>} ELSE again
ScanFills(s) == \E reason \in {"rate", "far"} : Fill(s, "fill", "look", reason)

-----------------------------------------------------------------------------
(* spawnClaudeWithResume *)

Look(s) ==
  /\ IF marker = NoMarker THEN End(s, "look", "nothing")
     ELSE Go(s, "look", "read") /\ UNCHANGED <<counts, why>>
  /\ UNCHANGED <<marker, held, read, numbers, restarts, again, hit, torn, meddled>>

\* A marker that is gone or does not parse ends the wrapper.
ReadMarker(s) ==
  /\ IF marker.reason = None THEN End(s, "read", "nothing")
     ELSE Go(s, "read", "remove") /\ UNCHANGED <<counts, why>>
  /\ read' = [read EXCEPT ![s] = marker.reason]
  /\ UNCHANGED <<marker, held, numbers, restarts, again, hit, torn, meddled>>

\* One more restart for the reason that was read, if its cap allows one; a
\* wait longer than the hard cap ends the wrapper instead.
MayRestart(s) ==
  \/ read[s] = "token" /\ tokens[s] < MaxToken
  \/ read[s] = "rate" /\ rates[s] < MaxRate
Count(s) ==
  /\ tokens' = [tokens EXCEPT ![s] = IF read[s] = "token" THEN @ + 1 ELSE @]
  /\ rates' = [rates EXCEPT ![s] = IF read[s] = "rate" THEN @ + 1 ELSE @]
  /\ restarts' = [restarts EXCEPT ![marker.limit] = @ + 1]
Decide(s) ==
  IF marker # NoMarker /\ MayRestart(s)
  THEN Go(s, "remove", "wait") /\ Count(s) /\ UNCHANGED why
  ELSE /\ End(s, "remove", IF marker = NoMarker THEN "nothing" ELSE "stopped")
       /\ UNCHANGED restarts

\* Slip: the marker stays until the host has started again.
RemoveLater(s) ==
  /\ Decide(s)
  /\ read' = [read EXCEPT ![s] = None]
  /\ UNCHANGED <<marker, held, numbers, again, hit, torn, meddled>>

\* unlinkSync, of whatever marker is there now; none is an error.
Remove(s) ==
  /\ Decide(s)
  /\ marker' = NoMarker /\ meddled' = meddled \cup Meddle(s)
  /\ read' = [read EXCEPT ![s] = None]
  /\ UNCHANGED <<held, numbers, again, hit, torn>>

\* A new run of the host: nothing has happened in it yet.
Fresh(s) ==
  /\ since' = [since EXCEPT ![s] = limits]
  /\ hit' = hit \ {s} /\ torn' = torn \ {s} /\ meddled' = meddled \ {s}

\* The wait is over.
Restart(s) ==
  /\ Go(s, "wait", "running") /\ Fresh(s)
  /\ UNCHANGED <<marker, held, read, counts, limits, files, restarts, again, why>>

\* The session cannot be prepared again, or the user interrupts the wrapper.
Die(s) ==
  /\ \E step \in {"scan", "open", "fill", "look", "read", "remove", "wait"} : End(s, step, "stopped")
  /\ held' = [held EXCEPT ![s] = NoFile] /\ read' = [read EXCEPT ![s] = None]
  /\ UNCHANGED <<marker, numbers, restarts, again, hit, torn, meddled>>

\* The user starts over.
StartOver(s) ==
  /\ Go(s, "ended", "running") /\ Fresh(s)
  /\ why' = [why EXCEPT ![s] = "no"]
  /\ UNCHANGED <<marker, held, read, counts, limits, files, restarts, again>>

Session(s) ==
  \/ HookOpens(s) \/ HookFills(s) \/ HookDies(s) \/ HookMisses(s) \/ HostEnds(s)
  \/ Scan(s) \/ ScanOpens(s) \/ ScanFills(s)
  \/ Look(s) \/ ReadMarker(s) \/ Remove(s) \/ Restart(s) \/ Die(s) \/ StartOver(s)

Next == \E s \in Sessions : Session(s)

Spec == Init /\ [][Next]_vars

-----------------------------------------------------------------------------
(* Properties *)

\* However many wrappers find its marker, a limit restarts one session: only the
\* one that removes the marker restarts (unlinkSync before any decision,
\* spawn.ts:650).  It restarts one more for each wrapper that finds the limit
\* again in a transcript when no marker is left, because the limit has restarted
\* a session already; and no wrapper finds it again twice.  The marker that is
\* removed may be another than the one that was read: the limit meant is the one
\* whose marker the restart has used up.
Again(l) == {s \in Sessions : <<l, s>> \in again}
OneRestartPerLimit == \A l \in Limits : restarts[l] <= 1 + Cardinality(Again(l))

\* A wrapped session that ran into a limit is restarted, unless a cap or its
\* user stops it, another session wrote over or removed its marker, or its own
\* hook did not get to fill the marker (nor the scan to find the limit): the
\* check before the transcript scan, the reading and the removal lose no marker
\* of theirs (spawnClaude, spawnClaudeWithResume).
LimitAnswered ==
  \A s \in Wrapped \cap hit : pc[s] = "ended" /\ why[s] = "nothing" => s \in meddled \cup torn

\* The marker that a session writes is its own until another session meddles,
\* and waits for it once it is written.
Writes(s) == pc[s] \in {"hook", "fill"}
Awaits(s) == pc[s] \in {"running", "scan", "look", "read", "remove"}
MarkerWaits ==
  /\ \A s \in Sessions : Writes(s) => held[s].file # 0 /\ held[s].limit # 0 /\ s \in hit \ torn
  /\ \A s \in Sessions \ meddled :
       Writes(s) => /\ marker.file = held[s].file /\ marker.limit = held[s].limit
                    /\ marker.by = s /\ marker.reason = None
  /\ \A s \in hit \ (meddled \cup torn) :
       pc[s] # "open" /\ (Awaits(s) => marker.by = s /\ marker.reason # None)

\* A limit that the marker tells of, or is about to, has not restarted as many
\* sessions as it may.
Live(l) ==
  /\ marker.file # 0
  /\ marker.limit = l \/ \E s \in Sessions : held[s] = [file |-> marker.file, limit |-> l]
LimitsUsedUp ==
  \A l \in Limits : restarts[l] + (IF Live(l) THEN 1 ELSE 0) <= 1 + Cardinality(Again(l))

\* Limits that are still to come have done nothing, a wrapper finds a limit in
\* the one run of its host that the limit fell into, and file numbers are used once.
NumbersFresh ==
  /\ \A l \in Limits : l > limits => restarts[l] = 0
  /\ \A s \in Sessions : held[s].limit <= limits /\ held[s].file <= files
  /\ marker.limit <= limits /\ marker.file <= files
  /\ \A u \in again : u[1] <= since[u[2]] \/ pc[u[2]] \in {"fill", "look", "read", "remove", "wait", "ended"}

\* The inductive invariant.
IInv == TypeOK /\ LimitsUsedUp /\ NumbersFresh /\ MarkerWaits /\ LimitAnswered
=============================================================================
