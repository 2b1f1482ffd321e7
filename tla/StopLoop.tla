------------------------------ MODULE StopLoop ------------------------------
(***************************************************************************)
(* What keeps an assistant from stopping, and why it can stop in the end.  *)
(* When a session's turn ends the host runs two hooks side by side.        *)
(* context-guard blocks the stop while the forge loop, one file for all    *)
(* sessions, has unfinished stories; stop-guard blocks it while a rule is  *)
(* violated.  A blocked session works on and tries again.  Each hook has a *)
(* limit: MaxBlocks blocks of a loop, Threshold blocks of a rule.          *)
(*                                                                         *)
(* A message is abstracted to what the rules say of it.  The hooks of one  *)
(* stop share no state, so stop-guard's verdict is one step, taken last:   *)
(* only the steps on the loop's file can meet those of another session.    *)
(***************************************************************************)
EXTENDS Naturals

CONSTANTS
  Sessions, StopRules,
  NoLoop,      \* no forge-loop.json
  Nobody,      \* the loop belongs to no session yet
  Threshold,   \* STUCK_LOOP_THRESHOLD
  MaxBlocks,   \* FORGE_LOOP_MAX_BLOCKS
  Offenders,   \* bound: sessions whose messages may violate a rule
  MaxStories,  \* bound: stories of a loop
  MaxEvents    \* bound: loops started or resumed, blocks of the built-in guards
               \* (which have no limit) and faults, all together

\* In an old loop it no longer matters whether it awaits a confirmation.
Modes == {"goes", "awaits", "old"}
Loops == [active : BOOLEAN, owner : Sessions \cup {Nobody}, blocks : 0 .. MaxBlocks,
          pending : 0 .. MaxStories, mode : Modes]

ASSUME StopLoopAssumption ==
  /\ {Threshold, MaxBlocks, MaxStories, MaxEvents} \subseteq Nat
  /\ Threshold > 0 /\ MaxStories > 0 /\ Offenders \subseteq Sessions /\ Nobody \notin Sessions /\ NoLoop \notin Loops

VARIABLES
  loop,     \* forge-loop.json
  turn,     \* each session: at "work" or "idle", or its hooks at "read", "write", "guard"
  copy,     \* the loop its context-guard has read
  halt,     \* its context-guard has blocked the stop
  count,    \* the block-count files, 0 for none
  starts, builtin, faults,  \* counted for the bounds
  blocked   \* history: blocks by each rule since stop-guard last approved

loopVars == <<loop, turn, copy, halt, count, starts, builtin, faults, blocked>>
counters == <<count, blocked, builtin>>
hooks == <<copy, halt, counters>>

LoopTypeOK ==
  /\ loop \in Loops \cup {NoLoop}
  /\ turn \in [Sessions -> {"work", "read", "write", "guard", "idle"}]
  /\ copy \in [Sessions -> Loops \cup {NoLoop}]
  /\ halt \in [Sessions -> BOOLEAN]
  /\ count \in [Sessions -> [StopRules -> Nat]]
  /\ blocked \in [Sessions -> [StopRules -> Nat]]
  /\ starts \in Nat /\ builtin \in Nat /\ faults \in Nat

Bounded == starts + builtin + faults < MaxEvents

\* What the skill writes: it need not know its session.
Fresh == [active : {TRUE}, owner : {Nobody}, blocks : {0}, pending : 1 .. MaxStories,
          mode : {"goes"}]

\* A loop may be left from an earlier session that never tried to stop.
LoopInit ==
  /\ loop \in {NoLoop} \cup Fresh /\ copy = [s \in Sessions |-> NoLoop]
  /\ turn = [s \in Sessions |-> "work"] /\ halt = [s \in Sessions |-> FALSE]
  /\ count = [s \in Sessions |-> [r \in StopRules |-> 0]] /\ blocked = count
  /\ starts = 0 /\ builtin = 0 /\ faults = 0

-----------------------------------------------------------------------------
(* The session, its agent and its user *)

Enters(s, where) == turn' = [turn EXCEPT ![s] = where]

TryStop(s) ==
  /\ turn[s] = "work"
  /\ Enters(s, "read")
  /\ UNCHANGED <<loop, hooks, starts, faults>>

Prompt(s) ==
  /\ turn[s] = "idle"
  /\ Enters(s, "work")
  /\ UNCHANGED <<loop, hooks, starts, faults>>

\* "cancelforgen", in any session, removes the loop's file.
Cancel(s) ==
  /\ turn[s] = "idle"
  /\ Enters(s, "work")
  /\ loop' = NoLoop
  /\ UNCHANGED <<hooks, starts, faults>>

StartLoop(s) ==
  /\ turn[s] = "work" /\ Bounded
  /\ starts' = starts + 1
  /\ loop' \in Fresh
  /\ UNCHANGED <<turn, hooks, faults>>

\* `forge-loop resume`: the agent may leave the old owner, count and question.
ResumeLoop(s) ==
  /\ turn[s] = "work" /\ Bounded /\ loop # NoLoop
  /\ starts' = starts + 1
  /\ \E o \in {loop.owner, Nobody}, b \in {loop.blocks, 0}, m \in Modes \ {"old"} :
       loop' = [loop EXCEPT !.active = TRUE, !.owner = o, !.blocks = b, !.mode = m]
  /\ UNCHANGED <<turn, hooks, faults>>

\* The agent finishes a story or waits for its user's confirmation.
EditLoop(s) ==
  /\ turn[s] = "work" /\ loop # NoLoop
  /\ \/ loop.pending > 0 /\ loop' = [loop EXCEPT !.pending = @ - 1]
     \/ loop.mode = "goes" /\ loop' = [loop EXCEPT !.mode = "awaits"]
     \/ loop.mode = "awaits" /\ loop' = [loop EXCEPT !.mode = "goes"]
  /\ UNCHANGED <<turn, hooks, starts, faults>>

\* 24 hours pass.
LoopAges ==
  /\ loop # NoLoop /\ loop.mode # "old"
  /\ loop' = [loop EXCEPT !.mode = "old"]
  /\ UNCHANGED <<turn, hooks, starts, faults>>

-----------------------------------------------------------------------------
(* checkForgeLoopActive *)

\* The hook answers.
Answer(s, blocks) ==
  /\ Enters(s, "guard")
  /\ copy' = [copy EXCEPT ![s] = NoLoop]
  /\ halt' = [halt EXCEPT ![s] = blocks]

\* Slip: a loop of another session is bound to this one.
Anyones(l, s) == l # NoLoop /\ l.active

\* An active loop that s owns or may bind.
Bindable(l, s) == l # NoLoop /\ l.active /\ l.owner \in {Nobody, s}

ReadLoop(s) ==
  /\ turn[s] = "read"
  /\ IF Bindable(loop, s)
     THEN Enters(s, "write") /\ copy' = [copy EXCEPT ![s] = loop] /\ UNCHANGED halt
     ELSE Answer(s, FALSE)
  /\ UNCHANGED <<loop, counters, starts, faults>>

\* FORGEN_USER_CONFIRMED.
BypassLoop(s) ==
  /\ turn[s] = "write"
  /\ Answer(s, FALSE)
  /\ UNCHANGED <<loop, counters, starts, faults>>

Holds(l) == l.mode = "goes" /\ l.blocks < MaxBlocks /\ l.pending > 0

\* Slip: the block is not counted.
PlanUncounted(l, s) ==
  [l EXCEPT !.owner = s, !.active = Holds(l) \/ l.mode = "awaits"]

\* What the hook writes: it binds the loop to the session and counts the block,
\* or switches the loop off for its age, its count or its completion.
Plan(l, s) ==
  [l EXCEPT !.owner = s,
            !.active = Holds(l) \/ l.mode = "awaits",
            !.blocks = IF Holds(l) THEN @ + 1 ELSE @]

WriteLoop(s) ==
  /\ turn[s] = "write"
  /\ loop' = Plan(copy[s], s)
  /\ Answer(s, Holds(copy[s]))
  /\ UNCHANGED <<counters, starts, faults>>

-----------------------------------------------------------------------------
(* stop-guard *)

\* Both hooks have answered.
Judges(s, blocks) ==
  /\ turn[s] = "guard"
  /\ Enters(s, IF blocks \/ halt[s] THEN "work" ELSE "idle")
  /\ halt' = [halt EXCEPT ![s] = FALSE]
unjudged == <<loop, copy, starts>>
Approved(s) == blocked' = [blocked EXCEPT ![s] = [r \in StopRules |-> 0]]
Blocked(s, r) == blocked' = [blocked EXCEPT ![s][r] = @ + 1]

\* No message, no rule, or FORGEN_USER_CONFIRMED: the counters stay.
GuardSkips(s) ==
  /\ Judges(s, FALSE) /\ Approved(s)
  /\ UNCHANGED <<unjudged, count, builtin, faults>>

\* No rule violated: acknowledgeSessionBlocks removes the session's counters.
GuardPasses(s) ==
  /\ Judges(s, FALSE) /\ Approved(s)
  /\ count' = [count EXCEPT ![s] = [r \in StopRules |-> 0]]
  /\ UNCHANGED <<unjudged, builtin, faults>>

BuiltinBlocks(s) ==
  /\ Bounded
  /\ builtin' = builtin + 1
  /\ Judges(s, TRUE)
  /\ UNCHANGED <<unjudged, count, blocked, faults>>

\* Slip: the counter is put back with every block.
CountAfresh(s, r) ==
  /\ s \in Offenders
  /\ Judges(s, TRUE) /\ Blocked(s, r)
  /\ count' = [count EXCEPT ![s][r] = 1]
  /\ UNCHANGED <<unjudged, builtin, faults>>

\* r is the first rule violated.  Past the threshold the stop is approved and
\* r's counter removed.  Only this hook uses the session's counters.
RuleHit(s, r) ==
  /\ s \in Offenders
  /\ IF count[s][r] + 1 > Threshold
     THEN /\ Judges(s, FALSE) /\ Approved(s)
          /\ count' = [count EXCEPT ![s][r] = 0]
     ELSE /\ Judges(s, TRUE) /\ Blocked(s, r)
          /\ count' = [count EXCEPT ![s][r] = @ + 1]
  /\ UNCHANGED <<unjudged, builtin, faults>>

-----------------------------------------------------------------------------
(* Faults *)

Fault == Bounded /\ faults' = faults + 1

\* The counter cannot be written: the block stands.  A file that was opened
\* for writing is empty by then, and an empty file counts as 0.
CountFails(s, r) ==
  /\ s \in Offenders /\ Fault
  /\ Judges(s, TRUE) /\ Blocked(s, r)
  /\ UNCHANGED count \/ count' = [count EXCEPT ![s][r] = 0]
  /\ UNCHANGED <<unjudged, builtin>>

\* A hook that is killed or throws does not block.  It may have counted a block,
\* emptied the counter it was writing, or removed some of them.
GuardDies(s) ==
  /\ Fault
  /\ Judges(s, FALSE)
  /\ \/ s \in Offenders /\ \E r \in StopRules : count' = [count EXCEPT ![s][r] = @ + 1]
     \/ \E gone \in SUBSET StopRules :
          count' = [count EXCEPT ![s] = [r \in StopRules |-> IF r \in gone THEN 0 ELSE @[r]]]
  /\ UNCHANGED <<unjudged, blocked, builtin>>
LoopHookDies(s) ==
  /\ turn[s] \in {"read", "write"} /\ Fault
  /\ Answer(s, FALSE)
  /\ UNCHANGED <<loop, counters, starts>>

LoopHook(s) == ReadLoop(s) \/ BypassLoop(s) \/ WriteLoop(s)
GuardHook(s) == GuardSkips(s) \/ GuardPasses(s) \/ BuiltinBlocks(s)
                  \/ \E r \in StopRules : RuleHit(s, r)
User(s) == Prompt(s) \/ Cancel(s)
Agent(s) == StartLoop(s) \/ ResumeLoop(s) \/ EditLoop(s)
Faulty(s) == LoopHookDies(s) \/ GuardDies(s) \/ \E r \in StopRules : CountFails(s, r)

LoopNext ==
  \/ LoopAges
  \/ \E s \in Sessions : TryStop(s) \/ User(s) \/ Agent(s)
                           \/ LoopHook(s) \/ GuardHook(s) \/ Faulty(s)

LoopSpec == LoopInit /\ [][LoopNext]_loopVars

\* The agent ends its turns and the host runs the hooks it starts.
Proceed(s) == TryStop(s) \/ LoopHook(s) \/ GuardHook(s)
LoopFairSpec == LoopSpec /\ \A s \in Sessions : WF_loopVars(Proceed(s))

-----------------------------------------------------------------------------
\* A hook writes back a loop that has changed since it read it.
StaleWrite ==
  \E s \in Sessions : turn[s] = "write" /\ turn'[s] # "write" /\ copy[s] # loop

\* A loop that is switched off, by a limit or as complete, stays off, and a loop
\* bound to a session stays with it (context-guard.ts:542 "other sessions' stops
\* do not touch this loop"), until it is started or resumed; only a hook whose
\* copy of the file is out of date may undo either.
LoopSettled ==
  [][loop # NoLoop /\ loop' # NoLoop /\ starts' = starts /\ ~StaleWrite =>
       /\ loop'.active => loop.active
       /\ loop.owner \in {Nobody, loop'.owner}]_loopVars

\* Between two approvals of stop-guard a rule blocks a session's stop at most
\* Threshold times, whatever other rules, built-in guards and the loop do
\* meanwhile.  A fault that loses its counter starts the count again, and the
\* block that could not be counted comes on top.
RuleBlocksBounded ==
  \A s \in Sessions, r \in StopRules :
    blocked[s][r] <= Threshold + faults * (Threshold + 1)

\* The inductive reasons: a hook about to write has read a loop it may bind, and
\* the counters hold every block since the last approval but those that a fault
\* took from them.
CopiesBindable == \A s \in Sessions : turn[s] = "write" => Bindable(copy[s], s)
CountsBlocks ==
  \A s \in Sessions, r \in StopRules :
    blocked[s][r] <= (IF count[s][r] < Threshold THEN count[s][r] ELSE Threshold)
                       + faults * (Threshold + 1)
LoopIInv == LoopTypeOK /\ CopiesBindable /\ CountsBlocks

\* However the two hooks' blocks, limits and resets interleave, a session that
\* tries to stop is let go in the end.
EveryStopEnds == \A s \in Sessions : turn[s] = "read" ~> turn[s] = "idle"
=============================================================================
