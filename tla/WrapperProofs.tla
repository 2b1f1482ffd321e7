--------------------------- MODULE WrapperProofs ----------------------------
(***************************************************************************)
(* What the wrapper of the host shares with others: the marker that says a *)
(* session ran into a limit (Resume) and the host's settings (SettingsFile).*)
(* The marker belongs to who wrote it last.  The lock of the settings      *)
(* serialises its users, whatever commands they run and however many die,  *)
(* until a live holder's lock file is overwritten or removed.              *)
(***************************************************************************)
EXTENDS Resume, SettingsFile, FiniteSetTheorems, TLAPS

-----------------------------------------------------------------------------
(* The resume marker *)

USE ResumeAssumption

LEMMA InitSafe == Init => IInv
<1> SUFFICES ASSUME Init PROVE IInv
  OBVIOUS
<1>1. TypeOK
  BY DEF Init, TypeOK, Steps, NoMarker, Markers, NoFile, Limits
<1>2. LimitsUsedUp
  <2> SUFFICES ASSUME NEW l \in Limits
               PROVE  restarts[l] + (IF Live(l) THEN 1 ELSE 0) <= 1 + Cardinality(Again(l))
    BY DEF LimitsUsedUp
  <2>1. Again(l) = {} /\ Cardinality({}) = 0
    BY FS_EmptySet DEF Init, Again
  <2> QED BY <2>1 DEF Init, Live, NoMarker
<1>3. NumbersFresh
  BY DEF Init, NumbersFresh, NoMarker, NoFile
<1>4. MarkerWaits /\ LimitAnswered
  BY DEF Init, MarkerWaits, Writes, LimitAnswered
<1> QED BY <1>1, <1>2, <1>3, <1>4 DEF IInv

\* A wrapper that finds a limit again is one more of those that have.
LEMMA AgainGrows ==
  ASSUME TypeOK, NEW l \in Limits, NEW s \in Sessions, <<l, s>> \notin again,
         again' = again \cup {<<l, s>>}
  PROVE  /\ Cardinality(Again(l)) \in Nat
         /\ Cardinality(Again(l)') = Cardinality(Again(l)) + 1
         /\ \A m \in Limits \ {l} : Again(m)' = Again(m)
<1>1. IsFiniteSet(Again(l)) /\ s \notin Again(l)
  BY FS_Subset DEF Again
<1>2. Again(l)' = Again(l) \cup {s}
  BY DEF Again
<1> QED BY <1>1, <1>2, FS_AddElement, FS_CardinalityType DEF Again

LEMMA AgainCounts == \A l : Cardinality(Again(l)) \in Nat
BY FS_Subset, FS_CardinalityType DEF Again

\* Opening the marker file to write about a limit of this run of the host.
LEMMA OpenSafe ==
  ASSUME IInv, NEW s \in Sessions, HookOpens(s) \/ ScanOpens(s)
  PROVE  IInv'
<1> USE DEF IInv
<1>. PICK l \in Nat, from \in {"running", "open"}, to \in {"hook", "fill"} :
        /\ Open(s, l, from, to) /\ pc[s] = from /\ (from = "open" <=> to = "fill")
        /\ \/ /\ limits < MaxLimits /\ limits' = limits + 1 /\ l = limits + 1 /\ again' = again
              /\ from = "running"
           \/ /\ l \in since[s] + 1 .. limits /\ limits' = limits /\ from = "open"
              /\ again' = IF restarts[l] > 0 THEN again \cup {<<l, s>>} ELSE again
  <2>1. CASE HookOpens(s)
    <3>1. limits + 1 \in Nat
      BY DEF TypeOK
    <3> QED BY <2>1, <3>1 DEF HookOpens, Open, Go
  <2>2. CASE ScanOpens(s)
    <3>1. \A l \in since[s] + 1 .. limits : l \in Nat
      BY DEF TypeOK
    <3> QED BY <2>2, <3>1 DEF ScanOpens, Open, Go
  <2> QED BY <2>1, <2>2
<1> DEFINE file == IF marker = NoMarker THEN files + 1 ELSE marker.file
<1>1. /\ l \in 1 .. limits' /\ l \in Limits /\ limits' \in 0 .. MaxLimits /\ limits <= limits'
      /\ since[s] \in 0 .. limits
  BY DEF TypeOK, Limits
<1>2. /\ pc' = [pc EXCEPT ![s] = to] /\ files' = IF marker = NoMarker THEN file ELSE files
      /\ marker' = [file |-> file, limit |-> l, by |-> s, reason |-> None]
      /\ held' = [held EXCEPT ![s] = [file |-> file, limit |-> l]]
      /\ hit' = hit \cup {s} /\ torn' = torn \ {s} /\ meddled' = (meddled \ {s}) \cup Meddle(s)
      /\ UNCHANGED <<read, counts, since, restarts, why>>
  BY DEF Open, Go
<1>3. file \in Nat \ {0} /\ files \in Nat /\ files' \in Nat /\ files <= files' /\ file <= files'
  BY <1>2 DEF TypeOK, Markers, NoMarker, NumbersFresh
<1>4. again' \subseteq (1 .. limits') \X Sessions
  BY <1>1 DEF TypeOK
<1>5. TypeOK'
  <2>1. marker' \in Markers /\ held' \in [Sessions -> [file : Nat, limit : 0 .. MaxLimits]]
    BY <1>1, <1>2, <1>3 DEF TypeOK, Markers, Limits
  <2>2. since' \in [Sessions -> 0 .. limits']
    BY <1>1, <1>2 DEF TypeOK
  <2>3. Meddle(s) \subseteq Sessions
    BY DEF TypeOK, Meddle, Markers, NoMarker
  <2> QED BY <1>1, <1>2, <1>3, <1>4, <2>1, <2>2, <2>3 DEF TypeOK, Steps, counts
<1>6. LimitsUsedUp'
  <2> SUFFICES ASSUME NEW m \in Limits
               PROVE  restarts[m] + (IF Live(m)' THEN 1 ELSE 0) <= 1 + Cardinality(Again(m)')
    BY <1>2 DEF LimitsUsedUp
  <2>1. restarts[m] + (IF Live(m) THEN 1 ELSE 0) <= 1 + Cardinality(Again(m)) /\ restarts[m] \in Nat
    BY DEF LimitsUsedUp, TypeOK
  <2>2. CASE m # l
    \* The others that the file tells of, it told of before.
    <3>1. Live(m)' => Live(m)
      <4> SUFFICES ASSUME Live(m)' PROVE Live(m)
        OBVIOUS
      <4>. PICK q \in Sessions : held'[q] = [file |-> file, limit |-> m]
        BY <1>2, <2>2 DEF Live
      <4>1. q # s /\ held[q] = [file |-> file, limit |-> m]
        BY <1>2, <2>2 DEF TypeOK
      <4>2. file <= files
        BY <4>1 DEF NumbersFresh
      <4>3. marker.file = file
        BY <1>3, <4>2
      <4> QED BY <1>3, <4>1, <4>3 DEF Live
    <3>2. Again(m)' = Again(m)
      BY <2>2 DEF Again
    <3> QED BY <2>1, <3>1, <3>2, AgainCounts
  <2>3. CASE m = l /\ restarts[l] = 0
    <3>1. Cardinality(Again(m)') \in Nat
      BY FS_Subset, FS_CardinalityType DEF Again
    <3> QED BY <2>3, <3>1
  <2>4. CASE m = l /\ restarts[l] # 0
    <3>0. l # limits + 1
      BY <1>1, <2>4 DEF NumbersFresh, TypeOK
    <3>1. l <= limits /\ from = "open" /\ l > since[s] /\ again' = again \cup {<<l, s>>}
      <4>1. l \in since[s] + 1 .. limits /\ from = "open"
            /\ again' = IF restarts[l] > 0 THEN again \cup {<<l, s>>} ELSE again
        BY <3>0
      <4> QED BY <1>1, <2>1, <2>4, <4>1
    <3>2. <<l, s>> \notin again
      BY <1>1, <3>1 DEF NumbersFresh
    <3>3. Cardinality(Again(l)') = Cardinality(Again(l)) + 1 /\ Cardinality(Again(l)) \in Nat
      BY <1>1, <3>1, <3>2, AgainGrows
    <3> QED BY <2>1, <2>4, <3>3
  <2> QED BY <2>1, <2>2, <2>3, <2>4
<1>7. NumbersFresh'
  <2>1. \A m \in Limits : m > limits' => restarts'[m] = 0
    BY <1>1, <1>2 DEF NumbersFresh, TypeOK, Limits
  <2>2. \A q \in Sessions : held'[q].limit <= limits' /\ held'[q].file <= files'
    BY <1>1, <1>2, <1>3 DEF NumbersFresh, TypeOK
  <2>3. marker'.limit <= limits' /\ marker'.file <= files'
    BY <1>1, <1>2, <1>3
  <2>4. ASSUME NEW u \in again'
        PROVE  u[1] <= since[u[2]] \/ pc'[u[2]] \in {"fill", "look", "read", "remove", "wait", "ended"}
    <3>1. CASE u \in again
      BY <1>2, <3>1 DEF NumbersFresh, TypeOK
    <3>2. CASE u \notin again
      BY <1>2, <3>2 DEF TypeOK
    <3> QED BY <3>1, <3>2
  <2> QED BY <1>2, <2>1, <2>2, <2>3, <2>4 DEF NumbersFresh
<1>8. MarkerWaits'
  <2>1. \A q \in Sessions \ meddled' : q = s \/ marker.by # q
    BY <1>2 DEF Meddle
  <2>2. \A q \in Sessions \ {s} : /\ pc'[q] = pc[q] /\ held'[q] = held[q] /\ (q \in hit' <=> q \in hit)
                                  /\ (q \in torn' <=> q \in torn)
                                  /\ (q \notin meddled' => q \notin meddled)
    BY <1>2 DEF TypeOK
  <2>3. pc'[s] = to /\ held'[s] = [file |-> file, limit |-> l] /\ s \in hit' \ torn'
    BY <1>2 DEF TypeOK
  <2> QED BY <1>2, <1>3, <2>1, <2>2, <2>3 DEF MarkerWaits, Writes, Awaits, TypeOK
<1>9. LimitAnswered'
  BY <1>2 DEF LimitAnswered, TypeOK, Meddle
<1> QED BY <1>5, <1>6, <1>7, <1>8, <1>9

\* Filling it: what it says then is the reason, unless another session has
\* meddled, and a file that was removed meanwhile is no marker.
LEMMA FillSafe ==
  ASSUME IInv, NEW s \in Sessions, NEW from, NEW to, NEW reason \in Reasons, Fill(s, from, to, reason),
         \/ from = "hook" /\ to = "running"
         \/ from = "fill" /\ to = "look"
  PROVE  IInv'
<1> USE DEF IInv
<1>1. /\ pc[s] = from /\ pc' = [pc EXCEPT ![s] = to] /\ held' = [held EXCEPT ![s] = NoFile]
      /\ UNCHANGED <<read, counts, numbers, restarts, again, hit, torn, why>>
  BY DEF Fill, Go
<1>2. pc[s] \in {"hook", "fill"} /\ marker \in Markers \cup {NoMarker} /\ held[s].file # 0
      /\ held[s] \in [file : Nat, limit : 0 .. MaxLimits]
  BY <1>1 DEF TypeOK, MarkerWaits, Writes
<1>3. held' \in [Sessions -> [file : Nat, limit : 0 .. MaxLimits]]
  BY <1>1 DEF TypeOK, NoFile
<1>a. \A u \in again : u[1] <= since[u[2]]
                       \/ pc'[u[2]] \in {"fill", "look", "read", "remove", "wait", "ended"}
  BY <1>1 DEF NumbersFresh, TypeOK
<1>b. \A q \in Sessions : held'[q].limit <= limits /\ held'[q].file <= files
  BY <1>1 DEF NumbersFresh, TypeOK, NoFile
<1>4. CASE marker.file # held[s].file
  <2>0. marker' = marker /\ meddled' = meddled
    BY <1>4 DEF Fill
  <2>1. s \in meddled
    BY <1>2, <1>4 DEF MarkerWaits, Writes
  <2>2. TypeOK'
    BY <1>1, <1>3, <2>0 DEF TypeOK, Steps, counts, numbers
  <2>3. LimitsUsedUp'
    <3>1. \A l \in Limits : (Live(l)' => Live(l)) /\ Again(l)' = Again(l)
      BY <1>1, <2>0 DEF Live, TypeOK, Again, NoFile
    <3> QED BY <1>1, <3>1, AgainCounts DEF LimitsUsedUp, TypeOK
  <2>4. NumbersFresh'
    BY <1>1, <2>0, <1>a, <1>b DEF NumbersFresh, numbers
  <2>5. MarkerWaits'
    BY <1>1, <2>0, <2>1 DEF MarkerWaits, Writes, Awaits, TypeOK
  <2>6. LimitAnswered'
    BY <1>1, <2>0 DEF LimitAnswered, TypeOK
  <2> QED BY <2>2, <2>3, <2>4, <2>5, <2>6
<1>5. CASE marker.file = held[s].file
  <2>1. marker \in Markers
    BY <1>2, <1>5 DEF NoMarker
  <2>. PICK says \in {reason} \cup (IF marker.reason = None THEN {} ELSE {None}) :
         marker' = [marker EXCEPT !.limit = held[s].limit, !.by = s, !.reason = says]
    BY <1>5 DEF Fill
  <2>0. held[s].limit \in Limits
    BY <1>1, <1>2 DEF Limits, MarkerWaits, Writes
  <2>2. marker' \in Markers /\ marker'.file = marker.file /\ marker'.by = s /\ marker'.reason = says
        /\ marker'.limit = held[s].limit
    BY <2>0, <2>1 DEF Markers
  <2>a. meddled' = meddled \cup Meddle(s) \cup (IF says = None THEN {s} ELSE {})
    BY <1>5, <2>2 DEF Fill
  <2>3. Meddle(s) = {marker.by} \ {s, None} /\ Meddle(s) \subseteq Sessions
    BY <2>1 DEF Meddle, Markers
  <2>4. TypeOK'
    BY <1>1, <1>3, <2>2, <2>3, <2>a DEF TypeOK, Steps, counts, numbers
  <2>5. LimitsUsedUp'
    <3>1. \A l \in Limits : (Live(l)' => Live(l)) /\ Again(l)' = Again(l)
      BY <1>1, <1>2, <1>5, <2>2 DEF Live, TypeOK, Again, NoFile
    <3> QED BY <1>1, <3>1, AgainCounts DEF LimitsUsedUp, TypeOK
  <2>6. NumbersFresh'
    BY <1>1, <1>a, <1>b, <2>2 DEF NumbersFresh, numbers
  <2>7. s \notin meddled' => says = reason
    BY <2>a
  <2>8. \A q \in Sessions \ meddled' : q = s \/ marker.by # q
    BY <2>3, <2>a
  <2>9. MarkerWaits'
    BY <1>1, <1>5, <2>1, <2>2, <2>7, <2>8, <2>a DEF MarkerWaits, Writes, Awaits, TypeOK
  <2>10. LimitAnswered'
    BY <1>1, <2>a DEF LimitAnswered, TypeOK
  <2> QED BY <2>4, <2>5, <2>6, <2>9, <2>10
<1> QED BY <1>4, <1>5

\* Removing the marker, with the decision that follows: a restart uses it up.
LEMMA RemoveSafe ==
  ASSUME IInv, NEW s \in Sessions, Remove(s)
  PROVE  IInv'
<1> USE DEF IInv
<1>1. /\ pc[s] = "remove" /\ marker' = NoMarker /\ meddled' = meddled \cup Meddle(s)
      /\ read' = [read EXCEPT ![s] = None] /\ UNCHANGED <<held, numbers, again, hit, torn>>
  BY DEF Remove, Decide, End, Go
<1>2. \/ /\ marker = NoMarker /\ pc' = [pc EXCEPT ![s] = "ended"] /\ why' = [why EXCEPT ![s] = "nothing"]
         /\ restarts' = restarts
      \/ /\ marker # NoMarker /\ pc' = [pc EXCEPT ![s] = "ended"] /\ why' = [why EXCEPT ![s] = "stopped"]
         /\ restarts' = restarts
      \/ /\ marker # NoMarker /\ pc' = [pc EXCEPT ![s] = "wait"] /\ why' = why
         /\ restarts' = [restarts EXCEPT ![marker.limit] = @ + 1]
  BY DEF Remove, Decide, Count, End, Go
<1>3. tokens' \in [Sessions -> 0 .. MaxToken] /\ rates' \in [Sessions -> 0 .. MaxRate]
  <2>1. CASE marker # NoMarker /\ MayRestart(s)
    <3>1. /\ tokens' = [tokens EXCEPT ![s] = IF read[s] = "token" THEN @ + 1 ELSE @]
          /\ rates' = [rates EXCEPT ![s] = IF read[s] = "rate" THEN @ + 1 ELSE @]
          /\ read[s] = "token" => tokens[s] < MaxToken
          /\ read[s] = "rate" => rates[s] < MaxRate
      BY <2>1 DEF MayRestart, Remove, Decide, Count
    <3>2. tokens[s] \in 0 .. MaxToken /\ rates[s] \in 0 .. MaxRate
      BY DEF TypeOK
    <3>3. /\ (IF read[s] = "token" THEN tokens[s] + 1 ELSE tokens[s]) \in 0 .. MaxToken
          /\ (IF read[s] = "rate" THEN rates[s] + 1 ELSE rates[s]) \in 0 .. MaxRate
      BY <3>1, <3>2
    <3> QED BY <3>1, <3>3 DEF TypeOK
  <2>2. CASE ~(marker # NoMarker /\ MayRestart(s))
    BY <2>2 DEF Remove, Decide, End, TypeOK
  <2> QED BY <2>1, <2>2
<1>4. Meddle(s) = {marker.by} \ {s, None} /\ Meddle(s) \subseteq Sessions
  BY DEF Meddle, TypeOK, Markers, NoMarker
<1>5. restarts' \in [Limits -> Nat]
  BY <1>2 DEF TypeOK
<1>6. TypeOK'
  BY <1>1, <1>2, <1>3, <1>4, <1>5 DEF TypeOK, Steps, numbers
<1>7. LimitsUsedUp'
  <2> SUFFICES ASSUME NEW l \in Limits PROVE restarts'[l] <= 1 + Cardinality(Again(l))
    <3>1. \A l \in Limits : ~Live(l)' /\ Again(l)' = Again(l)
      BY <1>1 DEF Live, NoMarker, Again
    <3> QED BY <1>5, <3>1 DEF LimitsUsedUp
  <2>1. restarts[l] + (IF Live(l) THEN 1 ELSE 0) <= 1 + Cardinality(Again(l)) /\ restarts[l] \in Nat
    BY DEF LimitsUsedUp, TypeOK
  <2>2. CASE restarts'[l] = restarts[l]
    BY <2>1, <2>2, AgainCounts
  <2>3. CASE restarts'[l] # restarts[l]
    <3>1. marker # NoMarker /\ l = marker.limit /\ restarts'[l] = restarts[l] + 1
      BY <1>2, <2>3 DEF TypeOK
    <3>2. Live(l)
      BY <3>1 DEF Live, TypeOK, Markers
    <3> QED BY <2>1, <3>1, <3>2
  <2> QED BY <2>2, <2>3
<1>8. NumbersFresh'
  <2>1. \A l \in Limits : l > limits => restarts'[l] = 0
    <3> SUFFICES ASSUME NEW l \in Limits, l > limits PROVE restarts'[l] = 0
      OBVIOUS
    <3>1. restarts[l] = 0 /\ marker.limit <= limits /\ marker.limit \in Nat /\ limits \in Nat
      <4>1. restarts[l] = 0 /\ marker.limit <= limits /\ limits \in Nat
        BY DEF NumbersFresh, TypeOK
      <4>2. marker.limit \in Limits \cup {0}
        BY DEF TypeOK, Markers, NoMarker
      <4> QED BY <4>1, <4>2 DEF Limits
    <3>2. l # marker.limit
      BY <3>1 DEF Limits
    <3> QED BY <1>2, <3>1, <3>2 DEF TypeOK
  <2>2. \A u \in again : u[1] <= since[u[2]]
                         \/ pc'[u[2]] \in {"fill", "look", "read", "remove", "wait", "ended"}
    BY <1>2 DEF NumbersFresh, TypeOK
  <2>3. 0 <= limits /\ 0 <= files
    BY DEF TypeOK
  <2> QED BY <1>1, <2>1, <2>2, <2>3 DEF NumbersFresh, numbers, NoMarker
<1>9. \A q \in Sessions \ meddled' : q = s \/ marker.by # q
  BY <1>1, <1>4
<1>10. MarkerWaits'
  <2>1. ~Writes(s)' /\ ~Awaits(s)' /\ pc'[s] # "open"
    BY <1>1, <1>2 DEF Writes, Awaits, TypeOK
  <2>2. \A q \in Sessions \ {s} : pc'[q] = pc[q]
    BY <1>2 DEF TypeOK
  <2>3. \A q \in Sessions \ {s} : q \notin meddled' => q \notin meddled /\ marker.by # q
    BY <1>1, <1>9
  <2>4. \A q \in Sessions : Writes(q)' => q # s /\ Writes(q) /\ held'[q] = held[q]
    BY <1>1, <2>1, <2>2 DEF Writes
  <2>5. \A q \in Sessions : Awaits(q)' => q # s /\ Awaits(q)
    BY <2>1, <2>2 DEF Awaits
  <2>6. \A q \in Sessions : Writes(q)' => held'[q].file # 0 /\ held'[q].limit # 0 /\ q \in hit' \ torn'
    BY <1>1, <2>4 DEF MarkerWaits
  <2>7. \A q \in Sessions \ meddled' : ~ Writes(q)'
    BY <2>3, <2>4 DEF MarkerWaits
  <2>8. \A q \in hit' \ (meddled' \cup torn') : pc'[q] # "open" /\ ~ Awaits(q)'
    <3> SUFFICES ASSUME NEW q \in hit \ (meddled' \cup torn) PROVE pc'[q] # "open" /\ ~ Awaits(q)'
      BY <1>1
    <3>1. q \in Sessions
      BY DEF TypeOK
    <3>2. CASE q = s
      BY <2>1, <3>2
    <3>3. CASE q # s
      <4>1. q \in hit \ (meddled \cup torn) /\ marker.by # q /\ pc'[q] = pc[q]
        BY <2>2, <2>3, <3>1, <3>3
      <4> QED BY <2>5, <3>1, <4>1 DEF MarkerWaits
    <3> QED BY <3>2, <3>3
  <2> QED BY <2>6, <2>7, <2>8 DEF MarkerWaits
<1>11. LimitAnswered'
  BY <1>1, <1>2 DEF LimitAnswered, MarkerWaits, Awaits, TypeOK, NoMarker
<1> QED BY <1>6, <1>7, <1>8, <1>10, <1>11

\* Whatever leaves the marker and its history alone, and begins no write and
\* no new run.
LEMMA MovesSafe ==
  ASSUME IInv, NEW s \in Sessions, NEW to \in Steps \ {"hook", "fill"},
         NEW reason \in {"no", "nothing", "stopped"},
         pc' = [pc EXCEPT ![s] = to], UNCHANGED <<marker, numbers, restarts, again, hit, torn, meddled>>,
         held' = held \/ held' = [held EXCEPT ![s] = NoFile],
         read' = read \/ read' \in [Sessions -> Reasons \cup {None}],
         tokens' \in [Sessions -> 0 .. MaxToken] /\ rates' \in [Sessions -> 0 .. MaxRate],
         why' = why \/ why' = [why EXCEPT ![s] = reason],
         pc[s] \in {"fill", "look", "read", "remove", "wait", "ended"}
           => to \in {"look", "read", "remove", "wait", "ended"},
         s \in hit \ (meddled \cup torn) =>
           to # "open" /\ (to \in {"running", "scan", "look", "read", "remove"} => Awaits(s)),
         s \in hit \ (meddled \cup torn) /\ to = "ended" 
           => (why' = why /\ why[s] # "nothing") \/ why'[s] = "stopped" \/ s \notin Wrapped
  PROVE  IInv'
<1> USE DEF IInv
<1>0. held' \in [Sessions -> [file : Nat, limit : 0 .. MaxLimits]]
      /\ \A q \in Sessions : held'[q] = held[q] \/ held'[q] = NoFile
  BY DEF TypeOK, NoFile
<1>1. TypeOK'
  <2>1. pc' \in [Sessions -> Steps] /\ why' \in [Sessions -> {"no", "nothing", "stopped"}]
    BY DEF TypeOK
  <2>2. read' \in [Sessions -> Reasons \cup {None}]
    BY DEF TypeOK
  <2> QED BY <1>0, <2>1, <2>2 DEF TypeOK, numbers
<1>2. LimitsUsedUp'
  <2>1. \A l \in Limits : (Live(l)' => Live(l)) /\ Again(l)' = Again(l)
    BY <1>0 DEF Live, TypeOK, Again, NoFile
  <2> QED BY <2>1, AgainCounts DEF LimitsUsedUp, TypeOK
<1>3. NumbersFresh'
  <2>1. \A q \in Sessions : held'[q].limit <= limits /\ held'[q].file <= files
    BY <1>0 DEF NumbersFresh, TypeOK, NoFile
  <2>2. \A u \in again : u[1] <= since[u[2]]
                         \/ pc'[u[2]] \in {"fill", "look", "read", "remove", "wait", "ended"}
    BY DEF NumbersFresh, TypeOK
  <2> QED BY <2>1, <2>2 DEF NumbersFresh, numbers
<1>4. MarkerWaits'
  BY DEF MarkerWaits, Writes, Awaits, TypeOK
<1>5. LimitAnswered'
  BY DEF LimitAnswered, TypeOK
<1> QED BY <1>1, <1>2, <1>3, <1>4, <1>5

\* A hook that does not get to fill the marker.
LEMMA MissSafe ==
  ASSUME IInv, NEW s \in Sessions, HookDies(s) \/ HookMisses(s)
  PROVE  IInv'
<1> USE DEF IInv
<1>1. /\ pc' = [pc EXCEPT ![s] = "running"] /\ pc[s] \in {"hook", "running"}
      /\ limits' \in 0 .. MaxLimits /\ limits <= limits' /\ torn' = torn \cup {s}
      /\ hit' \in {hit, hit \cup {s}}
      /\ held' \in [Sessions -> [file : Nat, limit : 0 .. MaxLimits]]
      /\ \A q \in Sessions : held'[q] \in {held[q], NoFile} /\ (q # s => held'[q] = held[q])
      /\ UNCHANGED <<marker, read, counts, since, files, restarts, again, meddled, why>>
  <2>1. limits \in 0 .. MaxLimits
    BY DEF TypeOK
  <2>2. CASE HookDies(s)
    <3>1. /\ pc' = [pc EXCEPT ![s] = "running"] /\ pc[s] = "hook" /\ torn' = torn \cup {s}
          /\ held' = [held EXCEPT ![s] = NoFile] /\ UNCHANGED <<marker, read, counts, restarts, again>>
          /\ UNCHANGED <<limits, since, files, hit, meddled, why>>
      BY <2>2 DEF HookDies, Go, numbers
    <3>2. held' \in [Sessions -> [file : Nat, limit : 0 .. MaxLimits]]
      BY <3>1 DEF TypeOK, NoFile
    <3> QED BY <2>1, <3>1, <3>2 DEF TypeOK
  <2>3. CASE HookMisses(s)
    <3>1. pc' = [pc EXCEPT ![s] = "running"]
      BY <2>3 DEF HookMisses, TypeOK
    <3>2. limits' \in 0 .. MaxLimits /\ limits <= limits'
      BY <2>1, <2>3 DEF HookMisses
    <3> QED BY <2>3, <3>1, <3>2 DEF HookMisses, TypeOK
  <2> QED BY <2>2, <2>3
<1>2. TypeOK'
  <2>1. since' \in [Sessions -> 0 .. limits'] /\ again' \subseteq (1 .. limits') \X Sessions
    BY <1>1 DEF TypeOK
  <2> QED BY <1>1, <2>1 DEF TypeOK, Steps, counts
<1>3. LimitsUsedUp'
  <2>1. \A l \in Limits : (Live(l)' => Live(l)) /\ Again(l)' = Again(l)
    BY <1>1 DEF Live, TypeOK, Again, NoFile
  <2> QED BY <1>1, <2>1, AgainCounts DEF LimitsUsedUp, TypeOK
<1>4. NumbersFresh'
  <2>1. \A q \in Sessions : held'[q].limit <= limits' /\ held'[q].file <= files
    BY <1>1 DEF NumbersFresh, TypeOK, NoFile
  <2>2. \A u \in again : u[1] <= since[u[2]]
                         \/ pc'[u[2]] \in {"fill", "look", "read", "remove", "wait", "ended"}
    BY <1>1 DEF NumbersFresh, TypeOK
  <2>3. marker.limit <= limits' /\ \A l \in Limits : l > limits' => restarts[l] = 0
    <3>1. marker.limit \in Limits \cup {0} /\ marker.limit <= limits
      BY DEF NumbersFresh, TypeOK, Markers, NoMarker
    <3>2. limits \in Nat /\ limits' \in Nat /\ limits <= limits'
      BY <1>1 DEF TypeOK
    <3> QED BY <3>1, <3>2 DEF NumbersFresh, Limits
  <2> QED BY <1>1, <2>1, <2>2, <2>3 DEF NumbersFresh
<1>5. MarkerWaits'
  BY <1>1 DEF MarkerWaits, Writes, Awaits, TypeOK
<1>6. LimitAnswered'
  BY <1>1 DEF LimitAnswered, TypeOK
<1> QED BY <1>2, <1>3, <1>4, <1>5, <1>6

\* A new run of a host: the limits of the last one are behind it.
LEMMA FreshSafe ==
  ASSUME IInv, NEW s \in Sessions, Restart(s) \/ StartOver(s)
  PROVE  IInv'
<1> USE DEF IInv
<1>1. /\ pc[s] \in {"wait", "ended"} /\ pc' = [pc EXCEPT ![s] = "running"]
      /\ since' = [since EXCEPT ![s] = limits]
      /\ hit' = hit \ {s} /\ torn' = torn \ {s} /\ meddled' = meddled \ {s}
      /\ why' \in [Sessions -> {"no", "nothing", "stopped"}]
      /\ \A q \in Sessions : why'[q] = why[q] \/ q = s
      /\ UNCHANGED <<marker, held, read, counts, limits, files, restarts, again>>
  BY DEF Restart, StartOver, Go, Fresh, TypeOK
<1>2. TypeOK'
  BY <1>1 DEF TypeOK, Steps, counts
<1>3. LimitsUsedUp'
  BY <1>1 DEF LimitsUsedUp, Live, Again
<1>4. NumbersFresh'
  <2>1. \A u \in again : u[1] <= since'[u[2]]
                         \/ pc'[u[2]] \in {"fill", "look", "read", "remove", "wait", "ended"}
    BY <1>1 DEF NumbersFresh, TypeOK
  <2> QED BY <1>1, <2>1 DEF NumbersFresh
<1>5. MarkerWaits'
  BY <1>1 DEF MarkerWaits, Writes, Awaits, TypeOK
<1>6. LimitAnswered'
  BY <1>1 DEF LimitAnswered, TypeOK
<1> QED BY <1>2, <1>3, <1>4, <1>5, <1>6

\* Every step of a session.
LEMMA StepSafe == IInv /\ [Next]_vars => IInv'
<1> SUFFICES ASSUME IInv, [Next]_vars PROVE IInv'
  OBVIOUS
<1>1. CASE UNCHANGED vars
  BY <1>1 DEF vars, counts, numbers, history, IInv, TypeOK, LimitsUsedUp, Live, Again, NumbersFresh,
              MarkerWaits, Writes, Awaits, LimitAnswered
<1>2. ASSUME NEW s \in Sessions, Session(s) PROVE IInv'
  <2> USE DEF IInv
  <2>t. /\ pc[s] \in Steps /\ why[s] \in {"no", "nothing", "stopped"}
        /\ tokens \in [Sessions -> 0 .. MaxToken] /\ rates \in [Sessions -> 0 .. MaxRate]
        /\ [tokens EXCEPT ![s] = 0] \in [Sessions -> 0 .. MaxToken]
        /\ [rates EXCEPT ![s] = 0] \in [Sessions -> 0 .. MaxRate]
    BY DEF TypeOK
  <2>1. CASE HookOpens(s) \/ ScanOpens(s)
    BY <2>1, OpenSafe
  <2>2. CASE HookFills(s) \/ ScanFills(s)
    BY <2>2, FillSafe DEF HookFills, ScanFills, Reasons
  <2>3. CASE HookDies(s) \/ HookMisses(s)
    BY <2>3, MissSafe
  <2>4. CASE HostEnds(s)
    BY <2>4, <2>t, MovesSafe DEF HostEnds, Go, counts, history, Steps, Awaits
  <2>5. CASE Scan(s)
    BY <2>5, <2>t, MovesSafe DEF Scan, Go, counts, history, Steps, Awaits, MarkerWaits, NoMarker
  <2>6. CASE Look(s)
    BY <2>6, <2>t, MovesSafe DEF Look, Go, End, counts, Steps, Awaits, MarkerWaits, NoMarker
  <2>7. CASE ReadMarker(s)
    <3>1. read' \in [Sessions -> Reasons \cup {None}]
      BY <2>7 DEF ReadMarker, TypeOK, Markers, NoMarker
    <3> QED BY <2>7, <2>t, <3>1, MovesSafe DEF ReadMarker, Go, End, counts, Steps, Awaits, MarkerWaits
  <2>8. CASE Remove(s)
    BY <2>8, RemoveSafe
  <2>9. CASE Restart(s) \/ StartOver(s)
    BY <2>9, FreshSafe
  <2>10. CASE Die(s)
    <3>1. pc' = [pc EXCEPT ![s] = "ended"] /\ why' = [why EXCEPT ![s] = "stopped"]
          /\ held' = [held EXCEPT ![s] = NoFile] /\ read' = [read EXCEPT ![s] = None]
          /\ tokens' = [tokens EXCEPT ![s] = 0] /\ rates' = [rates EXCEPT ![s] = 0]
          /\ UNCHANGED <<marker, numbers, restarts, again, hit, torn, meddled>>
      BY <2>10 DEF Die, End, Go
    <3>2. read' \in [Sessions -> Reasons \cup {None}] /\ why'[s] = "stopped"
          /\ "ended" \in Steps \ {"hook", "fill"}
      BY <3>1 DEF TypeOK, Steps
    <3> QED BY <2>t, <3>1, <3>2, MovesSafe
  <2> QED BY <1>2, <2>1, <2>2, <2>3, <2>4, <2>5, <2>6, <2>7, <2>8, <2>9, <2>10 DEF Session
<1> QED BY <1>1, <1>2 DEF Next

\* What the theorems below rest on: a marker belongs to who wrote it last, and
\* waits for that session.
THEOREM Invariant == Spec => []IInv
BY InitSafe, StepSafe, PTL DEF Spec

\* However many wrappers find the same marker at once: a limit restarts one
\* session, and one more for each wrapper that finds the limit again in a
\* transcript (the unlinkSync of spawnClaudeWithResume).
THEOREM LimitsAreNotCountedTwice == Spec => []OneRestartPerLimit
<1>1. IInv => OneRestartPerLimit
  <2> SUFFICES ASSUME IInv, NEW l \in Limits PROVE restarts[l] <= 1 + Cardinality(Again(l))
    BY DEF OneRestartPerLimit
  <2>1. restarts[l] + (IF Live(l) THEN 1 ELSE 0) <= 1 + Cardinality(Again(l)) /\ restarts[l] \in Nat
    BY DEF IInv, LimitsUsedUp, TypeOK
  <2> QED BY <2>1, AgainCounts
<1> QED BY <1>1, Invariant, PTL

\* A session that ran into a limit is restarted by its wrapper unless a cap, its
\* user or another session's marker is in the way, or its hook did not get to
\* fill its own (spawnClaudeWithResume).
THEOREM LimitsAreAnswered == Spec => []LimitAnswered
<1>1. IInv => LimitAnswered
  BY DEF IInv
<1> QED BY <1>1, Invariant, PTL

-----------------------------------------------------------------------------
(* The settings *)

\* Nobody has the lock at first, and nothing was taken.
LEMMA SettingsInitInv == SettingsInit => SettingsIInv
<1> SUFFICES ASSUME SettingsInit PROVE SettingsIInv
  OBVIOUS
<1>1. SettingsTypeOK
  BY Zenon DEF SettingsInit, SettingsTypeOK, Kinds, PcStates
<1>2. LockNamesHolder
  BY DEF SettingsInit, LockNamesHolder
<1>3. CopiesCurrent
  BY DEF SettingsInit, CopiesCurrent, ReadsFirst
<1> QED BY <1>1, <1>2, <1>3 DEF SettingsIInv

\* Every step of a process, its death and the passing of time keep the lock
\* file naming its holder; a step that would not sets taken.
LEMMA SettingsStep ==
  SettingsTypeOK /\ LockNamesHolder /\ [SettingsNext]_settingsVars
    => SettingsTypeOK' /\ LockNamesHolder'
<1> SUFFICES ASSUME SettingsTypeOK, LockNamesHolder, [SettingsNext]_settingsVars
             PROVE  SettingsTypeOK' /\ LockNamesHolder'
  OBVIOUS
<1> USE SettingsAssumption
    DEF SettingsAssumption, SettingsTypeOK, LockNamesHolder, Kinds, PcStates, At, Goto, Holding,
        Inside, Take, After, PidIn, MetaIn, ReadsFirst, content, local
<1>1. CASE Age
  BY <1>1 DEF Age
<1>2. ASSUME NEW p \in Procs, Create(p) PROVE SettingsTypeOK' /\ LockNamesHolder'
  <2>1. SettingsTypeOK'
    BY <1>2 DEF Create
  <2>2. LockNamesHolder'
    BY <1>2 DEF Create
  <2> QED BY <2>1, <2>2
<1>3. ASSUME NEW p \in Procs, Mark(p) PROVE SettingsTypeOK' /\ LockNamesHolder'
  <2>1. SettingsTypeOK'
    <3>1. lock' \in [maker : Procs, says : Procs \cup {Nobody}] \cup {Free} /\ old' \in BOOLEAN
      <4>1. CASE lock # Free /\ lock.maker = p
        <5>1. lock \in [maker : Procs, says : Procs \cup {Nobody}]
          BY <4>1
        <5>2. lock' = [lock EXCEPT !.says = p] /\ old' = FALSE
          BY <1>3, <4>1 DEF Mark
        <5> QED BY <5>1, <5>2
      <4>2. CASE ~(lock # Free /\ lock.maker = p)
        BY <1>3, <4>2 DEF Mark
      <4> QED BY <4>1, <4>2
    <3>2. step' \in [Procs -> PcStates] /\ holds' \subseteq Procs
      BY <1>3 DEF Mark
    <3> QED BY <1>3, <3>1, <3>2 DEF Mark
  <2>2. LockNamesHolder'
    <3> SUFFICES ASSUME ~taken PROVE LockNamesHolder'
      BY <1>3 DEF Mark
    <3>1. lock # Free /\ lock.maker = p /\ lock.says = Nobody
      BY <1>3 DEF Mark
    <3>2. lock' = [lock EXCEPT !.says = p] /\ lock' # Free /\ lock'.says = p
      BY <1>3, <3>1 DEF Mark
    \* The file was empty, and p made it: nobody else has the lock.
    <3>3. \A q \in alive : q \notin holds /\ (step[q] = "mark" => q = p)
      BY <3>1
    <3> QED BY <1>3, <3>2, <3>3 DEF Mark
  <2> QED BY <2>1, <2>2
<1>4. ASSUME NEW p \in Procs, WaitOver(p) PROVE SettingsTypeOK' /\ LockNamesHolder'
  BY <1>4 DEF WaitOver
<1>5. ASSUME NEW p \in Procs, Judge(p) PROVE SettingsTypeOK' /\ LockNamesHolder'
  BY <1>5 DEF Judge
<1>6. ASSUME NEW p \in Procs, Override(p) PROVE SettingsTypeOK' /\ LockNamesHolder'
  <2>1. SettingsTypeOK'
    BY <1>6 DEF Override
  <2>2. LockNamesHolder'
    <3> SUFFICES ASSUME ~taken' PROVE LockNamesHolder'
      OBVIOUS
    <3>1. lock' # Free /\ lock'.says = p
      BY <1>6 DEF Override
    <3>2. \A q \in alive \ {p} : q \notin holds /\ step[q] # "mark"
      BY <1>6 DEF Override
    <3>3. step'[p] # "mark" /\ step'[p] \notin {"open", "override", "catch"}
      BY <1>6 DEF Override
    <3> QED BY <1>6, <3>1, <3>2, <3>3 DEF Override
  <2> QED BY <2>1, <2>2
<1>7. ASSUME NEW p \in Procs, FindStale(p) PROVE SettingsTypeOK' /\ LockNamesHolder'
  BY <1>7 DEF FindStale
<1>8. ASSUME NEW p \in Procs, Recover(p) PROVE SettingsTypeOK' /\ LockNamesHolder'
  <2>1. SettingsTypeOK'
    BY <1>8 DEF Recover
  <2>2. LockNamesHolder'
    BY <1>8 DEF Recover
  <2> QED BY <2>1, <2>2
<1>9. ASSUME NEW p \in Procs, GiveUp(p) PROVE SettingsTypeOK' /\ LockNamesHolder'
  BY <1>9 DEF GiveUp
<1>10. ASSUME NEW p \in Procs, Refused(p) PROVE SettingsTypeOK' /\ LockNamesHolder'
  BY <1>10 DEF Refused
<1>11. ASSUME NEW p \in Procs, Load(p) PROVE SettingsTypeOK' /\ LockNamesHolder'
  BY <1>11 DEF Load
<1>12. ASSUME NEW p \in Procs, Write(p) PROVE SettingsTypeOK' /\ LockNamesHolder'
  BY <1>12 DEF Write
<1>13. ASSUME NEW p \in Procs, WriteFails(p) PROVE SettingsTypeOK' /\ LockNamesHolder'
  BY <1>13 DEF WriteFails
<1>14. ASSUME NEW p \in Procs, Restore(p) PROVE SettingsTypeOK' /\ LockNamesHolder'
  BY <1>14 DEF Restore
<1>15. ASSUME NEW p \in Procs, PreparationFails(p) PROVE SettingsTypeOK' /\ LockNamesHolder'
  BY <1>15 DEF PreparationFails
<1>16. ASSUME NEW p \in Procs, Catch(p) PROVE SettingsTypeOK' /\ LockNamesHolder'
  BY <1>16 DEF Catch
<1>17. ASSUME NEW p \in Procs, Release(p) PROVE SettingsTypeOK' /\ LockNamesHolder'
  BY <1>17 DEF Release
<1>18. ASSUME NEW p \in Procs, RemoveLock(p) PROVE SettingsTypeOK' /\ LockNamesHolder'
  BY <1>18 DEF RemoveLock
<1>19. ASSUME NEW p \in Procs, Killed(p) PROVE SettingsTypeOK' /\ LockNamesHolder'
  BY <1>19 DEF Killed
<1>20. CASE UNCHANGED settingsVars
  BY <1>20 DEF settingsVars
<1> QED
  BY <1>1, <1>2, <1>3, <1>4, <1>5, <1>6, <1>7, <1>8, <1>9, <1>10, <1>11, <1>12, <1>13, <1>14,
     <1>15, <1>16, <1>17, <1>18, <1>19, <1>20 DEF SettingsNext, Acquire, Change

\* What is read under the lock stays current while the lock is held: who writes
\* or restores under the lock is its only holder.
LEMMA SettingsCopyStep == SettingsIInv /\ [SettingsNext]_settingsVars => CopiesCurrent'
<1> SUFFICES ASSUME SettingsIInv, [SettingsNext]_settingsVars, ~taken' PROVE CopiesCurrent'
  BY DEF CopiesCurrent
<1> USE DEF SettingsIInv, SettingsTypeOK, CopiesCurrent, At, Goto, Inside, Take, After, PidIn,
            MetaIn,
        ReadsFirst, content, local, Kinds, PcStates
<1>1. ~taken
  BY DEF SettingsNext, Acquire, Change, Age, Create, Mark, WaitOver, Judge, Override,
         FindStale, Recover,
        GiveUp, Refused, Load, Write, WriteFails, Restore, PreparationFails, Catch, Release,
        RemoveLock, Killed, settingsVars
<1>2. \A p, q \in alive : p \in holds /\ q \in holds => p = q
  BY <1>1, SettingsAssumption DEF LockNamesHolder, SettingsAssumption
<1>3. CASE Age
  BY <1>1, <1>3 DEF Age
<1>4. ASSUME NEW p \in Procs, Acquire(p) PROVE CopiesCurrent'
  BY <1>1, <1>4 DEF Acquire, Create, Mark, WaitOver, Judge, Override, FindStale, Recover,
                    GiveUp, Refused
<1>5. ASSUME NEW p \in Procs, Load(p) PROVE CopiesCurrent'
  BY <1>1, <1>5 DEF Load
<1>6. ASSUME NEW p \in Procs, Write(p) PROVE CopiesCurrent'
  BY <1>1, <1>2, <1>6 DEF Write
<1>7. ASSUME NEW p \in Procs, WriteFails(p) PROVE CopiesCurrent'
  BY <1>1, <1>7 DEF WriteFails
<1>8. ASSUME NEW p \in Procs, Restore(p) PROVE CopiesCurrent'
  BY <1>1, <1>2, <1>8 DEF Restore
<1>9. ASSUME NEW p \in Procs, PreparationFails(p) \/ Catch(p) PROVE CopiesCurrent'
  BY <1>1, <1>9 DEF PreparationFails, Catch
<1>10. ASSUME NEW p \in Procs, Release(p) \/ RemoveLock(p) \/ Killed(p) PROVE CopiesCurrent'
  BY <1>1, <1>10 DEF Release, RemoveLock, Killed
<1>11. CASE UNCHANGED settingsVars
  BY <1>1, <1>11 DEF settingsVars
<1> QED
  BY <1>3, <1>4, <1>5, <1>6, <1>7, <1>8, <1>9, <1>10, <1>11 DEF SettingsNext, Change

\* The lock file names its holder in every reachable state.
THEOREM SettingsInvariant == SettingsSpec => []SettingsIInv
<1>1. SettingsIInv /\ [SettingsNext]_settingsVars => SettingsIInv'
  BY SettingsStep, SettingsCopyStep DEF SettingsIInv
<1> QED BY SettingsInitInv, <1>1, PTL DEF SettingsSpec

\* Every variable keeps its type.
THEOREM SettingsTypeCorrect == SettingsSpec => []SettingsTypeOK
<1>1. SettingsIInv => SettingsTypeOK
  BY DEF SettingsIInv
<1> QED BY SettingsInvariant, <1>1, PTL

\* Two live processes count on the lock at once only after a live holder's
\* lock file was overwritten or removed.
THEOREM HoldersExclude == SettingsSpec => []OneHolder
<1>1. SettingsIInv => OneHolder
  <2> SUFFICES ASSUME SettingsIInv, ~taken, NEW p \in alive, NEW q \in alive, Holding(p), Holding(q)
               PROVE  p = q
    BY DEF OneHolder
  <2> QED BY SettingsAssumption DEF SettingsAssumption, SettingsIInv, SettingsTypeOK,
                                    LockNamesHolder, Holding
<1> QED BY SettingsInvariant, <1>1, PTL

\* A step takes an entry put there under the lock out of the settings only as
\* a rollback, as a writer whose copy was not read under the lock, or after a
\* live holder's lock was taken from it.
THEOREM EntriesKept == SettingsSpec => EntriesSurvive
<1> DEFINE Loss ==
      \A q \in (settings \ settings') \ unlocked :
        \/ taken
        \/ \E p \in Procs : /\ step'[p] # step[p]
                            /\ \/ step[p] = "restore"
                               \/ step[p] = "write" /\ (ReadsFirst(p) \/ p \notin holds)
<1>1. SettingsIInv /\ [SettingsNext]_settingsVars => Loss
  <2> SUFFICES ASSUME SettingsIInv, [SettingsNext]_settingsVars, ~taken PROVE Loss
    OBVIOUS
  <2> USE DEF SettingsIInv, SettingsTypeOK, At, Goto, content, local, PcStates
  <2>1. ASSUME NEW p \in Procs, Write(p) PROVE Loss
    <3>1. step'[p] # step[p] /\ step[p] = "write" /\ p \in alive /\ settings' = seen[p] \cup {p}
      BY <2>1 DEF Write
    <3>2. CASE ReadsFirst(p) \/ p \notin holds
      BY <3>1, <3>2
    <3>3. CASE ~ReadsFirst(p) /\ p \in holds
      <4>1. settings \ unlocked \subseteq seen[p]
        BY <3>1, <3>3 DEF CopiesCurrent
      <4> QED BY <3>1, <4>1
    <3> QED BY <3>2, <3>3
  <2>2. ASSUME NEW p \in Procs, Restore(p) PROVE Loss
    BY <2>2 DEF Restore
  <2>3. CASE settings' = settings
    BY <2>3
  <2>4. CASE \A p \in Procs : ~Write(p) /\ ~Restore(p)
    <3>1. settings' = settings
      BY <2>4 DEF SettingsNext, Acquire, Change, Age, Create, Mark, WaitOver, Judge, Override,
                  FindStale,
        Recover, GiveUp, Refused, Load, WriteFails, PreparationFails, Catch, Release, RemoveLock, Killed, settingsVars
    <3> QED BY <2>3, <3>1
  <2> QED BY <2>1, <2>2, <2>4
<1>2. SettingsIInv /\ [SettingsNext]_settingsVars => [Loss]_settingsVars
  BY <1>1
<1> QED BY SettingsInvariant, <1>2, PTL DEF SettingsSpec, EntriesSurvive
=============================================================================
