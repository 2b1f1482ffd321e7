--------------------------- MODULE OutcomeLedger ---------------------------
(***************************************************************************)
(* What the outcome tracking of a session promises: an injection is opened *)
(* once, stays open until a verdict is reached, and then keeps it.  One    *)
(* event decides all open injections alike: the next prompt with something *)
(* new to inject accepts them, a correction counts against them, the end   *)
(* of the turn leaves them unknown.                                        *)
(***************************************************************************)
EXTENDS Naturals

CONSTANTS Injections, Verdicts

VARIABLE fate   \* of each injection

Init == fate = [i \in Injections |-> "none"]

Open(new) ==
  /\ \A i \in new : fate[i] = "none"
  /\ fate' = [i \in Injections |-> IF i \in new THEN "open" ELSE fate[i]]

Settle(verdict) ==
  fate' = [i \in Injections |-> IF fate[i] = "open" THEN verdict ELSE fate[i]]

Next == (\E new \in SUBSET Injections : Open(new)) \/ (\E verdict \in Verdicts : Settle(verdict))

Spec == Init /\ [][Next]_fate
=============================================================================
