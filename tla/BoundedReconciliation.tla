------------------------ MODULE BoundedReconciliation ------------------------
(***************************************************************************)
(* What the evidence of one domain promises its owner: at most MaxSpent    *)
(* corrections between two settlements, no way back from a fault but an    *)
(* operator's intent, and no way back from an operator at all.             *)
(***************************************************************************)
EXTENDS Naturals

CONSTANT MaxSpent

VARIABLES
  phase,   \* settled, open (drift being reconciled), faulted or yielded
  spent    \* corrections reserved in the drift that is or was open

vars == <<phase, spent>>

Phases == {"settled", "open", "faulted", "yielded"}

Init == phase = "settled" /\ spent = 0

OpenDrift == phase = "settled" /\ phase' = "open" /\ spent' = 0

Correct ==
  /\ phase = "open"
  /\ spent < MaxSpent
  /\ spent' = spent + 1
  /\ UNCHANGED phase

Settle == phase = "open" /\ phase' = "settled" /\ UNCHANGED spent

Fault ==
  /\ phase \in {"settled", "open"}
  /\ phase' = "faulted"
  /\ UNCHANGED spent

Yield == phase # "yielded" /\ phase' = "yielded" /\ UNCHANGED spent

Next == OpenDrift \/ Correct \/ Settle \/ Fault \/ Yield

Spec == Init /\ [][Next]_vars
=============================================================================
