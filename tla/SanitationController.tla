------------------------ MODULE SanitationController ------------------------
(***************************************************************************)
(* poolos/sanitation.py: a session of sanitation and what one frame makes  *)
(* of it.  since is the age of last_qualified_at.  Of what is seen only    *)
(* the pump can be stale; without a native snapshot everything is missing. *)
(***************************************************************************)
EXTENDS NoValue, Integers

CONSTANTS
  Duration,   \* configured_duration_seconds
  Gap,        \* longest time between two snapshots
  Sessions    \* names of sessions

ASSUME ControllerAssumption == Duration \in Nat \ {0} /\ Gap \in Nat \ {0}

Parts  == {"target", "other", "heat", "speed"}   \* "speed": the pump is at its target
Ending == {"cancelling", "completing"}
Lives  == {"starting", "active", "outage", "override"} \cup Ending

Frame ==
  [grid : {"on", "off", "unknown"}, on : SUBSET Parts, shown : {"fresh", "stale", "missing"},
   pump : {"none", "away", "back"}]

SanitationSession ==
  [id : Sessions, left : 0..Duration, life : Lives, since : 0..(2 * Gap) \cup {None},
   override : BOOLEAN]

\* None is none of the values it stands beside.
ASSUME SessionAssumption == None \notin SanitationSession /\ None \notin 0..(2 * Gap)

NewSession(id) ==
  [id |-> id, left |-> Duration, life |-> "starting", since |-> None, override |-> FALSE]

-----------------------------------------------------------------------------
Paused(s, life) == [s EXCEPT !.life = life, !.since = None]

Cancelled_M(s) == [s EXCEPT !.life = "cancelling"]   \* mutant: the countdown goes on

\* request_cancel
Cancelled(s) == Paused(s, "cancelling")

\* persistent_dict, then from_persistent_dict
Kept(s) == IF s = None THEN None ELSE [s EXCEPT !.since = None]

Restored_M(s) ==   \* mutant: every session starts anew
  IF s = None THEN None ELSE Paused(s, IF s.override THEN "override" ELSE "starting")

Restored(s) ==
  IF s = None \/ s.life \in Ending THEN s
  ELSE Paused(s, IF s.override THEN "override" ELSE "starting")

-----------------------------------------------------------------------------
(***************************************************************************)
(* observe.                                                                *)
(***************************************************************************)
SeenOff(f) == f.shown # "missing" /\ "target" \notin f.on

\* Heat off, the body alone and the pump at its target, by usable evidence.
Qualifies(f) == f.shown = "fresh" /\ f.on = {"target", "speed"}

\* A positive change of the pump by the operator.
Pumped(s, f) ==
  CASE f.pump = "away" -> [Paused(s, "override") EXCEPT !.override = TRUE]
    [] f.pump = "back" -> [Paused(s, "starting") EXCEPT !.override = FALSE]
    [] OTHER -> s

Credited_M(s) ==   \* mutant: the countdown has no start
  IF s.left = 0 THEN Paused(s, "completing") ELSE [s EXCEPT !.life = "active"]

Credited(s) ==
  LET earned == IF s.since = None THEN 0 ELSE s.since
  IN IF earned >= s.left
     THEN [Paused(s, "completing") EXCEPT !.left = 0]
     ELSE [s EXCEPT !.left = @ - earned, !.life = "active", !.since = 0]

Advance_M(s, f) ==   \* mutant: what pauses the countdown leaves its start
  LET t == Pumped(s, f)
  IN CASE s.life \in Ending -> IF SeenOff(f) THEN None ELSE s
       [] s.life \notin Ending /\ f.grid # "on" -> [s EXCEPT !.life = "starting"]
       [] s.life \notin Ending /\ f.grid = "on" /\ t.override -> t
       [] OTHER -> IF Qualifies(f) THEN Credited(t) ELSE Paused(t, "starting")

Advance(s, f) ==
  LET t == Pumped(s, f)
  IN CASE s.life \in Ending -> IF SeenOff(f) THEN None ELSE s
       [] s.life \notin Ending /\ f.grid = "off" -> Paused(s, "outage")
       [] s.life \notin Ending /\ f.grid = "unknown" -> Paused(s, "starting")
       [] s.life \notin Ending /\ f.grid = "on" /\ t.override -> t
       [] OTHER -> IF Qualifies(f) THEN Credited(t) ELSE Paused(t, "starting")

Actions == {"heat_off", "body_on", "pump_set", "body_off"}

\* The action a frame asks for when it has made the session s of the one before.
Action(s, f) ==
  CASE s = None -> None
    [] s # None /\ s.life \in Ending -> "body_off"
    [] s # None /\ s.life \notin Ending /\ (f.grid # "on" \/ s.override \/ f.shown # "fresh") -> None
    [] OTHER -> CASE "heat" \in f.on -> "heat_off"
                  [] "heat" \notin f.on /\ "target" \notin f.on -> "body_on"
                  [] f.on = {"target"} -> "pump_set"
                  [] OTHER -> None
=============================================================================
