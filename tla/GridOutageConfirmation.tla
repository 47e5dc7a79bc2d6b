----------------------- MODULE GridOutageConfirmation -----------------------
(***************************************************************************)
(* poolos/grid_outage_confirmation.py: from samples of the grid sensor to  *)
(* a confirmed outage.  Times are kept as ages, so that the state is       *)
(* finite: a sample has an age, the tracker remembers how old its newest   *)
(* sample is by now and for how long the outage has been pending.          *)
(***************************************************************************)
EXTENDS NoValue, Integers

CONSTANTS
  Confirmation,  \* confirmation_duration
  Fresh,         \* oldest sample that is still fresh
  Sensors,       \* sources of grid samples
  Real,          \* those of Home Assistant; the others are simulated
  OutageEpochs

ASSUME ConfirmationAssumption ==
  Confirmation \in Nat \ {0} /\ Fresh \in Nat /\ Real \subseteq Sensors /\ Real # {}

\* None stands for what _classify finds missing, unusable, stale or future
Sample == [off : BOOLEAN, age : 0..Fresh, sensor : Sensors]

\* An outage that is confirmed: its epoch, and the sensor that is part of its identity
EpochId == [epoch : OutageEpochs, sensor : Sensors]

\* None is none of the values it stands beside.
ASSUME EpochAssumption == None \notin OutageEpochs /\ None \notin EpochId

Tracker ==
  [sensor    : Sensors \cup {None},
   newest    : 0..(Fresh + 1) \cup {None},   \* age of _last_raw_observed_at
   off       : BOOLEAN,                      \* _last_raw_availability
   pending   : 0..Confirmation \cup {None},  \* time since _pending_since
   epoch     : OutageEpochs \cup {None},     \* _outage_epoch_started_at
   confirmed : BOOLEAN]

NewTracker ==
  [sensor |-> None, newest |-> None, off |-> FALSE, pending |-> None, epoch |-> None,
   confirmed |-> FALSE]

Least(m, n) == IF m < n THEN m ELSE n

Aged(t, passed) ==
  [t EXCEPT !.newest  = IF @ = None THEN None ELSE Least(@ + passed, Fresh + 1),
            !.pending = IF @ = None THEN None ELSE Least(@ + passed, Confirmation)]

Unpending(t) == IF t.confirmed THEN t ELSE [t EXCEPT !.pending = None, !.epoch = None]

-----------------------------------------------------------------------------
\* _commissioning_source_handoff_allowed
MayHandOff(t, s) == t.sensor \in {None, s.sensor} \/ (t.sensor \in Real) # (s.sensor \in Real)

HandedOff(t, s) ==
  IF t.sensor \in {None, s.sensor} THEN [t EXCEPT !.sensor = s.sensor]
  ELSE Unpending([t EXCEPT !.sensor = s.sensor, !.newest = None])

\* _validate_raw_chronology: neither older than the newest nor against it
InOrder(t, s) ==
  t.newest # None => s.age < t.newest \/ (s.age = t.newest /\ s.off = t.off)

Usable(t, s) == s # None /\ MayHandOff(t, s) /\ InOrder(HandedOff(t, s), s)

Unresolved(t, s) ==
  Unpending(IF s # None /\ MayHandOff(t, s) THEN HandedOff(t, s) ELSE t)

GridReturned(t, s) ==
  [t EXCEPT !.newest = s.age, !.off = FALSE, !.pending = None, !.epoch = None,
            !.confirmed = FALSE]

OffGrid(t, s, epoch) ==
  LET u == [t EXCEPT !.newest = s.age, !.off = TRUE]
      p == IF u.confirmed \/ u.pending # None THEN u
           ELSE [u EXCEPT !.pending = 0, !.epoch = epoch]
  IN [p EXCEPT !.confirmed = @ \/ p.pending >= Confirmation]

\* evaluate; epoch names an outage that begins with this sample
Evaluated_M(t, s, epoch) ==   \* mutant: unusable evidence leaves a pending outage pending
  IF ~Usable(t, s) THEN t
  ELSE IF s.off THEN OffGrid(HandedOff(t, s), s, epoch) ELSE GridReturned(HandedOff(t, s), s)

Evaluated(t, s, epoch) ==
  IF ~Usable(t, s) THEN Unresolved(t, s)
  ELSE IF s.off THEN OffGrid(HandedOff(t, s), s, epoch) ELSE GridReturned(HandedOff(t, s), s)

Dispositions == {"ON_GRID", "OFF_GRID_PENDING", "CONFIRMED_OUTAGE", "UNKNOWN"}

\* of the sample s that took the tracker from t to u
Disposition(t, s, u) ==
  CASE ~Usable(t, s) -> "UNKNOWN"
    [] Usable(t, s) /\ ~s.off -> "ON_GRID"
    [] Usable(t, s) /\ s.off /\ u.confirmed -> "CONFIRMED_OUTAGE"
    [] OTHER -> "OFF_GRID_PENDING"
=============================================================================
