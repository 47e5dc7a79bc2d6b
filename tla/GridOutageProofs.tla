-------------------------- MODULE GridOutageProofs --------------------------
(***************************************************************************)
(* Proofs about GridOutageRuntime: a reduction answers the newest frame,   *)
(* an unknown outcome closes its epoch, what is verified was real, and     *)
(* only the return of the grid ends the domain.                            *)
(***************************************************************************)
EXTENDS GridOutageRuntime, PhysicalAuthorityProofs

Room == IsFiniteSet(a.expected) /\ Cardinality(a.expected) <= Limit

\* An outage that is pending or confirmed has its epoch and its sensor.
Identified(t) == t.confirmed \/ t.pending # None => t.epoch # None /\ t.sensor \in Sensors

\* A frame reports the outage as the tracker, who made it, knew it.
Reports(f, t) ==
  /\ f.outage = "CONFIRMED_OUTAGE" =>
       t.confirmed /\ f.id = [epoch |-> t.epoch, sensor |-> t.sensor]
  /\ f.outage # "CONFIRMED_OUTAGE" => f.id = None
  /\ f.outage = "ON_GRID" => t.epoch = None
  /\ t.confirmed => \/ f.outage = "CONFIRMED_OUTAGE"
                    \/ f.outage = "UNKNOWN" /\ f.unresolved

Waits == pending # None => task # None /\ Reports(pending, tracker)

\* What is delivered on a context that is registered still is the candidate of the
\* newest frame.
Current ==
  task # None /\ a.current["OUTAGE"] = task.id /\ task.phase \in {"new", "waiting"} =>
    pending = None /\ engine.candidate = task.load /\ engine.epoch = task.epoch

\* The engine and the authority know the same gate and the same epoch.
Agree ==
  /\ engine.unloaded => engine.candidate = None /\ engine.attempt = None /\ pending = None
  /\ ~engine.unloaded => a.outage.gate = engine.gate /\ (task # None => engine.epoch = task.epoch)
  /\ engine.candidate # None => engine.epoch # None
  /\ a.outage.active => engine.epoch # None

\* An epoch whose outcome is unknown is closed or about to be, or the tracker and the
\* engine have left it for good.
Closed ==
  \/ engine.epoch = spoilt /\ (In("raised") \/ (engine.blocked = spoilt /\ engine.candidate = None))
  \/ /\ engine.epoch # spoilt /\ [epoch |-> tracker.epoch, sensor |-> tracker.sensor] # spoilt
     /\ pending # None => pending.id # spoilt

Spoilt == spoilt # None /\ ~engine.unloaded => Closed

\* The load of the attempt was off at a time if it is off now, or in a frame that counts.
SeenOff(on) == engine.attempt # None /\ engine.attempt.load \notin on => proven

Witnessed == SeenOff(plant) /\ (pending # None /\ ~pending.old => SeenOff(pending.on))

IInv ==
  /\ TypeOK /\ env \in Environments /\ Room /\ Identified(tracker)
  /\ Waits /\ Current /\ Agree /\ Spoilt /\ Witnessed

-----------------------------------------------------------------------------
(***************************************************************************)
(* The tracker.                                                            *)
(***************************************************************************)
LEMMA AgedFacts ==
  ASSUME NEW t \in Tracker
  PROVE  /\ Aged(t, 1) \in Tracker /\ Aged(t, 1).epoch = t.epoch
         /\ Aged(t, 1).sensor = t.sensor /\ Aged(t, 1).confirmed = t.confirmed
         /\ Identified(t) => Identified(Aged(t, 1))
  <1> DEFINE newest == IF t.newest = None THEN None ELSE Least(t.newest + 1, Fresh + 1)
             pending_ == IF t.pending = None THEN None ELSE Least(t.pending + 1, Confirmation)
  <1>1. newest \in 0..(Fresh + 1) \cup {None}
    BY ConfirmationAssumption DEF Tracker, Least
  <1>2. pending_ \in 0..Confirmation \cup {None} /\ (pending_ # None => t.pending # None)
    BY ConfirmationAssumption DEF Tracker, Least
  <1>3. Aged(t, 1) = [t EXCEPT !.newest = newest, !.pending = pending_]
    BY DEF Aged
  <1> HIDE DEF newest, pending_
  <1> QED
    BY <1>1, <1>2, <1>3 DEF Tracker, Identified

\* What evaluate makes of t with the sample s, and what it answers.
EvaluatedAs(u, t, s, e) ==
  /\ u \in Tracker /\ Identified(u) /\ u.epoch \in {t.epoch, e, None}
  /\ Disposition(t, s, u) \in Dispositions
  /\ Disposition(t, s, u) = "CONFIRMED_OUTAGE" => u.confirmed
  /\ Disposition(t, s, u) = "ON_GRID" => u.epoch = None
  /\ Disposition(t, s, u) \in {"ON_GRID", "OFF_GRID_PENDING"} => ~u.confirmed

LEMMA UnpendingFacts ==
  ASSUME NEW t \in Tracker, Identified(t)
  PROVE  /\ Unpending(t) \in Tracker /\ Identified(Unpending(t))
         /\ Unpending(t).epoch \in {t.epoch, None} /\ Unpending(t).sensor = t.sensor
  BY DEF Unpending, Tracker, Identified

LEMMA HandedOffFacts ==
  ASSUME NEW t \in Tracker, Identified(t), NEW s \in Sample
  PROVE  /\ HandedOff(t, s) \in Tracker /\ Identified(HandedOff(t, s))
         /\ HandedOff(t, s).epoch \in {t.epoch, None} /\ HandedOff(t, s).sensor = s.sensor
  <1>0. s.sensor \in Sensors
    BY DEF Sample
  <1>1. CASE t.sensor \in {None, s.sensor}
    <2>1. HandedOff(t, s) = [t EXCEPT !.sensor = s.sensor]
      BY <1>1 DEF HandedOff
    <2> QED
      BY <1>0, <2>1 DEF Tracker, Identified
  <1>2. CASE t.sensor \notin {None, s.sensor}
    <2> DEFINE u == [t EXCEPT !.sensor = s.sensor, !.newest = None]
    <2>1. u \in Tracker /\ Identified(u) /\ u.epoch = t.epoch /\ u.sensor = s.sensor
      BY <1>0, <1>2 DEF Tracker, Identified
    <2>2. HandedOff(t, s) = Unpending(u)
      BY <1>2 DEF HandedOff
    <2> HIDE DEF u
    <2> QED
      BY <2>1, <2>2, UnpendingFacts
  <1> QED
    BY <1>1, <1>2

LEMMA OffGridFacts ==
  ASSUME NEW t \in Tracker, NEW s \in Sample, Identified(t), t.sensor = s.sensor,
         NEW e \in OutageEpochs
  PROVE  /\ OffGrid(t, s, e) \in Tracker /\ Identified(OffGrid(t, s, e))
         /\ OffGrid(t, s, e).epoch \in {t.epoch, e}
  <1> DEFINE u == [t EXCEPT !.newest = s.age, !.off = TRUE]
             p == IF u.confirmed \/ u.pending # None THEN u
                  ELSE [u EXCEPT !.pending = 0, !.epoch = e]
  <1>0. /\ s.age \in 0..(Fresh + 1) /\ t.sensor \in Sensors
        /\ e # None /\ 0 \in 0..Confirmation
    BY ConfirmationAssumption, EpochAssumption DEF Sample
  <1>1. /\ u \in Tracker /\ u.sensor = t.sensor /\ u.epoch = t.epoch
        /\ u.pending = t.pending /\ u.confirmed = t.confirmed
    BY <1>0 DEF Tracker
  <1> HIDE DEF u
  <1>2. /\ p \in Tracker /\ p.sensor = t.sensor /\ p.epoch \in {t.epoch, e}
        /\ p.epoch # None
    BY <1>0, <1>1 DEF Tracker, Identified
  <1>3. OffGrid(t, s, e) = [p EXCEPT !.confirmed = p.confirmed \/ p.pending >= Confirmation]
    BY DEF OffGrid, u
  <1> HIDE DEF p
  <1>4. (p.confirmed \/ p.pending >= Confirmation) \in BOOLEAN
    OBVIOUS
  <1> QED
    BY <1>0, <1>2, <1>3, <1>4 DEF Tracker, Identified

LEMMA EvaluatedFacts ==
  ASSUME NEW t \in Tracker, Identified(t), NEW s \in Sample \cup {None}, NEW e \in OutageEpochs
  PROVE  EvaluatedAs(Evaluated(t, s, e), t, s, e)
  <1> DEFINE u == Evaluated(t, s, e)
  <1>1. CASE ~Usable(t, s)
    <2>1. u \in Tracker /\ Identified(u) /\ u.epoch \in {t.epoch, None}
      <3>1. CASE s # None /\ MayHandOff(t, s)
        <4>1. u = Unpending(HandedOff(t, s)) /\ s \in Sample
          BY <1>1, <3>1 DEF Evaluated, Unresolved
        <4> QED
          BY <4>1, HandedOffFacts, UnpendingFacts
      <3>2. CASE ~(s # None /\ MayHandOff(t, s))
        <4>1. u = Unpending(t)
          BY <1>1, <3>2 DEF Evaluated, Unresolved
        <4> QED
          BY <4>1, UnpendingFacts
      <3> QED
        BY <3>1, <3>2
    <2>2. Disposition(t, s, u) = "UNKNOWN"
      BY <1>1 DEF Disposition
    <2> HIDE DEF u
    <2> QED
      BY <2>1, <2>2 DEF EvaluatedAs, Dispositions, u
  <1>2. CASE Usable(t, s)
    <2> DEFINE h == HandedOff(t, s)
    <2>0. s \in Sample /\ s.age \in 0..(Fresh + 1)
      BY <1>2, ConfirmationAssumption DEF Usable, Sample
    <2>1. h \in Tracker /\ Identified(h) /\ h.epoch \in {t.epoch, None} /\ h.sensor = s.sensor
      BY <2>0, HandedOffFacts
    <2>2. CASE s.off
      <3>1. u = OffGrid(h, s, e)
        BY <1>2, <2>2 DEF Evaluated
      <3>2. Disposition(t, s, u) = IF u.confirmed THEN "CONFIRMED_OUTAGE" ELSE "OFF_GRID_PENDING"
        BY <1>2, <2>2 DEF Disposition
      <3> HIDE DEF u, h
      <3>3. u \in Tracker /\ Identified(u) /\ u.epoch \in {t.epoch, e, None}
        BY <2>0, <2>1, <3>1, OffGridFacts
      <3> QED
        BY <3>2, <3>3 DEF EvaluatedAs, Dispositions, u
    <2>3. CASE ~s.off
      <3>1. u = GridReturned(h, s)
        BY <1>2, <2>3 DEF Evaluated
      <3>2. Disposition(t, s, u) = "ON_GRID"
        BY <1>2, <2>3 DEF Disposition
      <3> HIDE DEF u, h
      <3>3. u \in Tracker /\ ~u.confirmed /\ u.pending = None /\ u.epoch = None
        BY <2>0, <2>1, <3>1 DEF GridReturned, Tracker
      <3> QED
        BY <3>2, <3>3 DEF EvaluatedAs, Dispositions, Identified, u
    <2> QED
      BY <2>2, <2>3
  <1> QED
    BY <1>1, <1>2

-----------------------------------------------------------------------------
(***************************************************************************)
(* The engine.                                                             *)
(***************************************************************************)
\* d is e after something that selects nothing and accepts nothing.
Narrower(d, e) ==
  /\ d \in Engine /\ d.epoch = e.epoch /\ d.unloaded = e.unloaded /\ d.verified = e.verified
  /\ d.candidate \in {e.candidate, None} /\ d.blocked \in {e.blocked, e.epoch}
  /\ d.attempt # None => e.attempt # None /\ d.attempt.load = e.attempt.load

LEMMA GivenFacts ==
  ASSUME NEW e \in Engine
  PROVE  /\ Narrower(Given(e), e) /\ Given(e).gate = e.gate /\ Given(e).blocked = e.blocked
         /\ Given(e).candidate = None /\ Given(e).attempt = None
  BY DEF Given, Engine, Narrower

LEMMA IdleFacts ==
  ASSUME NEW e \in Engine
  PROVE  /\ Narrower(Idle(e), e) /\ Idle(e).gate = e.gate /\ Idle(e).blocked = e.blocked
         /\ Idle(e).candidate = None /\ Idle(e).attempt = e.attempt
  BY DEF Idle, Engine, Narrower

LEMMA FailsFacts ==
  ASSUME NEW e \in Engine
  PROVE  /\ Narrower(Fails(e), e) /\ Fails(e).gate = e.gate /\ Fails(e).blocked = e.epoch
         /\ Fails(e).candidate = None /\ Fails(e).attempt = None
  BY DEF Fails, Given, Engine, Narrower

LEMMA OlderFacts ==
  ASSUME NEW e \in Engine
  PROVE  /\ Narrower(Older(e), e) /\ Older(e).gate = e.gate /\ Older(e).blocked = e.blocked
         /\ Older(e).candidate = e.candidate /\ (e.attempt = None => Older(e).attempt = None)
  <1>1. CASE e.attempt = None
    BY <1>1 DEF Older, Engine, Narrower
  <1>2. CASE e.attempt # None
    <2> DEFINE left == IF e.attempt.left = 0 THEN 0 ELSE e.attempt.left - 1
    <2>1. left \in 0..Timeout /\ e.attempt \in [load : Loads, left : 0..Timeout]
      BY <1>2, SafetyAssumption DEF Engine
    <2>2. Older(e) = [e EXCEPT !.attempt = [e.attempt EXCEPT !.left = left]]
      BY <1>2 DEF Older, Engine
    <2> HIDE DEF left
    <2> QED
      BY <1>2, <2>1, <2>2 DEF Engine, Narrower
  <1> QED
    BY <1>1, <1>2

LEMMA FailClosedFacts ==
  ASSUME NEW e \in Engine
  PROVE  Narrower(FailClosed(e), e) /\ FailClosed(e).gate = e.gate
  BY GivenFacts, FailsFacts DEF FailClosed, Narrower

LEMMA RejectedFacts ==
  ASSUME NEW e \in Engine, NEW load
  PROVE  Narrower(Rejected(e, load), e) /\ Rejected(e, load).gate = e.gate
  BY GivenFacts DEF Rejected, Narrower

LEMMA DeliveryFailedFacts ==
  ASSUME NEW e \in Engine
  PROVE  /\ Narrower(DeliveryFailed(e), e) /\ DeliveryFailed(e).gate = e.gate
         /\ ~e.unloaded => /\ DeliveryFailed(e).blocked = e.epoch
                           /\ DeliveryFailed(e).candidate = None
  BY FailsFacts DEF DeliveryFailed, Narrower

LEMMA AcceptedFacts ==
  ASSUME NEW e \in Engine, NEW load \in Loads, ~e.unloaded
  PROVE  LET d == Accepted(e, load)
         IN /\ d \in Engine /\ d.epoch = e.epoch /\ ~d.unloaded /\ d.verified = e.verified
            /\ d.gate = e.gate /\ d.candidate = None /\ d.blocked = e.blocked
            /\ d.attempt # None => d.attempt.load = load
  <1> DEFINE t == [load |-> load, left |-> Timeout]
  <1>1. t \in [load : Loads, left : 0..Timeout] /\ t.load = load
    BY SafetyAssumption
  <1>2. Accepted(e, load) = [Idle(e) EXCEPT !.attempt = t]
    BY DEF Accepted
  <1> HIDE DEF t
  <1> QED
    BY <1>1, <1>2 DEF Idle, Engine

\* SetEnabled to another value of the gate.
LEMMA GateFacts ==
  ASSUME NEW e \in Engine, NEW on \in BOOLEAN, ~e.unloaded, e.gate # on
  PROVE  /\ Narrower(SetEnabled(e, on), e)
         /\ SetEnabled(e, on).gate = on
  <1> DEFINE d == IF ~on /\ e.attempt # None THEN Fails(e) ELSE Given(e)
  <1>1. Narrower(d, e)
    BY GivenFacts, FailsFacts
  <1>2. SetEnabled(e, on) = [d EXCEPT !.gate = on]
    BY DEF SetEnabled
  <1> HIDE DEF d
  <1> QED
    BY <1>1, <1>2 DEF Narrower, Engine

LEMMA UnloadEngineFacts ==
  ASSUME NEW e \in Engine
  PROVE  LET d == UnloadEngine(e)
         IN /\ d \in Engine /\ d.unloaded /\ d.candidate = None /\ d.attempt = None
            /\ d.verified = e.verified
  BY DEF UnloadEngine, Given, Engine

\* What the engine makes of a frame.
Assesses(d, e, f) ==
  /\ d \in Engine /\ d.gate = e.gate /\ ~d.unloaded
  /\ d.epoch = CASE f.outage = "ON_GRID" -> None
                 [] f.outage = "CONFIRMED_OUTAGE" -> f.id
                 [] OTHER -> e.epoch
  /\ d.attempt # None => e.attempt # None /\ d.attempt.load = e.attempt.load
  /\ d.candidate # None => f.outage = "CONFIRMED_OUTAGE"
  /\ e.epoch # None /\ e.blocked = e.epoch /\ d.epoch = e.epoch =>
       d.blocked = e.blocked /\ d.candidate = None
  /\ d.verified \notin {e.verified, None} =>
       e.attempt # None /\ ~f.old /\ e.attempt.load \notin f.on

LEMMA RankedFacts ==
  ASSUME NEW S \in SUBSET Loads, S # {}
  PROVE  \E l \in S : \A m \in S : Rank[l] <= Rank[m]
  <1>1. /\ Rank["spa_source"] = 1 /\ Rank["pool_source"] = 2 /\ Rank["light"] = 3
        /\ Rank["jets"] = 4 /\ Rank["slide"] = 5 /\ Rank["waterfall"] = 6
        /\ Rank["spa"] = 7 /\ Rank["speed"] = 8 /\ Rank["pool"] = 9
    BY DEF Rank
  <1> SUFFICES ASSUME \A l \in S : \E m \in S : Rank[m] < Rank[l]
               PROVE  FALSE
    <2>1. \A l \in Loads : Rank[l] \in Nat
      BY <1>1 DEF Loads, Circuits
    <2> QED
      BY <2>1
  <1>2. "spa_source" \notin S
    BY <1>1 DEF Loads, Circuits
  <1>3. "pool_source" \notin S
    BY <1>1, <1>2 DEF Loads, Circuits
  <1>4. "light" \notin S
    BY <1>1, <1>2, <1>3 DEF Loads, Circuits
  <1>5. "jets" \notin S
    BY <1>1, <1>2, <1>3, <1>4 DEF Loads, Circuits
  <1>6. "slide" \notin S
    BY <1>1, <1>2, <1>3, <1>4, <1>5 DEF Loads, Circuits
  <1>7. "waterfall" \notin S
    BY <1>1, <1>2, <1>3, <1>4, <1>5, <1>6 DEF Loads, Circuits
  <1>8. "spa" \notin S
    BY <1>1, <1>2, <1>3, <1>4, <1>5, <1>6, <1>7 DEF Loads, Circuits
  <1>9. "speed" \notin S
    BY <1>1, <1>2, <1>3, <1>4, <1>5, <1>6, <1>7, <1>8 DEF Loads, Circuits
  <1>10. S = {"pool"}
    BY <1>2, <1>3, <1>4, <1>5, <1>6, <1>7, <1>8, <1>9 DEF Loads, Circuits
  <1> QED
    BY <1>1, <1>10

LEMMA SelectedFacts ==
  ASSUME NEW f \in Frame
  PROVE  Selected(f) \in Loads \cup {None}
  <1>1. Reducible(f) \subseteq Loads
    BY DEF Reducible, SourceOf, Heating, ActiveBodies, Loads, Circuits
  <1> QED
    BY <1>1, RankedFacts DEF Selected

LEMMA NewEpochFacts ==
  ASSUME NEW e \in Engine, NEW f \in Frame, f.id \in EpochId
  PROVE  LET d == NewEpoch(e, f)
         IN /\ d \in Engine /\ d.epoch = f.id /\ d.gate = e.gate /\ d.unloaded = e.unloaded
            /\ f.id = e.epoch => d = e
            /\ f.id # e.epoch => /\ d.verified = None /\ d.attempt = None /\ d.blocked = None
                                 /\ d.candidate = None
  BY DEF NewEpoch, Given, Engine

LEMMA JudgedFacts ==
  ASSUME NEW e \in Engine, NEW f \in Frame, e.attempt # None
  PROVE  LET d == Judged(e, f)
         IN /\ d \in Engine /\ d.epoch = e.epoch /\ d.gate = e.gate /\ d.unloaded = e.unloaded
            /\ d.candidate = None /\ d.attempt \in {e.attempt, None} /\ d.blocked = e.blocked
            /\ d.verified # e.verified => ~f.old /\ e.attempt.load \notin f.on
  <1> DEFINE v == Verification(f, e.attempt)
  <1>1. v = "verified" => ~f.old /\ e.attempt.load \notin f.on
    <2>1. ASSUME v = "verified"
          PROVE  ~Unseen(f, e.attempt) /\ ~Contradicted(f, e.attempt)
      BY <2>1 DEF Verification
    <2> QED
      BY <2>1 DEF Unseen, Contradicted
  <1>2. Judged(e, f) = CASE v = "verified" -> [Given(e) EXCEPT !.verified = e.attempt.load]
                         [] v \in {"failed", "timed_out"} -> Given(e)
                         [] OTHER -> Idle(e)
    BY DEF Judged
  <1> HIDE DEF v
  <1>3. e.attempt.load \in Loads
    BY DEF Engine
  <1>4. CASE v = "verified"
    <2>1. Judged(e, f) = [Given(e) EXCEPT !.verified = e.attempt.load]
      BY <1>2, <1>4
    <2> QED
      BY <1>1, <1>3, <1>4, <2>1 DEF Given, Engine
  <1>5. CASE v \in {"failed", "timed_out"}
    <2>1. Judged(e, f) = Given(e)
      BY <1>2, <1>5
    <2> QED
      BY <2>1 DEF Given, Engine
  <1>6. CASE v \notin {"verified", "failed", "timed_out"}
    <2>1. Judged(e, f) = Idle(e)
      BY <1>2, <1>6
    <2> QED
      BY <2>1 DEF Idle, Engine
  <1> QED
    BY <1>4, <1>5, <1>6

LEMMA AssessedFacts ==
  ASSUME NEW e \in Engine, NEW f \in Frame, f.id \in EpochId, e.epoch = f.id
  PROVE  LET d == Assessed(e, f)
         IN /\ d \in Engine /\ d.epoch = e.epoch /\ d.gate = e.gate /\ d.unloaded = e.unloaded
            /\ d.attempt \in {e.attempt, None}
            /\ e.blocked = f.id => d.blocked = e.blocked /\ d.candidate = None
            /\ d.verified # e.verified =>
                 e.attempt # None /\ ~f.old /\ e.attempt.load \notin f.on
  <1>1. CASE e.blocked = f.id
    BY <1>1, IdleFacts DEF Assessed, Narrower
  <1>2. CASE e.blocked # f.id /\ e.attempt # None /\ f.external
    BY <1>2, FailsFacts DEF Assessed, Narrower
  <1>3. CASE e.blocked # f.id /\ e.attempt # None /\ ~f.external
    BY <1>3, JudgedFacts DEF Assessed
  <1>4. CASE e.blocked # f.id /\ e.attempt = None
    <2> DEFINE c == IF MaySelect(e, f) THEN Selected(f) ELSE None
    <2>1. c \in Loads \cup {None}
      BY SelectedFacts
    <2>2. Assessed(e, f) = [e EXCEPT !.candidate = c]
      BY <1>4 DEF Assessed
    <2> HIDE DEF c
    <2> QED
      BY <1>4, <2>1, <2>2 DEF Engine
  <1> QED
    BY <1>1, <1>2, <1>3, <1>4

LEMMA EvaluateFacts ==
  ASSUME NEW e \in Engine, ~e.unloaded, NEW f \in Frame,
         f.outage = "CONFIRMED_OUTAGE" => f.id \in EpochId
  PROVE  Assesses(Evaluate(e, f), e, f)
  <1>1. CASE f.outage = "ON_GRID"
    <2>1. Evaluate(e, f) = [Given(e) EXCEPT !.epoch = None]
      BY <1>1 DEF Evaluate
    <2> QED
      BY <1>1, <2>1 DEF Assesses, Given, Engine
  <1>2. CASE f.outage = "UNKNOWN"
    <2>1. Evaluate(e, f) \in {Given(e), Idle(e)}
      BY <1>2 DEF Evaluate
    <2> QED
      BY <1>2, <2>1, GivenFacts, IdleFacts DEF Assesses, Narrower
  <1>3. CASE f.outage = "OFF_GRID_PENDING"
    <2>1. Evaluate(e, f) = Idle(e)
      BY <1>3 DEF Evaluate
    <2> QED
      BY <1>3, <2>1, IdleFacts DEF Assesses, Narrower
  <1>4. CASE f.outage = "CONFIRMED_OUTAGE"
    <2> DEFINE d == NewEpoch(e, f)
    <2>1. /\ d \in Engine /\ d.epoch = f.id /\ d.gate = e.gate /\ ~d.unloaded
          /\ f.id = e.epoch => d = e
          /\ f.id # e.epoch => /\ d.verified = None /\ d.attempt = None /\ d.blocked = None
                               /\ d.candidate = None
      BY <1>4, NewEpochFacts
    <2>2. CASE f.id # e.epoch /\ e.attempt # None
      <3>1. Evaluate(e, f) = d
        BY <1>4, <2>2 DEF Evaluate
      <3> HIDE DEF d
      <3>2. None # e.attempt.load
        BY <2>2, SafetyAssumption DEF Engine
      <3> QED
        BY <1>4, <2>1, <2>2, <3>1, <3>2 DEF Assesses
    <2>3. CASE ~(f.id # e.epoch /\ e.attempt # None)
      <3>1. Evaluate(e, f) = Assessed(d, f)
        BY <1>4, <2>3 DEF Evaluate
      <3> HIDE DEF d
      <3>2. LET c == Assessed(d, f)
            IN /\ c \in Engine /\ c.epoch = d.epoch /\ c.gate = d.gate
               /\ c.unloaded = d.unloaded /\ c.attempt \in {d.attempt, None}
               /\ d.blocked = f.id => c.blocked = d.blocked /\ c.candidate = None
               /\ c.verified # d.verified =>
                    d.attempt # None /\ ~f.old /\ d.attempt.load \notin f.on
        BY <1>4, <2>1, AssessedFacts
      <3> QED
        BY <1>4, <2>1, <2>3, <3>1, <3>2 DEF Assesses
    <2> QED
      BY <2>2, <2>3
  <1> QED
    BY <1>1, <1>2, <1>3, <1>4 DEF Frame, Dispositions

-----------------------------------------------------------------------------
(***************************************************************************)
(* The authority.                                                          *)
(***************************************************************************)
\* b begins an outage frame in a domain that is active or not.
FramedAs(b, c, active) ==
  /\ b \in Authority /\ Withdrawn(b, c)
  /\ b.outage.active = active /\ b.outage.gate = c.outage.gate /\ b.current["OUTAGE"] = None

LEMMA BeginFrameFacts ==
  ASSUME NEW c \in Authority
  PROVE  FramedAs(BeginOutageFrame(c), c, c.outage.active)
  BY InvalidatedFacts DEF BeginOutageFrame, FramedAs, SameLocks, Contexts

LEMMA FrameFacts ==
  ASSUME NEW c \in Authority, NEW active \in BOOLEAN, NEW ceiling \in BOOLEAN
  PROVE  FramedAs(BeginOutageFrame(SetOutageDomain(c, active, ceiling)), c, active)
  <1> DEFINE b == SetOutageDomain(c, active, ceiling)
             d == [c EXCEPT !.outage.active = active, !.outage.ceiling = active /\ ceiling]
  <1>1. b \in Authority /\ Withdrawn(b, c) /\ b.outage.active = active
    <2>1. DomainAs(b, c, active)
      BY OutageDomainFacts, Zenon
    <2> HIDE DEF b
    <2> QED
      BY <2>1, Zenon DEF DomainAs
  <1>2. b.outage.gate = c.outage.gate
    <2>1. d \in Authority /\ d.outage.gate = c.outage.gate
      BY DEF Authority, Outage
    <2>2. b \in {Invalidated(d, Automatic), d}
      BY Zenon DEF SetOutageDomain
    <2> HIDE DEF b, d
    <2> QED
      BY <2>1, <2>2, InvalidatedFacts DEF SameLocks
  <1> HIDE DEF b
  <1>3. FramedAs(BeginOutageFrame(b), b, b.outage.active)
    BY <1>1, BeginFrameFacts
  <1>4. Withdrawn(BeginOutageFrame(b), c)
    BY <1>1, <1>3, WithdrawnTransitive DEF FramedAs
  <1> QED
    BY <1>1, <1>2, <1>3, <1>4, Zenon DEF FramedAs, b

\* The gate takes its value, and no frame survives.
LEMMA GateTurns ==
  ASSUME NEW c \in Authority, NEW on \in BOOLEAN, c.outage.gate # on
  PROVE  FramedAs(ConfigureOutage(c, on), [c EXCEPT !.outage.gate = on], c.outage.active)
  <1> DEFINE d == [c EXCEPT !.outage.gate = on]
  <1>1. d \in Authority /\ d.outage.active = c.outage.active
    BY DEF Authority, Outage
  <1>2. ConfigureOutage(c, on) = BeginOutageFrame(d)
    BY DEF ConfigureOutage, BeginOutageFrame
  <1> HIDE DEF d
  <1>3. FramedAs(BeginOutageFrame(d), d, d.outage.active)
    BY <1>1, BeginFrameFacts
  <1> QED
    BY <1>1, <1>2, <1>3, Zenon DEF d

LEMMA UnloadFacts ==
  ASSUME NEW c \in Authority
  PROVE  LET b == UnloadOutage(SetOutageDomain(c, FALSE, FALSE))
         IN /\ b \in Authority /\ Withdrawn(b, c)
            /\ ~b.outage.active /\ b.current["OUTAGE"] = None
  <1> DEFINE b == SetOutageDomain(c, FALSE, FALSE)
             d == [b EXCEPT !.outage = [loaded |-> FALSE, gate |-> FALSE, active |-> FALSE,
                                        ceiling |-> FALSE]]
  <1>1. b \in Authority /\ Withdrawn(b, c)
    BY OutageDomainFacts DEF DomainAs
  <1> HIDE DEF b
  <1>2. d \in Authority /\ d.current = b.current /\ d.expected = b.expected /\ ~d.outage.active
    BY <1>1 DEF Authority, Outage
  <1>3. UnloadOutage(b) = Invalidated(d, {"OUTAGE"})
    BY DEF UnloadOutage
  <1> HIDE DEF d
  <1>4. /\ UnloadOutage(b) \in Authority /\ Withdrawn(UnloadOutage(b), b)
        /\ ~UnloadOutage(b).outage.active /\ UnloadOutage(b).current["OUTAGE"] = None
    BY <1>1, <1>2, <1>3, ChangedThenInvalidated DEF SameLocks, Contexts
  <1>5. Withdrawn(UnloadOutage(b), c)
    BY <1>1, <1>4, WithdrawnTransitive
  <1> QED
    BY <1>4, <1>5 DEF b

LEMMA RoomStays ==
  ASSUME Room, Withdrawn(a', a)
  PROVE  Room'
  <1>1. IsFiniteSet(a'.expected) /\ Cardinality(a'.expected) <= Cardinality(a.expected)
    BY DEF Room, Withdrawn
  <1>2. Cardinality(a'.expected) \in Nat /\ Cardinality(a.expected) \in Nat
    BY <1>1, FS_CardinalityType DEF Room
  <1> QED
    BY <1>1, <1>2, AuthorityAssumption DEF Room

-----------------------------------------------------------------------------
(***************************************************************************)
(* Steps that leave the tracker and select and accept nothing.             *)
(***************************************************************************)
\* The frame that waits is the same, or it has become old, or none waits.
WaitsAsBefore ==
  pending' # None => /\ pending # None /\ pending'.outage = pending.outage
                     /\ pending'.id = pending.id /\ pending'.unresolved = pending.unresolved
                     /\ pending'.on = pending.on /\ (~pending'.old => ~pending.old)

\* The task under way is the same, in whatever phase.
TaskAsBefore ==
  /\ task # None => /\ task' # None /\ task'.epoch = task.epoch
                    /\ task.phase = "raised" => task'.phase = "raised"
  /\ task' # None => task # None

LEMMA NarrowKeeps ==
  ASSUME IInv, UNCHANGED <<env, tracker, latch, owner, plant, proven, spoilt>>,
         Narrower(engine', engine), WaitsAsBefore, TaskAsBefore, Current', Room',
         a' \in Authority, a'.outage.active => a.outage.active,
         ~engine.unloaded => a'.outage.gate = engine'.gate,
         task' \in Task \cup {None}, pending' \in Frame \cup {None},
         wire' \subseteq Loads, taken' \in BOOLEAN
  PROVE  IInv'
  <1> USE DEF IInv
  <1>1. TypeOK'
    BY DEF TypeOK, Narrower
  <1>2. Waits'
    BY DEF Waits, WaitsAsBefore, TaskAsBefore, Reports
  <1>3. Agree'
    <2>1. engine'.unloaded = engine.unloaded
      BY DEF Narrower
    <2>2. engine'.unloaded => engine'.candidate = None /\ engine'.attempt = None /\ pending' = None
      BY <2>1 DEF Agree, Narrower, WaitsAsBefore
    <2>3. ~engine'.unloaded =>
            a'.outage.gate = engine'.gate /\ (task' # None => engine'.epoch = task'.epoch)
      BY <2>1 DEF Agree, Narrower, TaskAsBefore
    <2>4. /\ engine'.candidate # None => engine'.epoch # None
          /\ a'.outage.active => engine'.epoch # None
      BY DEF Agree, Narrower
    <2> QED
      BY <2>2, <2>3, <2>4 DEF Agree
  <1>4. Spoilt'
    <2> SUFFICES ASSUME spoilt # None, ~engine.unloaded
                 PROVE  Closed'
      BY DEF Spoilt, Narrower
    <2>1. CASE engine.epoch = spoilt /\ In("raised")
      BY <2>1 DEF Closed, Narrower, TaskAsBefore, In
    <2>2. CASE engine.epoch = spoilt /\ engine.blocked = spoilt /\ engine.candidate = None
      BY <2>2 DEF Closed, Narrower
    <2>3. CASE /\ engine.epoch # spoilt
               /\ [epoch |-> tracker.epoch, sensor |-> tracker.sensor] # spoilt
               /\ pending # None => pending.id # spoilt
      BY <2>3 DEF Closed, Narrower, WaitsAsBefore
    <2> QED
      BY <2>1, <2>2, <2>3 DEF Spoilt, Closed
  <1>5. Witnessed'
    BY DEF Witnessed, SeenOff, Narrower, WaitsAsBefore
  <1> QED
    BY <1>1, <1>2, <1>3, <1>4, <1>5

LEMMA AskedIsRequest ==
  ASSUME IInv, task # None
  PROVE  Asked \in Request /\ Asked.source = "OUTAGE" /\ Asked.context = task.id
  BY DEF IInv, TypeOK, Task, Asked, Reduction, Request, Sources, Contexts, Targets, Loads, Circuits,
         BodyTargets, SourceTargets, LoadTargets, Bodies

LEMMA AuthoritiesKeeps ==
  ASSUME IInv, Authorities
  PROVE  IInv'
  <1> USE DEF IInv
  <1>1. /\ a' \in Authority /\ Withdrawn(a', a) /\ a'.outage = a.outage
    <2>1. CASE a' = ResolveMaintenance(a, IF a.maintenance = "on" THEN "off" ELSE "on")
      BY <2>1, MaintenanceFacts DEF SameLocks, TypeOK
    <2>2. CASE a' = SetSuppressed(a, "pool", "pool" \notin a.suppressed)
      <3>1. SuppressedAs(a', a, "pool", "pool" \notin a.suppressed)
        BY <2>2, SuppressedFacts DEF TypeOK, Bodies
      <3> QED
        BY <3>1, Zenon DEF SuppressedAs
    <2> QED
      BY <2>1, <2>2 DEF Authorities
  <1>2. Narrower(engine, engine)
    BY DEF Narrower, TypeOK
  <1>3. Current'
    <2>1. a'.current["OUTAGE"] \in {a.current["OUTAGE"], None}
      BY <1>1 DEF Withdrawn, Contexts
    <2>2. UNCHANGED <<task, engine, pending>> /\ task \in Task \cup {None}
      BY DEF Authorities, TypeOK
    <2> QED
      BY <2>1, <2>2, NoneAssumption DEF Current, Task
  <1>4. WaitsAsBefore /\ TaskAsBefore
    BY DEF Authorities, WaitsAsBefore, TaskAsBefore
  <1>5. Room'
    BY <1>1, RoomStays
  <1> QED
    BY <1>1, <1>2, <1>3, <1>4, <1>5, NarrowKeeps DEF Authorities, Agree, TypeOK

LEMMA OrchestrationFailedKeeps ==
  ASSUME IInv, OrchestrationFailed
  PROVE  IInv'
  <1> USE DEF IInv
  <1>1. FramedAs(a', a, a.outage.active)
    BY BeginFrameFacts DEF OrchestrationFailed, TypeOK
  <1>2. Narrower(engine', engine) /\ engine'.gate = engine.gate
    BY FailClosedFacts DEF OrchestrationFailed, TypeOK
  <1>3. Current'
    <2>1. Withdrawn(a', a) /\ a'.current["OUTAGE"] = None
      BY <1>1 DEF FramedAs
    <2>2. UNCHANGED task /\ task \in Task \cup {None}
      BY DEF OrchestrationFailed, TypeOK
    <2> QED
      BY <2>1, <2>2, NoneAssumption DEF Current, Task
  <1>4. WaitsAsBefore /\ TaskAsBefore
    BY DEF OrchestrationFailed, WaitsAsBefore, TaskAsBefore
  <1>5. Room'
    BY <1>1, RoomStays DEF FramedAs
  <1> QED
    BY <1>1, <1>2, <1>3, <1>4, <1>5, NarrowKeeps DEF OrchestrationFailed, Agree, TypeOK, FramedAs

LEMMA GateKeeps ==
  ASSUME IInv, Gate
  PROVE  IInv'
  <1> USE DEF IInv
  <1> DEFINE on == ~engine.gate
             c == [a EXCEPT !.outage.gate = on]
  <1>1. on \in BOOLEAN /\ a.outage.gate # on /\ engine.gate # on /\ ~engine.unloaded
    BY DEF Gate, TypeOK, Engine, Agree
  <1>2. FramedAs(a', c, a.outage.active)
    BY <1>1, GateTurns DEF Gate, TypeOK
  <1>3. c.outage.gate = on /\ c.current = a.current /\ c.expected = a.expected
    BY DEF TypeOK, Authority, Outage
  <1>4. Narrower(engine', engine) /\ engine'.gate = on
    BY <1>1, GateFacts DEF Gate, TypeOK
  <1>5. WaitsAsBefore /\ TaskAsBefore /\ pending' \in Frame \cup {None}
    BY DEF Gate, WaitsAsBefore, TaskAsBefore, TypeOK, Frame
  <1> HIDE DEF on, c
  <1>6. /\ a' \in Authority /\ Withdrawn(a', a) /\ a'.current["OUTAGE"] = None
        /\ a'.outage.active = a.outage.active /\ a'.outage.gate = on
    <2>1. Withdrawn(a', a)
      BY <1>2, <1>3 DEF FramedAs, Withdrawn
    <2> QED
      BY <1>2, <1>3, <2>1, Zenon DEF FramedAs
  <1>7. Current'
    <2>1. UNCHANGED task /\ task \in Task \cup {None}
      BY DEF Gate, TypeOK
    <2> QED
      BY <1>6, <2>1, NoneAssumption DEF Current, Task
  <1>8. Room'
    BY <1>6, RoomStays
  <1> QED
    BY <1>4, <1>5, <1>6, <1>7, <1>8, NarrowKeeps DEF Gate, TypeOK

LEMMA ReservesKeeps ==
  ASSUME IInv, Reserves
  PROVE  IInv'
  <1> USE DEF IInv
  <1>0. task \in Task /\ task # None /\ task.phase = "new" /\ task.id \in Tokens
    BY DEF Reserves, In, TypeOK, Task
  <1>1. /\ a' \in Authority /\ a'.outage = a.outage /\ a'.current = a.current /\ Room'
    <2>1. Asked \in Request
      BY <1>0, AskedIsRequest
    <2>2. AlreadyTrue(a, Asked) \/ ~Full(a)
      BY DEF Reserves, HasRoom
    <2> HIDE DEF Asked
    <2> QED
      BY <1>0, <2>1, <2>2, ReserveFacts DEF Reserves, SameLocks, TypeOK, Room
  <1>2. /\ task' \in Task /\ task'.load = task.load /\ task'.epoch = task.epoch
        /\ task'.id = task.id /\ task'.phase = "waiting"
    BY <1>0 DEF Reserves, Task
  <1>3. TaskAsBefore /\ WaitsAsBefore
    <2>1. UNCHANGED pending
      BY DEF Reserves
    <2> QED
      BY <1>0, <1>2, <2>1, TaskAssumption DEF TaskAsBefore, WaitsAsBefore
  <1>4. Current'
    BY <1>0, <1>1, <1>2, NoneAssumption DEF Reserves, Current
  <1>5. Narrower(engine, engine)
    BY DEF Narrower, TypeOK
  <1> QED
    BY <1>1, <1>2, <1>3, <1>4, <1>5, NarrowKeeps DEF Reserves, Agree, TypeOK

LEMMA SendsKeeps ==
  ASSUME IInv, Sends
  PROVE  IInv'
  <1> USE DEF IInv
  <1>0. task \in Task /\ task # None /\ task.phase = "waiting" /\ task.load \in Loads
    BY DEF Sends, In, TypeOK, Task
  <1>1. /\ a' \in Authority /\ a'.outage = a.outage /\ a'.current = a.current /\ Room'
    <2>1. /\ a' \in Authority /\ SameLocks(a', a) /\ a'.current = a.current
          /\ IsFiniteSet(a'.expected) /\ Cardinality(a'.expected) <= Cardinality(a.expected)
      BY DispatchFacts DEF Sends, TypeOK, Room
    <2>2. Cardinality(a'.expected) \in Nat /\ Cardinality(a.expected) \in Nat
      BY <2>1, FS_CardinalityType DEF Room
    <2> QED
      BY <2>1, <2>2, AuthorityAssumption DEF SameLocks, Room
  <1>2. /\ task' \in Task /\ task'.epoch = task.epoch /\ task'.phase = "sent"
    BY <1>0 DEF Sends, Task
  <1>3. TaskAsBefore /\ WaitsAsBefore
    <2>1. UNCHANGED pending
      BY DEF Sends
    <2> QED
      BY <1>0, <1>2, <2>1, TaskAssumption DEF TaskAsBefore, WaitsAsBefore
  <1>4. Current'
    BY <1>2 DEF Current
  <1>5. Narrower(engine, engine)
    BY DEF Narrower, TypeOK
  <1>6. wire' \subseteq Loads
    BY <1>0 DEF Sends, TypeOK
  <1> QED
    BY <1>1, <1>2, <1>3, <1>4, <1>5, <1>6, NarrowKeeps DEF Sends, Agree, TypeOK

LEMMA RefusedKeeps ==
  ASSUME IInv, Refused
  PROVE  IInv'
  <1> USE DEF IInv
  <1>0. task \in Task /\ task # None /\ task.phase \in {"new", "waiting"}
    BY DEF Refused, In, TypeOK
  <1>1. /\ a' \in Authority /\ a'.outage = a.outage /\ Room'
    <2>1. a' \in Authority /\ SameLocks(a', a) /\ Withdrawn(a', a)
      BY CancelFacts DEF Refused, TypeOK
    <2> QED
      BY <2>1, RoomStays DEF SameLocks
  <1>2. Narrower(engine', engine) /\ engine'.gate = engine.gate
    <2>1. engine' \in {DeliveryFailed(engine), Rejected(engine, task.load)}
      BY DEF Refused, Records
    <2> QED
      BY <2>1, DeliveryFailedFacts, RejectedFacts DEF TypeOK
  <1>3. /\ task' \in Task /\ task'.epoch = task.epoch /\ task'.phase = "over"
    <2>1. task' = [task EXCEPT !.phase = "over"]
      BY DEF Refused, Records
    <2> QED
      BY <1>0, <2>1 DEF Task
  <1>4. UNCHANGED <<env, tracker, pending, latch, owner, taken, wire, plant, proven, spoilt>>
    BY DEF Refused
  <1>5. TaskAsBefore /\ WaitsAsBefore
    BY <1>0, <1>3, <1>4, TaskAssumption DEF TaskAsBefore, WaitsAsBefore
  <1>6. Current'
    BY <1>3 DEF Current
  <1> QED
    BY <1>1, <1>2, <1>3, <1>4, <1>5, <1>6, NarrowKeeps DEF Agree, TypeOK

-----------------------------------------------------------------------------
(***************************************************************************)
(* An acceptance, an unknown outcome, and the end.                         *)
(***************************************************************************)
LEMMA AcceptedByKeeps ==
  ASSUME IInv, AcceptedBy
  PROVE  IInv'
  <1> USE DEF IInv
  <1>0. /\ task \in Task /\ task # None /\ task.phase = "sent" /\ task.load \in Loads
        /\ MayAccept(engine, task.load)
        /\ engine' = Accepted(engine, task.load) /\ task' = [task EXCEPT !.phase = "over"]
        /\ UNCHANGED <<env, tracker, a, latch, owner, taken, wire, plant, spoilt>>
    BY DEF AcceptedBy, In, Records, TypeOK, Task
  <1>1. task' \in Task /\ task' # None /\ task'.epoch = task.epoch /\ task'.phase = "over"
    BY <1>0, TaskAssumption DEF Task
  <1>2. /\ pending' \in Frame \cup {None}
        /\ pending = None => pending' = None
        /\ pending' # None => /\ pending'.old /\ pending'.id = pending.id
                              /\ pending'.outage = pending.outage
                              /\ pending'.unresolved = pending.unresolved
    BY DEF AcceptedBy, TypeOK, Frame
  <1>3. proven' = (task.load \notin plant) /\ proven' \in BOOLEAN
    BY DEF AcceptedBy
  <1>4. Waits' /\ Current' /\ Room' /\ Identified(tracker)'
    BY <1>0, <1>1, <1>2 DEF Waits, Current, Reports, Room
  <1>5. CASE engine.unloaded
    <2>1. engine' = engine
      BY <1>0, <1>5 DEF Accepted
    <2>2. TypeOK'
      BY <1>0, <1>1, <1>2, <1>3, <2>1 DEF TypeOK
    <2>3. Agree' /\ Spoilt' /\ Witnessed'
      BY <1>0, <1>1, <1>2, <1>5, <2>1 DEF Agree, Spoilt, Witnessed, SeenOff
    <2> QED
      BY <1>0, <1>4, <2>2, <2>3
  <1>6. CASE ~engine.unloaded
    <2>1. /\ engine' \in Engine /\ engine'.epoch = engine.epoch /\ ~engine'.unloaded
          /\ engine'.gate = engine.gate /\ engine'.candidate = None
          /\ engine'.blocked = engine.blocked
          /\ engine'.attempt # None => engine'.attempt.load = task.load
      BY <1>0, <1>6, AcceptedFacts DEF TypeOK
    <2>2. engine.candidate # None /\ task.phase # "raised"
      BY <1>0, <1>6, SafetyAssumption DEF MayAccept
    <2>3. TypeOK'
      BY <1>0, <1>1, <1>2, <1>3, <2>1 DEF TypeOK
    <2>4. Agree'
      BY <1>0, <1>1, <1>6, <2>1 DEF Agree
    <2>5. Spoilt'
      BY <1>0, <1>2, <1>6, <2>1, <2>2 DEF Spoilt, Closed, In
    <2>6. Witnessed'
      BY <1>0, <1>2, <1>3, <2>1 DEF Witnessed, SeenOff
    <2> QED
      BY <1>0, <1>4, <2>3, <2>4, <2>5, <2>6
  <1> QED
    BY <1>5, <1>6

LEMMA AmbiguousKeeps ==
  ASSUME IInv, Ambiguous
  PROVE  IInv'
  <1> USE DEF IInv
  <1>0. /\ task \in Task /\ task # None /\ task.phase = "sent" /\ task.epoch \in EpochId
        /\ spoilt' = task.epoch
        /\ UNCHANGED <<env, tracker, a, pending, latch, owner, taken, wire, plant, proven>>
        /\ task' \in Task /\ task' # None /\ task'.epoch = task.epoch
        /\ \/ engine' = DeliveryFailed(engine) /\ task'.phase = "over"
           \/ engine' = engine /\ task'.phase = "raised"
    BY TaskAssumption DEF Ambiguous, In, Records, TypeOK, Task
  <1>1. /\ Narrower(engine', engine) /\ engine'.gate = engine.gate
        /\ ~engine.unloaded => \/ engine'.blocked = engine.epoch /\ engine'.candidate = None
                               \/ task'.phase = "raised"
    <2>1. Narrower(engine, engine)
      BY DEF Narrower, TypeOK
    <2> QED
      BY <1>0, <2>1, DeliveryFailedFacts DEF TypeOK
  <1>2. TypeOK'
    BY <1>0, <1>1 DEF TypeOK, Narrower
  <1>3. Waits' /\ Current' /\ Room' /\ Identified(tracker)'
    BY <1>0 DEF Waits, Current, Room
  <1>4. Agree'
    BY <1>0, <1>1 DEF Agree, Narrower
  <1>5. Spoilt'
    <2> SUFFICES ASSUME ~engine'.unloaded PROVE Closed'
      BY DEF Spoilt
    <2>1. engine'.epoch = task.epoch /\ ~engine.unloaded /\ engine'.epoch = engine.epoch
      BY <1>0, <1>1 DEF Agree, Narrower
    <2> QED
      BY <1>0, <1>1, <2>1 DEF Closed, In
  <1>6. Witnessed'
    BY <1>0, <1>1 DEF Witnessed, SeenOff, Narrower
  <1> QED
    BY <1>0, <1>2, <1>3, <1>4, <1>5, <1>6

LEMMA UnloadKeeps ==
  ASSUME IInv, Unload
  PROVE  IInv'
  <1> USE DEF IInv
  <1>1. a' \in Authority /\ Withdrawn(a', a) /\ ~a'.outage.active /\ a'.current["OUTAGE"] = None
    BY UnloadFacts DEF Unload, TypeOK
  <1>2. /\ engine' \in Engine /\ engine'.unloaded /\ engine'.candidate = None
        /\ engine'.attempt = None /\ pending' = None /\ latch' = None
        /\ UNCHANGED <<env, tracker, task, owner, taken, wire, plant, proven, spoilt>>
    BY UnloadEngineFacts DEF Unload, TypeOK
  <1>3. TypeOK'
    BY <1>1, <1>2 DEF TypeOK
  <1>4. Current'
    BY <1>1, <1>2, NoneAssumption DEF Current, Task, TypeOK
  <1>5. Room'
    BY <1>1, RoomStays
  <1>6. Waits' /\ Agree' /\ Spoilt' /\ Witnessed' /\ Identified(tracker)'
    BY <1>1, <1>2 DEF Waits, Agree, Spoilt, Witnessed, SeenOff
  <1> QED
    BY <1>2, <1>3, <1>4, <1>5, <1>6

LEMMA EquipmentKeeps ==
  ASSUME IInv, UNCHANGED <<env, tracker, engine, a, task, pending, latch, owner, taken, spoilt>>,
         wire' \subseteq Loads, plant' \subseteq Loads, proven' \in BOOLEAN,
         proven => proven', SeenOff(plant)'
  PROVE  IInv'
  <1> USE DEF IInv
  <1>1. TypeOK'
    BY DEF TypeOK
  <1>2. Waits' /\ Current' /\ Agree' /\ Spoilt' /\ Room' /\ Identified(tracker)'
    BY DEF Waits, Current, Agree, Spoilt, Closed, In, Room
  <1>3. Witnessed'
    BY DEF Witnessed, SeenOff
  <1> QED
    BY <1>1, <1>2, <1>3

-----------------------------------------------------------------------------
(***************************************************************************)
(* Frames.                                                                 *)
(***************************************************************************)
LEMMA FreshTokenIsToken ==
  ASSUME IInv
  PROVE  FreshToken \in Tokens
  <1> DEFINE ids == {e.id : e \in a.expected}
             used == ({a.current["OUTAGE"]} \cup ids) \cap Tokens
  <1>1. IsFiniteSet(ids) /\ Cardinality(ids) <= Limit
    <2> DEFINE f == [e \in a.expected |-> e.id]
    <2>1. f \in Surjection(a.expected, ids)
      BY DEF Surjection
    <2> HIDE DEF ids, f
    <2>2. IsFiniteSet(ids) /\ Cardinality(ids) <= Cardinality(a.expected)
      BY <2>1, ImageIsNoLarger DEF IInv, Room
    <2>3. Cardinality(ids) \in Nat /\ Cardinality(a.expected) \in Nat
      BY <2>2, FS_CardinalityType DEF IInv, Room
    <2> QED
      BY <2>2, <2>3, AuthorityAssumption DEF IInv, Room
  <1> DEFINE all == ids \cup {a.current["OUTAGE"]}
  <1> HIDE DEF ids
  <1>2. IsFiniteSet(all) /\ Cardinality(all) <= Limit + 1
    <2>1. /\ IsFiniteSet(all)
          /\ Cardinality(all) = Cardinality(ids) \/ Cardinality(all) = Cardinality(ids) + 1
      BY <1>1, FS_AddElement
    <2>2. Cardinality(ids) \in Nat
      BY <1>1, FS_CardinalityType
    <2> QED
      BY <1>1, <2>1, <2>2, AuthorityAssumption
  <1>3. IsFiniteSet(used) /\ Cardinality(used) <= Limit + 1
    <2>1. used \subseteq all
      OBVIOUS
    <2> HIDE DEF used, all
    <2>2. IsFiniteSet(used) /\ Cardinality(used) <= Cardinality(all)
      BY <1>2, <2>1, FS_Subset
    <2>3. Cardinality(used) \in Nat /\ Cardinality(all) \in Nat
      BY <1>2, <2>2, FS_CardinalityType
    <2> QED
      BY <1>2, <2>2, <2>3, AuthorityAssumption
  <1>4. \E t \in Tokens : t \notin {a.current["OUTAGE"]} \cup ids
    BY <1>3, NamesAssumption
  <1> QED
    BY <1>4 DEF FreshToken, ids

LEMMA FreshEpochIsFresh ==
  ASSUME IInv
  PROVE  FreshEpoch \in OutageEpochs /\ FreshEpoch \notin EpochsInUse
  <1> DEFINE E(i) == IF i = None THEN None ELSE i.epoch
             p == IF pending = None THEN None ELSE pending.id
  <1>1. p \in EpochId \cup {None}
    BY DEF IInv, TypeOK, Frame
  <1> HIDE DEF p
  <1>2. /\ tracker.epoch \in OutageEpochs \cup {None} /\ E(engine.epoch) \in OutageEpochs \cup {None}
        /\ E(engine.blocked) \in OutageEpochs \cup {None}
        /\ E(spoilt) \in OutageEpochs \cup {None} /\ E(p) \in OutageEpochs \cup {None}
    BY <1>1 DEF IInv, TypeOK, Tracker, Engine, EpochId
  <1>3. EpochsInUse \subseteq
          {tracker.epoch, E(engine.epoch), E(engine.blocked), E(spoilt), E(p)}
    BY DEF EpochsInUse, p
  <1> HIDE DEF E
  <1>4. OutageEpochs \ {tracker.epoch, E(engine.epoch), E(engine.blocked), E(spoilt), E(p)} # {}
    BY <1>2, NamesAssumption
  <1>5. \E e \in OutageEpochs : e \notin EpochsInUse
    BY <1>3, <1>4
  <1> QED
    BY <1>5 DEF FreshEpoch

LEMMA ProcessKeeps ==
  ASSUME IInv, NEW f \in Frame, NEW b \in Authority, NEW e, NEW l \in BOOLEAN \cup {None},
         Process(f, b, e, l), Narrower(e, engine), e.gate = engine.gate, ~engine.unloaded,
         Withdrawn(b, a), b.outage.gate = a.outage.gate,
         tracker' \in Tracker, Identified(tracker)', Reports(f, tracker'),
         UNCHANGED <<env, wire, plant, proven>>,
         owner' \in {"poolos", "outsider", "nobody"}, taken' \in BOOLEAN,
         spoilt' \in EpochId \cup {None},
         spoilt' # None =>
           \/ e.epoch = spoilt' /\ e.blocked = spoilt' /\ e.candidate = None
           \/ /\ e.epoch # spoilt' /\ f.id # spoilt'
              /\ [epoch |-> tracker'.epoch, sensor |-> tracker'.sensor] # spoilt'
  PROVE  IInv'
  <1> DEFINE g == [f EXCEPT !.entitled = (latch' = TRUE), !.ready = BaseAllows(b)]
             active == DomainActive(e, engine', g)
             ceiling == g.outage = "CONFIRMED_OUTAGE" /\ Circulation(g) = "REQUIRED"
             c == BeginOutageFrame(SetOutageDomain(b, active, ceiling))
  <1>1. /\ g \in Frame /\ g.outage = f.outage /\ g.id = f.id /\ g.unresolved = f.unresolved
        /\ g.on = f.on /\ g.old = f.old
    <2>1. BaseAllows(b) \in BOOLEAN /\ (latch' = TRUE) \in BOOLEAN
      BY Zenon DEF BaseAllows
    <2> DEFINE x == (latch' = TRUE)
               y == BaseAllows(b)
    <2>2. g = [f EXCEPT !.entitled = x, !.ready = y]
      BY Zenon
    <2>3. x \in BOOLEAN /\ y \in BOOLEAN
      BY <2>1, Zenon
    <2> HIDE DEF g, x, y
    <2> QED
      BY <2>2, <2>3 DEF Frame
  <1>2. /\ latch' \in BOOLEAN \cup {None} /\ engine' = Evaluate(e, g) /\ pending' = None
        /\ \/ engine'.candidate = None /\ task' = None /\ a' = c
           \/ /\ engine'.candidate # None /\ a' = Bind(c, "OUTAGE", FreshToken)
              /\ task' = [load |-> engine'.candidate, epoch |-> engine'.epoch,
                          id |-> FreshToken, phase |-> "new", expected |-> FALSE]
    BY DEF Process
  <1>3. f.outage = "CONFIRMED_OUTAGE" => f.id \in EpochId
    BY EpochAssumption DEF Reports, Identified, EpochId, Tracker
  <1>4. e \in Engine /\ ~e.unloaded
    BY DEF Narrower
  <1> HIDE DEF g
  <1>5. Assesses(engine', e, g)
    BY <1>1, <1>2, <1>3, <1>4, EvaluateFacts
  <1>6. active \in BOOLEAN /\ ceiling \in BOOLEAN /\ (active => engine'.epoch # None)
    BY Zenon DEF DomainActive
  <1>7. FramedAs(c, b, active)
    BY <1>6, FrameFacts, Zenon
  <1> HIDE DEF active, ceiling, c
  <1>8. /\ c \in Authority /\ Withdrawn(c, a) /\ c.outage.gate = a.outage.gate
        /\ c.outage.active => engine'.epoch # None
    <2>1. Withdrawn(c, a)
      BY <1>7, WithdrawnTransitive DEF FramedAs
    <2> QED
      BY <1>6, <1>7, <2>1, Zenon DEF FramedAs
  <1>9. /\ a' \in Authority /\ a'.outage = c.outage /\ a'.expected = c.expected
        /\ task' # None => a'.current["OUTAGE"] = task'.id
    <2>1. FreshToken \in Tokens
      BY FreshTokenIsToken
    <2> QED
      BY <1>2, <1>8, <2>1, BindFacts DEF SameLocks, Contexts
  <1>10. Room'
    <2>1. /\ IsFiniteSet(c.expected) /\ Cardinality(c.expected) <= Cardinality(a.expected)
      BY <1>8 DEF Withdrawn, IInv, Room
    <2>2. Cardinality(c.expected) \in Nat /\ Cardinality(a.expected) \in Nat
      BY <2>1, FS_CardinalityType DEF IInv, Room
    <2> QED
      BY <1>9, <2>1, <2>2, AuthorityAssumption DEF IInv, Room
  <1>11. /\ engine' \in Engine /\ engine'.gate = engine.gate /\ ~engine'.unloaded
         /\ engine'.candidate # None => engine'.epoch \in EpochId /\ engine'.epoch # None
         /\ engine'.attempt # None => /\ engine.attempt # None
                                      /\ engine'.attempt.load = engine.attempt.load
    BY <1>1, <1>3, <1>5, EpochAssumption DEF Assesses, Narrower
  <1>12. /\ task' \in Task \cup {None}
         /\ task' # None => /\ engine'.candidate = task'.load /\ engine'.epoch = task'.epoch
    <2>1. CASE engine'.candidate = None
      BY <1>2, <2>1
    <2>2. CASE engine'.candidate # None
      <3>1. engine'.candidate \in Loads /\ engine'.epoch \in EpochId
        BY <1>11, <2>2 DEF Engine
      <3>2. FreshToken \in Tokens
        BY FreshTokenIsToken
      <3>3. task' = [load |-> engine'.candidate, epoch |-> engine'.epoch,
                     id |-> FreshToken, phase |-> "new", expected |-> FALSE]
        BY <1>2, <2>2
      <3> QED
        BY <3>1, <3>2, <3>3 DEF Task
    <2> QED
      BY <2>1, <2>2
  <1>13. TypeOK'
    BY <1>2, <1>9, <1>11, <1>12 DEF TypeOK, IInv
  <1>14. Waits' /\ Current' /\ Identified(tracker)'
    BY <1>2, <1>12 DEF Waits, Current
  <1>15. Agree'
    BY <1>8, <1>9, <1>11, <1>12 DEF Agree, IInv
  <1>16. Spoilt'
    <2> SUFFICES ASSUME spoilt' # None PROVE Closed'
      BY DEF Spoilt
    <2>0. engine'.epoch = CASE f.outage = "ON_GRID" -> None
                            [] f.outage = "CONFIRMED_OUTAGE" -> f.id
                            [] OTHER -> e.epoch
      BY <1>1, <1>5 DEF Assesses
    <2>1. CASE e.epoch = spoilt' /\ e.blocked = spoilt' /\ e.candidate = None
      <3>1. CASE engine'.epoch = spoilt'
        BY <1>5, <2>1, <3>1 DEF Assesses, Closed
      <3>2. CASE engine'.epoch # spoilt'
        <4>1. [epoch |-> tracker'.epoch, sensor |-> tracker'.sensor] # spoilt'
          <5>1. CASE f.outage = "ON_GRID"
            BY <5>1, EpochAssumption DEF Reports, EpochId
          <5>2. CASE f.outage = "CONFIRMED_OUTAGE"
            BY <2>0, <3>2, <5>2 DEF Reports
          <5>3. CASE f.outage \notin {"ON_GRID", "CONFIRMED_OUTAGE"}
            BY <2>0, <2>1, <3>2, <5>3
          <5> QED
            BY <5>1, <5>2, <5>3
        <4> QED
          BY <1>2, <3>2, <4>1 DEF Closed
      <3> QED
        BY <3>1, <3>2
    <2>2. CASE /\ e.epoch # spoilt' /\ f.id # spoilt'
               /\ [epoch |-> tracker'.epoch, sensor |-> tracker'.sensor] # spoilt'
      BY <1>2, <2>0, <2>2 DEF Closed
    <2> QED
      BY <2>1, <2>2
  <1>17. Witnessed'
    BY <1>2, <1>11 DEF Witnessed, SeenOff, IInv
  <1> QED
    BY <1>10, <1>13, <1>14, <1>15, <1>16, <1>17 DEF IInv

LEMMA TaskDoneKeeps ==
  ASSUME IInv, TaskDone
  PROVE  IInv'
  <1> USE DEF IInv
  <1> DEFINE e == IF In("raised") THEN DeliveryFailed(engine) ELSE engine
  <1>1. task \in Task /\ task # None /\ UNCHANGED <<env, tracker, owner, wire, plant, proven, spoilt>>
    BY DEF TaskDone, In, TypeOK
  <1>2. /\ Narrower(e, engine) /\ e.gate = engine.gate
        /\ In("raised") /\ ~engine.unloaded => e.blocked = engine.epoch /\ e.candidate = None
    <2>1. Narrower(engine, engine)
      BY DEF Narrower, TypeOK
    <2> QED
      BY <2>1, DeliveryFailedFacts DEF TypeOK
  <1>3. spoilt # None /\ ~engine.unloaded =>
          \/ e.epoch = spoilt /\ e.blocked = spoilt /\ e.candidate = None
          \/ /\ e.epoch # spoilt /\ [epoch |-> tracker.epoch, sensor |-> tracker.sensor] # spoilt
             /\ pending # None => pending.id # spoilt
    BY <1>2 DEF Spoilt, Closed, Narrower
  <1>4. CASE pending = None
    <2>1. task' = None /\ engine' = e /\ UNCHANGED <<a, pending, latch, taken>>
      BY <1>4 DEF TaskDone
    <2> HIDE DEF e
    <2>2. TypeOK'
      BY <1>1, <1>2, <2>1 DEF TypeOK, Narrower
    <2>3. Waits' /\ Current' /\ Room' /\ Identified(tracker)'
      BY <1>1, <1>4, <2>1 DEF Waits, Current, Room
    <2>4. Agree'
      BY <1>2, <1>4, <2>1 DEF Agree, Narrower
    <2>5. Spoilt'
      BY <1>1, <1>2, <1>3, <1>4, <2>1 DEF Spoilt, Closed, Narrower
    <2>6. Witnessed'
      BY <1>1, <1>2, <1>4, <2>1 DEF Witnessed, SeenOff, Narrower
    <2> QED
      BY <1>1, <2>2, <2>3, <2>4, <2>5, <2>6
  <1>5. CASE pending # None
    <2>1. Process(pending, a, e, latch) /\ taken' = (taken /\ task' = None)
      BY <1>5 DEF TaskDone
    <2> HIDE DEF e
    <2>2. taken' \in BOOLEAN
      BY <2>1, Zenon
    <2>3. ~engine.unloaded /\ Reports(pending, tracker') /\ pending \in Frame
      BY <1>1, <1>5 DEF Agree, Waits, TypeOK
    <2>4. /\ tracker' \in Tracker /\ Identified(tracker)'
          /\ owner' \in {"poolos", "outsider", "nobody"} /\ spoilt' \in EpochId \cup {None}
          /\ a \in Authority /\ latch \in BOOLEAN \cup {None}
      BY <1>1 DEF TypeOK
    <2>5. UNCHANGED <<env, wire, plant, proven>>
      BY <1>1
    <2>6. spoilt' # None =>
           \/ e.epoch = spoilt' /\ e.blocked = spoilt' /\ e.candidate = None
           \/ /\ e.epoch # spoilt' /\ pending.id # spoilt'
              /\ [epoch |-> tracker'.epoch, sensor |-> tracker'.sensor] # spoilt'
      BY <1>1, <1>3, <1>5, <2>3
    <2>7. Withdrawn(a, a)
      BY WithdrawnReflexive
    <2> QED
      BY <1>2, <2>1, <2>2, <2>3, <2>4, <2>5, <2>6, <2>7, ProcessKeeps
  <1> QED
    BY <1>4, <1>5

-----------------------------------------------------------------------------
(***************************************************************************)
(* Snapshots.                                                              *)
(***************************************************************************)
LEMMA SampleFacts ==
  Samples \subseteq Sample \cup {None}
  <1>1. Real # {} /\ Real \subseteq Sensors /\ Fresh \in Nat
    BY ConfirmationAssumption
  <1>2. (CHOOSE x \in Real : TRUE) \in Sensors
    BY <1>1
  <1> DEFINE offs == {TRUE} \cup (IF May("return") THEN {FALSE} ELSE {})
             ages == {0} \cup (IF May("stale") THEN {Fresh} ELSE {})
             sensors == IF May("handoff") THEN Sensors ELSE {CHOOSE x \in Real : TRUE}
  <1>3. offs \subseteq BOOLEAN /\ ages \subseteq 0..Fresh /\ sensors \subseteq Sensors
    <2>1. offs \subseteq BOOLEAN
      BY Zenon
    <2>2. {0} \subseteq 0..Fresh /\ {Fresh} \subseteq 0..Fresh
      BY <1>1
    <2>3. ages \subseteq {0} \cup {Fresh}
      BY Zenon
    <2>4. sensors \subseteq Sensors
      BY <1>2, Zenon
    <2> HIDE DEF offs, ages, sensors
    <2> QED
      BY <2>1, <2>2, <2>3, <2>4
  <1>4. Samples \subseteq [off : offs, age : ages, sensor : sensors] \cup {None}
    BY DEF Samples
  <1> HIDE DEF offs, ages, sensors
  <1> QED
    BY <1>3, <1>4 DEF Sample

\* What b, the authority that has seen the plant, is to a.
SeesAs(b) ==
  b \in Authority /\ SameLocks(b, a) /\ Withdrawn(b, a) /\ b.current = a.current

LEMMA SeenFacts ==
  ASSUME IInv, NEW seen \in SUBSET Targets
  PROVE  SeesAs(Observed(Expired(a, 1), plant, seen))
  <1> DEFINE c == Expired(a, 1)
  <1>1. c \in Authority /\ SameLocks(c, a) /\ Withdrawn(c, a) /\ c.current = a.current
    BY ExpiredFacts DEF IInv, TypeOK
  <1>2. plant \in SUBSET Targets
    BY DEF IInv, TypeOK, Loads, Circuits, Targets, BodyTargets, SourceTargets, LoadTargets, Bodies
  <1> HIDE DEF c
  <1>3. /\ Observed(c, plant, seen) \in Authority /\ SameLocks(Observed(c, plant, seen), c)
        /\ Withdrawn(Observed(c, plant, seen), c) /\ Observed(c, plant, seen).current = c.current
    BY <1>1, <1>2, ObservedFacts
  <1>4. Withdrawn(Observed(c, plant, seen), a)
    BY <1>1, <1>3, WithdrawnTransitive
  <1> QED
    BY <1>1, <1>3, <1>4 DEF SeesAs, SameLocks, c

\* The three courses of a snapshot with the frame f, as the authority b, and with the
\* entitlement l.
Ends(b) ==
  /\ engine.unloaded /\ a' = b /\ UNCHANGED <<engine, task, pending, latch>>

Waiting(f, b, l) ==
  /\ ~engine.unloaded /\ task # None
  /\ a' = BeginOutageFrame(IF f.outage = "ON_GRID" THEN SetOutageDomain(b, FALSE, FALSE) ELSE b)
  /\ engine' = Older(engine) /\ pending' = f /\ latch' = l /\ UNCHANGED task

Begins(f, b, l) ==
  /\ ~engine.unloaded /\ task = None /\ Process(f, b, Older(engine), l)

\* What a snapshot does whatever its course.
Tracks(f) ==
  /\ tracker' \in Tracker /\ Identified(tracker)'
  /\ tracker'.epoch \in {tracker.epoch, FreshEpoch, None}
  /\ Reports(f, tracker') /\ f.on = plant
  /\ taken' \in BOOLEAN /\ owner' \in {"poolos", "outsider", "nobody"}
  /\ spoilt' = (IF tracker'.sensor = tracker.sensor THEN spoilt ELSE None)
  /\ UNCHANGED <<env, wire, plant, proven>>

LEMMA SnapshotCases ==
  ASSUME IInv, Snapshot
  PROVE  \E f \in Frame, b \in Authority, l \in BOOLEAN \cup {None} :
           Tracks(f) /\ SeesAs(b) /\ (Ends(b) \/ Waiting(f, b, l) \/ Begins(f, b, l))
  <1> DEFINE t == Aged(tracker, 1)
             c == Expired(a, 1)
  <1>1. PICK s \in Samples, blind \in Blinds, freeze \in Either("freeze"), lags \in Either("lags"),
             lingers \in Either("lingers"), immediate \in Either("immediate") :
          /\ Prompt
          /\ LET outage == Disposition(t, s, tracker')
                 b == Observed(c, plant, Targets \ blind)
                 seen == taken \/ Unexplained(c, Targets \ blind) # {}
                 f == [outage |-> outage, on |-> plant, blind |-> blind, freeze |-> freeze,
                       id |-> IF outage = "CONFIRMED_OUTAGE"
                              THEN [epoch |-> tracker'.epoch, sensor |-> tracker'.sensor] ELSE None,
                       unresolved |-> outage = "UNKNOWN" /\ tracker'.confirmed,
                       immediate |-> immediate, entitled |-> FALSE, external |-> seen,
                       ready |-> FALSE, old |-> FALSE, lags |-> lags, lingers |-> lingers]
             IN /\ tracker' = Evaluated(t, s, FreshEpoch)
                /\ \/ /\ engine.unloaded
                      /\ a' = b /\ taken' = seen
                      /\ UNCHANGED <<engine, task, pending, latch>>
                   \/ /\ ~engine.unloaded /\ task # None
                      /\ a' = BeginOutageFrame(IF outage = "ON_GRID"
                                               THEN SetOutageDomain(b, FALSE, FALSE) ELSE b)
                      /\ engine' = Older(engine) /\ pending' = f /\ latch' = Entitlement(outage)
                      /\ taken' = seen /\ UNCHANGED task
                   \/ /\ ~engine.unloaded /\ task = None
                      /\ Process(f, b, Older(engine), Entitlement(outage))
                      /\ taken' = (seen /\ task' = None)
                /\ owner' = (CASE "pool" \notin plant -> "nobody"
                               [] "pool" \in plant /\ owner = "nobody" -> "outsider"
                               [] OTHER -> owner)
                /\ spoilt' = (IF tracker'.sensor = tracker.sensor THEN spoilt ELSE None)
                /\ UNCHANGED <<env, wire, plant, proven>>
    BY Zenon DEF Snapshot
  <1> DEFINE outage == Disposition(t, s, tracker')
             b == Observed(c, plant, Targets \ blind)
             seen == taken \/ Unexplained(c, Targets \ blind) # {}
             out == outage = "UNKNOWN" /\ tracker'.confirmed
             id == IF outage = "CONFIRMED_OUTAGE"
                   THEN [epoch |-> tracker'.epoch, sensor |-> tracker'.sensor] ELSE None
             f == [outage |-> outage, on |-> plant, blind |-> blind, freeze |-> freeze, id |-> id,
                   unresolved |-> out, immediate |-> immediate, entitled |-> FALSE,
                   external |-> seen, ready |-> FALSE, old |-> FALSE, lags |-> lags,
                   lingers |-> lingers]
             l == Entitlement(outage)
  <1>2. t \in Tracker /\ t.epoch = tracker.epoch /\ t.sensor = tracker.sensor /\ Identified(t)
    BY AgedFacts DEF IInv, TypeOK
  <1>3. FreshEpoch \in OutageEpochs
    BY FreshEpochIsFresh
  <1>4. s \in Sample \cup {None}
    BY SampleFacts
  <1>5. seen \in BOOLEAN /\ out \in BOOLEAN
    BY <1>2 DEF IInv, TypeOK
  <1>6. l \in BOOLEAN \cup {None}
    BY DEF Entitlement, IInv, TypeOK
  <1>7. /\ blind \subseteq Loads /\ freeze \in BOOLEAN /\ lags \in BOOLEAN /\ immediate \in BOOLEAN
        /\ lingers \in BOOLEAN
    BY DEF Blinds, Either, Loads, Circuits
  <1>8. SeesAs(b)
    BY SeenFacts
  <1> HIDE DEF t
  <1>9. tracker' = Evaluated(t, s, FreshEpoch)
    BY <1>1
  <1>10. EvaluatedAs(tracker', t, s, FreshEpoch)
    BY <1>2, <1>3, <1>4, <1>9, EvaluatedFacts
  <1> HIDE DEF outage
  <1>11. /\ tracker' \in Tracker /\ Identified(tracker')
         /\ tracker'.epoch \in {tracker.epoch, FreshEpoch, None}
         /\ outage \in Dispositions /\ (outage = "CONFIRMED_OUTAGE" => tracker'.confirmed)
         /\ outage = "ON_GRID" => tracker'.epoch = None
         /\ outage \in {"ON_GRID", "OFF_GRID_PENDING"} => ~tracker'.confirmed
    BY <1>2, <1>10 DEF EvaluatedAs, outage
  <1>12. id \in EpochId \cup {None}
    BY <1>11 DEF Identified, Tracker, EpochId
  <1> HIDE DEF seen, out, id, l, b
  <1>13. f \in Frame /\ f.outage = outage /\ f.id = id /\ f.unresolved = out /\ f.on = plant
    BY <1>5, <1>7, <1>11, <1>12 DEF Frame, IInv, TypeOK
  <1> HIDE DEF f
  <1>14. Reports(f, tracker')
    BY <1>11, <1>13 DEF Reports, Dispositions, id, out
  <1>15. taken' \in BOOLEAN
    BY <1>1, <1>5, Zenon DEF seen
  <1>16. owner' \in {"poolos", "outsider", "nobody"}
    BY <1>1 DEF IInv, TypeOK
  <1>17. Tracks(f)
    BY <1>1, <1>11, <1>13, <1>14, <1>15, <1>16 DEF Tracks
  <1>18. Ends(b) \/ Waiting(f, b, l) \/ Begins(f, b, l)
    BY <1>1, <1>13, Zenon DEF Ends, Waiting, Begins, f, l, id, out, outage, seen, b
  <1> QED
    BY <1>6, <1>8, <1>13, <1>17, <1>18 DEF SeesAs

\* The tracker never comes back to an epoch it has left for good.
LEMMA LeftForGood ==
  ASSUME IInv, NEW f \in Frame, Tracks(f), spoilt' # None,
         [epoch |-> tracker.epoch, sensor |-> tracker.sensor] # spoilt
  PROVE  /\ spoilt' = spoilt /\ f.id # spoilt
         /\ [epoch |-> tracker'.epoch, sensor |-> tracker'.sensor] # spoilt
  <1>1. spoilt' = spoilt /\ tracker'.sensor = tracker.sensor /\ spoilt \in EpochId
    BY DEF Tracks, IInv, TypeOK
  <1>2. spoilt.epoch # FreshEpoch /\ spoilt.epoch # None
    <2>1. spoilt.epoch \in EpochsInUse
      BY <1>1, EpochAssumption DEF EpochsInUse
    <2>2. spoilt.epoch \in OutageEpochs
      BY <1>1 DEF EpochId
    <2> QED
      BY <2>1, <2>2, FreshEpochIsFresh, EpochAssumption
  <1>3. [epoch |-> tracker'.epoch, sensor |-> tracker'.sensor] # spoilt
    <2> SUFFICES ASSUME [epoch |-> tracker'.epoch, sensor |-> tracker'.sensor] = spoilt
                 PROVE  FALSE
      OBVIOUS
    <2>1. tracker'.epoch = spoilt.epoch
      OBVIOUS
    <2>2. tracker'.epoch = tracker.epoch
      BY <1>2, <2>1 DEF Tracks
    <2> QED
      BY <1>1, <2>2
  <1>4. f.id # spoilt
    BY <1>1, <1>3, EpochAssumption DEF Tracks, Reports
  <1> QED
    BY <1>1, <1>3, <1>4

LEMMA EndsKeeps ==
  ASSUME IInv, NEW f \in Frame, NEW b \in Authority, Tracks(f), SeesAs(b), Ends(b)
  PROVE  IInv'
  <1> USE DEF IInv
  <1>1. TypeOK'
    BY DEF TypeOK, Tracks, Ends
  <1>2. Room'
    BY RoomStays DEF Ends, SeesAs
  <1>3. Waits' /\ Current' /\ Agree' /\ Spoilt' /\ Witnessed'
    BY DEF Ends, SeesAs, SameLocks, Tracks, Waits, Current, Agree, Spoilt, Witnessed, SeenOff
  <1> QED
    BY <1>1, <1>2, <1>3 DEF Tracks

LEMMA WaitingKeeps ==
  ASSUME IInv, NEW f \in Frame, NEW b \in Authority, NEW l \in BOOLEAN \cup {None},
         Tracks(f), SeesAs(b), Waiting(f, b, l)
  PROVE  IInv'
  <1> USE DEF IInv
  <1>1. /\ a' \in Authority /\ Withdrawn(a', a) /\ a'.current["OUTAGE"] = None
        /\ a'.outage.gate = a.outage.gate /\ (a'.outage.active => a.outage.active)
    <2>1. CASE f.outage = "ON_GRID"
      <3>1. FramedAs(a', b, FALSE)
        BY <2>1, FrameFacts DEF Waiting
      <3> QED
        BY <3>1, WithdrawnTransitive DEF FramedAs, SeesAs, SameLocks
    <2>2. CASE f.outage # "ON_GRID"
      <3>1. FramedAs(a', b, b.outage.active)
        BY <2>2, BeginFrameFacts DEF Waiting
      <3> QED
        BY <3>1, WithdrawnTransitive DEF FramedAs, SeesAs, SameLocks
    <2> QED
      BY <2>1, <2>2
  <1>2. /\ Narrower(engine', engine) /\ engine'.gate = engine.gate
        /\ engine'.blocked = engine.blocked
    BY OlderFacts DEF Waiting, TypeOK
  <1>3. task' = task /\ task # None /\ ~engine.unloaded /\ pending' = f /\ latch' = l
    BY DEF Waiting
  <1>4. TypeOK'
    BY <1>1, <1>2, <1>3 DEF TypeOK, Tracks, Narrower
  <1>5. Room'
    BY <1>1, RoomStays
  <1>6. Waits' /\ Current'
    BY <1>1, <1>3, NoneAssumption DEF Waits, Current, Task, TypeOK, Tracks
  <1>7. Agree'
    BY <1>1, <1>2, <1>3 DEF Agree, Narrower
  <1>8. Spoilt'
    <2> SUFFICES ASSUME spoilt' # None PROVE Closed'
      BY DEF Spoilt
    <2>0. spoilt' = spoilt
      BY DEF Tracks
    <2>1. CASE /\ engine.epoch = spoilt
               /\ In("raised") \/ (engine.blocked = spoilt /\ engine.candidate = None)
      BY <1>2, <1>3, <2>0, <2>1 DEF Closed, Narrower, In
    <2>2. CASE /\ engine.epoch # spoilt
               /\ [epoch |-> tracker.epoch, sensor |-> tracker.sensor] # spoilt
      BY <1>2, <1>3, <2>0, <2>2, LeftForGood DEF Closed, Narrower
    <2> QED
      BY <1>3, <2>0, <2>1, <2>2 DEF Spoilt, Closed
  <1>9. Witnessed'
    BY <1>2, <1>3 DEF Witnessed, SeenOff, Narrower, Tracks
  <1> QED
    BY <1>4, <1>5, <1>6, <1>7, <1>8, <1>9 DEF Tracks

LEMMA BeginsKeeps ==
  ASSUME IInv, NEW f \in Frame, NEW b \in Authority, NEW l \in BOOLEAN \cup {None},
         Tracks(f), SeesAs(b), Begins(f, b, l)
  PROVE  IInv'
  <1>1. /\ Process(f, b, Older(engine), l) /\ ~engine.unloaded /\ task = None
    BY DEF Begins
  <1>2. /\ Narrower(Older(engine), engine) /\ Older(engine).gate = engine.gate
        /\ Older(engine).blocked = engine.blocked /\ Older(engine).candidate = engine.candidate
    BY OlderFacts DEF IInv, TypeOK
  <1>3. Withdrawn(b, a) /\ b.outage.gate = a.outage.gate
    BY DEF SeesAs, SameLocks
  <1>4. spoilt' \in EpochId \cup {None}
    BY DEF Tracks, IInv, TypeOK
  <1>5. spoilt' # None =>
          \/ /\ Older(engine).epoch = spoilt' /\ Older(engine).blocked = spoilt'
             /\ Older(engine).candidate = None
          \/ /\ Older(engine).epoch # spoilt' /\ f.id # spoilt'
             /\ [epoch |-> tracker'.epoch, sensor |-> tracker'.sensor] # spoilt'
    <2> SUFFICES ASSUME spoilt' # None
                 PROVE  \/ /\ Older(engine).epoch = spoilt' /\ Older(engine).blocked = spoilt'
                           /\ Older(engine).candidate = None
                        \/ /\ Older(engine).epoch # spoilt' /\ f.id # spoilt'
                           /\ [epoch |-> tracker'.epoch, sensor |-> tracker'.sensor] # spoilt'
      OBVIOUS
    <2>1. spoilt' = spoilt
      BY DEF Tracks
    <2>2. CASE engine.epoch = spoilt /\ engine.blocked = spoilt /\ engine.candidate = None
      BY <1>2, <2>1, <2>2 DEF Narrower
    <2>3. CASE /\ engine.epoch # spoilt
               /\ [epoch |-> tracker.epoch, sensor |-> tracker.sensor] # spoilt
      BY <1>2, <2>1, <2>3, LeftForGood DEF Narrower
    <2> QED
      BY <1>1, <2>1, <2>2, <2>3 DEF IInv, Spoilt, Closed, In
  <1>6. /\ tracker' \in Tracker /\ Identified(tracker)' /\ Reports(f, tracker')
        /\ UNCHANGED <<env, wire, plant, proven>>
        /\ owner' \in {"poolos", "outsider", "nobody"} /\ taken' \in BOOLEAN
    BY DEF Tracks
  <1> QED
    BY <1>1, <1>2, <1>3, <1>4, <1>5, <1>6, ProcessKeeps

LEMMA SnapshotKeeps ==
  ASSUME IInv, Snapshot
  PROVE  IInv'
  BY SnapshotCases, EndsKeeps, WaitingKeeps, BeginsKeeps

LEMMA TurnsKeeps ==
  ASSUME IInv, NEW now \in SUBSET Loads, Turns(now), wire' \subseteq Loads,
         UNCHANGED <<env, tracker, engine, a, task, pending, latch, owner, taken, spoilt>>
  PROVE  IInv'
  <1>1. proven' \in BOOLEAN
    BY Zenon DEF Turns
  <1>2. plant' = now /\ (proven => proven') /\ SeenOff(plant)'
    BY DEF Turns, SeenOff
  <1> QED
    BY <1>1, <1>2, EquipmentKeeps

-----------------------------------------------------------------------------
LEMMA IInvInit ==
  Init => IInv
  <1> SUFFICES ASSUME Init PROVE IInv
    OBVIOUS
  <1>1. env \in Environments /\ env.on \subseteq Loads
    BY RuntimeAssumption DEF Init
  <1>2. /\ a \in Authority /\ a.expected = {} /\ ~a.outage.active /\ a.outage.gate = TRUE
    <2>1. env.on \subseteq Targets
      BY <1>1 DEF Loads, Circuits, Targets, BodyTargets, SourceTargets, LoadTargets, Bodies
    <2> QED
      BY <2>1, NewIsAuthority DEF Init, NewAuthority, Authority, Outage
  <1>3. /\ engine \in Engine /\ engine.gate = TRUE /\ engine.candidate = None
        /\ engine.attempt = None /\ engine.epoch = None /\ ~engine.unloaded
    BY DEF Init, NewEngine, Engine
  <1>4. tracker \in Tracker /\ Identified(tracker)
    BY DEF Init, NewTracker, Tracker, Identified
  <1>5. /\ task = None /\ pending = None /\ latch = None /\ taken = FALSE /\ wire = {}
        /\ plant = env.on /\ proven = FALSE /\ spoilt = None
        /\ owner \in {"poolos", "outsider", "nobody"}
    BY DEF Init
  <1>6. TypeOK
    BY <1>1, <1>2, <1>3, <1>4, <1>5 DEF TypeOK
  <1>7. Room
    BY <1>2, FS_EmptySet, AuthorityAssumption DEF Room
  <1>8. Waits /\ Current /\ Agree /\ Spoilt /\ Witnessed
    BY <1>2, <1>3, <1>5 DEF Waits, Current, Agree, Spoilt, Witnessed, SeenOff
  <1> QED
    BY <1>1, <1>4, <1>6, <1>7, <1>8 DEF IInv

LEMMA IInvNext ==
  IInv /\ [Next]_vars => IInv'
  <1> SUFFICES ASSUME IInv, [Next]_vars PROVE IInv'
    OBVIOUS
  <1>1. CASE Snapshot
    BY <1>1, SnapshotKeeps
  <1>2. CASE OrchestrationFailed
    BY <1>2, OrchestrationFailedKeeps
  <1>3. CASE Delivery
    BY <1>3, ReservesKeeps, SendsKeeps, RefusedKeeps, AcceptedByKeeps, AmbiguousKeeps,
       TaskDoneKeeps DEF Delivery
  <1>4. CASE Vanishes
    <2>1. wire' \subseteq Loads
      BY <1>4 DEF Vanishes, IInv, TypeOK
    <2>2. UNCHANGED <<env, tracker, engine, a, task, pending, latch, owner, taken, plant, proven,
                      spoilt>>
      BY <1>4 DEF Vanishes
    <2> QED
      BY <2>1, <2>2, EquipmentKeeps DEF IInv, TypeOK, Witnessed, SeenOff
  <1>5. CASE \E load \in Loads : Arrives(load)
    <2>1. PICK load \in Loads : Arrives(load)
      BY <1>5
    <2> DEFINE now == plant \ IF load = "pool" THEN {"pool", "speed"} ELSE {load}
    <2>2. now \in SUBSET Loads /\ Turns(now) /\ wire' \subseteq Loads
      BY <2>1 DEF Arrives, IInv, TypeOK
    <2>3. UNCHANGED <<env, tracker, engine, a, task, pending, latch, owner, taken, spoilt>>
      BY <2>1 DEF Arrives
    <2> HIDE DEF now
    <2> QED
      BY <2>2, <2>3, TurnsKeeps
  <1>6. CASE Outsider
    <2>1. PICK load \in env.on :
            Turns(IF load \in plant THEN plant \ {load} ELSE plant \cup {load})
      BY <1>6 DEF Outsider
    <2> DEFINE now == IF load \in plant THEN plant \ {load} ELSE plant \cup {load}
    <2>2. now \in SUBSET Loads
      BY RuntimeAssumption DEF IInv, TypeOK
    <2>3. /\ UNCHANGED <<env, tracker, engine, a, task, pending, latch, owner, taken, spoilt>>
          /\ wire' \subseteq Loads
      BY <1>6 DEF Outsider, IInv, TypeOK
    <2> HIDE DEF now
    <2> QED
      BY <2>1, <2>2, <2>3, TurnsKeeps DEF now
  <1>7. CASE Gate
    BY <1>7, GateKeeps
  <1>8. CASE Authorities
    BY <1>8, AuthoritiesKeeps
  <1>9. CASE Unload
    BY <1>9, UnloadKeeps
  <1>10. CASE UNCHANGED vars
    BY <1>10 DEF IInv, vars, TypeOK, Room, Waits, Current, Agree, Spoilt, Closed, In, Witnessed,
                 SeenOff
  <1> QED
    BY <1>1, <1>2, <1>3, <1>4, <1>5, <1>6, <1>7, <1>8, <1>9, <1>10 DEF Next, Effect

\* The invariant the theorems below rest on: what is delivered is current or withdrawn, the
\* waiting frame says what the tracker knows, an unknown outcome has closed its epoch, and
\* a load that is off in the plant or in a frame that counts is proven.
THEOREM Inductive == Spec => []IInv
  BY IInvInit, IInvNext, PTL DEF Spec
\* Every variable of the grid outage runtime keeps its type; in particular the expectations
\* of its commands and the time left to an accepted reduction stay within their bounds.
THEOREM GridTypeCorrect == Spec => []TypeOK
  <1>1. IInv => TypeOK
    BY DEF IInv
  <1> QED
    BY <1>1, Inductive, PTL

LEMMA SendsTheCandidate ==
  ASSUME IInv, Sends
  PROVE  /\ pending = None /\ engine.candidate = task.load /\ engine.epoch = task.epoch
         /\ task \in Task
  <1>1. task # None /\ task.phase = "waiting" /\ Allowed(a, Asked) /\ task \in Task
    BY DEF Sends, In, IInv, TypeOK
  <1>2. Asked.source = "OUTAGE" /\ Asked.context = task.id
    BY <1>1, AskedIsRequest
  <1>3. a.current["OUTAGE"] = task.id
    BY <1>1, <1>2 DEF Allowed, ContextAllows, Contexts
  <1> QED
    BY <1>1, <1>3 DEF IInv, Current

\* A command leaves only for the candidate of the newest frame and in the epoch the engine
\* is in, however long its delivery waited for the lock (_deliver, bind_outage_frame).
THEOREM CommandsAnswerNewestFrame == Spec => AnswersNewestFrame
  <1> DEFINE Answers == Sends => /\ pending = None /\ engine.candidate = task.load
                                 /\ engine.epoch = task.epoch
  <1>1. IInv /\ [Next]_vars => [Answers]_vars
    BY SendsTheCandidate
  <1> QED
    BY <1>1, Inductive, PTL DEF Spec, AnswersNewestFrame

\* After a command whose outcome is unknown nothing is sent again in its epoch, until the
\* evidence changes its sensor (record_delivery_failure, _blocked_outage_epoch).
THEOREM UnknownOutcomeClosesEpoch == Spec => AmbiguityEndsEpoch
  <1>1. ASSUME IInv, Sends PROVE task.epoch # spoilt
    <2> SUFFICES ASSUME task.epoch = spoilt PROVE FALSE
      OBVIOUS
    <2>1. /\ pending = None /\ engine.candidate = task.load /\ engine.epoch = task.epoch
          /\ task \in Task /\ task.phase = "waiting"
      BY <1>1, SendsTheCandidate DEF Sends, In
    <2>2. spoilt # None /\ engine.candidate # None
      BY <2>1, EpochAssumption, SafetyAssumption DEF Task
    <2>3. ~engine.unloaded
      BY <1>1, <2>2 DEF IInv, Agree
    <2> QED
      BY <1>1, <2>1, <2>2, <2>3 DEF IInv, Spoilt, Closed, In
  <1>2. IInv /\ [Next]_vars => [Sends => task.epoch # spoilt]_vars
    BY <1>1
  <1> QED
    BY <1>2, Inductive, PTL DEF Spec, AmbiguityEndsEpoch

-----------------------------------------------------------------------------
\* What the engine and the authority make of a frame that is processed.
LEMMA ProcessFacts ==
  ASSUME NEW f \in Frame, NEW b \in Authority, NEW e \in Engine, NEW l,
         FreshToken \in Tokens, Process(f, b, e, l), ~e.unloaded,
         tracker' \in Tracker, Identified(tracker)', Reports(f, tracker')
  PROVE  /\ Assesses(engine', e, f)
         /\ tracker'.confirmed /\ engine'.epoch # None => a'.outage.active
  <1> DEFINE g == [f EXCEPT !.entitled = (latch' = TRUE), !.ready = BaseAllows(b)]
             active == DomainActive(e, engine', g)
             ceiling == g.outage = "CONFIRMED_OUTAGE" /\ Circulation(g) = "REQUIRED"
             c == BeginOutageFrame(SetOutageDomain(b, active, ceiling))
  <1>1. /\ g \in Frame /\ g.outage = f.outage /\ g.id = f.id /\ g.unresolved = f.unresolved
        /\ g.on = f.on /\ g.old = f.old
    <2> DEFINE x == (latch' = TRUE)
               y == BaseAllows(b)
    <2>1. g = [f EXCEPT !.entitled = x, !.ready = y]
      BY Zenon
    <2>2. x \in BOOLEAN /\ y \in BOOLEAN
      BY Zenon DEF BaseAllows
    <2> HIDE DEF g, x, y
    <2> QED
      BY <2>1, <2>2 DEF Frame
  <1>2. engine' = Evaluate(e, g) /\ (a' = c \/ a' = Bind(c, "OUTAGE", FreshToken))
    BY DEF Process
  <1>3. f.outage = "CONFIRMED_OUTAGE" => f.id \in EpochId
    BY EpochAssumption DEF Reports, Identified, EpochId, Tracker
  <1> HIDE DEF g
  <1>4. Assesses(engine', e, g)
    BY <1>1, <1>2, <1>3, EvaluateFacts
  <1>5. Assesses(engine', e, f)
    BY <1>1, <1>4 DEF Assesses
  <1>6. active \in BOOLEAN /\ ceiling \in BOOLEAN
    BY Zenon DEF DomainActive
  <1>7. tracker'.confirmed /\ engine'.epoch # None => active
    BY <1>1, <1>4 DEF DomainActive, Assesses, Reports
  <1>8. FramedAs(c, b, active)
    BY <1>6, FrameFacts, Zenon
  <1> HIDE DEF active, ceiling, c
  <1>9. c \in Authority /\ (active => c.outage.active)
    BY <1>8, Zenon DEF FramedAs
  <1>10. a'.outage = c.outage
    BY <1>2, <1>9, BindFacts DEF SameLocks, Contexts
  <1> QED
    BY <1>5, <1>7, <1>9, <1>10

\* The two steps that process a frame f, after which the engine was e.
ProcessesAs(f, b, e, l) ==
  /\ Process(f, b, e, l) /\ Narrower(e, engine) /\ ~engine.unloaded
  /\ tracker' \in Tracker /\ Identified(tracker)' /\ Reports(f, tracker')
  /\ ~f.old => SeenOff(f.on)

LEMMA BeginsProcesses ==
  ASSUME IInv, NEW f \in Frame, NEW b \in Authority, NEW l, Tracks(f), Begins(f, b, l)
  PROVE  ProcessesAs(f, b, Older(engine), l)
  BY OlderFacts DEF Begins, Tracks, ProcessesAs, IInv, TypeOK, Witnessed

LEMMA TaskDoneProcesses ==
  ASSUME IInv, TaskDone, pending # None
  PROVE  \E e : ProcessesAs(pending, a, e, latch)
  <1> DEFINE e == IF In("raised") THEN DeliveryFailed(engine) ELSE engine
  <1>1. Process(pending, a, e, latch) /\ UNCHANGED tracker
    BY DEF TaskDone
  <1>2. Narrower(e, engine)
    <2>1. Narrower(engine, engine)
      BY DEF Narrower, IInv, TypeOK
    <2> QED
      BY <2>1, DeliveryFailedFacts DEF IInv, TypeOK
  <1>3. /\ ~engine.unloaded /\ tracker' \in Tracker /\ Identified(tracker)'
        /\ Reports(pending, tracker') /\ (~pending.old => SeenOff(pending.on))
    BY <1>1 DEF IInv, TypeOK, Agree, Waits, Witnessed
  <1> QED
    BY <1>1, <1>2, <1>3 DEF ProcessesAs

LEMMA ProcessedFacts ==
  ASSUME IInv, NEW f \in Frame, NEW b \in Authority, NEW e, NEW l, ProcessesAs(f, b, e, l)
  PROVE  /\ Assesses(engine', e, f)
         /\ tracker'.confirmed /\ engine'.epoch # None => a'.outage.active
  <1>1. e \in Engine /\ ~e.unloaded
    BY DEF ProcessesAs, Narrower
  <1> QED
    BY <1>1, FreshTokenIsToken, ProcessFacts DEF ProcessesAs

Verifies ==
  engine.attempt # None /\ engine.verified # engine.attempt.load
    /\ engine'.verified = engine.attempt.load

LEMMA ProcessVerifiesReal ==
  ASSUME IInv, NEW f \in Frame, NEW b \in Authority, NEW e, NEW l, ProcessesAs(f, b, e, l), Verifies
  PROVE  proven
  <1>1. Narrower(e, engine) /\ Assesses(engine', e, f) /\ (~f.old => SeenOff(f.on))
    BY ProcessedFacts DEF ProcessesAs
  <1>2. engine'.verified \notin {e.verified, None}
    BY <1>1, SafetyAssumption DEF Verifies, Narrower, IInv, TypeOK, Engine
  <1>3. e.attempt # None /\ e.attempt.load = engine.attempt.load
    BY <1>1, <1>2 DEF Assesses, Verifies, Narrower
  <1> QED
    BY <1>1, <1>2, <1>3 DEF Assesses, Verifies, SeenOff
\* A delivery that is not over, and a frame that is not processed, verify nothing.
LEMMA DeliveryVerifiesNothing ==
  ASSUME IInv, Reserves \/ Sends \/ Refused \/ AcceptedBy \/ Ambiguous
  PROVE  engine'.verified = engine.verified
  <1>1. CASE Reserves \/ Sends
    BY <1>1 DEF Reserves, Sends
  <1>2. CASE Refused
    <2>1. engine' \in {DeliveryFailed(engine), Rejected(engine, task.load)}
      BY <1>2 DEF Refused, Records
    <2> QED
      BY <2>1, DeliveryFailedFacts, RejectedFacts DEF IInv, TypeOK, Narrower
  <1>3. CASE AcceptedBy
    <2>1. engine' = Accepted(engine, task.load) /\ task.load \in Loads
      BY <1>3 DEF AcceptedBy, In, Records, IInv, TypeOK, Task
    <2>2. CASE engine.unloaded
      BY <2>1, <2>2 DEF Accepted
    <2>3. CASE ~engine.unloaded
      BY <2>1, <2>3, AcceptedFacts DEF IInv, TypeOK
    <2> QED
      BY <2>2, <2>3
  <1>4. CASE Ambiguous
    <2>1. engine' \in {DeliveryFailed(engine), engine}
      BY <1>4 DEF Ambiguous, Records
    <2> QED
      BY <2>1, DeliveryFailedFacts DEF IInv, TypeOK, Narrower
  <1> QED
    BY <1>1, <1>2, <1>3, <1>4

LEMMA SnapshotVerifiesReal ==
  ASSUME IInv, Snapshot, Verifies
  PROVE  proven
  <1>1. PICK f \in Frame, b \in Authority, l \in BOOLEAN \cup {None} :
          Tracks(f) /\ SeesAs(b) /\ (Ends(b) \/ Waiting(f, b, l) \/ Begins(f, b, l))
    BY SnapshotCases
  <1>2. ~Ends(b)
    BY DEF Ends, Verifies
  <1>3. ~Waiting(f, b, l)
    BY OlderFacts DEF Waiting, Verifies, Narrower, IInv, TypeOK
  <1>4. ProcessesAs(f, b, Older(engine), l)
    BY <1>1, <1>2, <1>3, BeginsProcesses
  <1> QED
    BY <1>4, ProcessVerifiesReal

LEMMA TaskDoneVerifiesReal ==
  ASSUME IInv, TaskDone, Verifies
  PROVE  proven
  <1>1. pending # None
    <2> SUFFICES ASSUME pending = None PROVE FALSE
      OBVIOUS
    <2>1. engine' \in {DeliveryFailed(engine), engine}
      BY DEF TaskDone
    <2> QED
      BY <2>1, DeliveryFailedFacts DEF Verifies, Narrower, IInv, TypeOK
  <1>2. PICK e : ProcessesAs(pending, a, e, latch)
    BY <1>1, TaskDoneProcesses
  <1>3. pending \in Frame /\ a \in Authority
    BY <1>1 DEF IInv, TypeOK
  <1> QED
    BY <1>2, <1>3, ProcessVerifiesReal

\* A reduction is taken for verified only if its load was off at a time since it was
\* accepted: not by a frame from before the acceptance, and not for another load (_verify).
THEOREM VerifiedReductionsAreReal == Spec => VerifiedIsReal
  <1>1. ASSUME IInv, [Next]_vars, Verifies PROVE proven
    <2>1. engine'.verified # engine.verified
      BY <1>1 DEF Verifies
    <2>2. CASE Snapshot
      BY <1>1, <2>2, SnapshotVerifiesReal
    <2>3. CASE OrchestrationFailed
      BY <1>1, <2>1, <2>3, FailClosedFacts DEF OrchestrationFailed, Narrower, IInv, TypeOK
    <2>4. CASE Delivery
      BY <1>1, <2>1, <2>4, DeliveryVerifiesNothing, TaskDoneVerifiesReal DEF Delivery
    <2>5. CASE Gate
      <3>1. engine.gate # (~engine.gate) /\ (~engine.gate) \in BOOLEAN
        BY <1>1 DEF IInv, TypeOK, Engine
      <3>2. Narrower(engine', engine)
        BY <1>1, <2>5, <3>1, GateFacts DEF Gate, IInv, TypeOK
      <3> QED
        BY <2>1, <3>2 DEF Narrower
    <2>6. CASE Unload
      BY <1>1, <2>1, <2>6, UnloadEngineFacts DEF Unload, IInv, TypeOK
    <2>7. CASE Effect \/ Outsider \/ Authorities \/ UNCHANGED vars
      BY <2>1, <2>7 DEF Effect, Vanishes, Arrives, Outsider, Authorities, vars
    <2> QED
      BY <1>1, <2>2, <2>3, <2>4, <2>5, <2>6, <2>7 DEF Next
  <1>2. IInv /\ [Next]_vars =>
          [(engine.attempt # None /\ engine.verified # engine.attempt.load
              /\ engine'.verified = engine.attempt.load) => proven]_vars
    BY <1>1 DEF Verifies
  <1> QED
    BY <1>2, Inductive, PTL DEF Spec, VerifiedIsReal

-----------------------------------------------------------------------------
\* The domain ends with this step although the tracker has the outage confirmed still.
EndsEarly == a.outage.active /\ ~a'.outage.active /\ tracker'.confirmed /\ ~engine'.unloaded

LEMMA ProcessKeepsDomain ==
  ASSUME IInv, NEW f \in Frame, NEW b \in Authority, NEW e, NEW l, ProcessesAs(f, b, e, l),
         EndsEarly
  PROVE  FALSE
  <1>1. /\ Narrower(e, engine) /\ Assesses(engine', e, f) /\ engine'.epoch = None
        /\ Reports(f, tracker') /\ Identified(tracker)' /\ tracker' \in Tracker
    BY ProcessedFacts DEF ProcessesAs, EndsEarly
  <1>2. e.epoch # None
    BY <1>1 DEF EndsEarly, Narrower, IInv, Agree
  <1>3. f.outage = "CONFIRMED_OUTAGE" \/ f.outage = "UNKNOWN"
    BY DEF ProcessesAs, EndsEarly, Reports
  <1>4. f.outage = "CONFIRMED_OUTAGE" => f.id \in EpochId
    BY <1>1, EpochAssumption DEF Reports, Identified, EpochId, Tracker
  <1> QED
    BY <1>1, <1>2, <1>3, <1>4, EpochAssumption DEF Assesses

LEMMA SnapshotKeepsDomain ==
  ASSUME IInv, Snapshot, EndsEarly
  PROVE  FALSE
  <1>1. PICK f \in Frame, b \in Authority, l \in BOOLEAN \cup {None} :
          Tracks(f) /\ SeesAs(b) /\ (Ends(b) \/ Waiting(f, b, l) \/ Begins(f, b, l))
    BY SnapshotCases
  <1>2. CASE Ends(b)
    BY <1>2 DEF Ends, EndsEarly
  <1>3. CASE Waiting(f, b, l)
    <2>1. f.outage # "ON_GRID"
      BY <1>1 DEF Tracks, Reports, EndsEarly
    <2>2. FramedAs(a', b, b.outage.active)
      BY <1>3, <2>1, BeginFrameFacts DEF Waiting
    <2> QED
      BY <1>1, <2>2 DEF FramedAs, SeesAs, SameLocks, EndsEarly
  <1>4. CASE Begins(f, b, l)
    BY <1>1, <1>4, BeginsProcesses, ProcessKeepsDomain
  <1> QED
    BY <1>1, <1>2, <1>3, <1>4

LEMMA DeliveryKeepsDomain ==
  ASSUME IInv, Delivery, EndsEarly
  PROVE  FALSE
  <1>1. CASE Reserves \/ Sends \/ Refused
    <2>1. a'.outage = a.outage
      <3>1. CASE Reserves
        BY <3>1 DEF Reserves, Reserve, IInv, TypeOK, Authority
      <3>2. CASE Sends
        BY <3>2 DEF Sends, StartDispatch, IInv, TypeOK, Authority
      <3>3. CASE Refused
        BY <3>3 DEF Refused, Cancel, IInv, TypeOK, Authority
      <3> QED
        BY <1>1, <3>1, <3>2, <3>3
    <2> QED
      BY <2>1 DEF EndsEarly
  <1>2. CASE AcceptedBy \/ Ambiguous
    BY <1>2 DEF AcceptedBy, Ambiguous, EndsEarly
  <1>3. CASE TaskDone
    <2>1. pending # None
      BY <1>3 DEF TaskDone, EndsEarly
    <2>2. PICK e : ProcessesAs(pending, a, e, latch)
      BY <1>3, <2>1, TaskDoneProcesses
    <2>3. pending \in Frame /\ a \in Authority
      BY <2>1 DEF IInv, TypeOK
    <2> QED
      BY <2>2, <2>3, ProcessKeepsDomain
  <1> QED
    BY <1>1, <1>2, <1>3 DEF Delivery

\* The outage domain, which locks automatic drivers out, ends only with the outage or with
\* the runtime: neither missing evidence nor a failure nor the gate ends it.
THEOREM DomainEndsWithOutage == Spec => DomainEndsOnlyByReturn
  <1>1. ASSUME IInv, [Next]_vars, EndsEarly PROVE FALSE
    <2>1. a \in Authority /\ engine \in Engine
      BY <1>1 DEF IInv, TypeOK
    <2>2. CASE Snapshot
      BY <1>1, <2>2, SnapshotKeepsDomain
    <2>3. CASE OrchestrationFailed
      BY <1>1, <2>1, <2>3, BeginFrameFacts DEF OrchestrationFailed, FramedAs, EndsEarly
    <2>4. CASE Delivery
      BY <1>1, <2>4, DeliveryKeepsDomain
    <2>5. CASE Gate
      <3>1. a.outage.gate # (~engine.gate) /\ (~engine.gate) \in BOOLEAN
        BY <1>1, <2>1, <2>5 DEF Gate, IInv, Agree, Engine
      <3>2. FramedAs(a', [a EXCEPT !.outage.gate = ~engine.gate], a.outage.active)
        BY <2>1, <2>5, <3>1, GateTurns DEF Gate
      <3> QED
        BY <1>1, <3>2, Zenon DEF FramedAs, EndsEarly
    <2>6. CASE Unload
      BY <1>1, <2>1, <2>6, UnloadEngineFacts DEF Unload, EndsEarly
    <2>7. CASE Authorities
      <3>1. a'.outage = a.outage
        <4>1. CASE a' = ResolveMaintenance(a, IF a.maintenance = "on" THEN "off" ELSE "on")
          BY <2>1, <4>1, MaintenanceFacts DEF SameLocks
        <4>2. CASE a' = SetSuppressed(a, "pool", "pool" \notin a.suppressed)
          <5>1. SuppressedAs(a', a, "pool", "pool" \notin a.suppressed)
            BY <2>1, <4>2, SuppressedFacts DEF Bodies
          <5> QED
            BY <5>1, Zenon DEF SuppressedAs
        <4> QED
          BY <2>7, <4>1, <4>2 DEF Authorities
      <3> QED
        BY <1>1, <3>1 DEF EndsEarly
    <2>8. CASE Effect \/ Outsider \/ UNCHANGED vars
      BY <1>1, <2>8 DEF Effect, Vanishes, Arrives, Outsider, EndsEarly, vars
    <2> QED
      BY <1>1, <2>2, <2>3, <2>4, <2>5, <2>6, <2>7, <2>8 DEF Next
  <1>2. IInv /\ [Next]_vars =>
          [(a.outage.active /\ ~a'.outage.active) => (~tracker'.confirmed \/ engine'.unloaded)]_vars
    BY <1>1 DEF EndsEarly
  <1> QED
    BY <1>2, Inductive, PTL DEF Spec, DomainEndsOnlyByReturn
=============================================================================
