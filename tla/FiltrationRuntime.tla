------------------------- MODULE FiltrationRuntime -------------------------
(***************************************************************************)
(* Automatic filtration in its runtime: the observers of one snapshot, the *)
(* one execution task, the physical gateway and its filtration context,    *)
(* the thermal driver that shares the circulation registry, the operator,  *)
(* and the water (custom_components/poolos/filtration_automatic_runtime,   *)
(* the filtration part of physical_command_authority).  All of it runs on  *)
(* one event loop: an action is what happens between two awaits.           *)
(*                                                                         *)
(* Epochs are names: a snapshot takes one that nothing refers to.  Time is *)
(* the time of snapshots; it stops at MaxTime, snapshots do not.  The      *)
(* registry is reg of PoolCirculation; the calls of thermal are its        *)
(* actions, those of filtration are made by FiltrationDriver, several in   *)
(* one step.                                                               *)
(***************************************************************************)
EXTENDS FiltrationDriver, PoolCirculation

CONSTANT Environments   \* what may disturb a behaviour: it picks one of these sets

ASSUME RuntimeAssumption ==
  Environments \subseteq
    SUBSET {"unusable", "hard", "stale", "circuit", "operator", "switch", "suppress",
            "thermal", "return", "drift", "spa", "lost", "orchestration", "sanitation",
            "unload", "restart", "idle", "lazy"}

\* There is always a name that is not in use.
ASSUME NamesAssumption ==
  /\ \A used \in SUBSET Epochs :
       IsFiniteSet(used) /\ Cardinality(used) <= 7 => Epochs \ used # {}
  /\ \A s1, s2, s3, s4 \in Sessions \cup {None} : Sessions \ {s1, s2, s3, s4} # {}

VARIABLES
  disturbances, \* the environment of this behaviour
  now,          \* time of the latest snapshot
  plant,        \* [body, speed]: where the water goes, the configured pump speed
  suppressed,   \* the operator's restraint of automatic Pool control
  drv,          \* FiltrationAutomaticExecutionDriver
  auth,         \* the authority's filtration fences: loaded, gate, epoch, context
  task,         \* the execution task, None when idle
  latest        \* _latest_frame, and _latest_material_signature while a task can read it

vars == <<disturbances, now, plant, suppressed, reg, drv, auth, task, latest>>

Plant == [body : {"pool", "spa", "none"}, speed : {"target", "other"}]

\* What a dispatch context binds that later checks read again.
Context == [session : Sessions, circuit : Circuits, generation : Nat, adopted : BOOLEAN]

Authority == [loaded : BOOLEAN, gate : BOOLEAN, epoch : Epochs \cup {None},
              context : Context \cup {None}]

Task == [stage : {"scheduled", "queued", "sent", "done", "raised"},
         step : Steps \cup {None}, frame : Frame]

ASSUME TaskAssumption == None \notin Context /\ None \notin Task

TypeOK ==
  /\ disturbances \in Environments
  /\ now \in 0..MaxTime
  /\ plant \in Plant
  /\ suppressed \in BOOLEAN
  /\ reg \in Registry
  /\ drv \in Driver
  /\ auth \in Authority
  /\ task \in Task \cup {None}
  /\ latest # None => latest.frame \in Frame

Init ==
  /\ disturbances \in Environments
  /\ now = 0
  /\ plant \in [body : {"none", "pool"}, speed : {"other"}]
  /\ suppressed = FALSE
  /\ reg = EmptyRegistry
  /\ \E armed \in IF "restart" \in disturbances THEN BOOLEAN ELSE {FALSE} :
       drv = NewDriver(armed)
  /\ auth = [loaded |-> TRUE, gate |-> FALSE, epoch |-> None, context |-> None]
  /\ task = None
  /\ latest = None

-----------------------------------------------------------------------------
(***************************************************************************)
(* Names.  An epoch nothing refers to is as good as a new one.             *)
(***************************************************************************)
EpochsInUse ==
  {reg.epoch, reg.reserved, auth.epoch, drv.after}
    \cup (IF drv.last = None THEN {} ELSE {drv.last.epoch})
    \cup (IF task = None THEN {} ELSE {task.frame.epoch})
    \cup (IF latest = None THEN {} ELSE {latest.frame.epoch})

FreshEpoch == CHOOSE e \in Epochs : e \notin EpochsInUse

SessionsInUse ==
  {drv.session}
    \cup (IF auth.context = None THEN {} ELSE {auth.context.session})
    \cup (IF reg.lease = None THEN {} ELSE {reg.lease.session, reg.lease.body_session.id})

FreshSession == CHOOSE s \in Sessions : s \notin SessionsInUse

-----------------------------------------------------------------------------
(***************************************************************************)
(* The authority's fences.  Whatever invalidates a context, or begins a    *)
(* new epoch, makes the queued command stale for good.                     *)
(***************************************************************************)
BeginAuthorityEpoch_M(a, e) ==   \* mutant: the context survives its epoch
  IF e = a.epoch THEN a ELSE [a EXCEPT !.epoch = e]

BeginAuthorityEpoch(a, e) ==
  IF e = a.epoch THEN a ELSE [a EXCEPT !.epoch = e, !.context = None]

Invalidated(a) == [a EXCEPT !.epoch = None, !.context = None]

ConfigureGate(a, on) ==
  IF a.gate = on THEN a ELSE [Invalidated(a) EXCEPT !.gate = on]

UnloadAuthority(a) == [Invalidated(a) EXCEPT !.loaded = FALSE, !.gate = FALSE]

\* for_operation and bind_automatic_filtration_dispatch
Bound(a, r, d, f) ==
  [a EXCEPT !.context =
     [session    |-> d.session,
      circuit    |-> f.circuit,
      generation |-> IF r.lease = None THEN 0 ELSE r.lease.generation,
      adopted    |-> r.lease # None /\ AdoptionOnly(r.lease)]]

CleanupCurrent_M(r, c) ==   \* mutant: only what was verified in full is cleaned up
  r.lease # None /\ r.lease.verified /\ r.lease.session = c.session

\* _cleanup_current, the last look at ownership before Pool is stopped.
CleanupCurrent(r, c) ==
  /\ r.lease # None
  /\ r.lease.body_verified
  /\ r.lease.generation = c.generation
  /\ r.lease.session = c.session
  /\ r.lease.circuit = c.circuit
  /\ AdoptionOnly(r.lease) = c.adopted
  /\ FiltrationMayDeliver(r, latest.frame.epoch, c.session)
  /\ DomainBlocker(r, "BODY") = "none"

\* assess and _automatic_filtration_reason, under the command lock.
MayDispatch(step) ==
  /\ auth.loaded
  /\ auth.context # None
  /\ ~suppressed
  /\ step # "BODY_OFF" => auth.gate
  /\ step = "BODY_OFF" => CleanupCurrent(reg, auth.context)
  /\ DomainBlocker(reg, DomainOfStep(step)) = "none"

\* No new lease once the generations of this instance are used up.
Bounded == reg.lease = None => reg.generation < MaxGeneration

(***************************************************************************)
(* _material_authority_signature: what, if it changes while a command is   *)
(* queued, takes its admission away.  The pump's motion is not in it, nor  *)
(* Pool activity while a Body On is pending.                               *)
(***************************************************************************)
Signature(f, r, pending) ==
  LET l == r.lease
  IN <<f.ready, f.usable, f.circuit, f.candidate, f.thermal, f.suppressed, f.immediate,
       IF pending THEN "pending" ELSE f.body, f.speed, r.owner,
       IF l = None THEN None
       ELSE <<l.generation, l.session, l.circuit, l.established_at, l.body_activation,
              l.body_adopted, l.body_verified, l.pump_setpoint, l.body_session,
              [d \in Domains |->
                 LET s == DomainOf(l, d)
                 IN <<s.authority, PermissionDenial(s, FALSE), s.blocker, s.requested_at>>]>>>>

BodyOnPending == task # None /\ task.step = "BODY_ON"

-----------------------------------------------------------------------------
(***************************************************************************)
(* A snapshot: the thermal observer begins the epoch and may reserve it,   *)
(* then the filtration observer publishes a disabled frame or schedules    *)
(* the task.                                                               *)
(***************************************************************************)
Among(name, values, calm) == IF name \in disturbances THEN values ELSE {calm}

SampleAgain(f, stale) ==
  IF stale THEN [f EXCEPT !.body = latest.frame.body, !.speed = latest.frame.speed,
                          !.seen = latest.frame.seen]
  ELSE f

Observe1(f, r) ==
  LET signature == Signature(f, r, BodyOnPending)
      revoked   == task = None \/ latest = None \/ latest.signature # signature
      disabled  == ~drv.enabled /\ r.lease = None
  IN /\ auth' = IF revoked THEN BeginAuthorityEpoch(auth, f.epoch) ELSE auth
     /\ drv' = IF disabled THEN Processed(drv, f) ELSE drv
     /\ task' = IF task = None /\ ~disabled
                THEN [stage |-> "scheduled", step |-> None, frame |-> f] ELSE task
     /\ latest' = [frame |-> f, signature |-> IF task' = None THEN None ELSE signature]

Snapshot(immediate, ready, usable, stale, circuit, reserve) ==
  LET e  == FreshEpoch
      at == IF now < MaxTime THEN now + 1 ELSE now
      r0 == BeginEpoch(reg, e)
      r1 == IF reserve THEN ReserveThermal(r0, e) ELSE r0
      f  == [epoch |-> e, at |-> at, seen |-> at, ready |-> ready, usable |-> usable,
             body |-> plant.body, speed |-> plant.speed, circuit |-> circuit,
             immediate |-> immediate, candidate |-> ThermalReservedFor(r1, e),
             thermal |-> r1.owner = "THERMAL", suppressed |-> suppressed]
  IN /\ ~drv.unloaded
     /\ stale => latest # None
     /\ now' = at
     /\ reg' = r1
     /\ Observe1(SampleAgain(f, stale), r1)
     /\ UNCHANGED <<disturbances, plant, suppressed>>

SomeSnapshot ==
  \E immediate \in Among("idle", BOOLEAN, TRUE), ready \in Among("hard", BOOLEAN, TRUE),
     usable \in Among("unusable", {"all", "pool", "none"}, "all"),
     stale \in Among("stale", BOOLEAN, FALSE),
     circuit \in Among("circuit", Circuits \cup {None}, CHOOSE c \in Circuits : TRUE),
     reserve \in Among("thermal", BOOLEAN, FALSE) :
    Snapshot(immediate, ready, usable, stale, circuit, reserve)

-----------------------------------------------------------------------------
(***************************************************************************)
(* The execution task.                                                     *)
(***************************************************************************)
Staged(stage) == task # None /\ task.stage = stage

\* A result of the driver ends the task or leaves a command queued.
Follows(result) ==
  /\ reg' = result.reg
  /\ drv' = result.drv
  /\ IF result.next \in Steps
     THEN /\ task' = [task EXCEPT !.stage = "queued", !.step = result.next]
          /\ auth' = Bound(auth, result.reg, result.drv, task.frame)
          \* _command_admitted freezes the signature of the admitted frame
          /\ latest' = [latest EXCEPT !.signature =
                          Signature(task.frame, result.reg, result.next = "BODY_ON")]
     ELSE /\ task' = [task EXCEPT !.stage = result.next]
          /\ UNCHANGED <<auth, latest>>

TaskStarts ==
  /\ Staged("scheduled")
  /\ Follows(ProcessEpoch(reg, drv, task.frame, FreshSession, auth.epoch))
  /\ UNCHANGED <<disturbances, now, plant, suppressed>>

Effect(step) ==
  CASE step = "BODY_ON"       -> [plant EXCEPT !.body = "pool"]
    [] step = "BODY_OFF"      -> [plant EXCEPT !.body = IF @ = "pool" THEN "none" ELSE @]
    [] step = "PUMP_SETPOINT" -> [plant EXCEPT !.speed = "target"]

\* The controller acts on what it is sent, or the command is lost.
GatewaySends ==
  /\ Staged("queued")
  /\ MayDispatch(task.step) /\ Bounded
  /\ task' = [task EXCEPT !.stage = "sent"]
  /\ plant' \in {Effect(task.step)} \cup Among("lost", {plant}, Effect(task.step))
  /\ UNCHANGED <<disturbances, now, suppressed, reg, drv, auth, latest>>

Resumes(outcome) ==
  /\ \E receipt \in Receipts :
       Follows(Delivered(reg, drv, task.frame, task.step, outcome, receipt))
  /\ UNCHANGED <<disturbances, now, plant, suppressed>>

\* Any other fence may refuse as well: maintenance, outage, the connection.
GatewayRefuses ==
  /\ Staged("queued")
  /\ ~(MayDispatch(task.step) /\ Bounded) \/ "hard" \in disturbances
  /\ Resumes("not_dispatched")

Reply == Staged("sent") /\ \E o \in {"accepted"} \cup Among("lost", {"failed"}, "accepted") :
                              Resumes(o)

Outdated_M(d) ==   \* mutant: only an attempt asks for another look
  d.attempt # None /\ latest.frame.epoch # d.last.epoch

\* The driver has not processed the latest frame.
Outdated(d) == d.last # None => latest.frame.epoch # d.last.epoch

TaskDone ==
  LET failed == IF task.stage = "raised" THEN FailClosed(reg, drv) ELSE Done(reg, drv)
      again  == ~failed.drv.unloaded /\ Outdated(failed.drv)
  IN /\ Staged("done") \/ Staged("raised")
     /\ reg' = failed.reg
     /\ drv' = failed.drv
     /\ task' = IF again THEN [stage |-> "scheduled", step |-> None, frame |-> latest.frame]
                ELSE None
     /\ auth' = IF again THEN BeginAuthorityEpoch(auth, latest.frame.epoch) ELSE auth
     /\ latest' = IF again THEN latest ELSE [latest EXCEPT !.signature = None]
     /\ UNCHANGED <<disturbances, now, plant, suppressed>>

-----------------------------------------------------------------------------
(***************************************************************************)
(* The operator.                                                           *)
(***************************************************************************)
Switch(on) ==
  /\ ~drv.unloaded
  /\ on # drv.enabled
  /\ ~on => "switch" \in disturbances
  /\ drv' = SetEnabled(drv, on, IF latest = None THEN None ELSE latest.frame.epoch)
  /\ auth' = ConfigureGate(auth, on)
  /\ UNCHANGED <<disturbances, now, plant, suppressed, reg, task, latest>>

\* _record_operator_request of the thermal runtime, called by every manual command.
Told(domain) ==
  IF reg.lease # None /\ MayRecordOperatorIntent(reg, domain, reg.lease.body_session, now, now)
  THEN RecordOperatorIntent(reg, domain, now) ELSE reg

OperatorSetsPump ==
  /\ "operator" \in disturbances
  /\ ~drv.unloaded
  /\ plant' = [plant EXCEPT !.speed = "other"]
  /\ reg' = Told("PUMP")
  /\ UNCHANGED <<disturbances, now, suppressed, drv, auth, task, latest>>

\* A manual Pool Off restrains automatic control before it is delivered.
OperatorStopsPool ==
  /\ "suppress" \in disturbances
  /\ ~drv.unloaded /\ ~suppressed
  /\ suppressed' = TRUE
  /\ reg' = Told("BODY")
  /\ plant' \in {plant, [plant EXCEPT !.body = IF @ = "pool" THEN "none" ELSE @]}
  /\ UNCHANGED <<disturbances, now, drv, auth, task, latest>>

OperatorLiftsRestraint ==
  /\ suppressed
  /\ suppressed' = FALSE
  /\ UNCHANGED <<disturbances, now, plant, reg, drv, auth, task, latest>>

-----------------------------------------------------------------------------
(***************************************************************************)
(* Everything else that happens to the registry, the fences and the water. *)
(***************************************************************************)
PlantChanges ==
  /\ \/ "drift" \in disturbances /\ plant' \in {[plant EXCEPT !.speed = "other"],
                                                [plant EXCEPT !.body = "none"]}
     \/ "spa" \in disturbances /\ plant' \in {[plant EXCEPT !.body = "spa"],
                                              [plant EXCEPT !.body = "none"]}
  /\ UNCHANGED <<disturbances, now, suppressed, reg, drv, auth, task, latest>>

\* The thermal driver's calls, at the awaits of its own task.
ThermalHandsOver ==
  \/ \E p \in Purposes : HandoffBegins(p, now)
  \/ \E t \in ThermalLeases : HandoffCompletes(t)
  \/ HandoffCancelled \/ HandoffInvalidated

ThermalTakes ==
  \E t \in ThermalLeases : (reg.reserved # None /\ ThermalOwns(t)) \/ ThermalReleases(t)

ThermalGivesBack ==
  /\ "return" \in disturbances
  /\ \E receipt \in Receipts, c \in Circuits :
       ThermalReturns(FreshSession, c, now, receipt, receipt, None)

ThermalActs ==
  /\ "thermal" \in disturbances
  /\ ~drv.unloaded
  /\ ThermalHandsOver \/ ThermalTakes \/ ThermalGivesBack
  /\ UNCHANGED <<disturbances, now, plant, suppressed, drv, auth, task, latest>>

OrchestrationFails ==
  LET failed == FailClosed(reg, drv)
  IN /\ "orchestration" \in disturbances
     /\ ~drv.unloaded
     /\ auth' = BeginAuthorityEpoch(auth, FreshEpoch)
     /\ reg' = failed.reg
     /\ drv' = failed.drv
     /\ UNCHANGED <<disturbances, now, plant, suppressed, task, latest>>

\* sanitation_authority_boundary_changed takes the lease, not the driver's state.
SanitationBoundary ==
  /\ "sanitation" \in disturbances
  /\ reg.lease # None
  /\ reg' = Released(reg)
  /\ auth' \in {auth, BeginAuthorityEpoch(auth, FreshEpoch)}
  /\ UNCHANGED <<disturbances, now, plant, suppressed, drv, task, latest>>

Unload ==
  /\ "unload" \in disturbances
  /\ ~drv.unloaded
  /\ auth' = UnloadAuthority(auth)
  /\ drv' = UnloadDriver(drv)
  /\ RegistryUnloads
  /\ UNCHANGED <<disturbances, now, plant, suppressed, task, latest>>

TaskSteps == TaskStarts \/ GatewaySends \/ GatewayRefuses \/ Reply \/ TaskDone

\* async_create_task starts the task at once, or, "lazy", in a later turn.
Turn == ~Staged("scheduled") \/ "lazy" \in disturbances

Next ==
  \/ TaskSteps \/ ThermalActs
  \/ /\ Turn
     /\ \/ SomeSnapshot
        \/ \E on \in BOOLEAN : Switch(on)
        \/ OperatorSetsPump \/ OperatorStopsPool \/ OperatorLiftsRestraint
        \/ PlantChanges \/ OrchestrationFails \/ SanitationBoundary \/ Unload

Spec == Init /\ [][Next]_vars

(***************************************************************************)
(* The native source is polled, so snapshots keep coming; the event loop   *)
(* runs a task that is ready; a transport call returns or times out.       *)
(* Nothing is assumed of the operator, of thermal or of the water.         *)
(***************************************************************************)
Fairness == WF_vars(Turn /\ SomeSnapshot) /\ WF_vars(TaskSteps)

FairSpec == Spec /\ Fairness

-----------------------------------------------------------------------------
Dispatches == Staged("queued") /\ Staged("sent")'

(***************************************************************************)
(* A command that was queued while filtration was entitled to it is sent   *)
(* only if filtration is entitled still: no fault awaits the operator and, *)
(* where tasks start at once, thermal neither owns the circulation nor     *)
(* reserved the snapshot last published.  The gateway looks at none of     *)
(* that for a Body On or a speed: it rests on the context being withdrawn  *)
(* in time.  A task that starts in a later turn may bind a frame older     *)
(* than the reservation, which then does not withdraw it.                  *)
(***************************************************************************)
DispatchIsEntitled ==
  [][Dispatches =>
       /\ ~drv.reenable
       /\ "lazy" \notin disturbances
            => /\ reg.owner \in {"NONE", "FILTRATION_ACQUIRING", "FILTRATION"}
               /\ ~ThermalReservedFor(reg, latest.frame.epoch)]_vars

(***************************************************************************)
(* Filtration never sends a command while an earlier one is unverified,    *)
(* whatever is published, failed closed or restarted in between.           *)
(***************************************************************************)
OneCommandAtATime == [][Dispatches => drv.attempt = None]_vars

(***************************************************************************)
(* No lost wake-up: with no task, the driver has processed the snapshot    *)
(* published last, although snapshots that arrive during a task only       *)
(* replace the latest frame (observe, _schedule_if_idle, _task_done).      *)
(***************************************************************************)
IdleMeansCurrent ==
  task = None /\ latest # None /\ ~drv.unloaded
    => drv.last # None /\ drv.last.epoch = latest.frame.epoch

(***************************************************************************)
(* Once unloaded, nothing is owned again, although a command may be on its *)
(* way and its acceptance is still to be recorded.                         *)
(***************************************************************************)
UnloadIsFinal == drv.unloaded => reg.lease = None /\ reg.owner = "NONE"

(***************************************************************************)
(* A fault that waits for the operator is lifted by turning filtration on  *)
(* again, in particular not by the end of a delivery that was under way    *)
(* when it happened.  There is one exception: a delivery that ends in      *)
(* failure when thermal has meanwhile given back a lease the driver holds  *)
(* no session of: _fail keeps that lease and lifts the fault with it.      *)
(***************************************************************************)
ForeignLease ==
  /\ reg.lease # None
  /\ reg.lease.body_verified
  /\ drv.session # reg.lease.session

ReenableIsTheOperators ==
  [][drv.reenable /\ ~drv'.reenable
       => \/ ~drv.enabled /\ drv'.enabled
          \/ Staged("sent") /\ ForeignLease]_vars

(***************************************************************************)
(* What thermal owns is taken from it by thermal alone: no delivery,       *)
(* verification, failure or release of filtration, early or late, changes  *)
(* the owner.                                                              *)
(***************************************************************************)
ThermalIsUndisturbed ==
  [][reg.owner = "THERMAL" /\ TaskSteps
       => reg'.owner = "THERMAL" /\ reg'.thermal_lease = reg.thermal_lease]_vars

(***************************************************************************)
(* An accepted command does not stay unverified for ever: its deadline     *)
(* ends it (_verify_attempt), if the clock of this instance gets there.    *)
(***************************************************************************)
AttemptSettles ==
  drv.attempt # None /\ drv.attempt.deadline <= MaxTime ~> drv.attempt = None

\* The bounded clock, not the driver, keeps this attempt open.
OutOfTime == drv.attempt # None /\ drv.attempt.deadline > MaxTime

(***************************************************************************)
(* Circulation that is no longer due is stopped: filtration turned off for *)
(* good, or never due again, lets go of its lease.  It keeps one only if   *)
(* it may not stop the body: a Body Off failed, or was not verified in     *)
(* time, and BODY shows the fault, or BODY was yielded to the operator.    *)
(***************************************************************************)
NotDue == ~drv.enabled \/ (latest # None /\ ~latest.frame.immediate)

BodyIsBeyondReach ==
  /\ reg.lease # None
  /\ \/ DomainOf(reg.lease, "BODY").health = "FAULTED"
     \/ DomainOf(reg.lease, "BODY").authority = "OPERATOR"

CleanupEnds ==
  <>[](NotDue /\ ~suppressed) => []<>(reg.lease = None \/ BodyIsBeyondReach \/ OutOfTime)

(***************************************************************************)
(* Evidence that is back and stays back ends a suspension: it resumes the  *)
(* lease or invalidates it.                                                *)
(***************************************************************************)
SuspensionEnds ==
  <>[](latest # None /\ latest.frame.usable = "all")
    => []<>(reg.owner # "FILTRATION_SUSPENDED" \/ OutOfTime)
=============================================================================
