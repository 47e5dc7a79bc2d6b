-------------------------- MODULE FiltrationDriver --------------------------
(***************************************************************************)
(* The automatic filtration driver (poolos/filtration_automatic_execution) *)
(* as operators: what one process_epoch up to its first await, the rest of *)
(* _deliver after that await, and the failure paths make of the registry r *)
(* and the driver d, given a frame f.  A result [reg, drv, next] says what *)
(* follows: "done" (the coroutine returned), "raised" (an exception left   *)
(* it), "continue" (the caller goes on), or the step whose delivery it now *)
(* awaits.                                                                 *)
(*                                                                         *)
(* A frame keeps what the decisions read: ready (physical authority and    *)
(* grid), usable ("all" observations, only the "pool" one, or "none"), the *)
(* sampled body and configured speed and the time the sample was seen, the *)
(* circuit, immediate (filtration is due now), candidate (thermal reserved *)
(* this epoch), thermal (it is the owner), suppressed.  The shared pump    *)
(* turns at its configured speed while the water circulates through the    *)
(* Pool or the Spa, and stands still otherwise; no pump session is active. *)
(***************************************************************************)
EXTENDS CirculationRegistry

CONSTANT Timeout   \* verification_timeout, 45 seconds in the code

ASSUME TimeoutAssumption ==
  /\ Timeout \in Nat \ {0}
  /\ IsFiniteSet(Requests) /\ Cardinality(Requests) > Budget
  /\ Bindings # {} /\ Circuits # {}

Steps == {"BODY_ON", "PUMP_SETPOINT", "BODY_OFF"}

Attempt == [step : Steps, at : Nat, deadline : Nat]

Driver == [enabled  : BOOLEAN,                            \* requested_enabled
           session  : Sessions \cup {None},
           attempt  : Attempt \cup {None},
           after    : Epochs \cup {None},                 \* _enabled_after_epoch
           last     : [epoch : Epochs, at : Nat] \cup {None},
           reenable : BOOLEAN,                            \* _requires_reenable
           armed    : BOOLEAN,            \* _restart_recovery_adoption_armed
           unloaded : BOOLEAN]

ASSUME DriverAssumption == None \notin Attempt /\ None \notin [epoch : Epochs, at : Nat]

Frame == [epoch : Epochs, at : Nat, seen : Nat, ready : BOOLEAN,
          usable : {"all", "pool", "none"}, body : {"pool", "spa", "none"},
          speed : {"target", "other"}, circuit : Circuits \cup {None},
          immediate : BOOLEAN, candidate : BOOLEAN, thermal : BOOLEAN,
          suppressed : BOOLEAN]

NewDriver(armed) ==
  [enabled |-> FALSE, session |-> None, attempt |-> None, after |-> None, last |-> None,
   reenable |-> FALSE, armed |-> armed, unloaded |-> FALSE]

Result(r, d, next) == [reg |-> r, drv |-> d, next |-> next]
Done(r, d)     == Result(r, d, "done")
Raised(r, d)   == Result(r, d, "raised")
Continue(r, d) == Result(r, d, "continue")

Settled_M(d) == d   \* mutant: the attempt is not reset

Settled(d) == [d EXCEPT !.attempt = None]

Cleared(d) == [d EXCEPT !.session = None, !.attempt = None]

Attempting(d, step) == d.attempt # None /\ d.attempt.step = step

DomainOfStep(step) == IF step = "PUMP_SETPOINT" THEN "PUMP" ELSE "BODY"

\* release_filtration of whatever lease there is.
Released(r) == IF r.lease = None THEN r ELSE ReleaseFiltration(r, r.lease.session)

-----------------------------------------------------------------------------
(***************************************************************************)
(* Failure.  _fail keeps a lease whose body is verified, with the domain   *)
(* of the failed command faulted; everything else releases the lease and   *)
(* waits for the operator to re-enable.                                    *)
(***************************************************************************)
FailDomain_M(r, d, domain) ==   \* mutant: a failure that finds nothing to release is no fault
  IF r.lease # None /\ r.lease.body_verified
  THEN Done(UpdateDomain(r, domain, Faulted(DomainOf(r.lease, domain))),
            [Cleared(d) EXCEPT !.reenable = FALSE])
  ELSE Done(Released(r), [Cleared(d) EXCEPT !.reenable = r.lease # None])

FailDomain(r, d, domain) ==
  IF r.lease # None /\ r.lease.body_verified
  THEN Done(UpdateDomain(r, domain, Faulted(DomainOf(r.lease, domain))),
            [Cleared(d) EXCEPT !.reenable = FALSE])
  ELSE Done(Released(r), [Cleared(d) EXCEPT !.reenable = TRUE])

\* _fail(preempted=True), and a takeover of the lease.
Preempted(r, d) == Done(Released(r), [Cleared(d) EXCEPT !.reenable = TRUE])

FailClosed(r, d) == Preempted(r, d)

SetEnabled(d, on, epoch) ==
  LET opened == on /\ ~d.enabled
  IN [d EXCEPT !.enabled  = on,
               !.after    = IF opened THEN epoch ELSE @,
               !.reenable = @ /\ ~opened,
               !.armed    = @ /\ on]

UnloadDriver_M(d) == [d EXCEPT !.unloaded = TRUE, !.enabled = FALSE]   \* mutant: the session stays

UnloadDriver(d) == [Cleared(d) EXCEPT !.unloaded = TRUE, !.enabled = FALSE, !.armed = FALSE]

Processed_M(d, f) == [d EXCEPT !.last = f]   \* mutant: the whole frame is kept

Processed(d, f) == [d EXCEPT !.last = [epoch |-> f.epoch, at |-> f.at]]

-----------------------------------------------------------------------------
(***************************************************************************)
(* What a frame says.  Of _safety_blocker its callers tell apart only a    *)
(* loss of evidence (_transient_evidence_loss) from anything else.         *)
(***************************************************************************)
PoolSeenOn(f) == f.usable # "none" /\ f.body = "pool"

PoolSeenOff(f) == f.usable # "none" /\ f.body # "pool"

PumpMatches(f) == f.usable = "all" /\ f.body # "none" /\ f.speed = "target"

\* _clean_spa_takeover
SpaTakesOver(f) == f.usable = "all" /\ f.body = "spa"

SafetyBlocker(r, f, allow_pool_off) ==
  IF ~f.ready THEN "unsafe"
  ELSE IF f.usable # "all" \/ f.circuit = None THEN "lost"
  ELSE IF f.body = "spa" \/ (r.lease # None /\ f.body = "none" /\ ~allow_pool_off)
       THEN "unsafe"
  ELSE "none"

\* An accepted command is verified by a sample taken after it.
VerifiedBy(attempt, f) ==
  /\ f.seen > attempt.at
  /\ CASE attempt.step = "BODY_ON"       -> f.body = "pool"
       [] attempt.step = "BODY_OFF"      -> f.body = "none"
       [] attempt.step = "PUMP_SETPOINT" -> PumpMatches(f)

\* _observe_filtration_domains: the PUMP domain observes every frame.
ObserveDomains(r, d, f) ==
  LET sample == [at |-> f.at, seen |-> f.seen, usable |-> f.usable = "all",
                 matches |-> PumpMatches(f), expected |-> d.attempt # None,
                 operator |-> None, binding |-> CHOOSE b \in Bindings : TRUE]
  IN IF r.lease = None \/ r.lease.pump_setpoint = None THEN r
     ELSE UpdateDomain(r, "PUMP", Observe(DomainOf(r.lease, "PUMP"), sample))

-----------------------------------------------------------------------------
(***************************************************************************)
(* _deliver up to its await: permission, the correction budget of an open  *)
(* episode, arbitration, and the binding to the authority's current epoch, *)
(* which for a cleanup looks at the ownership it rests on.                 *)
(***************************************************************************)
MayBind(r, d, f, step, authority_epoch) ==
  /\ f.epoch = authority_epoch
  /\ f.circuit # None
  /\ step = "BODY_OFF" => /\ HoldsLease(r, d.session)
                          /\ r.lease.circuit = f.circuit
                          /\ r.lease.body_verified
                          /\ HasBodyOrigin(r.lease)

NewRequest(e) == CHOOSE q \in Requests : q \notin e.corrections

Charged(r, domain, at) ==
  LET state == DomainOf(r.lease, domain)
  IN IF r.lease = None \/ ~OpenEpisode(state) THEN r
     ELSE UpdateDomain(r, domain, Corrected(state, NewRequest(state.episode), at))

Deliver(r, d, f, step, authority_epoch) ==
  LET domain  == DomainOfStep(step)
      charged == IF r.lease = None THEN r ELSE Charged(r, domain, f.at)
      refused == charged # r /\ DomainOf(charged.lease, domain).health = "FAULTED"
  IN IF DomainBlocker(r, domain) # "none" THEN Done(r, d)
     ELSE IF /\ ~refused
             /\ FiltrationMayDeliver(charged, f.epoch, d.session)
             /\ MayBind(charged, d, f, step, authority_epoch)
          THEN Result(charged, d, step)
     ELSE Done(charged, d)

(***************************************************************************)
(* _deliver after its await, with the registry and driver of that moment:  *)
(* the session may have been cleared and the owner may have changed.       *)
(***************************************************************************)
Delivered(r, d, f, step, outcome, receipt) ==
  LET attempting == [d EXCEPT !.attempt = [step |-> step, at |-> f.at,
                                           deadline |-> f.at + Timeout]]
  IN IF outcome = "not_dispatched" THEN Done(r, d)
     ELSE IF outcome = "failed" THEN FailDomain(r, d, DomainOfStep(step))
     ELSE IF step = "BODY_OFF" THEN Done(r, attempting)
     ELSE IF /\ d.session = None
             /\ r.lease = None
             /\ r.owner \in {"NONE", "FILTRATION_ACQUIRING", "FILTRATION"}
          \* a lease without a session is refused after the generation advanced
          THEN Raised([r EXCEPT !.generation = @ + 1], d)
     ELSE IF d.session = None \/ ~MayRecordDelivery(r, d.session, f.circuit, f.at)
          THEN Raised(r, d)
     ELSE Done(RecordDelivery(r, d.session, f.circuit, f.at, DomainOfStep(step), receipt),
               attempting)

-----------------------------------------------------------------------------
(***************************************************************************)
(* The branches of process_epoch.                                          *)
(***************************************************************************)
\* _apply_manual_off_suppression
Restrained(r, d, f) ==
  IF r.lease = None \/ ~r.lease.verified \/ PoolSeenOff(f) THEN Done(Released(r), Cleared(d))
  ELSE IF MaySuspend(r, r.lease.session) THEN Done(Suspend(r), [d EXCEPT !.attempt = None])
  ELSE Raised(r, d)

Suspended(r) == r.lease # None /\ r.lease.body_verified /\ r.owner = "FILTRATION_SUSPENDED"

\* _recover_suspended; "continue" where it returns None.
Recovery(r, d, f) ==
  IF ~PoolSeenOn(f)
  THEN IF Attempting(d, "BODY_OFF") /\ ~(f.usable = "all" /\ VerifiedBy(d.attempt, f))
       THEN Done(r, d) ELSE Done(Released(r), Cleared(d))
  ELSE IF ~r.lease.verified THEN IF d.attempt = None THEN Continue(r, d) ELSE Done(r, d)
  ELSE IF ~PumpMatches(f) THEN Preempted(r, d)
  ELSE IF d.attempt = None THEN Continue(r, d)
  ELSE IF Attempting(d, "BODY_OFF") THEN Done(r, d)
  ELSE Preempted(r, d)

Expired(attempt, f) == f.at >= attempt.deadline

\* _verify_attempt; a cleared session fails its assertions.
VerifyAttempt(r, d, f, authority_epoch) ==
  LET step == d.attempt.step
      done == Settled(d)
  IN IF SafetyBlocker(r, f, step = "BODY_OFF") # "none" THEN Preempted(r, d)
     ELSE IF ~VerifiedBy(d.attempt, f)
     THEN IF Expired(d.attempt, f) THEN FailDomain(r, d, DomainOfStep(step)) ELSE Done(r, d)
     ELSE IF d.session = None THEN Raised(r, done)
     ELSE IF step = "BODY_OFF" THEN Done(ReleaseFiltration(r, d.session), Cleared(d))
     ELSE IF step = "PUMP_SETPOINT"
     THEN IF MayConfirm(r, d.session, f.at) THEN Done(Confirm(r, f.at), done) ELSE Raised(r, done)
     ELSE IF ~MayConfirmBody(r, d.session, f.at) THEN Raised(r, done)
     ELSE IF r.lease.verified THEN Done(ConfirmBody(r, f.at), done)
     ELSE Deliver(ConfirmBody(r, f.at), done, f, "PUMP_SETPOINT", authority_epoch)

\* No lease, and filtration is due: adopt after a restart, or start the body.
Acquire(r, d, f, adopt, fresh, authority_epoch) ==
  LET opened == [d EXCEPT !.session = fresh]
  IN IF ~d.enabled THEN Done(r, d)
     ELSE IF ~PoolSeenOn(f) THEN Deliver(r, opened, f, "BODY_ON", authority_epoch)
     ELSE IF ~adopt \/ f.candidate THEN Done(r, d)
     ELSE IF ~MayAdopt(r) THEN Raised(r, opened)
     ELSE Deliver(AdoptFiltrationBody(r, fresh, f.circuit, f.at), opened, f,
                  "PUMP_SETPOINT", authority_epoch)

\* A lease that is current: stop what is no longer due, or keep the pump.
Maintain(r, d, f, authority_epoch) ==
  LET held == [d EXCEPT !.session = r.lease.session]
  IN IF ~f.immediate \/ ~d.enabled
     THEN IF HasBodyOrigin(r.lease) THEN Deliver(r, held, f, "BODY_OFF", authority_epoch)
          ELSE Done(Released(r), held)
     ELSE IF r.lease.verified /\ \/ DomainBlocker(r, "PUMP") # "none"
                                 \/ DomainOf(r.lease, "PUMP").health # "RECONCILING"
          THEN Done(r, held)
     ELSE Deliver(r, held, f, "PUMP_SETPOINT", authority_epoch)

Decide(r, d, f, adopt, fresh, authority_epoch) ==
  LET blocker == SafetyBlocker(r, f, FALSE)
  IN IF d.attempt # None THEN VerifyAttempt(r, d, f, authority_epoch)
     ELSE IF r.lease # None /\ f.candidate
     THEN IF AdoptionOnly(r.lease)
          THEN Deliver(r, [d EXCEPT !.session = r.lease.session], f, "BODY_ON", authority_epoch)
          ELSE Done(r, d)
     ELSE IF \/ r.lease = None /\ ~(d.enabled /\ f.immediate)
             \/ d.enabled /\ f.epoch = d.after
             \/ f.thermal \/ r.owner = "THERMAL"
          THEN Done(r, d)
     ELSE IF blocker # "none" THEN IF r.lease = None THEN Done(r, d) ELSE Preempted(r, d)
     ELSE IF r.lease = None THEN Acquire(r, d, f, adopt, fresh, authority_epoch)
     ELSE Maintain(r, d, f, authority_epoch)

\* Past re-enable: suspension on lost evidence, recovery, and the decision.
Evaluate(r, d, f, fresh, authority_epoch) ==
  LET suspended == Suspended(r)
      blocker   == SafetyBlocker(r, f, suspended \/ Attempting(d, "BODY_OFF"))
      adopt     == d.armed /\ blocker = "none"
      d1        == [d EXCEPT !.armed = @ /\ blocker # "none"]
      recovery  == Recovery(r, d1, f)
  IN IF suspended /\ PoolSeenOff(f) THEN Recovery(r, d, f)
     ELSE IF r.lease # None /\ r.lease.body_verified /\ blocker = "lost"
     THEN IF MaySuspend(r, r.lease.session) THEN Done(Suspend(r), d1) ELSE Raised(r, d1)
     ELSE IF ~suspended THEN Decide(r, d1, f, adopt, fresh, authority_epoch)
     ELSE IF blocker # "none" THEN Preempted(r, d1)
     ELSE IF recovery.next # "continue" THEN recovery
     ELSE Decide(Resume(r, f.at), d1, f, adopt, fresh, authority_epoch)

OldFrame(d, f) == d.last # None /\ (f.epoch = d.last.epoch \/ f.at < d.last.at)

ProcessEpoch(r, d, f, fresh, authority_epoch) ==
  LET r0 == BeginEpoch(r, f.epoch)
      d0 == Processed(d, f)
      r1 == ObserveDomains(r0, d0, f)
  IN IF d.unloaded \/ OldFrame(d, f) THEN Done(r, d)
     ELSE IF f.suppressed THEN Restrained(r0, d0, f)
     ELSE IF r0.lease # None /\ f.circuit \notin {None, r0.lease.circuit} THEN Preempted(r0, d0)
     ELSE IF r0.lease # None /\ r0.lease.verified /\ SpaTakesOver(f)
          THEN Done(Released(r0), Cleared(d0))
     ELSE IF d0.reenable THEN Done(r1, d0)
     ELSE Evaluate(r1, d0, f, fresh, authority_epoch)
=============================================================================
