------------------------- MODULE CirculationRegistry -------------------------
(***************************************************************************)
(* The Pool circulation ownership registry                                 *)
(* (poolos/pool_circulation_ownership.py): at most one PoolOS owner of the *)
(* Pool circulation, and the typed hand-over between filtration and        *)
(* thermal.  A registry is a record; each method is an operator from the   *)
(* old record to the new one, preceded by a May... operator where the code *)
(* raises ValueError.  lease_id and the body session's default identity    *)
(* are hashes of the lease generation, which is unique, so the generation  *)
(* stands for them; a token is its content.  Accepted provenance is the    *)
(* receipt of the command; its value is left out.                          *)
(***************************************************************************)
EXTENDS OwnershipEvidence

CONSTANTS
  Sessions,        \* filtration session identities
  Circuits,        \* concrete Pool PMPCIRC identities
  Epochs,          \* observation epoch identities
  Receipts,        \* accepted command receipts
  ThermalLeases,   \* thermal lease identities
  Purposes         \* thermal purpose identities

Domains == {"BODY", "PUMP"}

Owners == {"NONE", "FILTRATION_ACQUIRING", "FILTRATION", "FILTRATION_SUSPENDED",
           "THERMAL", "FILTRATION_TO_THERMAL"}

FiltrationOwners == Owners \ {"NONE", "THERMAL"}

BodySession == [id : Sessions, generation : Nat \ {0}]

Lease == [generation        : Nat \ {0},
          session           : Sessions,
          circuit           : Circuits,
          established_at    : Nat,
          last_confirmed_at : Nat,
          body_activation   : Receipts \cup {None},
          body_adopted      : BOOLEAN,
          pump_setpoint     : Receipts \cup {None},
          pump_session      : BOOLEAN,
          body_verified     : BOOLEAN,
          verified          : BOOLEAN,
          domains           : [Domains -> DomainState \cup {None}],
          body_session      : BodySession]

Handoff == [generation      : Nat \ {0},
            purpose         : Purposes,
            established_at  : Nat,
            body_activation : Receipts,
            pump_setpoint   : Receipts \cup {None},
            body_session    : BodySession]

Registry == [owner         : Owners,
             lease         : Lease \cup {None},
             thermal_lease : ThermalLeases \cup {None},
             handoff       : Handoff \cup {None},
             generation    : Nat,
             epoch         : Epochs \cup {None},
             reserved      : Epochs \cup {None}]

\* None is none of the values it stands beside.
ASSUME NoneAssumption ==
  /\ None \notin Sessions \cup Circuits \cup Epochs \cup Receipts
                 \cup ThermalLeases \cup Purposes
  /\ None \notin Lease
  /\ None \notin Handoff
  /\ None \notin DomainState
  /\ None \notin Episode

EmptyRegistry ==
  [owner |-> "NONE", lease |-> None, thermal_lease |-> None, handoff |-> None,
   generation |-> 0, epoch |-> None, reserved |-> None]

-----------------------------------------------------------------------------
(***************************************************************************)
(* Leases.  WithOrigins is the end of __post_init__: a domain whose origin *)
(* the lease holds for the first time starts under PoolOS authority.       *)
(***************************************************************************)
DomainOf(l, d) == IF l.domains[d] = None THEN UnownedDomain ELSE l.domains[d]

HasBodyOrigin(l) == l.body_activation # None \/ l.body_adopted

WithOrigins_M(l) ==   \* mutant: every delivery claims its domain again
  [l EXCEPT !.domains =
     [d \in Domains |->
        IF \/ d = "BODY" /\ HasBodyOrigin(l)
           \/ d = "PUMP" /\ l.pump_setpoint # None
        THEN OwnedDomain ELSE l.domains[d]]]

WithOrigins(l) ==
  [l EXCEPT !.domains =
     [d \in Domains |->
        IF /\ l.domains[d] = None
           /\ \/ d = "BODY" /\ HasBodyOrigin(l)
              \/ d = "PUMP" /\ l.pump_setpoint # None
        THEN OwnedDomain ELSE l.domains[d]]]

\* What __post_init__ refuses; none of the methods may produce it.
WellFormed(l) ==
  /\ l.established_at <= l.last_confirmed_at
  /\ ~(l.body_activation # None /\ l.body_adopted)
  /\ l.body_verified => HasBodyOrigin(l)
  /\ ~(l.pump_setpoint # None /\ l.pump_session)
  /\ l.verified => /\ l.body_verified
                   /\ l.pump_setpoint # None \/ l.pump_session

NewLease(generation, session, circuit, at) ==
  [generation |-> generation, session |-> session, circuit |-> circuit,
   established_at |-> at, last_confirmed_at |-> at,
   body_activation |-> None, body_adopted |-> FALSE,
   pump_setpoint |-> None, pump_session |-> FALSE,
   body_verified |-> FALSE, verified |-> FALSE,
   domains |-> [d \in Domains |-> None],
   body_session |-> [id |-> session, generation |-> generation]]

HoldsLease(r, session) == r.lease # None /\ r.lease.session = session

-----------------------------------------------------------------------------
(***************************************************************************)
(* Domain evidence and permission.                                         *)
(***************************************************************************)
UpdateDomain(r, domain, state) == [r EXCEPT !.lease.domains[domain] = state]

\* PositiveOperatorEvidence.applies, for evidence of this equipment.
OperatorEvidenceApplies(l, body_session, requested_at, at) ==
  /\ body_session = l.body_session
  /\ l.established_at <= requested_at
  /\ requested_at <= at

MayRecordOperatorIntent(r, domain, body_session, requested_at, at) ==
  /\ r.lease # None
  /\ OperatorEvidenceApplies(r.lease, body_session, requested_at, at)
  /\ LET prior == DomainOf(r.lease, domain).requested_at
     IN prior # None => requested_at > prior

RecordOperatorIntent(r, domain, requested_at) ==
  UpdateDomain(r, domain, Yielded(DomainOf(r.lease, domain), requested_at))

\* domain_permission_blocker; "none" where the code returns None.
DomainBlocker(r, domain) ==
  IF r.lease = None THEN "none"
  ELSE IF DomainOf(r.lease, "BODY").authority = "OPERATOR" THEN "body_yielded"
  ELSE PermissionDenial(DomainOf(r.lease, domain), FALSE)

-----------------------------------------------------------------------------
(***************************************************************************)
(* Epochs and arbitration.                                                 *)
(***************************************************************************)
BeginEpoch(r, e) == IF e = r.epoch THEN r ELSE [r EXCEPT !.epoch = e, !.reserved = None]

AdoptionOnly(l) == l.body_activation = None /\ l.body_adopted

MayReserveThermal(r, e) ==
  /\ e = r.epoch
  /\ \/ r.owner \in {"THERMAL", "NONE"}
     \/ r.owner = "FILTRATION" /\ ~(r.lease # None /\ AdoptionOnly(r.lease))

ReserveThermal(r, e) ==
  IF MayReserveThermal(r, e) THEN [r EXCEPT !.reserved = e] ELSE r

ThermalReservedFor(r, e) == e = r.epoch /\ r.reserved = e

FiltrationMayDeliver(r, e, session) ==
  /\ e = r.epoch
  /\ r.reserved # e
  /\ r.owner \in {"NONE", "FILTRATION_ACQUIRING", "FILTRATION"}
  /\ r.lease # None => r.lease.session = session
-----------------------------------------------------------------------------
(***************************************************************************)
(* Filtration acquires, confirms, suspends and resumes.                    *)
(***************************************************************************)
MayAdopt(r) == r.owner = "NONE" /\ r.lease = None

AdoptFiltrationBody_M(r, session, circuit, at) ==   \* mutant: the generation does not advance
  [r EXCEPT !.owner = "FILTRATION_ACQUIRING",
            !.lease = WithOrigins([NewLease(r.generation, session, circuit, at)
                                     EXCEPT !.body_adopted = TRUE,
                                            !.body_verified = TRUE])]

AdoptFiltrationBody(r, session, circuit, at) ==
  [r EXCEPT !.generation = @ + 1,
            !.owner = "FILTRATION_ACQUIRING",
            !.lease = WithOrigins([NewLease(r.generation + 1, session, circuit, at)
                                     EXCEPT !.body_adopted = TRUE,
                                            !.body_verified = TRUE])]

MayRecordDelivery_M(r, session, circuit, at) ==   \* mutant: the owner is not asked
  r.lease # None => /\ r.lease.session = session
                    /\ r.lease.circuit = circuit
                    /\ r.lease.established_at <= at

MayRecordDelivery(r, session, circuit, at) ==
  /\ r.owner \in {"NONE", "FILTRATION_ACQUIRING", "FILTRATION"}
  /\ r.lease # None => /\ r.lease.session = session
                       /\ r.lease.circuit = circuit
                       /\ r.lease.established_at <= at

\* The lease a delivery is recorded on: a new generation when there is none.
DeliveryLease(r, session, circuit, at) ==
  IF r.lease = None THEN NewLease(r.generation + 1, session, circuit, at) ELSE r.lease

WithBody_M(l, receipt, at) ==   \* mutant: an adopted body stays adopted
  WithOrigins([l EXCEPT !.body_activation = receipt, !.last_confirmed_at = at])

WithBody(l, receipt, at) ==
  WithOrigins([l EXCEPT !.body_activation = receipt, !.body_adopted = FALSE,
                        !.last_confirmed_at = at])

WithPump(l, receipt, at) ==
  WithOrigins([l EXCEPT !.pump_setpoint = receipt, !.pump_session = FALSE,
                        !.last_confirmed_at = at])

RecordDelivery(r, session, circuit, at, domain, receipt) ==
  LET l == DeliveryLease(r, session, circuit, at)
  IN [r EXCEPT !.generation = IF r.lease = None THEN @ + 1 ELSE @,
               !.owner = "FILTRATION_ACQUIRING",
               !.lease = IF domain = "BODY" THEN WithBody(l, receipt, at)
                                            ELSE WithPump(l, receipt, at)]

MayConfirmBody(r, session, at) ==
  /\ HoldsLease(r, session)
  /\ r.lease.body_activation # None
  /\ r.lease.established_at <= at

ConfirmBody(r, at) ==
  [r EXCEPT !.lease.body_verified = TRUE,
            !.lease.last_confirmed_at = at,
            !.owner = IF r.lease.verified THEN "FILTRATION" ELSE @]

MayConfirm(r, session, at) ==
  /\ HoldsLease(r, session)
  /\ HasBodyOrigin(r.lease)
  /\ r.lease.pump_setpoint # None
  /\ r.lease.body_verified
  /\ r.lease.established_at <= at

Confirm(r, at) ==
  [r EXCEPT !.lease.verified = TRUE,
            !.lease.last_confirmed_at = at,
            !.owner = "FILTRATION"]

MayRetainBodyForPumpSession(r, session, circuit, at) ==
  /\ HoldsLease(r, session)
  /\ r.lease.circuit = circuit
  /\ r.lease.verified
  /\ r.owner \in {"FILTRATION", "FILTRATION_SUSPENDED"}
  /\ r.lease.established_at <= at

RetainBodyForPumpSession(r, at) ==
  [r EXCEPT !.lease.pump_setpoint = None,
            !.lease.pump_session = TRUE,
            !.lease.last_confirmed_at = at]

MaySuspend(r, session) ==
  /\ HoldsLease(r, session)
  /\ r.lease.body_verified
  /\ r.owner \in {"FILTRATION", "FILTRATION_ACQUIRING", "FILTRATION_SUSPENDED"}

Suspend(r) == [r EXCEPT !.owner = "FILTRATION_SUSPENDED"]

MayResume(r, session, at) ==
  /\ r.owner = "FILTRATION_SUSPENDED"
  /\ HoldsLease(r, session)
  /\ r.lease.body_verified
  /\ r.lease.established_at <= at

Resume(r, at) == [r EXCEPT !.lease.last_confirmed_at = at, !.owner = "FILTRATION"]

ReleaseFiltration_M(r, session) ==   \* mutant: the pending token survives
  IF HoldsLease(r, session) THEN [r EXCEPT !.lease = None, !.owner = "NONE"] ELSE r

ReleaseFiltration(r, session) ==
  IF HoldsLease(r, session)
  THEN [r EXCEPT !.lease = None, !.handoff = None, !.owner = "NONE"] ELSE r

-----------------------------------------------------------------------------
(***************************************************************************)
(* Filtration to thermal and back.                                         *)
(***************************************************************************)
Donates(l) ==
  /\ l.verified
  /\ l.body_activation # None
  /\ DomainOf(l, "BODY").authority = "POOLOS"

MayBeginHandoff(r, at) ==
  /\ r.owner = "FILTRATION"
  /\ r.lease # None /\ Donates(r.lease)
  /\ r.reserved = r.epoch
  /\ at >= r.lease.last_confirmed_at

\* The pump goes along only while PoolOS still has authority over it.
TokenFor(l, purpose, at) ==
  [generation |-> l.generation, purpose |-> purpose, established_at |-> at,
   body_activation |-> l.body_activation,
   pump_setpoint |-> IF DomainOf(l, "PUMP").authority = "POOLOS"
                     THEN l.pump_setpoint ELSE None,
   body_session |-> l.body_session]

BeginHandoff(r, purpose, at) ==
  IF MayBeginHandoff(r, at)
  THEN [r EXCEPT !.handoff = TokenFor(r.lease, purpose, at),
                 !.owner = "FILTRATION_TO_THERMAL"] ELSE r

DonorCurrent_M(l, token) ==   \* mutant: the operator is not asked again
  /\ l.generation = token.generation
  /\ l.body_session = token.body_session
  /\ l.pump_setpoint = token.pump_setpoint

DonorCurrent(l, token) ==
  /\ l.generation = token.generation
  /\ l.body_session = token.body_session
  /\ l.pump_setpoint = token.pump_setpoint
  /\ DomainOf(l, "BODY").authority = "POOLOS"

MayCompleteHandoff(r, token) ==
  /\ r.handoff # None /\ r.handoff = token
  /\ r.lease # None /\ DonorCurrent(r.lease, token)

CompleteHandoff(r, thermal_lease) ==
  [r EXCEPT !.lease = None, !.handoff = None,
            !.thermal_lease = thermal_lease, !.owner = "THERMAL"]

CancelHandoff(r, token) ==
  IF r.handoff = None \/ r.handoff # token THEN r
  ELSE [r EXCEPT !.handoff = None,
                 !.owner = IF r.lease # None THEN "FILTRATION" ELSE "NONE"]

InvalidateHandoff(r, token) ==
  IF r.handoff = None \/ r.handoff # token THEN r
  ELSE [r EXCEPT !.lease = None, !.handoff = None,
                 !.thermal_lease = None, !.owner = "NONE"]

MayAcceptFromThermal(r) == r.owner = "THERMAL"

AcceptFromThermal(r, session, circuit, at, body, pump, body_session) ==
  LET fresh == NewLease(r.generation + 1, session, circuit, at)
  IN [r EXCEPT !.generation = @ + 1,
               !.lease = WithOrigins(
                  [fresh EXCEPT !.body_activation = body, !.pump_setpoint = pump,
                                !.body_verified = TRUE, !.verified = TRUE,
                                !.body_session = IF body_session = None
                                                 THEN @ ELSE body_session]),
               !.thermal_lease = None,
               !.handoff = None,
               !.owner = "FILTRATION"]

MayMarkThermalOwned_M(r) == r.owner # "FILTRATION_TO_THERMAL"   \* mutant: filtration may own

MayMarkThermalOwned(r) == r.owner \in {"NONE", "THERMAL"}

MarkThermalOwned(r, thermal_lease) ==
  [r EXCEPT !.thermal_lease = thermal_lease, !.owner = "THERMAL"]

\* An identity that is not the current one releases nothing; None releases any.
ReleaseThermal(r, thermal_lease) ==
  IF thermal_lease # None /\ r.thermal_lease # thermal_lease THEN r
  ELSE [r EXCEPT !.thermal_lease = None,
                 !.owner = IF r.lease = None THEN "NONE" ELSE @]

-----------------------------------------------------------------------------
UnloadRegistry_M(r) == EmptyRegistry   \* mutant: the generation is forgotten

\* Only the generation survives: a lease of an earlier life is never current.
UnloadRegistry(r) == [EmptyRegistry EXCEPT !.generation = r.generation]
=============================================================================
