--------------------------- MODULE PoolCirculation ---------------------------
(***************************************************************************)
(* The circulation registry under every order of calls its callers could   *)
(* make: filtration and thermal runtimes, the operator boundary, the       *)
(* sanitation boundary and unload share one registry and no lock.  A call  *)
(* that raises ValueError changes nothing and is no step.  The runtimes    *)
(* that hold the registry extend this module and use its actions.          *)
(***************************************************************************)
EXTENDS CirculationRegistry

CONSTANTS
  MaxTime,        \* bound of the frame times callers pass
  MaxGeneration   \* bound of the lease generations

ASSUME BoundsAssumption == MaxTime \in Nat /\ MaxGeneration \in Nat

VARIABLE reg   \* PoolCirculationOwnershipRegistry

registryVars == <<reg>>

Times == 0..MaxTime

\* What _observe_filtration_domains (PUMP only), _deliver and _fail store in a
\* domain: the same authority and operator evidence with newer health.
DomainUpdates(domain, d) ==
  {Faulted(d)} \cup
  IF domain = "BODY" THEN {}
  ELSE {[d EXCEPT !.health = "STABLE", !.blocker = "none"],
        [d EXCEPT !.health = "RECONCILING", !.blocker = "evidence_unusable"]}

RegistryInit == reg = EmptyRegistry

-----------------------------------------------------------------------------
UpdateFiltrationDomain(s, d) ==
  /\ HoldsLease(reg, s)
  /\ \E state \in DomainUpdates(d, DomainOf(reg.lease, d)) :
       reg' = UpdateDomain(reg, d, state)

OperatorRequest(d, requested_at, at) ==
  /\ reg.lease # None
  /\ MayRecordOperatorIntent(reg, d, reg.lease.body_session, requested_at, at)
  /\ reg' = RecordOperatorIntent(reg, d, requested_at)

StartEpoch(e) == reg' = BeginEpoch(reg, e)

ThermalReserves(e) == MayReserveThermal(reg, e) /\ reg' = ReserveThermal(reg, e)

FiltrationAdopts(s, c, at) ==
  /\ reg.generation < MaxGeneration
  /\ MayAdopt(reg)
  /\ reg' = AdoptFiltrationBody(reg, s, c, at)

FiltrationDelivered(s, c, at, d, receipt) ==
  /\ reg.lease = None => reg.generation < MaxGeneration
  /\ MayRecordDelivery(reg, s, c, at)
  /\ reg' = RecordDelivery(reg, s, c, at, d, receipt)

BodyConfirmed(s, at) == MayConfirmBody(reg, s, at) /\ reg' = ConfirmBody(reg, at)

FiltrationConfirmed(s, at) == MayConfirm(reg, s, at) /\ reg' = Confirm(reg, at)

PumpSessionTakesPump(s, c, at) ==
  /\ MayRetainBodyForPumpSession(reg, s, c, at)
  /\ reg' = RetainBodyForPumpSession(reg, at)

FiltrationSuspends(s) == MaySuspend(reg, s) /\ reg' = Suspend(reg)

FiltrationResumes(s, at) == MayResume(reg, s, at) /\ reg' = Resume(reg, at)

FiltrationReleases(s) == HoldsLease(reg, s) /\ reg' = ReleaseFiltration(reg, s)

HandoffBegins(p, at) == MayBeginHandoff(reg, at) /\ reg' = BeginHandoff(reg, p, at)

HandoffCompletes(t) ==
  MayCompleteHandoff(reg, reg.handoff) /\ reg' = CompleteHandoff(reg, t)

HandoffCancelled == reg.handoff # None /\ reg' = CancelHandoff(reg, reg.handoff)

HandoffInvalidated == reg.handoff # None /\ reg' = InvalidateHandoff(reg, reg.handoff)

\* The recipient's body session is one the registry once gave away, or none.
ThermalReturns(s, c, at, body, pump, b) ==
  /\ reg.generation < MaxGeneration
  /\ MayAcceptFromThermal(reg)
  /\ reg' = AcceptFromThermal(reg, s, c, at, body, pump, b)

EarlierBodySessions == [id : Sessions, generation : 1..reg.generation] \cup {None}

ThermalOwns(t) == MayMarkThermalOwned(reg) /\ reg' = MarkThermalOwned(reg, t)

ThermalReleases(t) == reg.owner = "THERMAL" /\ reg' = ReleaseThermal(reg, t)

RegistryUnloads == reg' = UnloadRegistry(reg)

RegistryNext ==
  \/ \E s \in Sessions, d \in Domains : UpdateFiltrationDomain(s, d)
  \/ \E d \in Domains, r, at \in Times : OperatorRequest(d, r, at)
  \/ \E e \in Epochs : StartEpoch(e)
  \/ \E e \in Epochs : ThermalReserves(e)
  \/ \E s \in Sessions, c \in Circuits, at \in Times : FiltrationAdopts(s, c, at)
  \/ \E s \in Sessions, c \in Circuits, at \in Times, d \in Domains, r \in Receipts :
       FiltrationDelivered(s, c, at, d, r)
  \/ \E s \in Sessions, at \in Times : BodyConfirmed(s, at)
  \/ \E s \in Sessions, at \in Times : FiltrationConfirmed(s, at)
  \/ \E s \in Sessions, c \in Circuits, at \in Times : PumpSessionTakesPump(s, c, at)
  \/ \E s \in Sessions : FiltrationSuspends(s)
  \/ \E s \in Sessions, at \in Times : FiltrationResumes(s, at)
  \/ \E s \in Sessions : FiltrationReleases(s)
  \/ \E p \in Purposes, at \in Times : HandoffBegins(p, at)
  \/ \E t \in ThermalLeases : HandoffCompletes(t)
  \/ HandoffCancelled
  \/ HandoffInvalidated
  \/ \E s \in Sessions, c \in Circuits, at \in Times, body, pump \in Receipts,
        b \in EarlierBodySessions : ThermalReturns(s, c, at, body, pump, b)
  \/ \E t \in ThermalLeases : ThermalOwns(t)
  \/ \E t \in ThermalLeases \cup {None} : ThermalReleases(t)
  \/ RegistryUnloads

RegistrySpec == RegistryInit /\ [][RegistryNext]_registryVars
-----------------------------------------------------------------------------
RegistryTypeOK == reg \in Registry

(***************************************************************************)
(* The owner the drivers arbitrate on agrees with the records they act on: *)
(* a filtration lease exists exactly while filtration is owner, a thermal  *)
(* lease exactly while thermal is, so never both, whatever call follows    *)
(* whatever call ("Keep at most one PoolOS circulation command owner").    *)
(***************************************************************************)
SingleOwner ==
  /\ reg.lease # None <=> reg.owner \in FiltrationOwners
  /\ reg.thermal_lease # None <=> reg.owner = "THERMAL"

(***************************************************************************)
(* No method can build a lease that __post_init__ refuses: a ValueError    *)
(* raised there would leave the generation advanced and no lease.          *)
(***************************************************************************)
LeaseNeverRefused == reg.lease # None => WellFormed(reg.lease)

(***************************************************************************)
(* A pending token always names the lease that is there, and that lease    *)
(* still is what a donor must be: verified, with an accepted body command. *)
(* A release, a new lease or a restart leaves no token behind that a late  *)
(* thermal delivery could complete.                                        *)
(***************************************************************************)
TokenHasItsDonor ==
  reg.handoff # None =>
    /\ reg.lease # None
    /\ reg.lease.generation = reg.handoff.generation
    /\ reg.lease.body_session = reg.handoff.body_session
    /\ reg.lease.verified
    /\ reg.lease.body_activation # None

(***************************************************************************)
(* Lease generations are never reused, across releases, hand-overs and     *)
(* unload: a stale reference to an earlier lease matches no later one.     *)
(***************************************************************************)
GenerationsNeverReused ==
  [][/\ reg'.generation >= reg.generation
     /\ reg'.lease # None /\ (reg.lease = None \/ reg'.lease.generation # reg.lease.generation)
          => reg'.lease.generation > reg.generation]_registryVars

(***************************************************************************)
(* Thermal takes circulation from a filtration lease only when that lease  *)
(* is verified, holds an accepted body command (an adopted body is never   *)
(* given away) and the operator has not taken the body since.              *)
(***************************************************************************)
TransferIsEarned ==
  [][reg.lease # None /\ reg'.owner = "THERMAL" =>
       /\ reg.lease.verified
       /\ reg.lease.body_activation # None
       /\ DomainOf(reg.lease, "BODY").authority = "POOLOS"]_registryVars

(***************************************************************************)
(* While a lease lives, what its operator took stays taken, however the    *)
(* lease is delivered to, confirmed, suspended, resumed or handed over.    *)
(***************************************************************************)
OperatorKeepsDomain ==
  [][reg.lease # None /\ reg'.lease # None /\ reg'.lease.generation = reg.lease.generation =>
       \A d \in Domains : DomainOf(reg.lease, d).authority = "OPERATOR"
                            => DomainOf(reg'.lease, d).authority = "OPERATOR"]_registryVars
=============================================================================
