------------------------ MODULE PoolCirculationProofs ------------------------
(***************************************************************************)
(* Lemmas about the circulation registry: what a registry satisfies in     *)
(* every state of whatever component holds it, and that each method keeps  *)
(* it; FiltrationRuntimeProofs rests on them too.  Then the theorems of    *)
(* PoolCirculation, for every set of sessions, epochs, receipts and leases *)
(* and every bound of times and generations.                               *)
(***************************************************************************)
EXTENDS PoolCirculation, TLAPS

(***************************************************************************)
(* The inductive invariant, as a predicate of a registry so that each      *)
(* method has a lemma of its own.  That there is one owner and that a      *)
(* token has its donor are not inductive without the shape of the lease    *)
(* (WellFormed) and without the bound that makes a new generation new.     *)
(***************************************************************************)
OwnerAgrees(r) ==
  /\ r.lease # None <=> r.owner \in FiltrationOwners
  /\ r.thermal_lease # None <=> r.owner = "THERMAL"

DonorAgrees(r) ==
  r.handoff # None =>
    /\ r.lease # None
    /\ r.lease.generation = r.handoff.generation
    /\ r.lease.body_session = r.handoff.body_session
    /\ r.lease.verified
    /\ r.lease.body_activation # None

LeaseAgrees(r) ==
  r.lease # None => WellFormed(r.lease) /\ r.lease.generation <= r.generation

RegInv(r) ==
  /\ r \in Registry
  /\ OwnerAgrees(r)
  /\ DonorAgrees(r)
  /\ LeaseAgrees(r)

-----------------------------------------------------------------------------
\* A domain state keeps its type when an operator takes it or it is faulted.
LEMMA DomainTypes ==
  ASSUME NEW d \in DomainState, NEW t \in Nat
  PROVE  /\ Yielded(d, t) \in DomainState
         /\ Faulted(d) \in DomainState
         /\ [d EXCEPT !.health = "STABLE", !.blocker = "none"] \in DomainState
         /\ [d EXCEPT !.health = "RECONCILING", !.blocker = "evidence_unusable"]
              \in DomainState
  BY DEF Yielded, Faulted, DomainState, Authorities, Healths, Blockers, OptTime

LEMMA DefaultDomainTypes ==
  UnownedDomain \in DomainState /\ OwnedDomain \in DomainState
  BY DEF UnownedDomain, OwnedDomain, DomainState, Authorities, Healths, Blockers, OptTime

LEMMA DomainOfType ==
  ASSUME NEW l \in Lease, NEW d \in Domains
  PROVE  DomainOf(l, d) \in DomainState
  BY DefaultDomainTypes DEF DomainOf, Lease

\* Completing the domains of a lease changes nothing else in it.
LEMMA WithOriginsType ==
  ASSUME NEW l \in Lease
  PROVE  /\ WithOrigins(l) \in Lease
         /\ WithOrigins(l).generation = l.generation
         /\ WithOrigins(l).session = l.session
         /\ WithOrigins(l).established_at = l.established_at
         /\ WithOrigins(l).last_confirmed_at = l.last_confirmed_at
         /\ WithOrigins(l).body_activation = l.body_activation
         /\ WithOrigins(l).body_adopted = l.body_adopted
         /\ WithOrigins(l).pump_setpoint = l.pump_setpoint
         /\ WithOrigins(l).pump_session = l.pump_session
         /\ WithOrigins(l).body_verified = l.body_verified
         /\ WithOrigins(l).verified = l.verified
         /\ WithOrigins(l).body_session = l.body_session
  <1> DEFINE ds == [d \in Domains |->
        IF /\ l.domains[d] = None
           /\ \/ d = "BODY" /\ HasBodyOrigin(l)
              \/ d = "PUMP" /\ l.pump_setpoint # None
        THEN OwnedDomain ELSE l.domains[d]]
  <1>1. ds \in [Domains -> DomainState \cup {None}]
    BY DefaultDomainTypes DEF Lease
  <1>2. WithOrigins(l) = [l EXCEPT !.domains = ds]
    BY DEF WithOrigins
  <1> HIDE DEF ds
  <1> QED
    BY <1>1, <1>2 DEF Lease

LEMMA NewLeaseType ==
  ASSUME NEW g \in Nat \ {0}, NEW s \in Sessions, NEW c \in Circuits, NEW at \in Nat
  PROVE  NewLease(g, s, c, at) \in Lease /\ WellFormed(NewLease(g, s, c, at))
  <1>1. [d \in Domains |-> None] \in [Domains -> DomainState \cup {None}]
    OBVIOUS
  <1> QED
    BY <1>1 DEF NewLease, Lease, BodySession, WellFormed, HasBodyOrigin

-----------------------------------------------------------------------------
(***************************************************************************)
(* Each method preserves the invariant.                                    *)
(***************************************************************************)
LEMMA EmptyInv == RegInv(EmptyRegistry)
  BY NoneAssumption
  DEF EmptyRegistry, RegInv, Registry, OwnerAgrees, DonorAgrees, LeaseAgrees, Owners,
      FiltrationOwners

LEMMA UnloadInv ==
  ASSUME NEW r, RegInv(r)
  PROVE  RegInv(UnloadRegistry(r))
  BY NoneAssumption
  DEF UnloadRegistry, EmptyRegistry, RegInv, Registry, OwnerAgrees, DonorAgrees, LeaseAgrees,
      Owners, FiltrationOwners

LEMMA EpochInv ==
  ASSUME NEW r, RegInv(r), NEW e \in Epochs
  PROVE  RegInv(BeginEpoch(r, e)) /\ RegInv(ReserveThermal(r, e))
  BY DEF BeginEpoch, ReserveThermal, RegInv, Registry, OwnerAgrees, DonorAgrees, LeaseAgrees

LEMMA FiltrationOwnerNames ==
  /\ "FILTRATION" \in FiltrationOwners
  /\ "FILTRATION_ACQUIRING" \in FiltrationOwners
  /\ "FILTRATION_SUSPENDED" \in FiltrationOwners
  /\ "FILTRATION_TO_THERMAL" \in FiltrationOwners
  BY DEF FiltrationOwners, Owners

LEMMA OwnerChangeInv ==
  ASSUME NEW r, RegInv(r), NEW o \in FiltrationOwners, r.lease # None
  PROVE  RegInv([r EXCEPT !.owner = o])
  BY DEF RegInv, Registry, OwnerAgrees, DonorAgrees, LeaseAgrees, Owners, FiltrationOwners

\* A method that replaces the lease by a later state of the same lease.
LEMMA LeaseChangeInv ==
  ASSUME NEW r, RegInv(r), r.lease # None,
         NEW l \in Lease, WellFormed(l), NEW o \in FiltrationOwners,
         l.generation = r.lease.generation,
         l.body_session = r.lease.body_session,
         r.lease.verified => l.verified,
         r.lease.body_activation # None => l.body_activation # None
  PROVE  RegInv([r EXCEPT !.lease = l, !.owner = o])
  BY NoneAssumption
  DEF RegInv, Registry, OwnerAgrees, DonorAgrees, LeaseAgrees, Owners, FiltrationOwners

\* A method that starts a lease of a new generation; no token survives it.
LEMMA FreshLeaseInv ==
  ASSUME NEW r, RegInv(r), NEW l \in Lease, WellFormed(l), NEW o \in FiltrationOwners,
         l.generation = r.generation + 1
  PROVE  RegInv([r EXCEPT !.generation = r.generation + 1, !.lease = l, !.owner = o,
                          !.thermal_lease = None, !.handoff = None])
  <1> DEFINE q == [r EXCEPT !.generation = r.generation + 1, !.lease = l, !.owner = o,
                            !.thermal_lease = None, !.handoff = None]
  <1>1. r \in Registry /\ r.generation \in Nat
    BY DEF RegInv, Registry
  <1>2. /\ q.generation = r.generation + 1
        /\ q.lease = l
        /\ q.owner = o
        /\ q.thermal_lease = None
        /\ q.handoff = None
    BY <1>1 DEF Registry
  <1>3. q \in Registry
    <2>1. o \in Owners /\ r.generation + 1 \in Nat
      BY <1>1 DEF FiltrationOwners
    <2> QED
      BY <1>1, <2>1 DEF Registry
  <1>4. l # None
    BY NoneAssumption
  <1> HIDE DEF q
  <1>5. OwnerAgrees(q) /\ DonorAgrees(q)
    BY <1>2, <1>4 DEF OwnerAgrees, DonorAgrees, FiltrationOwners
  <1>6. LeaseAgrees(q)
    BY <1>1, <1>2 DEF LeaseAgrees
  <1>7. RegInv(q)
    BY <1>3, <1>5, <1>6 DEF RegInv
  <1> QED
    BY <1>7 DEF q

LEMMA ClearedInv ==
  ASSUME NEW r, RegInv(r)
  PROVE  RegInv([r EXCEPT !.lease = None, !.handoff = None, !.thermal_lease = None,
                          !.owner = "NONE"])
  BY NoneAssumption
  DEF RegInv, Registry, OwnerAgrees, DonorAgrees, LeaseAgrees, Owners, FiltrationOwners

LEMMA ThermalInv ==
  ASSUME NEW r, RegInv(r), NEW t \in ThermalLeases
  PROVE  RegInv([r EXCEPT !.lease = None, !.handoff = None, !.thermal_lease = t,
                          !.owner = "THERMAL"])
  BY NoneAssumption
  DEF RegInv, Registry, OwnerAgrees, DonorAgrees, LeaseAgrees, Owners, FiltrationOwners

LEMMA LeaseFacts ==
  ASSUME NEW r, RegInv(r), r.lease # None
  PROVE  /\ r.lease \in Lease
         /\ WellFormed(r.lease)
         /\ r.owner \in FiltrationOwners
         /\ r.thermal_lease = None
         /\ r.generation \in Nat
         /\ r.lease.generation <= r.generation
  BY DEF RegInv, Registry, OwnerAgrees, LeaseAgrees, FiltrationOwners

LEMMA UpdateDomainInv ==
  ASSUME NEW r, RegInv(r), r.lease # None, NEW d \in Domains, NEW state \in DomainState
  PROVE  RegInv(UpdateDomain(r, d, state))
  <1> DEFINE l == [r.lease EXCEPT !.domains[d] = state]
  <1>1. l \in Lease /\ WellFormed(l)
    BY LeaseFacts DEF Lease, WellFormed, HasBodyOrigin
  <1>2. /\ l.generation = r.lease.generation
        /\ l.body_session = r.lease.body_session
        /\ l.verified = r.lease.verified
        /\ l.body_activation = r.lease.body_activation
    BY LeaseFacts DEF Lease
  <1>3. UpdateDomain(r, d, state) = [r EXCEPT !.lease = l, !.owner = r.owner]
    BY DEF UpdateDomain, RegInv, Registry
  <1> HIDE DEF l
  <1>4. r.owner \in FiltrationOwners
    BY LeaseFacts
  <1>5. RegInv([r EXCEPT !.lease = l, !.owner = r.owner])
    BY <1>1, <1>2, <1>4, LeaseChangeInv
  <1> QED
    BY <1>3, <1>5

LEMMA AdoptInv ==
  ASSUME NEW r, RegInv(r), NEW s \in Sessions, NEW c \in Circuits, NEW at \in Nat, MayAdopt(r)
  PROVE  RegInv(AdoptFiltrationBody(r, s, c, at))
  <1> DEFINE n == NewLease(r.generation + 1, s, c, at)
             m == [n EXCEPT !.body_adopted = TRUE, !.body_verified = TRUE]
             l == WithOrigins(m)
  <1>1. r.generation \in Nat /\ r.generation + 1 \in Nat \ {0}
    BY DEF RegInv, Registry
  <1>2. n \in Lease /\ WellFormed(n) /\ n.generation = r.generation + 1
    BY <1>1, NewLeaseType DEF NewLease
  <1>3. m \in Lease /\ WellFormed(m) /\ m.generation = r.generation + 1
    BY <1>2 DEF Lease, WellFormed, HasBodyOrigin, NewLease
  <1> HIDE DEF m
  <1>4. l \in Lease /\ WellFormed(l) /\ l.generation = r.generation + 1
    BY <1>3, WithOriginsType DEF WellFormed, HasBodyOrigin
  <1>5. r.thermal_lease = None /\ r.handoff = None
    BY DEF MayAdopt, RegInv, OwnerAgrees, DonorAgrees
  <1>6. AdoptFiltrationBody(r, s, c, at) =
          [r EXCEPT !.generation = r.generation + 1, !.lease = l,
                    !.owner = "FILTRATION_ACQUIRING", !.thermal_lease = None, !.handoff = None]
    BY <1>5 DEF AdoptFiltrationBody, RegInv, Registry, m
  <1> HIDE DEF l
  <1>7. RegInv([r EXCEPT !.generation = r.generation + 1, !.lease = l,
                         !.owner = "FILTRATION_ACQUIRING", !.thermal_lease = None, !.handoff = None])
    BY <1>4, FreshLeaseInv, FiltrationOwnerNames
  <1> QED
    BY <1>6, <1>7

LEMMA AcceptInv ==
  ASSUME NEW r, RegInv(r), NEW s \in Sessions, NEW c \in Circuits, NEW at \in Nat,
         NEW body \in Receipts, NEW pump \in Receipts, NEW b \in BodySession \cup {None}
  PROVE  RegInv(AcceptFromThermal(r, s, c, at, body, pump, b))
  <1> DEFINE n == NewLease(r.generation + 1, s, c, at)
             m == [n EXCEPT !.body_activation = body, !.pump_setpoint = pump,
                            !.body_verified = TRUE, !.verified = TRUE,
                            !.body_session = IF b = None THEN n.body_session ELSE b]
             l == WithOrigins(m)
  <1>1. r.generation \in Nat /\ r.generation + 1 \in Nat \ {0}
    BY DEF RegInv, Registry
  <1>2. n \in Lease /\ WellFormed(n) /\ n.generation = r.generation + 1
    BY <1>1, NewLeaseType DEF NewLease
  <1>3. m \in Lease /\ WellFormed(m) /\ m.generation = r.generation + 1
    BY <1>2, NoneAssumption DEF Lease, WellFormed, HasBodyOrigin, NewLease
  <1>6. AcceptFromThermal(r, s, c, at, body, pump, b) =
          [r EXCEPT !.generation = r.generation + 1, !.lease = l,
                    !.owner = "FILTRATION", !.thermal_lease = None, !.handoff = None]
    BY DEF AcceptFromThermal, RegInv, Registry
  <1> HIDE DEF m
  <1>4. l \in Lease /\ WellFormed(l) /\ l.generation = r.generation + 1
    BY <1>3, WithOriginsType DEF WellFormed, HasBodyOrigin
  <1> HIDE DEF l
  <1>7. RegInv([r EXCEPT !.generation = r.generation + 1, !.lease = l,
                         !.owner = "FILTRATION", !.thermal_lease = None, !.handoff = None])
    BY <1>4, FreshLeaseInv, FiltrationOwnerNames
  <1> QED
    BY <1>6, <1>7

LEMMA WithBodyFacts ==
  ASSUME NEW l \in Lease, WellFormed(l), NEW b \in Receipts, NEW at \in Nat,
         l.established_at <= at
  PROVE  /\ WithBody(l, b, at) \in Lease
         /\ WellFormed(WithBody(l, b, at))
         /\ WithBody(l, b, at).generation = l.generation
         /\ WithBody(l, b, at).body_session = l.body_session
         /\ WithBody(l, b, at).verified = l.verified
         /\ WithBody(l, b, at).body_activation # None
  <1> DEFINE m == [l EXCEPT !.body_activation = b, !.body_adopted = FALSE,
                            !.last_confirmed_at = at]
  <1>1. /\ m \in Lease /\ WellFormed(m)
        /\ m.generation = l.generation /\ m.body_session = l.body_session
        /\ m.verified = l.verified /\ m.body_activation # None
    BY NoneAssumption DEF Lease, WellFormed, HasBodyOrigin
  <1>2. WithBody(l, b, at) = WithOrigins(m)
    BY DEF WithBody
  <1> HIDE DEF m
  <1> QED
    BY <1>1, <1>2, WithOriginsType DEF WellFormed, HasBodyOrigin

LEMMA WithPumpFacts ==
  ASSUME NEW l \in Lease, WellFormed(l), NEW p \in Receipts, NEW at \in Nat,
         l.established_at <= at
  PROVE  /\ WithPump(l, p, at) \in Lease
         /\ WellFormed(WithPump(l, p, at))
         /\ WithPump(l, p, at).generation = l.generation
         /\ WithPump(l, p, at).body_session = l.body_session
         /\ WithPump(l, p, at).verified = l.verified
         /\ WithPump(l, p, at).body_activation = l.body_activation
  <1> DEFINE m == [l EXCEPT !.pump_setpoint = p, !.pump_session = FALSE,
                            !.last_confirmed_at = at]
  <1>1. /\ m \in Lease /\ WellFormed(m)
        /\ m.generation = l.generation /\ m.body_session = l.body_session
        /\ m.verified = l.verified /\ m.body_activation = l.body_activation
    BY NoneAssumption DEF Lease, WellFormed, HasBodyOrigin
  <1>2. WithPump(l, p, at) = WithOrigins(m)
    BY DEF WithPump
  <1> HIDE DEF m
  <1> QED
    BY <1>1, <1>2, WithOriginsType DEF WellFormed, HasBodyOrigin

LEMMA RecordInv ==
  ASSUME NEW r, RegInv(r), NEW s \in Sessions, NEW c \in Circuits, NEW at \in Nat,
         NEW d \in Domains, NEW receipt \in Receipts, MayRecordDelivery(r, s, c, at)
  PROVE  RegInv(RecordDelivery(r, s, c, at, d, receipt))
  <1> DEFINE k == DeliveryLease(r, s, c, at)
             l == IF d = "BODY" THEN WithBody(k, receipt, at) ELSE WithPump(k, receipt, at)
  <1>1. r.generation \in Nat /\ r.generation + 1 \in Nat \ {0}
    BY DEF RegInv, Registry
  <1>2. k \in Lease /\ WellFormed(k) /\ k.established_at <= at
    <2>1. CASE r.lease = None
      BY <1>1, <2>1, NewLeaseType DEF DeliveryLease, NewLease
    <2>2. CASE r.lease # None
      BY <2>2, LeaseFacts DEF DeliveryLease, MayRecordDelivery
    <2> QED
      BY <2>1, <2>2
  <1> HIDE DEF k
  <1>3. /\ l \in Lease /\ WellFormed(l)
        /\ l.generation = k.generation /\ l.body_session = k.body_session
        /\ l.verified = k.verified
        /\ k.body_activation # None => l.body_activation # None
    BY <1>2, WithBodyFacts, WithPumpFacts
  <1>4. CASE r.lease = None
    <2>1. l.generation = r.generation + 1
      BY <1>3, <1>4 DEF k, DeliveryLease, NewLease
    <2>2. r.thermal_lease = None /\ r.handoff = None
      BY <1>4 DEF MayRecordDelivery, RegInv, OwnerAgrees, DonorAgrees
    <2>3. RecordDelivery(r, s, c, at, d, receipt) =
            [r EXCEPT !.generation = r.generation + 1, !.lease = l,
                      !.owner = "FILTRATION_ACQUIRING", !.thermal_lease = None,
                      !.handoff = None]
      BY <1>4, <2>2 DEF RecordDelivery, RegInv, Registry, k
    <2> HIDE DEF l
    <2>4. RegInv([r EXCEPT !.generation = r.generation + 1, !.lease = l,
                           !.owner = "FILTRATION_ACQUIRING", !.thermal_lease = None,
                           !.handoff = None])
      BY <1>3, <2>1, FreshLeaseInv, FiltrationOwnerNames
    <2> QED
      BY <2>3, <2>4
  <1>5. CASE r.lease # None
    <2>1. k = r.lease
      BY <1>5 DEF k, DeliveryLease
    <2>2. RecordDelivery(r, s, c, at, d, receipt) =
            [r EXCEPT !.lease = l, !.owner = "FILTRATION_ACQUIRING"]
      BY <1>5 DEF RecordDelivery, RegInv, Registry, k
    <2> HIDE DEF l
    <2>3. RegInv([r EXCEPT !.lease = l, !.owner = "FILTRATION_ACQUIRING"])
      BY <1>3, <1>5, <2>1, LeaseChangeInv, FiltrationOwnerNames
    <2> QED
      BY <2>2, <2>3
  <1> QED
    BY <1>4, <1>5

LEMMA ConfirmBodyInv ==
  ASSUME NEW r, RegInv(r), NEW s \in Sessions, NEW at \in Nat, MayConfirmBody(r, s, at)
  PROVE  RegInv(ConfirmBody(r, at))
  <1> DEFINE l == [r.lease EXCEPT !.body_verified = TRUE, !.last_confirmed_at = at]
             o == IF r.lease.verified THEN "FILTRATION" ELSE r.owner
  <1>1. r.lease # None
    BY DEF MayConfirmBody, HoldsLease
  <1>2. /\ l \in Lease /\ WellFormed(l)
        /\ l.generation = r.lease.generation /\ l.body_session = r.lease.body_session
        /\ l.verified = r.lease.verified /\ l.body_activation = r.lease.body_activation
    BY <1>1, LeaseFacts DEF MayConfirmBody, Lease, WellFormed, HasBodyOrigin
  <1>3. o \in FiltrationOwners
    BY <1>1, LeaseFacts, FiltrationOwnerNames
  <1>4. ConfirmBody(r, at) = [r EXCEPT !.lease = l, !.owner = o]
    BY DEF ConfirmBody, RegInv, Registry
  <1> HIDE DEF l, o
  <1>5. RegInv([r EXCEPT !.lease = l, !.owner = o])
    BY <1>1, <1>2, <1>3, LeaseChangeInv
  <1> QED
    BY <1>4, <1>5

LEMMA ConfirmInv ==
  ASSUME NEW r, RegInv(r), NEW s \in Sessions, NEW at \in Nat, MayConfirm(r, s, at)
  PROVE  RegInv(Confirm(r, at))
  <1> DEFINE l == [r.lease EXCEPT !.verified = TRUE, !.last_confirmed_at = at]
  <1>1. r.lease # None
    BY DEF MayConfirm, HoldsLease
  <1>2. /\ l \in Lease /\ WellFormed(l)
        /\ l.generation = r.lease.generation /\ l.body_session = r.lease.body_session
        /\ l.verified /\ l.body_activation = r.lease.body_activation
    BY <1>1, LeaseFacts DEF MayConfirm, Lease, WellFormed, HasBodyOrigin
  <1>3. Confirm(r, at) = [r EXCEPT !.lease = l, !.owner = "FILTRATION"]
    BY DEF Confirm, RegInv, Registry
  <1> HIDE DEF l
  <1>4. RegInv([r EXCEPT !.lease = l, !.owner = "FILTRATION"])
    BY <1>1, <1>2, LeaseChangeInv, FiltrationOwnerNames
  <1> QED
    BY <1>3, <1>4

LEMMA RetainBodyInv ==
  ASSUME NEW r, RegInv(r), NEW s \in Sessions, NEW c \in Circuits, NEW at \in Nat,
         MayRetainBodyForPumpSession(r, s, c, at)
  PROVE  RegInv(RetainBodyForPumpSession(r, at))
  <1> DEFINE l == [r.lease EXCEPT !.pump_setpoint = None, !.pump_session = TRUE,
                                  !.last_confirmed_at = at]
  <1>1. r.lease # None
    BY DEF MayRetainBodyForPumpSession, HoldsLease
  <1>2. /\ l \in Lease /\ WellFormed(l)
        /\ l.generation = r.lease.generation /\ l.body_session = r.lease.body_session
        /\ l.verified = r.lease.verified /\ l.body_activation = r.lease.body_activation
    BY <1>1, LeaseFacts
    DEF MayRetainBodyForPumpSession, Lease, WellFormed, HasBodyOrigin
  <1>3. r.owner \in FiltrationOwners
    BY <1>1, LeaseFacts
  <1>4. RetainBodyForPumpSession(r, at) = [r EXCEPT !.lease = l, !.owner = r.owner]
    BY DEF RetainBodyForPumpSession, RegInv, Registry
  <1> HIDE DEF l
  <1>5. RegInv([r EXCEPT !.lease = l, !.owner = r.owner])
    BY <1>1, <1>2, <1>3, LeaseChangeInv
  <1> QED
    BY <1>4, <1>5

LEMMA ResumeInv ==
  ASSUME NEW r, RegInv(r), NEW s \in Sessions, NEW at \in Nat, MayResume(r, s, at)
  PROVE  RegInv(Resume(r, at))
  <1> DEFINE l == [r.lease EXCEPT !.last_confirmed_at = at]
  <1>1. r.lease # None
    BY DEF MayResume, HoldsLease
  <1>2. /\ l \in Lease /\ WellFormed(l)
        /\ l.generation = r.lease.generation /\ l.body_session = r.lease.body_session
        /\ l.verified = r.lease.verified /\ l.body_activation = r.lease.body_activation
    BY <1>1, LeaseFacts DEF MayResume, Lease, WellFormed, HasBodyOrigin
  <1>3. Resume(r, at) = [r EXCEPT !.lease = l, !.owner = "FILTRATION"]
    BY DEF Resume, RegInv, Registry
  <1> HIDE DEF l
  <1>4. RegInv([r EXCEPT !.lease = l, !.owner = "FILTRATION"])
    BY <1>1, <1>2, LeaseChangeInv, FiltrationOwnerNames
  <1> QED
    BY <1>3, <1>4

LEMMA BeginHandoffInv ==
  ASSUME NEW r, RegInv(r), NEW p \in Purposes, NEW at \in Nat, MayBeginHandoff(r, at)
  PROVE  RegInv(BeginHandoff(r, p, at))
  <1> DEFINE t == TokenFor(r.lease, p, at)
             q == [r EXCEPT !.handoff = t, !.owner = "FILTRATION_TO_THERMAL"]
  <1>1. r.lease # None /\ r.lease.verified /\ r.lease.body_activation # None
    BY DEF MayBeginHandoff, Donates
  <1>2. /\ t \in Handoff
        /\ t.generation = r.lease.generation
        /\ t.body_session = r.lease.body_session
    BY <1>1, LeaseFacts DEF TokenFor, Handoff, Lease
  <1> HIDE DEF t
  <1>3. /\ q \in Registry
        /\ q.lease = r.lease
        /\ q.handoff = t
        /\ q.owner = "FILTRATION_TO_THERMAL"
        /\ q.thermal_lease = r.thermal_lease
        /\ q.generation = r.generation
    BY <1>2 DEF RegInv, Registry, Owners
  <1>4. BeginHandoff(r, p, at) = q
    BY DEF BeginHandoff, t
  <1> HIDE DEF q
  <1>5. OwnerAgrees(q)
    BY <1>1, <1>3, LeaseFacts, FiltrationOwnerNames DEF OwnerAgrees
  <1>6. DonorAgrees(q)
    BY <1>1, <1>2, <1>3 DEF DonorAgrees
  <1>7. LeaseAgrees(q)
    BY <1>3 DEF LeaseAgrees, RegInv
  <1> QED
    BY <1>3, <1>4, <1>5, <1>6, <1>7 DEF RegInv

LEMMA CompleteHandoffInv ==
  ASSUME NEW r, RegInv(r), NEW t \in ThermalLeases
  PROVE  RegInv(CompleteHandoff(r, t))
  <1>1. CompleteHandoff(r, t) =
          [r EXCEPT !.lease = None, !.handoff = None, !.thermal_lease = t, !.owner = "THERMAL"]
    BY DEF CompleteHandoff
  <1>3. RegInv([r EXCEPT !.lease = None, !.handoff = None, !.thermal_lease = t,
                         !.owner = "THERMAL"])
    BY ThermalInv
  <1> QED
    BY <1>1, <1>3

\* Cancelling gives the lease back; the pending token guarantees there is one.
LEMMA CancelHandoffInv ==
  ASSUME NEW r, RegInv(r), r.handoff # None
  PROVE  RegInv(CancelHandoff(r, r.handoff))
  <1> DEFINE q == [r EXCEPT !.handoff = None, !.owner = "FILTRATION"]
  <1>1. r.lease # None
    BY DEF RegInv, DonorAgrees
  <1>2. CancelHandoff(r, r.handoff) = q
    BY <1>1 DEF CancelHandoff
  <1>3. /\ q \in Registry
        /\ q.lease = r.lease /\ q.handoff = None /\ q.owner = "FILTRATION"
        /\ q.thermal_lease = r.thermal_lease /\ q.generation = r.generation
    BY DEF RegInv, Registry, Owners
  <1> HIDE DEF q
  <1>4. OwnerAgrees(q) /\ DonorAgrees(q)
    BY <1>1, <1>3, LeaseFacts, FiltrationOwnerNames DEF OwnerAgrees, DonorAgrees
  <1>5. LeaseAgrees(q)
    BY <1>3 DEF LeaseAgrees, RegInv
  <1> QED
    BY <1>2, <1>3, <1>4, <1>5 DEF RegInv

LEMMA InvalidateHandoffInv ==
  ASSUME NEW r, RegInv(r), r.handoff # None
  PROVE  RegInv(InvalidateHandoff(r, r.handoff))
  <1>1. InvalidateHandoff(r, r.handoff) =
          [r EXCEPT !.lease = None, !.handoff = None, !.thermal_lease = None, !.owner = "NONE"]
    BY DEF InvalidateHandoff
  <1> QED
    BY <1>1, ClearedInv

LEMMA ReleaseFiltrationInv ==
  ASSUME NEW r, RegInv(r), NEW s \in Sessions, HoldsLease(r, s)
  PROVE  RegInv(ReleaseFiltration(r, s))
  <1>1. r.lease # None /\ r.thermal_lease = None
    BY LeaseFacts DEF HoldsLease
  <1>2. ReleaseFiltration(r, s) =
          [r EXCEPT !.lease = None, !.handoff = None, !.thermal_lease = None, !.owner = "NONE"]
    BY <1>1 DEF ReleaseFiltration, RegInv, Registry
  <1> QED
    BY <1>2, ClearedInv

LEMMA MarkThermalOwnedInv ==
  ASSUME NEW r, RegInv(r), NEW t \in ThermalLeases, MayMarkThermalOwned(r)
  PROVE  RegInv(MarkThermalOwned(r, t))
  <1>1. r.lease = None /\ r.handoff = None
    BY DEF MayMarkThermalOwned, RegInv, OwnerAgrees, DonorAgrees, FiltrationOwners
  <1>2. MarkThermalOwned(r, t) =
          [r EXCEPT !.lease = None, !.handoff = None, !.thermal_lease = t, !.owner = "THERMAL"]
    BY <1>1 DEF MarkThermalOwned, RegInv, Registry
  <1>3. RegInv([r EXCEPT !.lease = None, !.handoff = None, !.thermal_lease = t,
                         !.owner = "THERMAL"])
    BY ThermalInv
  <1> QED
    BY <1>2, <1>3

LEMMA ReleaseThermalInv ==
  ASSUME NEW r, RegInv(r), r.owner = "THERMAL", NEW t \in ThermalLeases \cup {None}
  PROVE  RegInv(ReleaseThermal(r, t))
  <1>1. r.lease = None /\ r.handoff = None
    BY DEF RegInv, OwnerAgrees, DonorAgrees, FiltrationOwners
  <1>2. CASE t # None /\ r.thermal_lease # t
    BY <1>2 DEF ReleaseThermal
  <1>3. CASE ~(t # None /\ r.thermal_lease # t)
    <2>1. ReleaseThermal(r, t) =
            [r EXCEPT !.lease = None, !.handoff = None, !.thermal_lease = None,
                      !.owner = "NONE"]
      BY <1>1, <1>3 DEF ReleaseThermal, RegInv, Registry
    <2> QED
      BY <2>1, ClearedInv
  <1> QED
    BY <1>2, <1>3

-----------------------------------------------------------------------------
\* The registry of PoolCirculation.
RegistryIInv == RegInv(reg)

-----------------------------------------------------------------------------
LEMMA TimesAreNat == Times \subseteq Nat
  BY BoundsAssumption DEF Times

LEMMA DomainUpdateTypes ==
  ASSUME NEW d \in DomainState, NEW domain \in Domains
  PROVE  DomainUpdates(domain, d) \subseteq DomainState
  BY DomainTypes DEF DomainUpdates

\* One step for each action of RegistryNext.
LEMMA RegistryIInvStep == RegistryIInv /\ [RegistryNext]_registryVars => RegistryIInv'
  <1> SUFFICES ASSUME RegInv(reg), [RegistryNext]_registryVars
               PROVE  RegInv(reg')
    BY DEF RegistryIInv, RegInv, Registry, OwnerAgrees, DonorAgrees, LeaseAgrees
  <1> USE TimesAreNat
  <1>1. ASSUME NEW s \in Sessions, NEW d \in Domains, UpdateFiltrationDomain(s, d)
        PROVE  RegInv(reg')
    <2>1. PICK state \in DomainUpdates(d, DomainOf(reg.lease, d)) :
            reg' = UpdateDomain(reg, d, state)
      BY <1>1 DEF UpdateFiltrationDomain
    <2>2. reg.lease # None
      BY <1>1 DEF UpdateFiltrationDomain, HoldsLease
    <2>3. state \in DomainState
      BY <2>1, <2>2, LeaseFacts, DomainOfType, DomainUpdateTypes
    <2> QED
      BY <2>1, <2>2, <2>3, UpdateDomainInv
  <1>2. ASSUME NEW d \in Domains, NEW q \in Times, NEW at \in Times, OperatorRequest(d, q, at)
        PROVE  RegInv(reg')
    <2>1. reg.lease # None
      BY <1>2 DEF OperatorRequest
    <2>2. Yielded(DomainOf(reg.lease, d), q) \in DomainState
      BY <2>1, LeaseFacts, DomainOfType, DomainTypes
    <2> QED
      BY <1>2, <2>1, <2>2, UpdateDomainInv DEF OperatorRequest, RecordOperatorIntent
  <1>3. ASSUME NEW e \in Epochs, StartEpoch(e) \/ ThermalReserves(e)
        PROVE  RegInv(reg')
    BY <1>3, EpochInv DEF StartEpoch, ThermalReserves
  <1>4. ASSUME NEW s \in Sessions, NEW c \in Circuits, NEW at \in Times,
               FiltrationAdopts(s, c, at)
        PROVE  RegInv(reg')
    BY <1>4, AdoptInv DEF FiltrationAdopts
  <1>5. ASSUME NEW s \in Sessions, NEW c \in Circuits, NEW at \in Times, NEW d \in Domains,
               NEW r \in Receipts, FiltrationDelivered(s, c, at, d, r)
        PROVE  RegInv(reg')
    BY <1>5, RecordInv DEF FiltrationDelivered
  <1>6. ASSUME NEW s \in Sessions, NEW at \in Times, BodyConfirmed(s, at)
        PROVE  RegInv(reg')
    BY <1>6, ConfirmBodyInv DEF BodyConfirmed
  <1>7. ASSUME NEW s \in Sessions, NEW at \in Times, FiltrationConfirmed(s, at)
        PROVE  RegInv(reg')
    BY <1>7, ConfirmInv DEF FiltrationConfirmed
  <1>8. ASSUME NEW s \in Sessions, NEW c \in Circuits, NEW at \in Times,
               PumpSessionTakesPump(s, c, at)
        PROVE  RegInv(reg')
    BY <1>8, RetainBodyInv DEF PumpSessionTakesPump
  <1>9. ASSUME NEW s \in Sessions, FiltrationSuspends(s)
        PROVE  RegInv(reg')
    <2>1. reg.lease # None
      BY <1>9 DEF FiltrationSuspends, MaySuspend, HoldsLease
    <2> QED
      BY <1>9, <2>1, OwnerChangeInv, FiltrationOwnerNames DEF FiltrationSuspends, Suspend
  <1>10. ASSUME NEW s \in Sessions, NEW at \in Times, FiltrationResumes(s, at)
         PROVE  RegInv(reg')
    BY <1>10, ResumeInv DEF FiltrationResumes
  <1>11. ASSUME NEW s \in Sessions, FiltrationReleases(s)
         PROVE  RegInv(reg')
    BY <1>11, ReleaseFiltrationInv DEF FiltrationReleases
  <1>12. ASSUME NEW p \in Purposes, NEW at \in Times, HandoffBegins(p, at)
         PROVE  RegInv(reg')
    BY <1>12, BeginHandoffInv DEF HandoffBegins
  <1>13. ASSUME NEW t \in ThermalLeases, HandoffCompletes(t)
         PROVE  RegInv(reg')
    BY <1>13, CompleteHandoffInv DEF HandoffCompletes
  <1>14. ASSUME HandoffCancelled \/ HandoffInvalidated
         PROVE  RegInv(reg')
    BY <1>14, CancelHandoffInv, InvalidateHandoffInv DEF HandoffCancelled, HandoffInvalidated
  <1>15. ASSUME NEW s \in Sessions, NEW c \in Circuits, NEW at \in Times,
                NEW body \in Receipts, NEW pump \in Receipts, NEW b \in EarlierBodySessions,
                ThermalReturns(s, c, at, body, pump, b)
         PROVE  RegInv(reg')
    <2>1. b \in BodySession \cup {None}
      BY DEF EarlierBodySessions, BodySession
    <2> QED
      BY <1>15, <2>1, AcceptInv DEF ThermalReturns
  <1>16. ASSUME NEW t \in ThermalLeases, ThermalOwns(t)
         PROVE  RegInv(reg')
    BY <1>16, MarkThermalOwnedInv DEF ThermalOwns
  <1>17. ASSUME NEW t \in ThermalLeases \cup {None}, ThermalReleases(t)
         PROVE  RegInv(reg')
    BY <1>17, ReleaseThermalInv DEF ThermalReleases
  <1>18. ASSUME RegistryUnloads
         PROVE  RegInv(reg')
    BY <1>18, UnloadInv DEF RegistryUnloads
  <1>19. ASSUME UNCHANGED registryVars
         PROVE  RegInv(reg')
    BY <1>19 DEF registryVars
  <1> QED
    BY <1>1, <1>2, <1>3, <1>4, <1>5, <1>6, <1>7, <1>8, <1>9, <1>10, <1>11, <1>12, <1>13,
       <1>14, <1>15, <1>16, <1>17, <1>18, <1>19 DEF RegistryNext

LEMMA RegistryInvariance == RegistrySpec => []RegistryIInv
  <1>1. RegistryInit => RegistryIInv
    BY EmptyInv DEF RegistryInit, RegistryIInv
  <1> QED
    BY <1>1, RegistryIInvStep, PTL DEF RegistrySpec

(***************************************************************************)
(* The registry keeps its type: no method stores a malformed lease, token  *)
(* or owner.                                                               *)
(***************************************************************************)
THEOREM TypeCorrect == RegistrySpec => []RegistryTypeOK
  <1>1. RegistryIInv => RegistryTypeOK
    BY DEF RegistryIInv, RegInv, RegistryTypeOK
  <1> QED
    BY <1>1, RegistryInvariance, PTL

(***************************************************************************)
(* The owner agrees with the leases: never two PoolOS owners.              *)
(***************************************************************************)
THEOREM OwnerIsSingle == RegistrySpec => []SingleOwner
  <1>1. RegistryIInv => SingleOwner
    BY DEF RegistryIInv, RegInv, OwnerAgrees, SingleOwner
  <1> QED
    BY <1>1, RegistryInvariance, PTL

(***************************************************************************)
(* No method builds a lease that __post_init__ would refuse.               *)
(***************************************************************************)
THEOREM LeasesAreWellFormed == RegistrySpec => []LeaseNeverRefused
  <1>1. RegistryIInv => LeaseNeverRefused
    BY DEF RegistryIInv, RegInv, LeaseAgrees, LeaseNeverRefused
  <1> QED
    BY <1>1, RegistryInvariance, PTL

(***************************************************************************)
(* A pending token's donor is there, current, verified and commanded.      *)
(***************************************************************************)
THEOREM DonorIsThere == RegistrySpec => []TokenHasItsDonor
  <1>1. RegistryIInv => TokenHasItsDonor
    BY DEF RegistryIInv, RegInv, DonorAgrees, TokenHasItsDonor
  <1> QED
    BY <1>1, RegistryInvariance, PTL

-----------------------------------------------------------------------------
(***************************************************************************)
(* What a step may do to the lease: nothing but release it or replace it   *)
(* by a later state of itself, in which the operator has what he had; or   *)
(* start a lease of the next generation where there was none.              *)
(***************************************************************************)
OperatorKeeps(k, l) ==
  \A d \in Domains : DomainOf(k, d).authority = "OPERATOR"
                       => DomainOf(l, d).authority = "OPERATOR"

Kept(r, q) ==
  /\ q.generation = r.generation
  /\ q.lease # None => /\ r.lease # None
                       /\ q.lease.generation = r.lease.generation
                       /\ OperatorKeeps(r.lease, q.lease)

Fresh(r, q) ==
  /\ r.lease = None
  /\ q.generation = r.generation + 1
  /\ q.lease # None
  /\ q.lease.generation = r.generation + 1

LEMMA SameDomainsKeep ==
  ASSUME NEW k, NEW l, k.domains = l.domains
  PROVE  OperatorKeeps(k, l)
  BY DEF OperatorKeeps, DomainOf

\* Completing the domains never takes an operator's domain back.
LEMMA WithOriginsKeeps ==
  ASSUME NEW k, NEW l \in Lease, k.domains = l.domains
  PROVE  OperatorKeeps(k, WithOrigins(l))
  <1> SUFFICES ASSUME NEW d \in Domains, DomainOf(k, d).authority = "OPERATOR"
               PROVE  DomainOf(WithOrigins(l), d).authority = "OPERATOR"
    BY DEF OperatorKeeps
  <1>1. l.domains[d] # None
    BY DEF DomainOf, UnownedDomain
  <1>2. WithOrigins(l).domains[d] = l.domains[d]
    BY <1>1 DEF WithOrigins, Lease
  <1> QED
    BY <1>1, <1>2 DEF DomainOf

LEMMA DeliveryKeeps ==
  ASSUME NEW l \in Lease, NEW x \in Receipts, NEW at \in Nat
  PROVE  OperatorKeeps(l, WithBody(l, x, at)) /\ OperatorKeeps(l, WithPump(l, x, at))
  <1> DEFINE m == [l EXCEPT !.body_activation = x, !.body_adopted = FALSE,
                            !.last_confirmed_at = at]
             n == [l EXCEPT !.pump_setpoint = x, !.pump_session = FALSE,
                            !.last_confirmed_at = at]
  <1>1. m \in Lease /\ m.domains = l.domains
    BY DEF Lease
  <1>2. n \in Lease /\ n.domains = l.domains
    BY DEF Lease
  <1>3. WithBody(l, x, at) = WithOrigins(m) /\ WithPump(l, x, at) = WithOrigins(n)
    BY DEF WithBody, WithPump
  <1> HIDE DEF m, n
  <1>4. OperatorKeeps(l, WithOrigins(m))
    BY <1>1, WithOriginsKeeps
  <1>5. OperatorKeeps(l, WithOrigins(n))
    BY <1>2, WithOriginsKeeps
  <1> QED
    BY <1>3, <1>4, <1>5

LEMMA UpdateKeeps ==
  ASSUME NEW l \in Lease, NEW d \in Domains, NEW state \in DomainState,
         DomainOf(l, d).authority = "OPERATOR" => state.authority = "OPERATOR"
  PROVE  OperatorKeeps(l, [l EXCEPT !.domains[d] = state])
  <1> SUFFICES ASSUME NEW e \in Domains, DomainOf(l, e).authority = "OPERATOR"
               PROVE  DomainOf([l EXCEPT !.domains[d] = state], e).authority = "OPERATOR"
    BY DEF OperatorKeeps
  <1>1. CASE e = d
    BY <1>1, NoneAssumption DEF DomainOf, Lease
  <1>2. CASE e # d
    BY <1>2 DEF DomainOf, Lease
  <1> QED
    BY <1>1, <1>2

LEMMA FreshFacts ==
  ASSUME NEW r, RegInv(r), NEW s \in Sessions, NEW c \in Circuits, NEW at \in Nat
  PROVE  /\ NewLease(r.generation + 1, s, c, at) \in Lease
         /\ NewLease(r.generation + 1, s, c, at).generation = r.generation + 1
         /\ WellFormed(NewLease(r.generation + 1, s, c, at))
         /\ NewLease(r.generation + 1, s, c, at).established_at = at
  <1>1. r.generation + 1 \in Nat \ {0}
    BY DEF RegInv, Registry
  <1> QED
    BY <1>1, NewLeaseType DEF NewLease

\* A delivery is recorded in the lease that is there, or begins one.
LEMMA DeliverySteps ==
  ASSUME NEW r, RegInv(r), NEW s \in Sessions, NEW c \in Circuits, NEW at \in Nat,
         NEW d \in Domains, NEW receipt \in Receipts, MayRecordDelivery(r, s, c, at)
  PROVE  \/ Kept(r, RecordDelivery(r, s, c, at, d, receipt))
         \/ Fresh(r, RecordDelivery(r, s, c, at, d, receipt))
  <1> DEFINE k == DeliveryLease(r, s, c, at)
             l == IF d = "BODY" THEN WithBody(k, receipt, at) ELSE WithPump(k, receipt, at)
             q == RecordDelivery(r, s, c, at, d, receipt)
  <1>1. k \in Lease /\ WellFormed(k) /\ k.established_at <= at
    BY FreshFacts, LeaseFacts DEF DeliveryLease, MayRecordDelivery
  <1>2. /\ q.lease = l
        /\ q.generation = IF r.lease = None THEN r.generation + 1 ELSE r.generation
    BY DEF RecordDelivery, Registry, RegInv
  <1>3. k.generation = IF r.lease = None THEN r.generation + 1 ELSE r.lease.generation
    BY FreshFacts DEF DeliveryLease
  <1>4. r.lease # None => k = r.lease
    BY DEF DeliveryLease
  <1> HIDE DEF k, q
  <1>5. l \in Lease /\ l.generation = k.generation /\ OperatorKeeps(k, l)
    BY <1>1, WithBodyFacts, WithPumpFacts, DeliveryKeeps
  <1> HIDE DEF l
  <1> QED
    BY <1>2, <1>3, <1>4, <1>5, NoneAssumption DEF Kept, Fresh, q

LEMMA LeaseSteps ==
  RegistryIInv /\ [RegistryNext]_registryVars => Kept(reg, reg') \/ Fresh(reg, reg')
  <1> SUFFICES ASSUME RegInv(reg), [RegistryNext]_registryVars
               PROVE  Kept(reg, reg') \/ Fresh(reg, reg')
    BY DEF RegistryIInv
  <1> USE TimesAreNat
  <1>0. reg \in Registry
    BY DEF RegInv
  <1>a. ASSUME reg'.generation = reg.generation, reg'.lease = None
        PROVE  Kept(reg, reg')
    BY <1>a DEF Kept
  <1>b. ASSUME reg.lease # None, reg'.generation = reg.generation,
               reg'.lease.generation = reg.lease.generation,
               reg'.lease.domains = reg.lease.domains
        PROVE  Kept(reg, reg')
    BY <1>b, SameDomainsKeep DEF Kept
  <1>c. ASSUME reg'.generation = reg.generation, reg'.lease = reg.lease
        PROVE  Kept(reg, reg')
    BY <1>c, SameDomainsKeep DEF Kept
  <1>1. ASSUME NEW s \in Sessions, NEW d \in Domains, UpdateFiltrationDomain(s, d)
        PROVE  Kept(reg, reg')
    <2>1. PICK state \in DomainUpdates(d, DomainOf(reg.lease, d)) :
            reg' = UpdateDomain(reg, d, state)
      BY <1>1 DEF UpdateFiltrationDomain
    <2>2. reg.lease # None /\ reg.lease \in Lease
      BY <1>1, LeaseFacts DEF UpdateFiltrationDomain, HoldsLease
    <2>3. state \in DomainState /\ DomainOf(reg.lease, d) \in DomainState
      BY <2>1, <2>2, DomainOfType, DomainUpdateTypes
    <2>4. state.authority = DomainOf(reg.lease, d).authority
      BY <2>1, <2>3 DEF DomainUpdates, Faulted, DomainState
    <2>5. OperatorKeeps(reg.lease, [reg.lease EXCEPT !.domains[d] = state])
      BY <2>2, <2>3, <2>4, UpdateKeeps
    <2>6. /\ reg'.generation = reg.generation
          /\ reg'.lease = [reg.lease EXCEPT !.domains[d] = state]
      BY <1>0, <2>1 DEF UpdateDomain, Registry
    <2>7. reg'.lease.generation = reg.lease.generation
      BY <2>2, <2>6 DEF Lease
    <2> QED
      BY <2>2, <2>5, <2>6, <2>7 DEF Kept
  <1>2. ASSUME NEW d \in Domains, NEW q \in Times, NEW at \in Times, OperatorRequest(d, q, at)
        PROVE  Kept(reg, reg')
    <2>1. reg.lease # None /\ reg.lease \in Lease
      BY <1>2, LeaseFacts DEF OperatorRequest
    <2> DEFINE state == Yielded(DomainOf(reg.lease, d), q)
    <2>2. state \in DomainState
      BY <2>1, DomainOfType, DomainTypes
    <2>3. state.authority = "OPERATOR"
      BY <2>1, DomainOfType DEF Yielded, DomainState
    <2>4. reg' = UpdateDomain(reg, d, state)
      BY <1>2 DEF OperatorRequest, RecordOperatorIntent
    <2> HIDE DEF state
    <2>5. OperatorKeeps(reg.lease, [reg.lease EXCEPT !.domains[d] = state])
      BY <2>1, <2>2, <2>3, UpdateKeeps
    <2>6. /\ reg'.generation = reg.generation
          /\ reg'.lease = [reg.lease EXCEPT !.domains[d] = state]
      BY <1>0, <2>4 DEF UpdateDomain, Registry
    <2>7. reg'.lease.generation = reg.lease.generation
      BY <2>1, <2>6 DEF Lease
    <2> QED
      BY <2>1, <2>5, <2>6, <2>7 DEF Kept
  <1>3. ASSUME NEW e \in Epochs, StartEpoch(e) \/ ThermalReserves(e)
        PROVE  Kept(reg, reg')
    BY <1>0, <1>3, <1>c DEF StartEpoch, ThermalReserves, BeginEpoch, ReserveThermal, Registry
  <1>4. ASSUME NEW s \in Sessions, NEW c \in Circuits, NEW at \in Times,
               FiltrationAdopts(s, c, at)
        PROVE  Fresh(reg, reg')
    <2> DEFINE n == NewLease(reg.generation + 1, s, c, at)
               m == [n EXCEPT !.body_adopted = TRUE, !.body_verified = TRUE]
    <2>1. n \in Lease /\ n.generation = reg.generation + 1
      BY FreshFacts
    <2>2. m \in Lease /\ m.generation = reg.generation + 1
      BY <2>1 DEF Lease
    <2>3. reg.lease = None /\ reg'.generation = reg.generation + 1 /\ reg'.lease = WithOrigins(m)
      BY <1>0, <1>4 DEF FiltrationAdopts, MayAdopt, AdoptFiltrationBody, Registry
    <2> HIDE DEF m
    <2> QED
      BY <2>2, <2>3, WithOriginsType, NoneAssumption DEF Fresh
  <1>5. ASSUME NEW s \in Sessions, NEW c \in Circuits, NEW at \in Times, NEW d \in Domains,
               NEW r \in Receipts, FiltrationDelivered(s, c, at, d, r)
        PROVE  Kept(reg, reg') \/ Fresh(reg, reg')
    BY <1>5, DeliverySteps DEF FiltrationDelivered
  <1>6. ASSUME NEW s \in Sessions, NEW at \in Times,
               BodyConfirmed(s, at) \/ FiltrationConfirmed(s, at) \/ FiltrationResumes(s, at)
        PROVE  Kept(reg, reg')
    <2>1. reg.lease # None /\ reg.lease \in Lease
      BY <1>6, LeaseFacts
      DEF BodyConfirmed, FiltrationConfirmed, FiltrationResumes, MayConfirmBody, MayConfirm,
          MayResume, HoldsLease
    <2>2. /\ reg'.generation = reg.generation
          /\ reg'.lease.generation = reg.lease.generation
          /\ reg'.lease.domains = reg.lease.domains
      <3>1. CASE BodyConfirmed(s, at)
        BY <1>0, <2>1, <3>1 DEF BodyConfirmed, ConfirmBody, Registry, Lease
      <3>2. CASE FiltrationConfirmed(s, at)
        BY <1>0, <2>1, <3>2 DEF FiltrationConfirmed, Confirm, Registry, Lease
      <3>3. CASE FiltrationResumes(s, at)
        BY <1>0, <2>1, <3>3 DEF FiltrationResumes, Resume, Registry, Lease
      <3> QED
        BY <1>6, <3>1, <3>2, <3>3
    <2> QED
      BY <1>b, <2>1, <2>2
  <1>7. ASSUME NEW s \in Sessions, NEW c \in Circuits, NEW at \in Times,
               PumpSessionTakesPump(s, c, at)
        PROVE  Kept(reg, reg')
    <2>1. reg.lease # None /\ reg.lease \in Lease
      BY <1>7, LeaseFacts DEF PumpSessionTakesPump, MayRetainBodyForPumpSession, HoldsLease
    <2>2. /\ reg'.generation = reg.generation
          /\ reg'.lease.generation = reg.lease.generation
          /\ reg'.lease.domains = reg.lease.domains
      BY <1>0, <1>7, <2>1 DEF PumpSessionTakesPump, RetainBodyForPumpSession, Registry, Lease
    <2> QED
      BY <1>b, <2>1, <2>2
  <1>8. ASSUME NEW s \in Sessions, FiltrationSuspends(s) \/ FiltrationReleases(s)
        PROVE  Kept(reg, reg')
    BY <1>0, <1>8, <1>a, <1>c
    DEF FiltrationSuspends, FiltrationReleases, Suspend, ReleaseFiltration, Registry
  <1>9. ASSUME NEW p \in Purposes, NEW at \in Times, HandoffBegins(p, at)
        PROVE  Kept(reg, reg')
    BY <1>0, <1>9, <1>c DEF HandoffBegins, BeginHandoff, Registry
  <1>10. ASSUME NEW t \in ThermalLeases, HandoffCompletes(t)
         PROVE  Kept(reg, reg')
    BY <1>0, <1>10, <1>a DEF HandoffCompletes, CompleteHandoff, Registry
  <1>11. ASSUME HandoffCancelled \/ HandoffInvalidated
         PROVE  Kept(reg, reg')
    BY <1>0, <1>11, <1>a, <1>c
    DEF HandoffCancelled, HandoffInvalidated, CancelHandoff, InvalidateHandoff, Registry
  <1>12. ASSUME NEW s \in Sessions, NEW c \in Circuits, NEW at \in Times,
                NEW body \in Receipts, NEW pump \in Receipts, NEW b \in EarlierBodySessions,
                ThermalReturns(s, c, at, body, pump, b)
         PROVE  Fresh(reg, reg')
    <2> DEFINE n == NewLease(reg.generation + 1, s, c, at)
               m == [n EXCEPT !.body_activation = body, !.pump_setpoint = pump,
                              !.body_verified = TRUE, !.verified = TRUE,
                              !.body_session = IF b = None THEN n.body_session ELSE b]
    <2>1. n \in Lease /\ n.generation = reg.generation + 1
      BY FreshFacts
    <2>2. m \in Lease /\ m.generation = reg.generation + 1
      <3> DEFINE x == IF b = None THEN n.body_session ELSE b
      <3>1. b \in BodySession \cup {None}
        BY DEF EarlierBodySessions, BodySession
      <3>2. x \in BodySession
        BY <2>1, <3>1 DEF Lease
      <3>3. m = [n EXCEPT !.body_activation = body, !.pump_setpoint = pump,
                          !.body_verified = TRUE, !.verified = TRUE, !.body_session = x]
        OBVIOUS
      <3> HIDE DEF n, m, x
      <3> QED
        BY <2>1, <3>2, <3>3 DEF Lease
    <2>3. /\ reg' = AcceptFromThermal(reg, s, c, at, body, pump, b)
          /\ reg.owner = "THERMAL"
      BY <1>12 DEF ThermalReturns, MayAcceptFromThermal
    <2>4. reg.lease = None
      BY <2>3 DEF RegInv, OwnerAgrees, FiltrationOwners
    <2>5. reg'.generation = reg.generation + 1 /\ reg'.lease = WithOrigins(m)
      BY <1>0, <2>3 DEF AcceptFromThermal, Registry
    <2> HIDE DEF m
    <2> QED
      BY <2>2, <2>4, <2>5, WithOriginsType, NoneAssumption DEF Fresh
  <1>13. ASSUME NEW t \in ThermalLeases, ThermalOwns(t)
         PROVE  Kept(reg, reg')
    BY <1>0, <1>13, <1>c DEF ThermalOwns, MarkThermalOwned, Registry
  <1>14. ASSUME NEW t \in ThermalLeases \cup {None}, ThermalReleases(t)
         PROVE  Kept(reg, reg')
    BY <1>0, <1>14, <1>c DEF ThermalReleases, ReleaseThermal, Registry
  <1>15. ASSUME RegistryUnloads
         PROVE  Kept(reg, reg')
    BY <1>0, <1>15, <1>a DEF RegistryUnloads, UnloadRegistry, EmptyRegistry, Registry
  <1>16. ASSUME UNCHANGED registryVars
         PROVE  Kept(reg, reg')
    BY <1>16, <1>c DEF registryVars
  <1> QED
    BY <1>1, <1>2, <1>3, <1>4, <1>5, <1>6, <1>7, <1>8, <1>9, <1>10, <1>11, <1>12, <1>13,
       <1>14, <1>15, <1>16 DEF RegistryNext

(***************************************************************************)
(* Generations only grow, and a lease that is not the one before the step  *)
(* has a generation above all earlier ones.                                *)
(***************************************************************************)
THEOREM GenerationsAreFresh == RegistrySpec => GenerationsNeverReused
  <1> DEFINE A == /\ reg'.generation >= reg.generation
                  /\ reg'.lease # None
                     /\ (reg.lease = None \/ reg'.lease.generation # reg.lease.generation)
                     => reg'.lease.generation > reg.generation
  <1>1. RegistryIInv /\ [RegistryNext]_registryVars => A
    <2> SUFFICES ASSUME RegistryIInv, [RegistryNext]_registryVars PROVE A
      OBVIOUS
    <2>1. reg.generation \in Nat
      BY DEF RegistryIInv, RegInv, Registry
    <2> QED
      BY <2>1, LeaseSteps DEF Kept, Fresh
  <1>2. RegistryIInv /\ [RegistryNext]_registryVars => [A]_registryVars
    BY <1>1
  <1> QED
    BY <1>2, RegistryInvariance, PTL DEF RegistrySpec, GenerationsNeverReused

(***************************************************************************)
(* What the operator took of a lease, he keeps while the lease lives.      *)
(***************************************************************************)
THEOREM OperatorIsNotOverruled == RegistrySpec => OperatorKeepsDomain
  <1> DEFINE A == reg.lease # None /\ reg'.lease # None
                  /\ reg'.lease.generation = reg.lease.generation
                  => \A d \in Domains : DomainOf(reg.lease, d).authority = "OPERATOR"
                                          => DomainOf(reg'.lease, d).authority = "OPERATOR"
  <1>1. RegistryIInv /\ [RegistryNext]_registryVars => A
    BY LeaseSteps DEF Kept, Fresh, OperatorKeeps
  <1>2. RegistryIInv /\ [RegistryNext]_registryVars => [A]_registryVars
    BY <1>1
  <1> QED
    BY <1>2, RegistryInvariance, PTL DEF RegistrySpec, OperatorKeepsDomain

\* What a lease that is handed over to thermal must be.
Earned(l) ==
  /\ l.verified
  /\ l.body_activation # None
  /\ DomainOf(l, "BODY").authority = "POOLOS"

LEMMA TransferSteps ==
  RegistryIInv /\ [RegistryNext]_registryVars /\ reg.lease # None /\ reg'.owner = "THERMAL"
    => Earned(reg.lease)
  <1> SUFFICES ASSUME RegInv(reg), [RegistryNext]_registryVars, reg.lease # None,
                      reg'.owner = "THERMAL"
               PROVE  Earned(reg.lease)
    BY DEF RegistryIInv
  <1>1. reg.owner \in FiltrationOwners /\ reg.owner # "THERMAL" /\ reg.owner # "NONE"
    BY LeaseFacts DEF FiltrationOwners
  <1>2. PICK t \in ThermalLeases : HandoffCompletes(t)
    <2>1. reg \in Registry
      BY DEF RegInv
    <2>2. ~ UNCHANGED registryVars
      BY <1>1 DEF registryVars
    <2>3. ASSUME NEW s \in Sessions, NEW d \in Domains
          PROVE  ~ UpdateFiltrationDomain(s, d)
      BY <1>1, <2>1 DEF UpdateFiltrationDomain, UpdateDomain, Registry
    <2>4. ASSUME NEW d \in Domains, NEW q \in Times, NEW at \in Times
          PROVE  ~ OperatorRequest(d, q, at)
      BY <1>1, <2>1 DEF OperatorRequest, RecordOperatorIntent, UpdateDomain, Registry
    <2>5. ASSUME NEW e \in Epochs
          PROVE  ~ StartEpoch(e) /\ ~ ThermalReserves(e)
      BY <1>1, <2>1 DEF StartEpoch, BeginEpoch, ThermalReserves, ReserveThermal, Registry
    <2>6. ASSUME NEW s \in Sessions, NEW c \in Circuits, NEW at \in Times
          PROVE  /\ ~ FiltrationAdopts(s, c, at)
                 /\ ~ PumpSessionTakesPump(s, c, at)
      BY <1>1, <2>1
      DEF FiltrationAdopts, AdoptFiltrationBody, PumpSessionTakesPump,
          RetainBodyForPumpSession, Registry
    <2>7. ASSUME NEW s \in Sessions, NEW c \in Circuits, NEW at \in Times,
                 NEW d \in Domains, NEW r \in Receipts
          PROVE  ~ FiltrationDelivered(s, c, at, d, r)
      BY <1>1, <2>1 DEF FiltrationDelivered, RecordDelivery, Registry
    <2>8. ASSUME NEW s \in Sessions, NEW at \in Times
          PROVE  /\ ~ BodyConfirmed(s, at)
                 /\ ~ FiltrationConfirmed(s, at)
                 /\ ~ FiltrationResumes(s, at)
      BY <1>1, <2>1
      DEF BodyConfirmed, ConfirmBody, FiltrationConfirmed, Confirm, FiltrationResumes,
          Resume, Registry
    <2>9. ASSUME NEW s \in Sessions
          PROVE  ~ FiltrationSuspends(s) /\ ~ FiltrationReleases(s)
      BY <1>1, <2>1
      DEF FiltrationSuspends, Suspend, FiltrationReleases, ReleaseFiltration, Registry
    <2>10. ASSUME NEW p \in Purposes, NEW at \in Times
           PROVE  ~ HandoffBegins(p, at)
      BY <1>1, <2>1 DEF HandoffBegins, BeginHandoff, Registry
    <2>11. ~ HandoffCancelled /\ ~ HandoffInvalidated /\ ~ RegistryUnloads
      BY <1>1, <2>1
      DEF HandoffCancelled, CancelHandoff, HandoffInvalidated, InvalidateHandoff,
          RegistryUnloads,
          UnloadRegistry, EmptyRegistry, Registry
    <2>12. ASSUME NEW s \in Sessions, NEW c \in Circuits, NEW at \in Times,
                  NEW body \in Receipts, NEW pump \in Receipts, NEW b \in EarlierBodySessions
           PROVE  ~ ThermalReturns(s, c, at, body, pump, b)
      BY <1>1 DEF ThermalReturns, MayAcceptFromThermal
    <2>13. ASSUME NEW t \in ThermalLeases
           PROVE  ~ ThermalOwns(t)
      BY <1>1 DEF ThermalOwns, MayMarkThermalOwned
    <2>14. ASSUME NEW t \in ThermalLeases \cup {None}
           PROVE  ~ ThermalReleases(t)
      BY <1>1 DEF ThermalReleases
    <2> QED
      BY <2>2, <2>3, <2>4, <2>5, <2>6, <2>7, <2>8, <2>9, <2>10, <2>11, <2>12, <2>13, <2>14
      DEF RegistryNext
  <1>3. reg.handoff # None /\ DonorCurrent(reg.lease, reg.handoff)
    BY <1>2 DEF HandoffCompletes, MayCompleteHandoff
  <1> QED
    BY <1>3 DEF RegInv, DonorAgrees, DonorCurrent, Earned

(***************************************************************************)
(* Only the completion of a hand-over takes circulation from a filtration  *)
(* lease to thermal, and the donor then is verified, commanded and still   *)
(* PoolOS's.                                                               *)
(***************************************************************************)
THEOREM TransfersAreEarned == RegistrySpec => TransferIsEarned
  <1> DEFINE A == reg.lease # None /\ reg'.owner = "THERMAL" =>
                    /\ reg.lease.verified
                    /\ reg.lease.body_activation # None
                    /\ DomainOf(reg.lease, "BODY").authority = "POOLOS"
  <1>1. RegistryIInv /\ [RegistryNext]_registryVars => A
    BY TransferSteps DEF Earned
  <1>2. RegistryIInv /\ [RegistryNext]_registryVars => [A]_registryVars
    BY <1>1
  <1> QED
    BY <1>2, RegistryInvariance, PTL DEF RegistrySpec, TransferIsEarned
=============================================================================
