----------------------- MODULE FiltrationRuntimeProofs -----------------------
(***************************************************************************)
(* Theorems of FiltrationRuntime, for every set of epochs, sessions,       *)
(* circuits and receipts, every bound of the clock and of the generations, *)
(* and every set of environments.                                          *)
(***************************************************************************)
EXTENDS FiltrationRuntime, PoolCirculationProofs, FiniteSetTheorems

-----------------------------------------------------------------------------
(***************************************************************************)
(* What holds of a registry, and of a driver beside it, in every state.    *)
(* Between filtration and thermal: a token is pending only while the owner *)
(* says so, and what is reserved is the current epoch.  Nothing in the     *)
(* registry's methods ensures the first: they confirm a delivery for       *)
(* whoever owns.  It rests on the second predicate, that filtration has    *)
(* not reached the owner a hand-over begins with while a command that      *)
(* claims the circulation waits for its verification.                      *)
(***************************************************************************)
Pledged(r) ==
  /\ r.handoff # None => r.owner = "FILTRATION_TO_THERMAL"
  /\ r.reserved # None => r.reserved = r.epoch

Acquiring(r, d) ==
  (/\ d.attempt # None /\ d.attempt.step # "BODY_OFF"
   /\ r.lease # None /\ r.lease.session = d.session)
    => r.owner \in {"FILTRATION_ACQUIRING", "FILTRATION_SUSPENDED"}

RegGood(r) == RegInv(r) /\ Pledged(r)

(***************************************************************************)
(* What any number of calls may do to the lease: it goes, or it is a later *)
(* state of itself in which the operator has what he had, or it is one of  *)
(* a generation there never was.                                           *)
(***************************************************************************)
Evolves(r, q) ==
  /\ q.generation >= r.generation
  /\ q.lease # None => \/ q.lease.generation > r.generation
                       \/ /\ r.lease # None /\ q.lease.generation = r.lease.generation
                          /\ OperatorKeeps(r.lease, q.lease)

LEMMA StepEvolves ==
  ASSUME NEW r, RegInv(r), NEW q, Kept(r, q) \/ Fresh(r, q)
  PROVE  Evolves(r, q)
  <1>1. r.generation \in Nat
    BY DEF RegInv, Registry
  <1> QED
    BY <1>1 DEF Kept, Fresh, Evolves

LEMMA SameLeaseEvolves ==
  ASSUME NEW r, RegInv(r), NEW q, q.generation = r.generation, q.lease = r.lease
  PROVE  Evolves(r, q)
  BY StepEvolves, SameDomainsKeep DEF Kept

LEMMA EvolvesTrans ==
  ASSUME NEW r, RegInv(r), NEW q, RegInv(q), NEW p, RegInv(p), Evolves(r, q), Evolves(q, p)
  PROVE  Evolves(r, p)
  <1>1. r.generation \in Nat /\ q.generation \in Nat /\ p.generation \in Nat
    BY DEF RegInv, Registry
  <1>2. p.lease # None => p.lease.generation \in Nat
    BY LeaseFacts DEF Lease
  <1> QED
    BY <1>1, <1>2 DEF Evolves, OperatorKeeps

(***************************************************************************)
(* What filtration may make of a registry at a frame's time: the epoch and *)
(* the reservation stay, a lease is the one there was or begins now, what  *)
(* thermal owns stays with thermal, and nothing else is given to it.       *)
(***************************************************************************)
Moves(r, q, at) ==
  /\ RegGood(r) /\ RegGood(q) /\ Evolves(r, q)
  /\ q.epoch = r.epoch /\ q.reserved = r.reserved
  /\ q.lease # None => \/ q.lease.established_at = at
                       \/ /\ r.lease # None
                          /\ q.lease.established_at = r.lease.established_at
  /\ r.owner = "THERMAL" => q.owner = "THERMAL" /\ q.thermal_lease = r.thermal_lease
  /\ q.owner = "THERMAL" => r.owner = "THERMAL"

SameSwitches(d, e) ==
  /\ e.last = d.last /\ e.enabled = d.enabled /\ e.after = d.after
  /\ e.unloaded = d.unloaded

\* A command is to be delivered only by a driver that may deliver it.
MayQueue(x, f) ==
  x.next \in Steps =>
    /\ x.drv.attempt = None /\ ~x.drv.reenable
    /\ x.drv.session \in Sessions /\ f.circuit \in Circuits
    /\ FiltrationMayDeliver(x.reg, f.epoch, x.drv.session)

Fruitless(x) == x.drv.reenable => x.drv.session = None /\ x.reg.lease = None

\* What the driver makes of a registry r and itself d with a frame f.
Good(r, d, f, x) ==
  /\ Moves(r, x.reg, f.at)
  /\ x.drv \in Driver
  /\ SameSwitches(d, x.drv)
  /\ Acquiring(x.reg, x.drv)
  /\ Fruitless(x)
  /\ x.next \in {"done", "raised"} \cup Steps
  /\ MayQueue(x, f)

-----------------------------------------------------------------------------
\* A registry that is left alone has moved.
LEMMA MovesRefl ==
  ASSUME NEW r, RegGood(r), NEW at
  PROVE  Moves(r, r, at)
  BY SameLeaseEvolves DEF Moves, RegGood

LEMMA MovesTrans ==
  ASSUME NEW r, NEW q, NEW p, NEW at, Moves(r, q, at), Moves(q, p, at)
  PROVE  Moves(r, p, at)
  <1>1. Evolves(r, p)
    BY EvolvesTrans DEF Moves, RegGood
  <1> QED
    BY <1>1 DEF Moves

\* What follows a first step of the driver.
LEMMA GoodAfter ==
  ASSUME NEW r, NEW d, NEW f, NEW q, NEW e, NEW x,
         Moves(r, q, f.at), SameSwitches(d, e), Good(q, e, f, x)
  PROVE  Good(r, d, f, x)
  <1>1. Moves(q, x.reg, f.at) /\ SameSwitches(e, x.drv)
    BY DEF Good
  <1>2. Moves(r, x.reg, f.at)
    BY <1>1, MovesTrans
  <1> QED
    BY <1>1, <1>2 DEF Good, SameSwitches

\* A result that queues nothing.
LEMMA GoodResult ==
  ASSUME NEW r, NEW d, NEW f, NEW q, NEW e, NEW next \in {"done", "raised"},
         Moves(r, q, f.at), e \in Driver, SameSwitches(d, e), Acquiring(q, e),
         e.reenable => e.session = None /\ q.lease = None
  PROVE  Good(r, d, f, Result(q, e, next))
  <1>1. next \notin Steps
    BY DEF Steps
  <1> QED
    BY <1>1 DEF Good, Result, Fruitless, MayQueue

-----------------------------------------------------------------------------
(***************************************************************************)
(* The methods of the registry that filtration calls.                      *)
(***************************************************************************)
LEMMA ThermalHasNoLease ==
  ASSUME NEW r, RegInv(r), r.lease # None
  PROVE  r.owner # "THERMAL" /\ r.owner # "NONE"
  BY DEF RegInv, OwnerAgrees, FiltrationOwners

LEMMA UpdateFacts ==
  ASSUME NEW r, RegGood(r), r.lease # None, NEW d \in Domains, NEW state \in DomainState
  PROVE  /\ RegGood(UpdateDomain(r, d, state))
         /\ UpdateDomain(r, d, state) = [r EXCEPT !.lease = [r.lease EXCEPT !.domains[d] = state]]
         /\ UpdateDomain(r, d, state).owner = r.owner
         /\ UpdateDomain(r, d, state).generation = r.generation
         /\ UpdateDomain(r, d, state).lease # None
         /\ UpdateDomain(r, d, state).lease = [r.lease EXCEPT !.domains[d] = state]
  <1> DEFINE q == UpdateDomain(r, d, state)
             l == [r.lease EXCEPT !.domains[d] = state]
  <1>1. RegInv(r) /\ r \in Registry /\ r.lease \in Lease
    BY LeaseFacts DEF RegGood, RegInv
  <1>2. RegInv(q)
    BY <1>1, UpdateDomainInv
  <1>3. q = [r EXCEPT !.lease = l]
    BY DEF UpdateDomain
  <1>4. l \in Lease
    BY <1>1 DEF Lease
  <1> HIDE DEF l
  <1>5. /\ q.owner = r.owner /\ q.handoff = r.handoff /\ q.epoch = r.epoch
        /\ q.reserved = r.reserved /\ q.generation = r.generation /\ q.lease = l
    BY <1>1, <1>3 DEF Registry
  <1> HIDE DEF q
  <1>6. RegGood(q)
    BY <1>2, <1>5 DEF RegGood, Pledged
  <1> QED
    BY <1>3, <1>4, <1>5, <1>6, NoneAssumption DEF q, l

LEMMA UpdateMoves ==
  ASSUME NEW r, RegGood(r), r.lease # None, NEW d \in Domains, NEW state \in DomainState,
         DomainOf(r.lease, d).authority = "OPERATOR" => state.authority = "OPERATOR",
         NEW at
  PROVE  Moves(r, UpdateDomain(r, d, state), at)
  <1> DEFINE q == UpdateDomain(r, d, state)
             l == [r.lease EXCEPT !.domains[d] = state]
  <1>1. RegInv(r) /\ r \in Registry /\ r.lease \in Lease
    BY LeaseFacts DEF RegGood, RegInv
  <1>2. /\ RegGood(q) /\ q = [r EXCEPT !.lease = l] /\ q.lease = l /\ q.owner = r.owner
        /\ q.generation = r.generation
    BY UpdateFacts
  <1>3. OperatorKeeps(r.lease, l)
    BY <1>1, UpdateKeeps
  <1>4. l.established_at = r.lease.established_at /\ l.generation = r.lease.generation
    BY <1>1 DEF Lease
  <1> HIDE DEF q, l
  <1>5. q.epoch = r.epoch /\ q.reserved = r.reserved /\ q.thermal_lease = r.thermal_lease
    BY <1>1, <1>2 DEF Registry
  <1>6. Evolves(r, q)
    BY <1>1, <1>2, <1>3, <1>4, StepEvolves DEF Kept
  <1>7. Moves(r, q, at)
    BY <1>2, <1>4, <1>5, <1>6 DEF Moves
  <1> QED
    BY <1>7 DEF q

LEMMA ReleasedMoves ==
  ASSUME NEW r, RegGood(r), NEW at
  PROVE  Moves(r, Released(r), at) /\ Released(r).lease = None
  <1>1. CASE r.lease = None
    BY <1>1, MovesRefl DEF Released
  <1>2. CASE r.lease # None
    <2> DEFINE q == ReleaseFiltration(r, r.lease.session)
    <2>1. RegInv(r) /\ r \in Registry /\ r.lease.session \in Sessions
      BY <1>2, LeaseFacts DEF RegGood, RegInv, Lease
    <2>2. RegInv(q)
      BY <1>2, <2>1, ReleaseFiltrationInv DEF HoldsLease
    <2>3. /\ q.lease = None /\ q.handoff = None /\ q.epoch = r.epoch
          /\ q.reserved = r.reserved /\ q.generation = r.generation /\ q.owner = "NONE"
      BY <1>2, <2>1 DEF ReleaseFiltration, HoldsLease, Registry
    <2>4. r.owner # "THERMAL"
      BY <1>2, <2>1, ThermalHasNoLease
    <2> HIDE DEF q
    <2>a. Evolves(r, q)
      BY <2>1, <2>3, StepEvolves DEF Kept
    <2>5. Moves(r, q, at)
      BY <2>2, <2>3, <2>4, <2>a DEF Moves, RegGood, Pledged
    <2> QED
      BY <1>2, <2>3, <2>5 DEF Released, q
  <1> QED
    BY <1>1, <1>2

LEMMA SuspendMoves ==
  ASSUME NEW r, RegGood(r), NEW s, MaySuspend(r, s), NEW at
  PROVE  /\ Moves(r, Suspend(r), at)
         /\ Suspend(r).owner = "FILTRATION_SUSPENDED"
         /\ Suspend(r).lease = r.lease
  <1> DEFINE q == Suspend(r)
  <1>1. RegInv(r) /\ r \in Registry /\ r.lease # None
    BY DEF RegGood, RegInv, MaySuspend, HoldsLease
  <1>2. RegInv(q)
    BY <1>1, OwnerChangeInv, FiltrationOwnerNames DEF Suspend
  <1>3. /\ q.lease = r.lease /\ q.handoff = r.handoff /\ q.epoch = r.epoch
        /\ q.reserved = r.reserved /\ q.owner = "FILTRATION_SUSPENDED"
        /\ q.generation = r.generation
    BY <1>1 DEF Suspend, Registry
  <1>4. r.owner # "THERMAL" /\ r.handoff = None
    BY DEF MaySuspend, RegGood, Pledged
  <1> HIDE DEF q
  <1>a. Evolves(r, q)
    BY <1>1, <1>3, SameLeaseEvolves
  <1>5. Moves(r, q, at)
    BY <1>2, <1>3, <1>4, <1>a DEF Moves, RegGood, Pledged
  <1> QED
    BY <1>3, <1>5 DEF q

LEMMA ResumeMoves ==
  ASSUME NEW r, RegGood(r), NEW s \in Sessions, NEW at \in Nat, MayResume(r, s, at)
  PROVE  /\ Moves(r, Resume(r, at), at)
         /\ Resume(r, at).owner = "FILTRATION" /\ Resume(r, at).lease # None
  <1> DEFINE q == Resume(r, at)
  <1>1. RegInv(r) /\ r \in Registry /\ r.lease # None /\ r.lease \in Lease
    BY LeaseFacts DEF RegGood, RegInv, MayResume, HoldsLease
  <1>2. RegInv(q)
    BY <1>1, ResumeInv
  <1>3. /\ q.lease = [r.lease EXCEPT !.last_confirmed_at = at]
        /\ q.handoff = r.handoff /\ q.epoch = r.epoch
        /\ q.reserved = r.reserved /\ q.owner = "FILTRATION"
        /\ q.generation = r.generation
    BY <1>1 DEF Resume, Registry
  <1>4. /\ q.lease \in Lease /\ q.lease.established_at = r.lease.established_at
        /\ q.lease.generation = r.lease.generation /\ q.lease.domains = r.lease.domains
    BY <1>1, <1>3 DEF Lease
  <1>5. r.owner # "THERMAL" /\ r.handoff = None
    BY DEF MayResume, RegGood, Pledged
  <1> HIDE DEF q
  <1>a. Evolves(r, q)
    BY <1>1, <1>3, <1>4, StepEvolves, SameDomainsKeep DEF Kept
  <1>6. Moves(r, q, at) /\ q.lease # None
    BY <1>1, <1>2, <1>3, <1>4, <1>5, <1>a, NoneAssumption DEF Moves, RegGood, Pledged
  <1> QED
    BY <1>3, <1>6 DEF q

\* A delivery is confirmed while it claims the circulation, when no token is pending.
LEMMA ConfirmMoves ==
  ASSUME NEW r, RegGood(r), NEW s \in Sessions, NEW at \in Nat, MayConfirm(r, s, at),
         r.owner \in {"FILTRATION_ACQUIRING", "FILTRATION_SUSPENDED"}
  PROVE  Moves(r, Confirm(r, at), at)
  <1> DEFINE q == Confirm(r, at)
  <1>1. RegInv(r) /\ r \in Registry /\ r.lease # None /\ r.lease \in Lease
    BY LeaseFacts DEF RegGood, RegInv, MayConfirm, HoldsLease
  <1>2. RegInv(q)
    BY <1>1, ConfirmInv
  <1>3. /\ q.lease = [r.lease EXCEPT !.verified = TRUE, !.last_confirmed_at = at]
        /\ q.handoff = r.handoff /\ q.epoch = r.epoch
        /\ q.reserved = r.reserved /\ q.owner = "FILTRATION"
        /\ q.generation = r.generation
    BY <1>1 DEF Confirm, Registry
  <1>4. /\ q.lease.established_at = r.lease.established_at
        /\ q.lease.generation = r.lease.generation /\ q.lease.domains = r.lease.domains
    BY <1>1, <1>3 DEF Lease
  <1>5. r.owner # "THERMAL" /\ r.handoff = None
    BY DEF RegGood, Pledged
  <1> HIDE DEF q
  <1>a. Evolves(r, q)
    BY <1>1, <1>3, <1>4, StepEvolves, SameDomainsKeep DEF Kept
  <1>6. Moves(r, q, at)
    BY <1>1, <1>2, <1>3, <1>4, <1>5, <1>a DEF Moves, RegGood, Pledged
  <1> QED
    BY <1>6 DEF q

LEMMA ConfirmBodyMoves ==
  ASSUME NEW r, RegGood(r), NEW s \in Sessions, NEW at \in Nat, MayConfirmBody(r, s, at),
         r.owner \in {"FILTRATION_ACQUIRING", "FILTRATION_SUSPENDED"}
  PROVE  /\ Moves(r, ConfirmBody(r, at), at)
         /\ ConfirmBody(r, at).lease # None
         /\ ConfirmBody(r, at).lease.session = r.lease.session
  <1> DEFINE q == ConfirmBody(r, at)
             l == [r.lease EXCEPT !.body_verified = TRUE, !.last_confirmed_at = at]
             o == IF r.lease.verified THEN "FILTRATION" ELSE r.owner
  <1>1. RegInv(r) /\ r \in Registry /\ r.lease # None /\ r.lease \in Lease
    BY LeaseFacts DEF RegGood, RegInv, MayConfirmBody, HoldsLease
  <1>2. RegInv(q)
    BY <1>1, ConfirmBodyInv
  <1>a. q = [r EXCEPT !.lease = l, !.owner = o]
    BY <1>1 DEF ConfirmBody, Registry
  <1> HIDE DEF l
  <1>3. /\ q.lease = l /\ q.handoff = r.handoff /\ q.epoch = r.epoch
        /\ q.reserved = r.reserved /\ q.generation = r.generation
        /\ q.owner \in {"FILTRATION", r.owner}
    BY <1>1, <1>a DEF Registry
  <1>4. /\ l \in Lease /\ l.established_at = r.lease.established_at
        /\ l.session = r.lease.session
        /\ l.generation = r.lease.generation /\ l.domains = r.lease.domains
    BY <1>1 DEF Lease, l
  <1>5. r.owner # "THERMAL" /\ r.handoff = None
    BY DEF RegGood, Pledged
  <1> HIDE DEF q
  <1>b. Evolves(r, q)
    BY <1>1, <1>3, <1>4, StepEvolves, SameDomainsKeep DEF Kept
  <1>6. Moves(r, q, at)
    BY <1>1, <1>2, <1>3, <1>4, <1>5, <1>b DEF Moves, RegGood, Pledged
  <1> QED
    BY <1>3, <1>4, <1>6, NoneAssumption DEF q

LEMMA AdoptMoves ==
  ASSUME NEW r, RegGood(r), NEW s \in Sessions, NEW c \in Circuits, NEW at \in Nat, MayAdopt(r)
  PROVE  /\ Moves(r, AdoptFiltrationBody(r, s, c, at), at)
         /\ AdoptFiltrationBody(r, s, c, at).lease # None
         /\ AdoptFiltrationBody(r, s, c, at).lease.session = s
  <1> DEFINE n == NewLease(r.generation + 1, s, c, at)
             m == [n EXCEPT !.body_adopted = TRUE, !.body_verified = TRUE]
             q == AdoptFiltrationBody(r, s, c, at)
  <1>1. RegInv(r) /\ r \in Registry /\ r.generation + 1 \in Nat \ {0}
    BY DEF RegGood, RegInv, Registry
  <1>2. RegInv(q)
    BY <1>1, AdoptInv
  <1>3. /\ n \in Lease /\ n.established_at = at /\ n.session = s
        /\ n.generation = r.generation + 1
    BY <1>1, NewLeaseType DEF NewLease
  <1> HIDE DEF n
  <1>4. /\ m \in Lease /\ m.established_at = at /\ m.session = s
        /\ m.generation = r.generation + 1
    BY <1>3 DEF Lease
  <1>5. /\ q.lease = WithOrigins(m) /\ q.handoff = r.handoff /\ q.epoch = r.epoch
        /\ q.reserved = r.reserved /\ q.generation = r.generation + 1
        /\ q.owner = "FILTRATION_ACQUIRING"
    BY <1>1 DEF AdoptFiltrationBody, Registry, n
  <1> HIDE DEF m
  <1>6. /\ q.lease \in Lease /\ q.lease.established_at = at /\ q.lease.session = s
        /\ q.lease.generation = r.generation + 1
    BY <1>4, <1>5, WithOriginsType
  <1>7. r.owner = "NONE" /\ r.handoff = None /\ r.lease = None
    BY DEF MayAdopt, RegGood, Pledged
  <1> HIDE DEF q
  <1>a. Evolves(r, q)
    BY <1>1, <1>5, <1>6, <1>7, StepEvolves, NoneAssumption DEF Fresh
  <1>8. Moves(r, q, at)
    BY <1>2, <1>5, <1>6, <1>7, <1>a DEF Moves, RegGood, Pledged
  <1> QED
    BY <1>6, <1>8, NoneAssumption DEF q

LEMMA RecordMoves ==
  ASSUME NEW r, RegGood(r), NEW s \in Sessions, NEW c \in Circuits, NEW at \in Nat,
         NEW d \in Domains, NEW receipt \in Receipts, MayRecordDelivery(r, s, c, at)
  PROVE  /\ Moves(r, RecordDelivery(r, s, c, at, d, receipt), at)
         /\ RecordDelivery(r, s, c, at, d, receipt).owner = "FILTRATION_ACQUIRING"
  <1> DEFINE k == DeliveryLease(r, s, c, at)
             b == [k EXCEPT !.body_activation = receipt, !.body_adopted = FALSE,
                            !.last_confirmed_at = at]
             p == [k EXCEPT !.pump_setpoint = receipt, !.pump_session = FALSE,
                            !.last_confirmed_at = at]
             q == RecordDelivery(r, s, c, at, d, receipt)
  <1>1. RegInv(r) /\ r \in Registry /\ r.generation + 1 \in Nat \ {0}
    BY DEF RegGood, RegInv, Registry
  <1>2. RegInv(q)
    BY <1>1, RecordInv
  <1>3. /\ k \in Lease
        /\ \/ k.established_at = at
           \/ r.lease # None /\ k.established_at = r.lease.established_at
    <2>1. CASE r.lease = None
      BY <1>1, <2>1, NewLeaseType DEF DeliveryLease, NewLease
    <2>2. CASE r.lease # None
      BY <1>1, <2>2, LeaseFacts DEF DeliveryLease
    <2> QED
      BY <2>1, <2>2
  <1>4. /\ q.lease \in {WithOrigins(b), WithOrigins(p)}
        /\ q.handoff = r.handoff /\ q.epoch = r.epoch /\ q.reserved = r.reserved
        /\ q.owner = "FILTRATION_ACQUIRING"
    BY <1>1 DEF RecordDelivery, WithBody, WithPump, Registry
  <1>a. Evolves(r, q)
    BY <1>1, DeliverySteps, StepEvolves
  <1> HIDE DEF k, q
  <1>5. /\ b \in Lease /\ b.established_at = k.established_at
        /\ p \in Lease /\ p.established_at = k.established_at
    BY <1>3 DEF Lease
  <1> HIDE DEF b, p
  <1>6. q.lease.established_at = k.established_at
    BY <1>4, <1>5, WithOriginsType
  <1>7. r.owner # "THERMAL" /\ r.handoff = None
    BY DEF MayRecordDelivery, RegGood, Pledged
  <1>8. Moves(r, q, at)
    BY <1>2, <1>3, <1>4, <1>6, <1>7, <1>a DEF Moves, RegGood, Pledged
  <1> QED
    BY <1>4, <1>8 DEF q

-----------------------------------------------------------------------------
(***************************************************************************)
(* Domains: a frame is observed, a correction is charged.                  *)
(***************************************************************************)
LEMMA ObserveType ==
  ASSUME NEW d \in DomainState, NEW s, s.at \in Nat, s.seen \in Nat, s.binding \in Bindings,
         s.operator = None
  PROVE  Observe(d, s) \in DomainState
  <1> DEFINE o == [d EXCEPT !.observed_at = s.seen]
             u == s.usable /\ s.seen # None /\ s.seen <= s.at
  <1>1. o \in DomainState /\ o.episode = d.episode
    BY DEF DomainState, OptTime
  <1>2. NewEpisode(s.binding, s.at) \in Episode
    BY EvidenceAssumption DEF NewEpisode, Episode, OptTime
  <1> HIDE DEF o
  <1>3. /\ [o EXCEPT !.blocker = "binding_changed"] \in DomainState
        /\ [o EXCEPT !.health = "FAULTED", !.blocker = "deadline_exhausted"] \in DomainState
        /\ [d EXCEPT !.blocker = "evidence_unusable"] \in DomainState
    BY <1>1 DEF DomainState, Healths, Blockers
  <1>4. Converged(o, s) \in DomainState
    <2>1. CASE o.episode = None
      BY <1>1, <2>1 DEF Converged, DomainState, Healths, Blockers
    <2>2. CASE o.episode # None
      BY <1>1, <2>2 DEF Converged, DomainState, Healths, Blockers, Episode, OptTime
    <2> QED
      BY <2>1, <2>2
  <1>5. ASSUME NEW usable
        PROVE  Drifted(o, s, usable) \in DomainState
    <2> DEFINE e == IF o.episode = None \/ ~OpenEpisode(o) THEN NewEpisode(s.binding, s.at)
                    ELSE o.episode
    <2>1. e \in Episode
      BY <1>1, <1>2 DEF DomainState
    <2>2. Drifted(o, s, usable) =
            [o EXCEPT !.episode = e,
                      !.health  = IF s.expected THEN "CONVERGING" ELSE "RECONCILING",
                      !.blocker = IF usable THEN "reconciliation_pending"
                                            ELSE "evidence_unusable"]
      BY DEF Drifted
    <2> HIDE DEF e
    <2> QED
      BY <1>1, <2>1, <2>2 DEF DomainState, Healths, Blockers
  <1>6. Observe(d, s) \in
          {o, [o EXCEPT !.blocker = "binding_changed"],
           [o EXCEPT !.health = "FAULTED", !.blocker = "deadline_exhausted"],
           [d EXCEPT !.blocker = "evidence_unusable"], Converged(o, s), Drifted(o, s, u)}
    BY DEF Observe, o
  <1> HIDE DEF u
  <1> QED
    BY <1>1, <1>3, <1>4, <1>5, <1>6

\* Nothing but an operator's own evidence changes whose a domain is.
LEMMA ObserveAuthority ==
  ASSUME NEW d \in DomainState, NEW s, s.operator = None
  PROVE  Observe(d, s).authority = d.authority
  <1>1. CASE d.authority # "POOLOS"
    BY <1>1 DEF Observe, DomainState
  <1>2. CASE d.authority = "POOLOS"
    BY <1>2 DEF Observe, Converged, Drifted, DomainState
  <1> QED
    BY <1>1, <1>2

LEMMA CorrectedAuthority ==
  ASSUME NEW d \in DomainState, NEW id, NEW at
  PROVE  Corrected(d, id, at).authority = d.authority
  BY DEF Corrected, DomainState

\* A new identity is taken only while there is one left.
LEMMA CorrectedType ==
  ASSUME NEW d \in DomainState, NEW at \in Nat
  PROVE  Corrected(d, NewRequest(d.episode), at) \in DomainState
  <1> DEFINE id == NewRequest(d.episode)
  <1>1. CASE ~OpenEpisode(d)
    BY <1>1 DEF Corrected
  <1>2. CASE OpenEpisode(d) /\ ~MayReserve(d.episode, id, at)
    BY <1>2 DEF Corrected, DomainState, Healths, Blockers
  <1>3. CASE OpenEpisode(d) /\ MayReserve(d.episode, id, at)
    <2>1. d.episode \in Episode /\ d.episode.corrections \subseteq Requests
      BY <1>3 DEF OpenEpisode, DomainState, Episode
    <2>2. id \in Requests
      <3>1. CASE id \in d.episode.corrections
        BY <2>1, <3>1
      <3>2. CASE Cardinality(d.episode.corrections) < Budget
        <4>1. Cardinality(Requests) \in Nat /\ Cardinality(Requests) > Budget
          BY TimeoutAssumption, FS_CardinalityType
        <4>2. d.episode.corrections # Requests
          BY <3>2, <4>1, EvidenceAssumption
        <4>3. \E q \in Requests : q \notin d.episode.corrections
          BY <2>1, <4>2
        <4> QED
          BY <4>3 DEF NewRequest
      <3> QED
        BY <1>3, <3>1, <3>2 DEF MayReserve
    <2> HIDE DEF id
    <2>3. Reserve(d.episode, id) \in Episode
      BY <2>1, <2>2 DEF Reserve, Episode
    <2>4. Corrected(d, id, at) = [d EXCEPT !.episode = Reserve(d.episode, id)]
      BY <1>3 DEF Corrected
    <2>5. Corrected(d, id, at) \in DomainState
      BY <2>3, <2>4 DEF DomainState
    <2> QED
      BY <2>5 DEF id
  <1> QED
    BY <1>1, <1>2, <1>3

\* A change of a domain leaves everything else of the lease.
SameHold(r, q) ==
  /\ q.owner = r.owner
  /\ q.lease = None <=> r.lease = None
  /\ r.lease # None => /\ q.lease.session = r.lease.session
                       /\ q.lease.circuit = r.lease.circuit
                       /\ q.lease.established_at = r.lease.established_at
                       /\ q.lease.body_verified = r.lease.body_verified
                       /\ q.lease.verified = r.lease.verified

LEMMA UpdateHolds ==
  ASSUME NEW r, RegGood(r), r.lease # None, NEW d \in Domains, NEW state \in DomainState
  PROVE  SameHold(r, UpdateDomain(r, d, state))
  <1>1. r.lease \in Lease
    BY LeaseFacts DEF RegGood
  <1> DEFINE l == [r.lease EXCEPT !.domains[d] = state]
  <1>2. /\ l.session = r.lease.session /\ l.circuit = r.lease.circuit
        /\ l.established_at = r.lease.established_at
        /\ l.body_verified = r.lease.body_verified /\ l.verified = r.lease.verified
    BY <1>1 DEF Lease
  <1>3. /\ UpdateDomain(r, d, state).owner = r.owner
        /\ UpdateDomain(r, d, state).lease # None
        /\ UpdateDomain(r, d, state).lease = l
    BY UpdateFacts
  <1> HIDE DEF l
  <1> QED
    BY <1>2, <1>3 DEF SameHold

LEMMA ObserveMoves ==
  ASSUME NEW r, RegGood(r), NEW d, NEW f \in Frame
  PROVE  Moves(r, ObserveDomains(r, d, f), f.at) /\ SameHold(r, ObserveDomains(r, d, f))
  <1> DEFINE s == [at |-> f.at, seen |-> f.seen, usable |-> f.usable = "all",
                   matches |-> PumpMatches(f), expected |-> d.attempt # None,
                   operator |-> None, binding |-> CHOOSE b \in Bindings : TRUE]
             o == Observe(DomainOf(r.lease, "PUMP"), s)
  <1>1. CASE r.lease = None \/ r.lease.pump_setpoint = None
    BY <1>1, MovesRefl DEF ObserveDomains, SameHold
  <1>2. CASE ~(r.lease = None \/ r.lease.pump_setpoint = None)
    <2>1. DomainOf(r.lease, "PUMP") \in DomainState
      BY <1>2, LeaseFacts, DomainOfType DEF RegGood, Domains
    <2>2. s.at \in Nat /\ s.seen \in Nat /\ s.binding \in Bindings /\ s.operator = None
      BY TimeoutAssumption DEF Frame
    <2>3. ObserveDomains(r, d, f) = UpdateDomain(r, "PUMP", o)
      BY <1>2 DEF ObserveDomains
    <2> HIDE DEF s
    <2>4. o \in DomainState /\ o.authority = DomainOf(r.lease, "PUMP").authority
      BY <2>1, <2>2, ObserveType, ObserveAuthority
    <2> HIDE DEF o
    <2>5. r.lease # None /\ "PUMP" \in Domains
      BY <1>2 DEF Domains
    <2>6. Moves(r, UpdateDomain(r, "PUMP", o), f.at)
      BY <2>4, <2>5, UpdateMoves
    <2>7. SameHold(r, UpdateDomain(r, "PUMP", o))
      BY <2>4, <2>5, UpdateHolds
    <2> QED
      BY <2>3, <2>6, <2>7
  <1> QED
    BY <1>1, <1>2

LEMMA ChargedMoves ==
  ASSUME NEW r, RegGood(r), r.lease # None, NEW d \in Domains, NEW at \in Nat
  PROVE  Moves(r, Charged(r, d, at), at) /\ SameHold(r, Charged(r, d, at))
  <1> DEFINE s == DomainOf(r.lease, d)
             c == Corrected(s, NewRequest(s.episode), at)
  <1>1. CASE ~OpenEpisode(s)
    BY <1>1, MovesRefl DEF Charged, SameHold
  <1>2. CASE OpenEpisode(s)
    <2>1. s \in DomainState
      BY LeaseFacts, DomainOfType DEF RegGood
    <2>2. Charged(r, d, at) = UpdateDomain(r, d, c)
      BY <1>2 DEF Charged
    <2> HIDE DEF s
    <2>3. c \in DomainState /\ c.authority = s.authority
      BY <2>1, CorrectedType, CorrectedAuthority
    <2> HIDE DEF c
    <2>4. Moves(r, UpdateDomain(r, d, c), at)
      BY <2>3, UpdateMoves DEF s
    <2>5. SameHold(r, UpdateDomain(r, d, c))
      BY <2>3, UpdateHolds
    <2> QED
      BY <2>2, <2>4, <2>5
  <1> QED
    BY <1>1, <1>2

-----------------------------------------------------------------------------
(***************************************************************************)
(* Failures, and the way to a delivery.                                    *)
(***************************************************************************)
LEMMA DriverTypes ==
  ASSUME NEW d \in Driver
  PROVE  /\ Cleared(d) \in Driver /\ Settled(d) \in Driver
         /\ [Cleared(d) EXCEPT !.reenable = TRUE] \in Driver
         /\ [Cleared(d) EXCEPT !.reenable = FALSE] \in Driver
         /\ SameSwitches(d, Cleared(d)) /\ SameSwitches(d, Settled(d))
         /\ SameSwitches(d, [Cleared(d) EXCEPT !.reenable = TRUE])
         /\ SameSwitches(d, [Cleared(d) EXCEPT !.reenable = FALSE])
         /\ Cleared(d).session = None /\ Cleared(d).attempt = None
         /\ [Cleared(d) EXCEPT !.reenable = TRUE].session = None
         /\ [Cleared(d) EXCEPT !.reenable = FALSE].attempt = None
         /\ ~[Cleared(d) EXCEPT !.reenable = FALSE].reenable
         /\ [Cleared(d) EXCEPT !.reenable = TRUE].attempt = None
         /\ Cleared(d).reenable = d.reenable /\ Settled(d).reenable = d.reenable
         /\ Settled(d).attempt = None /\ Settled(d).session = d.session
  BY DEF Driver, Cleared, Settled, SameSwitches

LEMMA PreemptedGood ==
  ASSUME NEW r, RegGood(r), NEW d \in Driver, NEW f
  PROVE  Good(r, d, f, Preempted(r, d))
  <1> DEFINE e == [Cleared(d) EXCEPT !.reenable = TRUE]
  <1>1. e \in Driver /\ SameSwitches(d, e) /\ e.session = None /\ e.attempt = None
    BY DriverTypes
  <1>2. Preempted(r, d) = Result(Released(r), e, "done")
    BY DEF Preempted, Done
  <1>3. Moves(r, Released(r), f.at) /\ Released(r).lease = None
    BY ReleasedMoves
  <1> HIDE DEF e
  <1>4. Acquiring(Released(r), e)
    BY <1>1 DEF Acquiring
  <1> QED
    BY <1>1, <1>2, <1>3, <1>4, GoodResult

LEMMA FailDomainGood ==
  ASSUME NEW r, RegGood(r), NEW d \in Driver, NEW f, NEW domain \in Domains
  PROVE  Good(r, d, f, FailDomain(r, d, domain))
  <1>1. CASE r.lease # None /\ r.lease.body_verified
    <2> DEFINE s == Faulted(DomainOf(r.lease, domain))
               e == [Cleared(d) EXCEPT !.reenable = FALSE]
               q == UpdateDomain(r, domain, s)
    <2>1. s \in DomainState /\ s.authority = DomainOf(r.lease, domain).authority
      <3>1. DomainOf(r.lease, domain) \in DomainState
        BY <1>1, LeaseFacts, DomainOfType DEF RegGood
      <3> QED
        BY <3>1, DomainTypes DEF Faulted, DomainState
    <2>2. e \in Driver /\ SameSwitches(d, e) /\ e.attempt = None /\ ~e.reenable
      BY DriverTypes
    <2>3. FailDomain(r, d, domain) = Result(q, e, "done")
      BY <1>1 DEF FailDomain, Done
    <2> HIDE DEF s, e
    <2>4. Moves(r, q, f.at)
      BY <1>1, <2>1, UpdateMoves
    <2> HIDE DEF q
    <2>5. Acquiring(q, e)
      BY <2>2 DEF Acquiring
    <2> QED
      BY <2>2, <2>3, <2>4, <2>5, GoodResult
  <1>2. CASE ~(r.lease # None /\ r.lease.body_verified)
    <2>1. FailDomain(r, d, domain) = Preempted(r, d)
      BY <1>2 DEF FailDomain, Preempted
    <2> QED
      BY <2>1, PreemptedGood
  <1> QED
    BY <1>1, <1>2

LEMMA DeliverGood ==
  ASSUME NEW r, RegGood(r), NEW d \in Driver, NEW f \in Frame, NEW step \in Steps, NEW ae,
         d.attempt = None, ~d.reenable, d.session \in Sessions
  PROVE  Good(r, d, f, Deliver(r, d, f, step, ae))
  <1> DEFINE domain == DomainOfStep(step)
             q == IF r.lease = None THEN r ELSE Charged(r, domain, f.at)
  <1>1. domain \in Domains /\ f.at \in Nat
    BY DEF DomainOfStep, Steps, Domains, Frame
  <1>2. Moves(r, q, f.at)
    BY <1>1, ChargedMoves, MovesRefl
  <1>3. Acquiring(r, d) /\ Acquiring(q, d) /\ SameSwitches(d, d)
    BY DEF Acquiring, SameSwitches
  <1>4. Moves(r, r, f.at)
    BY MovesRefl
  <1>5. Good(r, d, f, Result(r, d, "done")) /\ Good(r, d, f, Result(q, d, "done"))
    BY <1>2, <1>3, <1>4, GoodResult
  <1>6. ASSUME FiltrationMayDeliver(q, f.epoch, d.session), MayBind(q, d, f, step, ae)
        PROVE  Good(r, d, f, Result(q, d, step))
    <2>1. f.circuit \in Circuits
      BY <1>6 DEF MayBind, Frame
    <2> HIDE DEF q
    <2> QED
      BY <1>2, <1>3, <1>6, <2>1 DEF Good, Result, Fruitless, MayQueue
  <1>7. \/ Deliver(r, d, f, step, ae) \in {Result(r, d, "done"), Result(q, d, "done")}
        \/ /\ Deliver(r, d, f, step, ae) = Result(q, d, step)
           /\ FiltrationMayDeliver(q, f.epoch, d.session) /\ MayBind(q, d, f, step, ae)
    BY DEF Deliver, Done
  <1> HIDE DEF q
  <1> QED
    BY <1>5, <1>6, <1>7

-----------------------------------------------------------------------------
(***************************************************************************)
(* The branches of process_epoch, for a driver that does not wait for the  *)
(* operator.                                                               *)
(***************************************************************************)
Ready(r, d, f) ==
  /\ RegGood(r) /\ d \in Driver /\ f \in Frame
  /\ Acquiring(r, d) /\ ~d.reenable

\* A branch that only reports leaves everything as it is.
LEMMA ReportGood ==
  ASSUME NEW r, NEW d, NEW f, Ready(r, d, f), NEW next \in {"done", "raised"}
  PROVE  Good(r, d, f, Result(r, d, next))
  <1>1. Moves(r, r, f.at) /\ SameSwitches(d, d)
    BY MovesRefl DEF Ready, SameSwitches
  <1> QED
    BY <1>1, GoodResult DEF Ready

LEMMA ReleaseGood ==
  ASSUME NEW r, NEW d, NEW f, Ready(r, d, f)
  PROVE  Good(r, d, f, Done(Released(r), Cleared(d)))
  <1>1. Moves(r, Released(r), f.at)
    BY ReleasedMoves DEF Ready
  <1>2. Cleared(d) \in Driver /\ SameSwitches(d, Cleared(d)) /\ Cleared(d).attempt = None
        /\ ~Cleared(d).reenable
    BY DriverTypes DEF Ready
  <1>3. Acquiring(Released(r), Cleared(d))
    BY <1>2 DEF Acquiring
  <1> QED
    BY <1>1, <1>2, <1>3, GoodResult DEF Done

LEMMA VerifyAttemptGood ==
  ASSUME NEW r, NEW d, NEW f, NEW ae, Ready(r, d, f), d.attempt # None
  PROVE  Good(r, d, f, VerifyAttempt(r, d, f, ae))
  <1> DEFINE step == d.attempt.step
             done == Settled(d)
             x    == VerifyAttempt(r, d, f, ae)
  <1>1. /\ RegGood(r) /\ RegInv(r) /\ d \in Driver /\ f \in Frame /\ f.at \in Nat
        /\ step \in Steps /\ DomainOfStep(step) \in Domains
    BY DEF Ready, RegGood, Driver, Attempt, Frame, DomainOfStep, Domains
  <1>2. /\ done \in Driver /\ SameSwitches(d, done) /\ done.attempt = None
        /\ ~done.reenable /\ done.session = d.session
    BY DriverTypes DEF Ready
  <1> HIDE DEF done
  <1>3. ASSUME NEW q, Moves(r, q, f.at), NEW next \in {"done", "raised"}
        PROVE  Good(r, d, f, Result(q, done, next))
    <2>1. Acquiring(q, done)
      BY <1>2 DEF Acquiring
    <2> QED
      BY <1>2, <1>3, <2>1, GoodResult
  <1>4. Moves(r, r, f.at)
    BY <1>1, MovesRefl
  <1>5. Good(r, d, f, Preempted(r, d)) /\ Good(r, d, f, FailDomain(r, d, DomainOfStep(step)))
        /\ Good(r, d, f, Result(r, d, "done")) /\ Good(r, d, f, Result(r, done, "raised"))
    BY <1>1, <1>3, <1>4, PreemptedGood, FailDomainGood, ReportGood
  <1>6. CASE \/ SafetyBlocker(r, f, step = "BODY_OFF") # "none"
             \/ ~VerifiedBy(d.attempt, f)
             \/ d.session = None
    BY <1>5, <1>6 DEF VerifyAttempt, Done, Raised, done
  <1> SUFFICES ASSUME SafetyBlocker(r, f, step = "BODY_OFF") = "none",
                      VerifiedBy(d.attempt, f), d.session # None
               PROVE  Good(r, d, f, x)
    BY <1>6
  <1>7. d.session \in Sessions
    BY <1>1 DEF Driver
  <1>8. CASE step = "BODY_OFF"
    <2>1. x = Result(ReleaseFiltration(r, d.session), Cleared(d), "done")
      BY <1>8 DEF VerifyAttempt, Done
    <2>2. CASE HoldsLease(r, d.session)
      <3>1. ReleaseFiltration(r, d.session) = Released(r)
        BY <2>2 DEF HoldsLease, Released
      <3> QED
        BY <2>1, <3>1, ReleaseGood DEF Done
    <2>3. CASE ~HoldsLease(r, d.session)
      <3>1. ReleaseFiltration(r, d.session) = r
        BY <2>3 DEF ReleaseFiltration
      <3>2. Cleared(d) \in Driver /\ SameSwitches(d, Cleared(d)) /\ Cleared(d).attempt = None
            /\ ~Cleared(d).reenable
        BY <1>1, DriverTypes DEF Ready
      <3>3. Acquiring(r, Cleared(d))
        BY <3>2 DEF Acquiring
      <3> QED
        BY <1>4, <2>1, <3>1, <3>2, <3>3, GoodResult
    <2> QED
      BY <2>2, <2>3
  <1>9. ASSUME HoldsLease(r, d.session), step # "BODY_OFF"
        PROVE  r.owner \in {"FILTRATION_ACQUIRING", "FILTRATION_SUSPENDED"}
    BY <1>9 DEF HoldsLease, Ready, Acquiring
  <1>10. CASE step = "PUMP_SETPOINT"
    <2>1. CASE ~MayConfirm(r, d.session, f.at)
      BY <1>5, <1>10, <2>1 DEF VerifyAttempt, Raised, done
    <2>2. CASE MayConfirm(r, d.session, f.at)
      <3>1. Moves(r, Confirm(r, f.at), f.at)
        BY <1>1, <1>7, <1>9, <1>10, <2>2, ConfirmMoves DEF MayConfirm
      <3>2. x = Result(Confirm(r, f.at), done, "done")
        BY <1>10, <2>2 DEF VerifyAttempt, Done, done
      <3> QED
        BY <1>3, <3>1, <3>2
    <2> QED
      BY <2>1, <2>2
  <1>11. CASE step = "BODY_ON"
    <2>1. CASE ~MayConfirmBody(r, d.session, f.at)
      BY <1>5, <1>11, <2>1 DEF VerifyAttempt, Raised, done
    <2>2. CASE MayConfirmBody(r, d.session, f.at)
      <3> DEFINE q == ConfirmBody(r, f.at)
                 y == Deliver(q, done, f, "PUMP_SETPOINT", ae)
      <3>1. Moves(r, q, f.at)
        BY <1>1, <1>7, <1>9, <1>11, <2>2, ConfirmBodyMoves DEF MayConfirmBody
      <3>2. x \in {Result(q, done, "done"), y}
        BY <1>11, <2>2 DEF VerifyAttempt, Done, done
      <3> HIDE DEF q
      <3>3. RegGood(q) /\ "PUMP_SETPOINT" \in Steps
        BY <3>1 DEF Moves, Steps
      <3>4. Good(q, done, f, y)
        BY <1>1, <1>2, <1>7, <3>3, DeliverGood
      <3>5. Good(r, d, f, y)
        BY <1>2, <3>1, <3>4, GoodAfter
      <3> QED
        BY <1>3, <3>1, <3>2, <3>5
    <2> QED
      BY <2>1, <2>2
  <1> QED
    BY <1>1, <1>8, <1>10, <1>11 DEF Steps

LEMMA NewSession ==
  ASSUME NEW d \in Driver, NEW s \in Sessions
  PROVE  /\ [d EXCEPT !.session = s] \in Driver
         /\ SameSwitches(d, [d EXCEPT !.session = s])
         /\ [d EXCEPT !.session = s].session = s
         /\ [d EXCEPT !.session = s].attempt = d.attempt
         /\ [d EXCEPT !.session = s].reenable = d.reenable
  BY DEF Driver, SameSwitches

\* Delivering for a session that the driver takes up.
LEMMA DeliverForGood ==
  ASSUME NEW r, NEW d, NEW f, NEW ae, Ready(r, d, f), d.attempt = None,
         NEW q, Moves(r, q, f.at), NEW s \in Sessions, NEW step \in Steps
  PROVE  /\ Good(r, d, f, Deliver(q, [d EXCEPT !.session = s], f, step, ae))
         /\ \A next \in {"done", "raised"} :
              Good(r, d, f, Result(q, [d EXCEPT !.session = s], next))
  <1> DEFINE e == [d EXCEPT !.session = s]
  <1>1. e \in Driver /\ SameSwitches(d, e) /\ e.session = s /\ e.attempt = None /\ ~e.reenable
    BY NewSession DEF Ready
  <1> HIDE DEF e
  <1>2. RegGood(q) /\ f \in Frame
    BY DEF Moves, Ready
  <1>3. Good(q, e, f, Deliver(q, e, f, step, ae))
    BY <1>1, <1>2, DeliverGood
  <1>4. Good(r, d, f, Deliver(q, e, f, step, ae))
    BY <1>1, <1>3, GoodAfter
  <1>5. Acquiring(q, e)
    BY <1>1 DEF Acquiring
  <1>6. \A next \in {"done", "raised"} : Good(r, d, f, Result(q, e, next))
    BY <1>1, <1>5, GoodResult
  <1> QED
    BY <1>4, <1>6 DEF e

LEMMA AcquireGood ==
  ASSUME NEW r, NEW d, NEW f, NEW adopt, NEW fresh \in Sessions, NEW ae,
         Ready(r, d, f), d.attempt = None, f.circuit \in Circuits
  PROVE  Good(r, d, f, Acquire(r, d, f, adopt, fresh, ae))
  <1> DEFINE e == [d EXCEPT !.session = fresh]
             q == AdoptFiltrationBody(r, fresh, f.circuit, f.at)
  <1>1. Good(r, d, f, Result(r, d, "done"))
    BY ReportGood
  <1>2. f.at \in Nat /\ RegGood(r)
    BY DEF Ready, Frame
  <1>3. Moves(r, r, f.at)
    BY <1>2, MovesRefl
  <1>4. "BODY_ON" \in Steps /\ "PUMP_SETPOINT" \in Steps
    BY DEF Steps
  <1>5. Good(r, d, f, Deliver(r, e, f, "BODY_ON", ae)) /\ Good(r, d, f, Result(r, e, "raised"))
    BY <1>3, <1>4, DeliverForGood
  <1>6. ASSUME MayAdopt(r)
        PROVE  Good(r, d, f, Deliver(q, e, f, "PUMP_SETPOINT", ae))
    <2>1. Moves(r, q, f.at)
      BY <1>2, <1>6, AdoptMoves
    <2> HIDE DEF q
    <2> QED
      BY <1>4, <2>1, DeliverForGood
  <1>7. \/ Acquire(r, d, f, adopt, fresh, ae) \in
             {Result(r, d, "done"), Deliver(r, e, f, "BODY_ON", ae), Result(r, e, "raised")}
        \/ /\ MayAdopt(r)
           /\ Acquire(r, d, f, adopt, fresh, ae) = Deliver(q, e, f, "PUMP_SETPOINT", ae)
    BY DEF Acquire, Done, Raised
  <1> HIDE DEF e, q
  <1> QED
    BY <1>1, <1>5, <1>6, <1>7

LEMMA MaintainGood ==
  ASSUME NEW r, NEW d, NEW f, NEW ae, Ready(r, d, f), d.attempt = None, r.lease # None
  PROVE  Good(r, d, f, Maintain(r, d, f, ae))
  <1> DEFINE s == r.lease.session
             e == [d EXCEPT !.session = r.lease.session]
  <1>1. RegGood(r) /\ s \in Sessions
    BY LeaseFacts DEF Ready, RegGood, Lease
  <1>2. Moves(r, r, f.at) /\ Moves(r, Released(r), f.at)
    BY <1>1, MovesRefl, ReleasedMoves
  <1>3. "BODY_OFF" \in Steps /\ "PUMP_SETPOINT" \in Steps
    BY DEF Steps
  <1>4. Good(r, d, f, Result(r, e, "done")) /\ Good(r, d, f, Deliver(r, e, f, "BODY_OFF", ae))
        /\ Good(r, d, f, Deliver(r, e, f, "PUMP_SETPOINT", ae))
        /\ Good(r, d, f, Result(Released(r), e, "done"))
    BY <1>1, <1>2, <1>3, DeliverForGood
  <1>5. Maintain(r, d, f, ae) \in
          {Result(r, e, "done"), Deliver(r, e, f, "BODY_OFF", ae),
           Deliver(r, e, f, "PUMP_SETPOINT", ae), Result(Released(r), e, "done")}
    BY DEF Maintain, Done
  <1> HIDE DEF e
  <1> QED
    BY <1>4, <1>5

LEMMA DecideGood ==
  ASSUME NEW r, NEW d, NEW f, NEW adopt, NEW fresh \in Sessions, NEW ae, Ready(r, d, f)
  PROVE  Good(r, d, f, Decide(r, d, f, adopt, fresh, ae))
  <1> DEFINE blocker == SafetyBlocker(r, f, FALSE)
             x == Decide(r, d, f, adopt, fresh, ae)
             y == Deliver(r, [d EXCEPT !.session = r.lease.session], f, "BODY_ON", ae)
  <1> SUFFICES Good(r, d, f, x)
    OBVIOUS
  <1>1. Good(r, d, f, Result(r, d, "done")) /\ Good(r, d, f, Preempted(r, d))
    BY ReportGood, PreemptedGood DEF Ready
  <1>2. CASE d.attempt # None
    BY <1>2, VerifyAttemptGood DEF Decide
  <1>3. CASE d.attempt = None /\ r.lease # None /\ f.candidate
    <2>1. r.lease.session \in Sessions /\ "BODY_ON" \in Steps
      BY <1>3, LeaseFacts DEF Ready, RegGood, Lease, Steps
    <2>2. Moves(r, r, f.at)
      BY MovesRefl DEF Ready
    <2>3. Good(r, d, f, y)
      BY <1>3, <2>1, <2>2, DeliverForGood
    <2>4. x \in {y, Result(r, d, "done")}
      BY <1>3 DEF Decide, Done
    <2> HIDE DEF y
    <2> QED
      BY <1>1, <2>3, <2>4
  <1>4. CASE d.attempt = None /\ ~(r.lease # None /\ f.candidate)
    <2>1. \/ x \in {Result(r, d, "done"), Preempted(r, d)}
          \/ blocker = "none" /\ r.lease = None /\ x = Acquire(r, d, f, adopt, fresh, ae)
          \/ r.lease # None /\ x = Maintain(r, d, f, ae)
      BY <1>4 DEF Decide, Done
    <2>2. blocker = "none" => f.circuit \in Circuits
      BY DEF SafetyBlocker, Ready, Frame
    <2> HIDE DEF x, blocker
    <2> QED
      BY <1>1, <1>4, <2>1, <2>2, AcquireGood, MaintainGood
  <1> QED
    BY <1>2, <1>3, <1>4

\* A recovery either settles what the frame means for the lease or finds nothing to settle.
LEMMA RecoveryGood ==
  ASSUME NEW r, NEW d, NEW f, Ready(r, d, f)
  PROVE  \/ Good(r, d, f, Recovery(r, d, f))
         \/ Recovery(r, d, f) = Continue(r, d) /\ d.attempt = None /\ PoolSeenOn(f)
  <1>1. /\ Good(r, d, f, Result(r, d, "done")) /\ Good(r, d, f, Preempted(r, d))
        /\ Good(r, d, f, Done(Released(r), Cleared(d)))
    BY ReportGood, ReleaseGood, PreemptedGood DEF Ready
  <1>2. \/ Recovery(r, d, f) \in {Result(r, d, "done"), Preempted(r, d),
                                  Done(Released(r), Cleared(d))}
        \/ Recovery(r, d, f) = Continue(r, d) /\ d.attempt = None /\ PoolSeenOn(f)
    BY DEF Recovery, Done
  <1> QED
    BY <1>1, <1>2

LEMMA EvaluateGood ==
  ASSUME NEW r, NEW d, NEW f, NEW fresh \in Sessions, NEW ae, Ready(r, d, f),
         r.owner = "FILTRATION_SUSPENDED" => r.lease.established_at <= f.at
  PROVE  Good(r, d, f, Evaluate(r, d, f, fresh, ae))
  <1> DEFINE blocker  == SafetyBlocker(r, f, Suspended(r) \/ Attempting(d, "BODY_OFF"))
             adopt    == d.armed /\ blocker = "none"
             d1       == [d EXCEPT !.armed = d.armed /\ blocker # "none"]
             q        == Resume(r, f.at)
             x        == Evaluate(r, d, f, fresh, ae)
  <1> SUFFICES Good(r, d, f, x)
    OBVIOUS
  <1>1. /\ d1 \in Driver /\ SameSwitches(d, d1) /\ d1.attempt = d.attempt
        /\ d1.session = d.session /\ d1.reenable = d.reenable
    <2>1. (d.armed /\ blocker # "none") \in BOOLEAN
      OBVIOUS
    <2> HIDE DEF blocker
    <2> QED
      BY <2>1 DEF Ready, Driver, SameSwitches
  <1>2. \/ Suspended(r) /\ PoolSeenOff(f) /\ x = Recovery(r, d, f)
        \/ r.lease # None /\ x = Result(r, d1, "raised")
        \/ MaySuspend(r, r.lease.session) /\ x = Result(Suspend(r), d1, "done")
        \/ x = Decide(r, d1, f, adopt, fresh, ae)
        \/ x = Preempted(r, d1)
        \/ Recovery(r, d1, f).next # "continue" /\ x = Recovery(r, d1, f)
        \/ /\ Suspended(r) /\ Recovery(r, d1, f).next = "continue"
           /\ x = Decide(q, d1, f, adopt, fresh, ae)
    BY DEF Evaluate, Done, Raised
  <1> HIDE DEF d1, adopt, q, x
  <1>3. Ready(r, d1, f) /\ RegGood(r) /\ d \in Driver
    BY <1>1 DEF Ready, Acquiring
  <1>4. Moves(r, r, f.at)
    BY <1>3, MovesRefl
  <1>5. ASSUME NEW y, Good(r, d1, f, y)
        PROVE  Good(r, d, f, y)
    BY <1>1, <1>4, <1>5, GoodAfter
  <1>6. CASE Suspended(r) /\ PoolSeenOff(f) /\ x = Recovery(r, d, f)
    <2>1. ~PoolSeenOn(f)
      BY <1>6 DEF PoolSeenOff, PoolSeenOn
    <2> QED
      BY <1>6, <2>1, RecoveryGood
  <1>7. CASE x = Result(r, d1, "raised")
    <2>1. Good(r, d1, f, x)
      BY <1>3, <1>7, ReportGood
    <2> QED
      BY <1>5, <2>1
  <1>8. CASE MaySuspend(r, r.lease.session) /\ x = Result(Suspend(r), d1, "done")
    <2>1. Moves(r, Suspend(r), f.at) /\ Suspend(r).owner = "FILTRATION_SUSPENDED"
      BY <1>3, <1>8, SuspendMoves
    <2>2. Acquiring(Suspend(r), d1)
      BY <2>1 DEF Acquiring
    <2>3. d1 \in Driver /\ SameSwitches(d, d1) /\ ~d1.reenable
      BY <1>1 DEF Ready
    <2> QED
      BY <1>8, <2>1, <2>2, <2>3, GoodResult
  <1>9. CASE x = Decide(r, d1, f, adopt, fresh, ae)
    <2>1. Good(r, d1, f, x)
      BY <1>3, <1>9, DecideGood
    <2> QED
      BY <1>5, <2>1
  <1>10. CASE x = Preempted(r, d1)
    <2>1. Good(r, d1, f, x)
      BY <1>1, <1>3, <1>10, PreemptedGood
    <2> QED
      BY <1>5, <2>1
  <1>11. CASE Recovery(r, d1, f).next # "continue" /\ x = Recovery(r, d1, f)
    <2>1. Good(r, d1, f, x)
      BY <1>3, <1>11, RecoveryGood DEF Continue, Result
    <2> QED
      BY <1>5, <2>1
  <1>12. CASE /\ Suspended(r) /\ Recovery(r, d1, f).next = "continue"
              /\ x = Decide(q, d1, f, adopt, fresh, ae)
    <2>1. ~Good(r, d1, f, Recovery(r, d1, f))
      BY <1>12 DEF Good, Steps
    <2>2. d1.attempt = None
      BY <1>3, <2>1, RecoveryGood
    <2>3. f.at \in Nat /\ r.lease.session \in Sessions
      BY <1>3, <1>12, LeaseFacts DEF Ready, Frame, RegGood, Suspended, Lease
    <2>4. MayResume(r, r.lease.session, f.at)
      BY <1>12 DEF Suspended, MayResume, HoldsLease
    <2>5. Moves(r, q, f.at)
      BY <1>3, <2>3, <2>4, ResumeMoves DEF q
    <2>6. Ready(q, d1, f)
      BY <1>3, <2>2, <2>5 DEF Ready, Moves, Acquiring
    <2>7. Good(q, d1, f, x)
      BY <1>12, <2>6, DecideGood
    <2> QED
      BY <1>1, <2>5, <2>7, GoodAfter
  <1> QED
    BY <1>2, <1>6, <1>7, <1>8, <1>9, <1>10, <1>11, <1>12

LEMMA EpochMoves ==
  ASSUME NEW r, RegGood(r), NEW e \in Epochs
  PROVE  /\ RegGood(BeginEpoch(r, e)) /\ SameHold(r, BeginEpoch(r, e))
         /\ BeginEpoch(r, e).lease = r.lease
         /\ BeginEpoch(r, e).thermal_lease = r.thermal_lease
         /\ BeginEpoch(r, e).epoch = e
         /\ BeginEpoch(r, e).reserved = IF e = r.epoch THEN r.reserved ELSE None
         /\ Evolves(r, BeginEpoch(r, e))
  <1>1. RegInv(r) /\ r \in Registry
    BY DEF RegGood, RegInv
  <1>2. RegInv(BeginEpoch(r, e))
    BY <1>1, EpochInv
  <1>3. BeginEpoch(r, e).lease = r.lease /\ BeginEpoch(r, e).generation = r.generation
    BY <1>1 DEF BeginEpoch, Registry
  <1>4. Evolves(r, BeginEpoch(r, e))
    BY <1>1, <1>3, SameLeaseEvolves
  <1> QED
    BY <1>1, <1>2, <1>4 DEF BeginEpoch, RegGood, Pledged, SameHold, Registry

-----------------------------------------------------------------------------
(***************************************************************************)
(* process_epoch as a whole.  Waiting for the operator, it does nothing    *)
(* but let go.                                                             *)
(***************************************************************************)
Processes(r, d, f, x) ==
  /\ Moves(r, x.reg, f.at)
  /\ x.drv \in Driver
  /\ x.drv.last = [epoch |-> f.epoch, at |-> f.at]
  /\ x.drv.enabled = d.enabled /\ x.drv.after = d.after /\ x.drv.unloaded = d.unloaded
  /\ Acquiring(x.reg, x.drv)
  /\ x.next \in {"done", "raised"} \cup Steps
  /\ MayQueue(x, f)
  /\ d.reenable => /\ x.drv.reenable /\ x.drv.session = None
                   /\ x.reg.lease # None => r.lease # None
  /\ x.drv.reenable => d.reenable \/ (x.drv.session = None /\ x.reg.lease = None)

LEMMA ProcessEpochGood ==
  ASSUME NEW r, RegGood(r), NEW d \in Driver, NEW f \in Frame, NEW fresh \in Sessions, NEW ae,
         Acquiring(r, d), d.reenable => d.session = None,
         r.owner = "FILTRATION_SUSPENDED" => r.lease.established_at <= f.at
  PROVE  IF d.unloaded \/ OldFrame(d, f)
         THEN ProcessEpoch(r, d, f, fresh, ae) = Result(r, d, "done")
         ELSE Processes(BeginEpoch(r, f.epoch), d, f, ProcessEpoch(r, d, f, fresh, ae))
  <1> DEFINE x  == ProcessEpoch(r, d, f, fresh, ae)
             r0 == BeginEpoch(r, f.epoch)
             d0 == Processed(d, f)
             r1 == ObserveDomains(r0, d0, f)
  <1>1. CASE d.unloaded \/ OldFrame(d, f)
    BY <1>1 DEF ProcessEpoch, Done
  <1>2. CASE ~(d.unloaded \/ OldFrame(d, f))
    <2>1. \/ x = Restrained(r0, d0, f)
          \/ x = Preempted(r0, d0)
          \/ x = Result(Released(r0), Cleared(d0), "done")
          \/ d0.reenable /\ x = Result(r1, d0, "done")
          \/ ~d0.reenable /\ x = Evaluate(r1, d0, f, fresh, ae)
      BY <1>2 DEF ProcessEpoch, Done
    <2>2. f.epoch \in Epochs /\ f.at \in Nat
      BY DEF Frame
    <2>3. /\ RegGood(r0) /\ SameHold(r, r0) /\ r0.lease = r.lease
      BY <2>2, EpochMoves
    <2>4. /\ d0 \in Driver /\ d0.last = [epoch |-> f.epoch, at |-> f.at]
          /\ d0.enabled = d.enabled /\ d0.after = d.after /\ d0.unloaded = d.unloaded
          /\ d0.attempt = d.attempt /\ d0.session = d.session /\ d0.reenable = d.reenable
      BY <2>2 DEF Processed, Driver
    <2> SUFFICES Processes(r0, d, f, x)
      BY <1>2
    <2> HIDE DEF r0, d0, x
    <2>5. Moves(r0, r1, f.at) /\ SameHold(r0, r1)
      BY <2>3, ObserveMoves
    <2> HIDE DEF r1
    <2>6. Acquiring(r0, d0) /\ Acquiring(r1, d0)
      BY <2>3, <2>4, <2>5 DEF SameHold, Acquiring
    <2>7. Moves(r0, Released(r0), f.at) /\ Released(r0).lease = None
      BY <2>3, ReleasedMoves
    <2>8. ASSUME NEW q, NEW e, NEW next \in {"done", "raised"}, Moves(r0, q, f.at),
                 e \in Driver, SameSwitches(d0, e), Acquiring(q, e),
                 e.session \in {None, d0.session}, q.lease # None => r0.lease # None,
                 (d0.reenable /\ e.reenable = d0.reenable) \/ (~d0.reenable /\ ~e.reenable)
                   \/ (e.reenable /\ e.session = None /\ q.lease = None)
          PROVE  Processes(r0, d, f, Result(q, e, next))
      <3>1. next \notin Steps
        BY DEF Steps
      <3> QED
        BY <2>4, <2>8, <3>1 DEF Processes, Result, MayQueue, SameSwitches
    <2>9. /\ Cleared(d0) \in Driver /\ SameSwitches(d0, Cleared(d0))
          /\ Cleared(d0).attempt = None /\ Cleared(d0).session = None
          /\ Cleared(d0).reenable = d0.reenable
      BY <2>4, DriverTypes
    <2>10. Processes(r0, d, f, Result(Released(r0), Cleared(d0), "done"))
      <3> DEFINE e == Cleared(d0)
                 q == Released(r0)
      <3>1. Acquiring(q, e)
        BY <2>9 DEF Acquiring
      <3>2. d0.reenable \in BOOLEAN
        BY <2>4 DEF Driver
      <3> HIDE DEF e, q
      <3> QED
        BY <2>7, <2>8, <2>9, <3>1, <3>2 DEF e, q
    <2>11. CASE x = Restrained(r0, d0, f)
      <3>1. CASE x = Result(Released(r0), Cleared(d0), "done")
        BY <2>10, <3>1
      <3>2. CASE /\ r0.lease # None /\ MaySuspend(r0, r0.lease.session)
                 /\ x = Result(Suspend(r0), [d0 EXCEPT !.attempt = None], "done")
        <4> DEFINE e == [d0 EXCEPT !.attempt = None]
        <4>1. Moves(r0, Suspend(r0), f.at) /\ Suspend(r0).lease = r0.lease
          BY <2>3, <3>2, SuspendMoves
        <4>2. /\ e \in Driver /\ SameSwitches(d0, e) /\ e.attempt = None
              /\ e.session = d0.session /\ e.reenable = d0.reenable
              /\ d0.reenable \in BOOLEAN
          BY <2>4 DEF Driver, SameSwitches
        <4> HIDE DEF e
        <4>3. Acquiring(Suspend(r0), e)
          BY <4>2 DEF Acquiring
        <4>4. Processes(r0, d, f, Result(Suspend(r0), e, "done"))
          BY <2>8, <4>1, <4>2, <4>3
        <4> QED
          BY <3>2, <4>4 DEF e
      <3>3. CASE x = Result(r0, d0, "raised")
        <4>1. Moves(r0, r0, f.at) /\ SameSwitches(d0, d0) /\ d0.reenable \in BOOLEAN
          BY <2>3, <2>4, MovesRefl DEF SameSwitches, Driver
        <4>2. Processes(r0, d, f, Result(r0, d0, "raised"))
          BY <2>4, <2>6, <2>8, <4>1
        <4> QED
          BY <3>3, <4>2
      <3> QED
        BY <2>11, <3>1, <3>2, <3>3 DEF Restrained, Done, Raised
    <2>12. CASE x = Preempted(r0, d0)
      <3> DEFINE e == [Cleared(d0) EXCEPT !.reenable = TRUE]
      <3>1. e \in Driver /\ SameSwitches(d0, e) /\ e.session = None /\ e.attempt = None
            /\ e.reenable
        BY <2>4, DriverTypes DEF Driver, Cleared
      <3>2. x = Result(Released(r0), e, "done")
        BY <2>12 DEF Preempted, Done
      <3> HIDE DEF e
      <3>3. Acquiring(Released(r0), e)
        BY <3>1 DEF Acquiring
      <3>4. Processes(r0, d, f, Result(Released(r0), e, "done"))
        BY <2>7, <2>8, <3>1, <3>3
      <3> QED
        BY <3>2, <3>4
    <2>13. CASE d0.reenable /\ x = Result(r1, d0, "done")
      <3>1. SameSwitches(d0, d0) /\ (r1.lease # None => r0.lease # None)
        BY <2>5 DEF SameSwitches, SameHold
      <3>2. Processes(r0, d, f, Result(r1, d0, "done"))
        BY <2>4, <2>5, <2>6, <2>8, <2>13, <3>1
      <3> QED
        BY <2>13, <3>2
    <2>14. CASE ~d0.reenable /\ x = Evaluate(r1, d0, f, fresh, ae)
      <3>1. Ready(r1, d0, f)
        BY <2>4, <2>5, <2>6, <2>14 DEF Ready, Moves
      <3>2. r1.owner = "FILTRATION_SUSPENDED" => r1.lease.established_at <= f.at
        <4>1. ASSUME r1.owner = "FILTRATION_SUSPENDED"
              PROVE  r.lease # None /\ r.owner = r1.owner /\ r1.lease.established_at = r.lease.established_at
          <5>1. r.owner = "FILTRATION_SUSPENDED"
            BY <2>3, <2>5, <4>1 DEF SameHold
          <5>2. r.lease # None
            BY <5>1 DEF RegGood, RegInv, OwnerAgrees, FiltrationOwners, Owners
          <5> QED
            BY <2>3, <2>5, <4>1, <5>1, <5>2 DEF SameHold
        <4> QED
          BY <4>1
      <3>3. Good(r1, d0, f, x)
        BY <2>14, <3>1, <3>2, EvaluateGood
      <3>4. Moves(r0, x.reg, f.at)
        BY <2>5, <3>3, MovesTrans DEF Good
      <3> QED
        BY <2>4, <2>14, <3>3, <3>4 DEF Good, Processes, SameSwitches, Fruitless
    <2> QED
      BY <2>1, <2>10, <2>11, <2>12, <2>13, <2>14
  <1> QED
    BY <1>1, <1>2

-----------------------------------------------------------------------------
(***************************************************************************)
(* _deliver after its await.  By then the driver may wait for the operator *)
(* with a lease that is not its own; only a failure lets go of that fault. *)
(***************************************************************************)
Reports(r, d, f, outcome, x) ==
  /\ Moves(r, x.reg, f.at)
  /\ x.drv \in Driver
  /\ SameSwitches(d, x.drv)
  /\ Acquiring(x.reg, x.drv)
  /\ x.next \in {"done", "raised"}
  /\ x.drv.reenable => /\ x.drv.session = None
                       /\ x.reg.lease = None \/ (d.reenable /\ r.lease # None)
  /\ d.reenable => \/ x.drv.reenable
                   \/ outcome = "failed" /\ r.lease # None /\ r.lease.body_verified
  /\ (r.lease = None /\ r.owner = "NONE" /\ d.session = None)
       => x.reg.lease = None /\ x.reg.owner = "NONE" /\ x.drv.session = None

LEMMA ReleasedOwner ==
  ASSUME NEW r, r.lease = None
  PROVE  Released(r) = r
  BY DEF Released

LEMMA DeliveredGood ==
  ASSUME NEW r, RegGood(r), NEW d \in Driver, NEW f \in Frame, f.circuit \in Circuits,
         NEW step \in Steps, NEW outcome \in {"not_dispatched", "failed", "accepted"},
         NEW receipt \in Receipts, d.attempt = None, d.reenable => d.session = None
  PROVE  Reports(r, d, f, outcome, Delivered(r, d, f, step, outcome, receipt))
  <1> DEFINE x  == Delivered(r, d, f, step, outcome, receipt)
             at == [step |-> step, at |-> f.at, deadline |-> f.at + Timeout]
             e  == [d EXCEPT !.attempt = at]
             domain == DomainOfStep(step)
             q  == RecordDelivery(r, d.session, f.circuit, f.at, domain, receipt)
             p  == [r EXCEPT !.generation = r.generation + 1]
  <1> SUFFICES Reports(r, d, f, outcome, x)
    OBVIOUS
  <1>1. f.at \in Nat /\ domain \in Domains /\ Moves(r, r, f.at) /\ SameSwitches(d, d)
    BY MovesRefl DEF Frame, DomainOfStep, Domains, SameSwitches
  <1>2. at \in Attempt /\ at.step = step /\ at # None
    BY <1>1, TimeoutAssumption, DriverAssumption DEF Attempt
  <1>3. /\ e \in Driver /\ SameSwitches(d, e) /\ e.attempt = at
        /\ e.session = d.session /\ e.reenable = d.reenable
    BY <1>2 DEF Driver, SameSwitches
  <1>4. \/ x = Result(r, d, "done")
        \/ outcome = "failed" /\ x = FailDomain(r, d, domain)
        \/ step = "BODY_OFF" /\ x = Result(r, e, "done")
        \/ r.lease = None /\ x = Result(p, d, "raised")
        \/ x = Result(r, d, "raised")
        \/ /\ d.session # None /\ MayRecordDelivery(r, d.session, f.circuit, f.at)
           /\ x = Result(q, e, "done")
    BY DEF Delivered, Done, Raised
  <1>5. Acquiring(r, d)
    BY DEF Acquiring
  <1> HIDE DEF x, at, e, domain, q, p
  <1>6. CASE x = Result(r, d, "done") \/ x = Result(r, d, "raised")
    <2>1. d.reenable => x.drv.reenable
      BY <1>6 DEF Result
    <2> QED
      BY <1>1, <1>5, <1>6, <2>1 DEF Reports, Result
  <1>7. CASE outcome = "failed" /\ x = FailDomain(r, d, domain)
    <2>1. Good(r, d, f, x)
      BY <1>1, <1>7, FailDomainGood
    <2>2. x.next = "done" /\ x.drv.session = None
      BY <1>7 DEF FailDomain, Done, Result, Driver, Cleared
    <2>3. d.reenable => x.drv.reenable \/ (r.lease # None /\ r.lease.body_verified)
      BY <1>7, DriverTypes DEF FailDomain, Done, Result, Driver, Cleared
    <2>4. r.lease = None => x.reg = r
      BY <1>7, ReleasedOwner DEF FailDomain, Done, Result
    <2> QED
      BY <1>7, <2>1, <2>2, <2>3, <2>4 DEF Reports, Good, Fruitless
  <1>8. CASE step = "BODY_OFF" /\ x = Result(r, e, "done")
    <2>1. Acquiring(r, e)
      BY <1>2, <1>3, <1>8 DEF Acquiring
    <2> QED
      BY <1>1, <1>3, <1>8, <2>1 DEF Reports, Result
  <1>9. CASE r.lease = None /\ x = Result(p, d, "raised")
    <2>1. r \in Registry /\ RegInv(r) /\ Pledged(r)
      BY DEF RegGood, RegInv
    <2>2. /\ p.lease = None /\ p.owner = r.owner /\ p.epoch = r.epoch
          /\ p.reserved = r.reserved /\ p.thermal_lease = r.thermal_lease
          /\ p.handoff = r.handoff /\ p \in Registry /\ p.generation = r.generation + 1
      BY <1>9, <2>1 DEF p, Registry
    <2>3. RegGood(p)
      BY <1>9, <2>1, <2>2 DEF RegGood, RegInv, Pledged, OwnerAgrees, DonorAgrees, LeaseAgrees
    <2>a. Evolves(r, p)
      BY <2>1, <2>2 DEF Evolves, Registry
    <2>4. Moves(r, p, f.at)
      BY <2>2, <2>3, <2>a DEF Moves
    <2>5. Acquiring(p, d)
      BY DEF Acquiring
    <2> QED
      BY <1>1, <1>9, <2>2, <2>4, <2>5 DEF Reports, Result
  <1>10. CASE /\ d.session # None /\ MayRecordDelivery(r, d.session, f.circuit, f.at)
              /\ x = Result(q, e, "done")
    <2>1. d.session \in Sessions
      BY <1>10 DEF Driver
    <2>2. Moves(r, q, f.at) /\ q.owner = "FILTRATION_ACQUIRING"
      BY <1>1, <1>10, <2>1, RecordMoves DEF q
    <2>3. Acquiring(q, e)
      BY <2>2 DEF Acquiring
    <2>4. ~e.reenable
      BY <1>3, <1>10
    <2> QED
      BY <1>3, <1>10, <2>2, <2>3, <2>4 DEF Reports, Result
  <1> QED
    BY <1>4, <1>6, <1>7, <1>8, <1>9, <1>10

-----------------------------------------------------------------------------
(***************************************************************************)
(* Names: there is one that nothing refers to.                             *)
(***************************************************************************)
LEMMA OneMore ==
  ASSUME NEW S, NEW x, NEW n \in Nat, IsFiniteSet(S), Cardinality(S) <= n
  PROVE  IsFiniteSet(S \cup {x}) /\ Cardinality(S \cup {x}) <= n + 1
  <1>1. Cardinality(S) \in Nat
    BY FS_CardinalityType
  <1>2. /\ IsFiniteSet(S \cup {x})
        /\ Cardinality(S \cup {x}) = IF x \in S THEN Cardinality(S) ELSE Cardinality(S) + 1
    BY FS_AddElement
  <1> QED
    BY <1>1, <1>2

LEMMA SevenNames ==
  ASSUME NEW a, NEW b, NEW c, NEW d, NEW e, NEW g, NEW h
  PROVE  IsFiniteSet({a, b, c, d, e, g, h}) /\ Cardinality({a, b, c, d, e, g, h}) <= 7
  <1> DEFINE S1 == {} \cup {a}
             S2 == S1 \cup {b}
             S3 == S2 \cup {c}
             S4 == S3 \cup {d}
             S5 == S4 \cup {e}
             S6 == S5 \cup {g}
             S7 == S6 \cup {h}
  <1>0. IsFiniteSet({}) /\ Cardinality({}) <= 0
    BY FS_EmptySet
  <1>8. {a, b, c, d, e, g, h} = S7
    OBVIOUS
  <1>1. IsFiniteSet(S1) /\ Cardinality(S1) <= 1
    BY <1>0, OneMore, 0 + 1 = 1
  <1> HIDE DEF S1
  <1>2. IsFiniteSet(S2) /\ Cardinality(S2) <= 2
    BY <1>1, OneMore, 1 + 1 = 2
  <1> HIDE DEF S2
  <1>3. IsFiniteSet(S3) /\ Cardinality(S3) <= 3
    BY <1>2, OneMore, 2 + 1 = 3
  <1> HIDE DEF S3
  <1>4. IsFiniteSet(S4) /\ Cardinality(S4) <= 4
    BY <1>3, OneMore, 3 + 1 = 4
  <1> HIDE DEF S4
  <1>5. IsFiniteSet(S5) /\ Cardinality(S5) <= 5
    BY <1>4, OneMore, 4 + 1 = 5
  <1> HIDE DEF S5
  <1>6. IsFiniteSet(S6) /\ Cardinality(S6) <= 6
    BY <1>5, OneMore, 5 + 1 = 6
  <1> HIDE DEF S6
  <1>7. IsFiniteSet(S7) /\ Cardinality(S7) <= 7
    BY <1>6, OneMore, 6 + 1 = 7
  <1> QED
    BY <1>7, <1>8

LEMMA FreshNames ==
  /\ FreshEpoch \in Epochs /\ FreshEpoch \notin EpochsInUse
  /\ drv \in Driver /\ reg \in Registry /\ auth \in Authority
       => FreshSession \in Sessions /\ FreshSession \notin SessionsInUse
  <1> DEFINE all  == {reg.epoch, reg.reserved, auth.epoch, drv.after, drv.last.epoch,
                      task.frame.epoch, latest.frame.epoch}
             used == EpochsInUse \cap Epochs
  <1>1. IsFiniteSet(all) /\ Cardinality(all) <= 7
    BY SevenNames
  <1>2. used \subseteq all
    BY DEF EpochsInUse
  <1>3. IsFiniteSet(used) /\ Cardinality(used) <= Cardinality(all)
    BY <1>1, <1>2, FS_Subset
  <1>4. Cardinality(used) <= 7
    BY <1>1, <1>3, FS_CardinalityType
  <1>5. used \in SUBSET Epochs
    OBVIOUS
  <1>6. Epochs \ used # {}
    BY <1>3, <1>4, <1>5, NamesAssumption
  <1>7. \E e \in Epochs : e \notin EpochsInUse
    BY <1>6
  <1>8. ASSUME drv \in Driver, reg \in Registry, auth \in Authority
        PROVE  \E s \in Sessions : s \notin SessionsInUse
    <2>1. PICK s1 \in Sessions \cup {None} : s1 = drv.session
      BY <1>8 DEF Driver
    <2>2. PICK s2 \in Sessions \cup {None} : auth.context # None => s2 = auth.context.session
      BY <1>8 DEF Authority, Context
    <2>3. PICK s3 \in Sessions \cup {None} : reg.lease # None => s3 = reg.lease.session
      BY <1>8 DEF Registry, Lease
    <2>4. PICK s4 \in Sessions \cup {None} : reg.lease # None => s4 = reg.lease.body_session.id
      BY <1>8 DEF Registry, Lease, BodySession
    <2>5. Sessions \ {s1, s2, s3, s4} # {}
      BY NamesAssumption
    <2> QED
      BY <2>1, <2>2, <2>3, <2>4, <2>5 DEF SessionsInUse
  <1> QED
    BY <1>7, <1>8 DEF FreshEpoch, FreshSession

-----------------------------------------------------------------------------
(***************************************************************************)
(* What thermal may make of the registry: it takes circulation from        *)
(* filtration only in the epoch it reserved.                               *)
(***************************************************************************)
FiltrationFree == {"NONE", "FILTRATION_ACQUIRING", "FILTRATION"}

ThermalMoves(r, q) ==
  /\ RegGood(q)
  /\ q.epoch = r.epoch /\ q.reserved = r.reserved
  /\ Acquiring(q, drv)
  /\ q.lease # None => \/ "return" \in disturbances /\ q.lease.established_at = now
                       \/ /\ r.lease # None
                          /\ q.lease.established_at = r.lease.established_at
  /\ q.owner = "FILTRATION_SUSPENDED" => q = r
  /\ q # r /\ r.owner \in FiltrationFree => r.reserved = r.epoch

LEMMA HandsOverGood ==
  ASSUME RegGood(reg), now \in Nat, Acquiring(reg, drv), ThermalHandsOver
  PROVE  ThermalMoves(reg, reg')
  <1>1. reg \in Registry /\ RegInv(reg) /\ Pledged(reg)
    BY DEF RegGood, RegInv
  <1>2. ASSUME NEW p \in Purposes, MayBeginHandoff(reg, now), reg' = BeginHandoff(reg, p, now)
        PROVE  ThermalMoves(reg, reg')
    <2>1. RegInv(reg')
      BY <1>1, <1>2, BeginHandoffInv
    <2>2. /\ reg'.owner = "FILTRATION_TO_THERMAL" /\ reg'.lease = reg.lease
          /\ reg'.epoch = reg.epoch /\ reg'.reserved = reg.reserved
      BY <1>1, <1>2 DEF BeginHandoff, Registry
    <2>3. reg.owner = "FILTRATION" /\ reg.reserved = reg.epoch
      BY <1>2 DEF MayBeginHandoff
    <2>4. Acquiring(reg', drv)
      BY <2>2, <2>3 DEF Acquiring
    <2> QED
      BY <1>1, <2>1, <2>2, <2>3, <2>4 DEF ThermalMoves, RegGood, Pledged
  <1>3. ASSUME reg.handoff # None
        PROVE  reg.owner = "FILTRATION_TO_THERMAL" /\ reg.owner \notin FiltrationFree
    BY <1>1, <1>3 DEF Pledged, FiltrationFree
  <1>4. ASSUME NEW t \in ThermalLeases, MayCompleteHandoff(reg, reg.handoff),
               reg' = CompleteHandoff(reg, t)
        PROVE  ThermalMoves(reg, reg')
    <2>1. RegInv(reg')
      BY <1>1, <1>4, CompleteHandoffInv
    <2>2. /\ reg'.owner = "THERMAL" /\ reg'.lease = None /\ reg'.handoff = None
          /\ reg'.epoch = reg.epoch /\ reg'.reserved = reg.reserved
      BY <1>1, <1>4 DEF CompleteHandoff, Registry
    <2>3. reg.owner \notin FiltrationFree
      BY <1>3, <1>4 DEF MayCompleteHandoff
    <2> QED
      BY <1>1, <2>1, <2>2, <2>3 DEF ThermalMoves, RegGood, Pledged, Acquiring
  <1>5. ASSUME reg.handoff # None, reg' = CancelHandoff(reg, reg.handoff)
        PROVE  ThermalMoves(reg, reg')
    <2>1. RegInv(reg')
      BY <1>1, <1>5, CancelHandoffInv
    <2>2. /\ reg'.owner = "FILTRATION" \/ reg'.owner = "NONE"
          /\ reg'.lease = reg.lease /\ reg'.handoff = None
          /\ reg'.epoch = reg.epoch /\ reg'.reserved = reg.reserved
      BY <1>1, <1>5 DEF CancelHandoff, Registry
    <2>3. Acquiring(reg', drv)
      BY <1>3, <1>5, <2>2 DEF Acquiring
    <2> QED
      BY <1>1, <1>3, <1>5, <2>1, <2>2, <2>3 DEF ThermalMoves, RegGood, Pledged
  <1>6. ASSUME reg.handoff # None, reg' = InvalidateHandoff(reg, reg.handoff)
        PROVE  ThermalMoves(reg, reg')
    <2>1. RegInv(reg')
      BY <1>1, <1>6, InvalidateHandoffInv
    <2>2. /\ reg'.owner = "NONE" /\ reg'.lease = None /\ reg'.handoff = None
          /\ reg'.epoch = reg.epoch /\ reg'.reserved = reg.reserved
      BY <1>1, <1>6 DEF InvalidateHandoff, Registry
    <2> QED
      BY <1>1, <1>3, <1>6, <2>1, <2>2 DEF ThermalMoves, RegGood, Pledged, Acquiring
  <1> QED
    BY <1>2, <1>4, <1>5, <1>6 DEF ThermalHandsOver, HandoffBegins, HandoffCompletes, HandoffCancelled,
         HandoffInvalidated

LEMMA OwnsGood ==
  ASSUME RegGood(reg), Acquiring(reg, drv), ThermalTakes
  PROVE  ThermalMoves(reg, reg')
  <1>1. reg \in Registry /\ RegInv(reg) /\ Pledged(reg)
    BY DEF RegGood, RegInv
  <1>2. PICK t \in ThermalLeases :
          \/ reg.reserved # None /\ MayMarkThermalOwned(reg) /\ reg' = MarkThermalOwned(reg, t)
          \/ reg.owner = "THERMAL" /\ reg' = ReleaseThermal(reg, t)
    BY DEF ThermalTakes, ThermalOwns, ThermalReleases
  <1>3. reg.owner \in {"NONE", "THERMAL"}
    BY <1>2 DEF MayMarkThermalOwned
  <1>4. reg.handoff = None /\ reg.lease = None
    BY <1>1, <1>3 DEF Pledged, RegInv, OwnerAgrees, FiltrationOwners
  <1>5. CASE /\ reg.reserved # None /\ MayMarkThermalOwned(reg)
             /\ reg' = MarkThermalOwned(reg, t)
    <2>1. RegInv(reg')
      BY <1>1, <1>5, MarkThermalOwnedInv
    <2>2. /\ reg'.owner = "THERMAL" /\ reg'.lease = None /\ reg'.handoff = None
          /\ reg'.epoch = reg.epoch /\ reg'.reserved = reg.reserved
      BY <1>1, <1>4, <1>5 DEF MarkThermalOwned, Registry
    <2> QED
      BY <1>1, <1>5, <2>1, <2>2 DEF ThermalMoves, RegGood, Pledged, Acquiring
  <1>6. CASE reg.owner = "THERMAL" /\ reg' = ReleaseThermal(reg, t)
    <2>1. RegInv(reg')
      BY <1>1, <1>6, ReleaseThermalInv
    <2>2. /\ reg'.owner # "FILTRATION_SUSPENDED" /\ reg'.lease = None /\ reg'.handoff = None
          /\ reg'.epoch = reg.epoch /\ reg'.reserved = reg.reserved
      BY <1>1, <1>4, <1>6 DEF ReleaseThermal, Registry
    <2>3. reg.owner \notin FiltrationFree
      BY <1>6 DEF FiltrationFree
    <2> QED
      BY <1>1, <2>1, <2>2, <2>3 DEF ThermalMoves, RegGood, Pledged, Acquiring
  <1> QED
    BY <1>2, <1>5, <1>6

LEMMA ReturnsGood ==
  ASSUME RegGood(reg), now \in Nat, drv \in Driver, auth \in Authority, ThermalGivesBack
  PROVE  ThermalMoves(reg, reg')
  <1>1. reg \in Registry /\ RegInv(reg) /\ Pledged(reg)
    BY DEF RegGood, RegInv
  <1>2. PICK receipt \in Receipts, c \in Circuits :
          /\ "return" \in disturbances /\ MayAcceptFromThermal(reg)
          /\ reg' = AcceptFromThermal(reg, FreshSession, c, now, receipt, receipt, None)
    BY DEF ThermalGivesBack, ThermalReturns
  <1> DEFINE s == FreshSession
             fresh == NewLease(reg.generation + 1, s, c, now)
             l == [fresh EXCEPT !.body_activation = receipt, !.pump_setpoint = receipt,
                                !.body_verified = TRUE, !.verified = TRUE]
  <1>3. s \in Sessions /\ s # drv.session
    BY <1>1, FreshNames DEF SessionsInUse
  <1> HIDE DEF s
  <1>4. RegInv(reg')
    BY <1>1, <1>2, <1>3, AcceptInv DEF s
  <1>5. reg.generation + 1 \in Nat \ {0}
    BY <1>1 DEF Registry
  <1>6. fresh \in Lease /\ fresh.session = s /\ fresh.established_at = now
    BY <1>3, <1>5, NewLeaseType DEF NewLease
  <1> HIDE DEF fresh
  <1>7. l \in Lease /\ l.session = s /\ l.established_at = now
    BY <1>6 DEF Lease
  <1>8. reg' = [reg EXCEPT !.generation = reg.generation + 1, !.lease = WithOrigins(l),
                           !.thermal_lease = None, !.handoff = None, !.owner = "FILTRATION"]
    <2>1. l = [fresh EXCEPT !.body_activation = receipt, !.pump_setpoint = receipt,
                            !.body_verified = TRUE, !.verified = TRUE,
                            !.body_session = IF None = None THEN fresh.body_session ELSE None]
      BY <1>6 DEF Lease
    <2> QED
      BY <1>1, <1>2, <2>1 DEF AcceptFromThermal, Registry, fresh, s
  <1> HIDE DEF l
  <1>9. WithOrigins(l).session = s /\ WithOrigins(l).established_at = now
    BY <1>7, WithOriginsType
  <1>10. /\ reg'.lease = WithOrigins(l) /\ reg'.handoff = None /\ reg'.owner = "FILTRATION"
         /\ reg'.epoch = reg.epoch /\ reg'.reserved = reg.reserved
    BY <1>1, <1>8 DEF Registry
  <1>11. Acquiring(reg', drv)
    BY <1>3, <1>9, <1>10 DEF Acquiring
  <1>12. reg.owner \notin FiltrationFree
    BY <1>2 DEF MayAcceptFromThermal, FiltrationFree
  <1> QED
    BY <1>1, <1>2, <1>4, <1>9, <1>10, <1>11, <1>12 DEF ThermalMoves, RegGood, Pledged

\* An operator's command moves no circulation by itself.
LEMMA ToldMoves ==
  ASSUME RegGood(reg), now \in Nat, NEW d \in Domains
  PROVE  Moves(reg, Told(d), now) /\ SameHold(reg, Told(d))
  <1>1. CASE reg.lease # None
    <2>1. /\ Yielded(DomainOf(reg.lease, d), now) \in DomainState
          /\ Yielded(DomainOf(reg.lease, d), now).authority = "OPERATOR"
      <3>1. DomainOf(reg.lease, d) \in DomainState
        BY <1>1, LeaseFacts, DomainOfType DEF RegGood
      <3> QED
        BY <3>1, DomainTypes DEF Yielded, DomainState
    <2> DEFINE q == UpdateDomain(reg, d, Yielded(DomainOf(reg.lease, d), now))
    <2>2. Moves(reg, q, now)
      BY <1>1, <2>1, UpdateMoves
    <2>3. SameHold(reg, q)
      BY <1>1, <2>1, UpdateHolds
    <2>4. Told(d) \in {q, reg}
      BY DEF Told, RecordOperatorIntent
    <2>5. Moves(reg, reg, now) /\ SameHold(reg, reg)
      BY MovesRefl DEF SameHold
    <2> HIDE DEF q
    <2> QED
      BY <2>2, <2>3, <2>4, <2>5
  <1>2. CASE reg.lease = None
    BY <1>2, MovesRefl DEF Told, SameHold
  <1> QED
    BY <1>1, <1>2

-----------------------------------------------------------------------------
(***************************************************************************)
(* The inductive invariant.  Typed is TypeOK with the registry's part in   *)
(* RegGood, which says more of it.                                         *)
(***************************************************************************)
Typed ==
  /\ disturbances \in Environments
  /\ now \in 0..MaxTime
  /\ plant \in Plant
  /\ suppressed \in BOOLEAN
  /\ drv \in Driver
  /\ auth \in Authority
  /\ task \in Task \cup {None}
  /\ latest # None => latest.frame \in Frame

\* What is published is a frame of the latest snapshot.
Shown ==
  /\ latest = [frame |-> latest.frame, signature |-> latest.signature]
  /\ latest.frame \in Frame
  /\ latest.frame.at = now

\* No lease begins after the time of the latest snapshot.
Timed ==
  /\ latest = None \/ Shown
  /\ task # None => Shown /\ task.frame.at <= now
  /\ reg.lease # None => reg.lease.established_at <= now
  /\ reg.owner = "FILTRATION_SUSPENDED" /\ Staged("scheduled")
       => reg.lease.established_at <= task.frame.at

Unloaded == drv.unloaded => reg.lease = None /\ reg.owner = "NONE" /\ drv.session = None

\* Which step a task is at, and what the driver knows by then.
Staging ==
  task # None =>
    /\ task.stage \in {"queued", "sent"} => /\ task.step \in Steps
                                            /\ task.frame.circuit \in Circuits
                                            /\ drv.attempt = None
                                            /\ "orchestration" \notin disturbances
                                                 => ~drv.reenable
    /\ task.stage # "scheduled" /\ ~drv.unloaded => drv.last # None

\* A driver that waits for the operator owns nothing but what thermal gave back.
Latched ==
  drv.reenable => /\ drv.session = None
                  /\ "return" \notin disturbances => reg.lease = None

IInv ==
  /\ Typed
  /\ RegGood(reg)
  /\ Acquiring(reg, drv)
  /\ Timed
  /\ Unloaded
  /\ Staging
  /\ Latched
  /\ IdleMeansCurrent

-----------------------------------------------------------------------------
LEMMA InitGood ==
  ASSUME Init
  PROVE  IInv
  <1>1. reg = EmptyRegistry /\ task = None /\ latest = None
    BY DEF Init
  <1>2. RegGood(reg) /\ reg.lease = None /\ reg.owner = "NONE"
    BY <1>1, EmptyInv DEF RegGood, Pledged, EmptyRegistry
  <1>3. PICK armed \in BOOLEAN : drv = NewDriver(armed)
    BY DEF Init
  <1>4. drv \in Driver /\ ~drv.reenable /\ ~drv.unloaded /\ drv.attempt = None
    BY <1>3 DEF NewDriver, Driver
  <1>5. auth \in Authority
    BY DEF Init, Authority
  <1>6. now = 0 /\ plant \in Plant /\ suppressed \in BOOLEAN /\ disturbances \in Environments
    BY DEF Init, Plant
  <1>7. Typed
    BY <1>1, <1>4, <1>5, <1>6, BoundsAssumption DEF Typed
  <1>8. Acquiring(reg, drv)
    BY <1>4 DEF Acquiring
  <1>9. Timed
    BY <1>1, <1>2 DEF Timed
  <1> QED
    BY <1>1, <1>2, <1>4, <1>7, <1>8, <1>9
    DEF IInv, Unloaded, Staging, Latched, IdleMeansCurrent

-----------------------------------------------------------------------------
(***************************************************************************)
(* A snapshot: what it publishes as the frame g.                           *)
(***************************************************************************)
Publishes(g) ==
  /\ g \in Frame /\ g.epoch # auth.epoch /\ g.at = now'
  /\ now' \in 0..MaxTime /\ now <= now'
  /\ RegGood(reg') /\ SameHold(reg, reg') /\ reg'.epoch = g.epoch
  /\ reg'.reserved \in {None, g.epoch} /\ (reg'.reserved = g.epoch <=> g.candidate)
  /\ "thermal" \notin disturbances => reg'.reserved = None
  /\ Observe1(g, reg')

LEMMA ReserveGood ==
  ASSUME NEW r, RegGood(r), NEW e \in Epochs, r.epoch = e
  PROVE  /\ RegGood(ReserveThermal(r, e)) /\ SameHold(r, ReserveThermal(r, e))
         /\ ReserveThermal(r, e).epoch = e
         /\ ReserveThermal(r, e).reserved \in {r.reserved, e}
  <1>1. RegInv(r) /\ r \in Registry
    BY DEF RegGood, RegInv
  <1>2. RegInv(ReserveThermal(r, e))
    BY <1>1, EpochInv
  <1> QED
    BY <1>1, <1>2 DEF ReserveThermal, RegGood, Pledged, SameHold, Registry

LEMMA AmongIn ==
  ASSUME NEW name, NEW values, NEW calm \in values, NEW v \in Among(name, values, calm)
  PROVE  v \in values /\ (name \notin disturbances => v = calm)
  BY DEF Among

LEMMA SnapshotPublishes ==
  ASSUME IInv, SomeSnapshot
  PROVE  \E g : Publishes(g)
  <1>1. PICK immediate \in Among("idle", BOOLEAN, TRUE), ready \in Among("hard", BOOLEAN, TRUE),
             usable \in Among("unusable", {"all", "pool", "none"}, "all"),
             stale \in Among("stale", BOOLEAN, FALSE),
             circuit \in Among("circuit", Circuits \cup {None}, CHOOSE c \in Circuits : TRUE),
             reserve \in Among("thermal", BOOLEAN, FALSE) :
               Snapshot(immediate, ready, usable, stale, circuit, reserve)
    BY DEF SomeSnapshot
  <1>2. (CHOOSE c \in Circuits : TRUE) \in Circuits
    BY TimeoutAssumption
  <1>3. /\ immediate \in BOOLEAN /\ ready \in BOOLEAN /\ usable \in {"all", "pool", "none"}
        /\ circuit \in Circuits \cup {None}
    BY <1>2, AmongIn
  <1>4. "thermal" \notin disturbances => ~reserve
    BY DEF Among
  <1> DEFINE e  == FreshEpoch
             at == IF now < MaxTime THEN now + 1 ELSE now
             r0 == BeginEpoch(reg, e)
             r1 == IF reserve THEN ReserveThermal(r0, e) ELSE r0
             candidate == ThermalReservedFor(r1, e)
             thermal == r1.owner = "THERMAL"
             f  == [epoch |-> e, at |-> at, seen |-> at, ready |-> ready, usable |-> usable,
                    body |-> plant.body, speed |-> plant.speed, circuit |-> circuit,
                    immediate |-> immediate, candidate |-> candidate,
                    thermal |-> thermal, suppressed |-> suppressed]
             g  == SampleAgain(f, stale)
  <1>5. /\ now' = at /\ reg' = r1 /\ Observe1(g, r1) /\ (stale => latest # None)
    BY <1>1 DEF Snapshot
  <1>6. e \in Epochs /\ e # reg.epoch /\ e # auth.epoch /\ e # None
    BY FreshNames, NoneAssumption DEF EpochsInUse
  <1> HIDE DEF e
  <1>7. /\ RegGood(r0) /\ SameHold(reg, r0) /\ r0.epoch = e /\ r0.reserved = None
    BY <1>6, EpochMoves DEF IInv
  <1> HIDE DEF r0
  <1>8. /\ RegGood(r1) /\ SameHold(reg, r1) /\ r1.epoch = e /\ r1.reserved \in {None, e}
        /\ (~reserve => r1.reserved = None)
    <2>1. CASE reserve
      <3>1. /\ RegGood(ReserveThermal(r0, e)) /\ SameHold(r0, ReserveThermal(r0, e))
            /\ ReserveThermal(r0, e).epoch = e
            /\ ReserveThermal(r0, e).reserved \in {None, e}
        BY <1>6, <1>7, ReserveGood
      <3> QED
        BY <1>7, <2>1, <3>1 DEF SameHold
    <2>2. CASE ~reserve
      BY <1>7, <2>2
    <2> QED
      BY <2>1, <2>2
  <1> HIDE DEF r1
  <1>9. candidate \in BOOLEAN /\ thermal \in BOOLEAN /\ (r1.reserved = e <=> candidate)
    BY <1>8 DEF ThermalReservedFor
  <1> HIDE DEF candidate, thermal
  <1>10. at \in 0..MaxTime /\ now <= at /\ at \in Nat
    BY BoundsAssumption DEF IInv, Typed
  <1> HIDE DEF at
  <1>11. f \in Frame
    BY <1>3, <1>6, <1>9, <1>10 DEF Frame, IInv, Typed, Plant
  <1>12. f.epoch = e /\ f.at = at /\ (f.candidate <=> candidate)
    OBVIOUS
  <1> HIDE DEF f
  <1>13. /\ g \in Frame /\ g.epoch = f.epoch /\ g.at = f.at /\ g.candidate = f.candidate
    <2>1. CASE stale
      <3>1. latest.frame \in Frame
        BY <1>5, <2>1 DEF IInv, Typed
      <3>2. g = [f EXCEPT !.body = latest.frame.body, !.speed = latest.frame.speed,
                          !.seen = latest.frame.seen]
        BY <2>1 DEF SampleAgain
      <3> QED
        BY <1>11, <3>1, <3>2 DEF Frame
    <2>2. CASE ~stale
      BY <1>11, <2>2 DEF SampleAgain
    <2> QED
      BY <2>1, <2>2
  <1> HIDE DEF g
  <1>14. Publishes(g)
    BY <1>4, <1>5, <1>6, <1>8, <1>9, <1>10, <1>12, <1>13 DEF Publishes
  <1> QED
    BY <1>14

LEMMA SameHoldAcquiring ==
  ASSUME NEW r, NEW q, NEW d, SameHold(r, q), Acquiring(r, d)
  PROVE  Acquiring(q, d)
  BY DEF SameHold, Acquiring

\* A new epoch, or the end of one, withdraws the context.
LEMMA AuthorityTypes ==
  ASSUME NEW a \in Authority, NEW e \in Epochs
  PROVE  BeginAuthorityEpoch(a, e) \in Authority /\ Invalidated(a) \in Authority
  BY DEF Authority, BeginAuthorityEpoch, Invalidated

LEMMA SnapshotGood ==
  ASSUME IInv, SomeSnapshot, UNCHANGED <<disturbances, plant, suppressed>>
  PROVE  IInv'
  <1>1. PICK g : Publishes(g)
    BY SnapshotPublishes
  <1> DEFINE signature == Signature(g, reg', BodyOnPending)
             disabled  == ~drv.enabled /\ reg'.lease = None
             scheduled == [stage |-> "scheduled", step |-> None, frame |-> g]
  <1>2. /\ auth' \in {auth, BeginAuthorityEpoch(auth, g.epoch)}
        /\ drv' = IF disabled THEN Processed(drv, g) ELSE drv
        /\ task' = IF task = None /\ ~disabled THEN scheduled ELSE task
        /\ latest' = [frame |-> g, signature |-> IF task' = None THEN None ELSE signature]
    BY <1>1 DEF Publishes, Observe1
  <1> HIDE DEF signature, disabled
  <1>3. g \in Frame /\ g.epoch \in Epochs /\ g.at \in Nat /\ g.at = now'
    BY <1>1 DEF Publishes, Frame
  <1>4. scheduled \in Task /\ scheduled # None
    BY <1>3, TaskAssumption DEF Task
  <1>5. /\ drv' \in Driver /\ drv'.attempt = drv.attempt /\ drv'.session = drv.session
        /\ drv'.unloaded = drv.unloaded /\ drv'.reenable = drv.reenable
        /\ (drv.last # None => drv'.last # None)
        /\ (disabled => drv'.last = [epoch |-> g.epoch, at |-> g.at])
    BY <1>2, <1>3, DriverAssumption DEF Processed, Driver, IInv, Typed
  <1>6. auth' \in Authority
    BY <1>2, <1>3, AuthorityTypes DEF IInv, Typed
  <1>7. latest'.frame = g /\ Shown'
    BY <1>2, <1>3 DEF Shown
  <1>8. Typed'
    BY <1>1, <1>2, <1>3, <1>4, <1>5, <1>6, <1>7 DEF Typed, IInv, Publishes
  <1>9. SameHold(reg, reg') /\ RegGood(reg') /\ now <= now' /\ now \in Nat /\ now' \in Nat
    BY <1>1, BoundsAssumption DEF Publishes, IInv, Typed
  <1>10. Acquiring(reg', drv')
    <2>1. Acquiring(reg', drv)
      BY <1>9, SameHoldAcquiring DEF IInv
    <2> QED
      BY <1>5, <2>1 DEF Acquiring
  <1>11. reg'.lease # None => /\ reg.lease # None /\ reg.lease.established_at \in Nat
                              /\ reg'.lease.established_at = reg.lease.established_at
    BY <1>9 DEF SameHold, IInv, RegGood, RegInv, Registry, Lease
  <1>12. reg'.owner = reg.owner /\ (reg.owner = "FILTRATION_SUSPENDED" => reg'.lease # None)
    BY <1>9 DEF SameHold, IInv, RegGood, RegInv, OwnerAgrees, Owners, FiltrationOwners
  <1>13. Timed'
    <2>1. task' # None => task'.frame.at <= now'
      <3>1. CASE task' = scheduled
        BY <1>3, <1>4, <1>7, <1>9, <3>1
      <3>2. CASE task' = task /\ task # None
        <4>1. task.frame.at <= now /\ task.frame.at \in Nat
          BY <3>2 DEF IInv, Timed, Typed, Task, Frame
        <4> QED
          BY <1>7, <1>9, <3>2, <4>1
      <3> QED
        BY <1>2, <3>1, <3>2
    <2>2. reg'.lease # None => reg'.lease.established_at <= now'
      BY <1>9, <1>11 DEF IInv, Timed
    <2>3. reg'.owner = "FILTRATION_SUSPENDED" /\ Staged("scheduled")'
            => reg'.lease.established_at <= task'.frame.at
      <3>1. CASE task' = scheduled
        BY <1>3, <1>12, <2>2, <3>1
      <3>2. CASE task' = task
        BY <1>11, <1>12, <3>2 DEF IInv, Timed, Staged
      <3> QED
        BY <1>2, <3>1, <3>2
    <2> QED
      BY <1>3, <1>7, <2>1, <2>2, <2>3 DEF Timed
  <1>14. Unloaded'
    BY <1>5, <1>9 DEF IInv, Unloaded, SameHold
  <1>15. Staging'
    <2>1. CASE task' = scheduled
      BY <2>1 DEF Staging
    <2>2. CASE task' = task
      BY <1>5, <2>2 DEF IInv, Staging
    <2> QED
      BY <1>2, <2>1, <2>2
  <1>16. Latched'
    BY <1>5, <1>9 DEF IInv, Latched, SameHold
  <1>17. IdleMeansCurrent'
    <2>1. task' = None => disabled
      BY <1>2, <1>4
    <2> QED
      BY <1>5, <1>7, <2>1, DriverAssumption, <1>3 DEF IdleMeansCurrent
  <1> QED
    BY <1>8, <1>9, <1>10, <1>13, <1>14, <1>15, <1>16, <1>17 DEF IInv

-----------------------------------------------------------------------------
(***************************************************************************)
(* The steps of the task.                                                  *)
(***************************************************************************)
LEMMA FollowsFacts ==
  ASSUME IInv, task # None, NEW x, Follows(x), MayQueue(x, task.frame),
         x.next \in {"done", "raised"} \cup Steps, RegGood(x.reg)
  PROVE  /\ reg' = x.reg /\ drv' = x.drv /\ auth' \in Authority
         /\ task' \in Task /\ task' # None /\ task'.frame = task.frame
         /\ task'.stage # "scheduled" /\ ~Staged("sent")'
         /\ task'.stage \in {"queued", "sent"} => /\ task'.step \in Steps /\ x.next \in Steps
                                                  /\ task.frame.circuit \in Circuits
         /\ latest'.frame = latest.frame /\ latest'.frame \in Frame
         /\ latest' = [frame |-> latest'.frame, signature |-> latest'.signature]
  <1>1. /\ task \in Task /\ auth \in Authority /\ latest.frame \in Frame
        /\ latest = [frame |-> latest.frame, signature |-> latest.signature]
    BY DEF IInv, Typed, Timed, Shown
  <1>2. "done" \notin Steps /\ "raised" \notin Steps
    BY DEF Steps
  <1>3. CASE x.next \in Steps
    <2> DEFINE signature == Signature(task.frame, x.reg, x.next = "BODY_ON")
               generation == IF x.reg.lease = None THEN 0 ELSE x.reg.lease.generation
               adopted == x.reg.lease # None /\ AdoptionOnly(x.reg.lease)
               context == [session |-> x.drv.session, circuit |-> task.frame.circuit,
                           generation |-> generation, adopted |-> adopted]
    <2>1. /\ task' = [task EXCEPT !.stage = "queued", !.step = x.next]
          /\ auth' = [auth EXCEPT !.context = context]
          /\ latest' = [latest EXCEPT !.signature = signature]
          /\ reg' = x.reg /\ drv' = x.drv
      BY <1>3 DEF Follows, Bound
    <2>2. x.drv.session \in Sessions /\ task.frame.circuit \in Circuits
      BY <1>3 DEF MayQueue
    <2>3. generation \in Nat /\ adopted \in BOOLEAN
      BY DEF RegGood, RegInv, Registry, Lease, AdoptionOnly
    <2> HIDE DEF signature, generation, adopted
    <2>4. context \in Context
      BY <2>2, <2>3 DEF Context
    <2> HIDE DEF context
    <2>5. auth' \in Authority
      BY <1>1, <2>1, <2>4 DEF Authority
    <2>6. task' \in Task /\ task' # None /\ task'.frame = task.frame /\ task'.stage = "queued"
          /\ task'.step = x.next
      BY <1>1, <1>3, <2>1, TaskAssumption DEF Task
    <2>7. /\ latest'.frame = latest.frame /\ latest'.frame \in Frame
          /\ latest' = [frame |-> latest'.frame, signature |-> latest'.signature]
      <3>1. latest' = [frame |-> latest.frame, signature |-> signature]
        BY <1>1, <2>1
      <3> QED
        BY <1>1, <3>1
    <2>8. ~Staged("sent")' /\ task'.stage # "scheduled"
      BY <2>6 DEF Staged
    <2> QED
      BY <1>3, <2>1, <2>2, <2>5, <2>6, <2>7, <2>8
  <1>4. CASE x.next \in {"done", "raised"}
    <2>1. /\ task' = [task EXCEPT !.stage = x.next]
          /\ auth' = auth /\ latest' = latest
          /\ reg' = x.reg /\ drv' = x.drv
      BY <1>2, <1>4 DEF Follows
    <2>2. task' \in Task /\ task' # None /\ task'.frame = task.frame /\ task'.stage = x.next
      BY <1>1, <1>4, <2>1, TaskAssumption DEF Task
    <2> QED
      BY <1>1, <1>4, <2>1, <2>2 DEF Staged
  <1> QED
    BY <1>3, <1>4

\* What a result of the driver has to satisfy to leave the invariant intact.
Keeps(r, d) ==
  /\ RegGood(r) /\ d \in Driver /\ Acquiring(r, d)
  /\ r.lease # None => r.lease.established_at <= now
  /\ d.unloaded => r.lease = None /\ r.owner = "NONE" /\ d.session = None
  /\ d.reenable => d.session = None /\ ("return" \notin disturbances => r.lease = None)

LEMMA FollowsGood ==
  ASSUME IInv, task # None, UNCHANGED <<disturbances, now, plant, suppressed>>,
         NEW x, Follows(x), MayQueue(x, task.frame), x.next \in {"done", "raised"} \cup Steps,
         Keeps(x.reg, x.drv), ~x.drv.unloaded => x.drv.last # None
  PROVE  IInv'
  <1>1. RegGood(x.reg)
    BY DEF Keeps
  <1>2. /\ reg' = x.reg /\ drv' = x.drv /\ auth' \in Authority
        /\ task' \in Task /\ task' # None /\ task'.frame = task.frame
        /\ task'.stage # "scheduled" /\ ~Staged("sent")'
        /\ task'.stage \in {"queued", "sent"} => /\ task'.step \in Steps /\ x.next \in Steps
                                                 /\ task.frame.circuit \in Circuits
        /\ latest'.frame = latest.frame /\ latest'.frame \in Frame
        /\ latest' = [frame |-> latest'.frame, signature |-> latest'.signature]
    BY <1>1, FollowsFacts
  <1>3. Typed'
    BY <1>2 DEF IInv, Typed, Keeps
  <1>4. RegGood(reg') /\ Acquiring(reg', drv') /\ Unloaded' /\ Latched'
    BY <1>2 DEF Keeps, Unloaded, Latched
  <1>5. Shown'
    BY <1>2 DEF IInv, Timed, Shown
  <1>6. Timed'
    BY <1>2, <1>5 DEF IInv, Timed, Keeps, Staged
  <1>7. Staging'
    BY <1>2 DEF Staging, MayQueue
  <1>8. IdleMeansCurrent'
    BY <1>2 DEF IdleMeansCurrent
  <1> QED
    BY <1>3, <1>4, <1>6, <1>7, <1>8 DEF IInv

LEMMA TimeOfMoves ==
  ASSUME IInv, NEW q, NEW at \in Nat, at <= now, Moves(reg, q, at)
  PROVE  q.lease # None => q.lease.established_at <= now
  BY DEF IInv, Timed, Moves

\* The start of the task: nothing, or a whole process_epoch.
Started(r0, x) ==
  IF drv.unloaded \/ OldFrame(drv, task.frame)
  THEN x = Result(reg, drv, "done")
  ELSE Processes(r0, drv, task.frame, x)

LEMMA TaskStartsFacts ==
  ASSUME IInv, TaskStarts
  PROVE  \E x : Follows(x) /\ Started(BeginEpoch(reg, task.frame.epoch), x)
  <1> DEFINE f == task.frame
             x == ProcessEpoch(reg, drv, f, FreshSession, auth.epoch)
  <1>1. task # None /\ task.stage = "scheduled" /\ task \in Task /\ Follows(x)
    BY DEF TaskStarts, Staged, IInv, Typed
  <1>2. /\ RegGood(reg) /\ reg \in Registry /\ drv \in Driver /\ auth \in Authority
        /\ f \in Frame /\ Acquiring(reg, drv)
    BY <1>1 DEF IInv, Typed, RegGood, RegInv, Task
  <1>3. FreshSession \in Sessions
    BY <1>2, FreshNames
  <1>4. drv.reenable => drv.session = None
    BY DEF IInv, Latched
  <1>5. reg.owner = "FILTRATION_SUSPENDED" => reg.lease.established_at <= f.at
    BY <1>1 DEF IInv, Timed, Staged
  <1>6. Started(BeginEpoch(reg, f.epoch), x)
    BY <1>2, <1>3, <1>4, <1>5, ProcessEpochGood DEF Started
  <1> HIDE DEF x
  <1> QED
    BY <1>1, <1>6

LEMMA TaskStartsGood ==
  ASSUME IInv, TaskStarts
  PROVE  IInv'
  <1> DEFINE f == task.frame
             r0 == BeginEpoch(reg, f.epoch)
  <1>1. /\ task # None /\ task \in Task /\ UNCHANGED <<disturbances, now, plant, suppressed>>
    BY DEF TaskStarts, Staged, IInv, Typed
  <1>2. /\ RegGood(reg) /\ drv \in Driver
        /\ f \in Frame /\ f.epoch \in Epochs /\ f.at \in Nat /\ f.at <= now
    BY <1>1 DEF IInv, Typed, Timed, Task, Frame
  <1>3. r0.lease = reg.lease
    BY <1>2, EpochMoves
  <1>4. PICK x : Follows(x) /\ Started(r0, x)
    BY TaskStartsFacts
  <1> HIDE DEF r0
  <1>5. CASE drv.unloaded \/ OldFrame(drv, f)
    <2>1. x = Result(reg, drv, "done") /\ "done" \notin Steps
      BY <1>4, <1>5 DEF Started, Steps
    <2>2. x.reg = reg /\ x.drv = drv /\ x.next = "done"
      BY <2>1 DEF Result
    <2>3. Keeps(reg, drv)
      BY <1>2 DEF IInv, Keeps, Timed, Unloaded, Latched
    <2>4. ~drv.unloaded => drv.last # None
      BY <1>5 DEF OldFrame
    <2>5. MayQueue(x, f)
      BY <2>1, <2>2 DEF MayQueue
    <2> QED
      BY <1>1, <1>4, <2>2, <2>3, <2>4, <2>5, FollowsGood
  <1>6. CASE ~(drv.unloaded \/ OldFrame(drv, f))
    <2>1. Processes(r0, drv, f, x)
      BY <1>4, <1>6 DEF Started
    <2>2. x.reg.lease # None => x.reg.lease.established_at <= now
      BY <1>2, <1>3, <2>1 DEF Processes, Moves, IInv, Timed
    <2>3. ~x.drv.unloaded /\ x.drv.last # None
      BY <1>2, <1>6, <2>1, DriverAssumption DEF Processes
    <2>4. x.drv.reenable => /\ x.drv.session = None
                            /\ "return" \notin disturbances => x.reg.lease = None
      BY <1>3, <2>1 DEF Processes, IInv, Latched
    <2>5. Keeps(x.reg, x.drv)
      BY <2>1, <2>2, <2>3, <2>4 DEF Keeps, Processes, Moves
    <2>6. MayQueue(x, f) /\ x.next \in {"done", "raised"} \cup Steps
      BY <2>1 DEF Processes
    <2> QED
      BY <1>1, <1>4, <2>3, <2>5, <2>6, FollowsGood
  <1> QED
    BY <1>5, <1>6

LEMMA GatewaySendsGood ==
  ASSUME IInv, GatewaySends
  PROVE  IInv'
  <1>1. /\ task # None /\ task.stage = "queued" /\ task \in Task
        /\ task' = [task EXCEPT !.stage = "sent"]
        /\ plant' \in {Effect(task.step)} \cup Among("lost", {plant}, Effect(task.step))
        /\ UNCHANGED <<disturbances, now, suppressed, reg, drv, auth, latest>>
    BY DEF GatewaySends, Staged, IInv, Typed
  <1>2. /\ task' \in Task /\ task' # None /\ task'.frame = task.frame /\ task'.step = task.step
        /\ task'.stage = "sent"
    BY <1>1, TaskAssumption DEF Task
  <1>3. plant \in Plant /\ task.step \in Steps
    BY <1>1 DEF IInv, Typed, Staging
  <1>4. Effect(task.step) \in Plant
    BY <1>3 DEF Effect, Plant, Steps
  <1>5. plant' \in Plant
    BY <1>1, <1>3, <1>4 DEF Among
  <1>6. Typed'
    BY <1>1, <1>2, <1>5 DEF IInv, Typed
  <1>7. Timed'
    BY <1>1, <1>2 DEF IInv, Timed, Shown, Staged
  <1>8. Staging'
    BY <1>1, <1>2 DEF IInv, Staging
  <1>9. IdleMeansCurrent' /\ Unloaded' /\ Latched'
    BY <1>1, <1>2 DEF IdleMeansCurrent, IInv, Unloaded, Latched
  <1> QED
    BY <1>1, <1>6, <1>7, <1>8, <1>9 DEF IInv

\* The end of a delivery.
LEMMA ResumesFacts ==
  ASSUME IInv, Staged("queued") \/ Staged("sent"),
         NEW outcome \in {"not_dispatched", "failed", "accepted"}, Resumes(outcome)
  PROVE  \E x : Follows(x) /\ Reports(reg, drv, task.frame, outcome, x)
  <1>1. PICK receipt \in Receipts :
          Follows(Delivered(reg, drv, task.frame, task.step, outcome, receipt))
    BY DEF Resumes
  <1>2. /\ task \in Task /\ task.frame \in Frame /\ task.frame.circuit \in Circuits
        /\ task.step \in Steps /\ drv.attempt = None
    BY DEF IInv, Typed, Staging, Staged, Task
  <1>3. RegGood(reg) /\ drv \in Driver /\ (drv.reenable => drv.session = None)
    BY DEF IInv, Typed, Latched
  <1> DEFINE x == Delivered(reg, drv, task.frame, task.step, outcome, receipt)
  <1>4. Reports(reg, drv, task.frame, outcome, x)
    BY <1>2, <1>3, DeliveredGood
  <1> HIDE DEF x
  <1> QED
    BY <1>1, <1>4 DEF x

LEMMA ResumesGood ==
  ASSUME IInv, Staged("queued") \/ Staged("sent"),
         NEW outcome \in {"not_dispatched", "failed", "accepted"}, Resumes(outcome)
  PROVE  IInv'
  <1>1. PICK x : Follows(x) /\ Reports(reg, drv, task.frame, outcome, x)
    BY ResumesFacts
  <1>2. /\ task # None /\ task.stage # "scheduled" /\ task \in Task
        /\ task.frame.at \in Nat /\ task.frame.at <= now
        /\ UNCHANGED <<disturbances, now, plant, suppressed>>
    BY DEF Resumes, Staged, IInv, Typed, Timed, Task, Frame
  <1>3. x.next \in {"done", "raised"} /\ MayQueue(x, task.frame)
    BY <1>1 DEF Reports, MayQueue, Steps
  <1>4. x.reg.lease # None => x.reg.lease.established_at <= now
    BY <1>1, <1>2, TimeOfMoves DEF Reports
  <1>5. x.drv.last = drv.last /\ x.drv.unloaded = drv.unloaded
    BY <1>1 DEF Reports, SameSwitches
  <1>6. x.drv.reenable => /\ x.drv.session = None
                          /\ "return" \notin disturbances => x.reg.lease = None
    <2>1. x.drv.reenable => /\ x.drv.session = None
                            /\ x.reg.lease = None \/ (drv.reenable /\ reg.lease # None)
      BY <1>1 DEF Reports
    <2> QED
      BY <2>1 DEF IInv, Latched
  <1>7. Keeps(x.reg, x.drv)
    BY <1>1, <1>4, <1>5, <1>6 DEF Keeps, Reports, Moves, IInv, Unloaded
  <1>8. ~x.drv.unloaded => x.drv.last # None
    BY <1>2, <1>5 DEF IInv, Staging
  <1> QED
    BY <1>1, <1>2, <1>3, <1>7, <1>8, FollowsGood

\* Failing closed lets go of whatever there is.
LEMMA FailClosedFacts ==
  ASSUME IInv
  PROVE  /\ Keeps(FailClosed(reg, drv).reg, FailClosed(reg, drv).drv)
         /\ Moves(reg, FailClosed(reg, drv).reg, now)
         /\ FailClosed(reg, drv).reg.lease = None
         /\ FailClosed(reg, drv).reg.owner # "FILTRATION_SUSPENDED"
         /\ FailClosed(reg, drv).drv.attempt = None
         /\ FailClosed(reg, drv).drv.reenable
         /\ SameSwitches(drv, FailClosed(reg, drv).drv)
  <1> DEFINE x == FailClosed(reg, drv)
             f == [at |-> now]
  <1>1. RegGood(reg) /\ drv \in Driver
    BY DEF IInv, Typed
  <1>2. Good(reg, drv, f, x)
    BY <1>1, PreemptedGood DEF FailClosed
  <1>3. /\ x.reg = Released(reg) /\ x.drv = [Cleared(drv) EXCEPT !.reenable = TRUE]
    BY DEF FailClosed, Preempted, Done, Result
  <1>4. x.reg.lease = None
    BY <1>1, <1>3, ReleasedMoves
  <1>5. x.drv.session = None /\ x.drv.attempt = None /\ x.drv.reenable
    <2>1. x.drv = [drv EXCEPT !.session = None, !.attempt = None, !.reenable = TRUE]
      BY <1>1, <1>3 DEF Cleared, Driver
    <2> QED
      BY <1>1, <2>1 DEF Driver
  <1>6. reg.lease = None => x.reg = reg
    BY <1>3, ReleasedOwner
  <1> HIDE DEF x
  <1>7. /\ Moves(reg, x.reg, now) /\ x.drv \in Driver /\ SameSwitches(drv, x.drv)
        /\ Acquiring(x.reg, x.drv)
    BY <1>2 DEF Good
  <1>8. RegGood(x.reg)
    BY <1>7 DEF Moves
  <1>9. x.reg.owner # "FILTRATION_SUSPENDED"
    BY <1>4, <1>8 DEF RegGood, RegInv, OwnerAgrees, Owners, FiltrationOwners
  <1>10. x.drv.unloaded => x.reg.owner = "NONE"
    BY <1>6, <1>7 DEF SameSwitches, IInv, Unloaded
  <1>11. Keeps(x.reg, x.drv)
    BY <1>4, <1>5, <1>7, <1>8, <1>10 DEF Keeps
  <1> QED
    BY <1>4, <1>5, <1>7, <1>9, <1>11 DEF x

LEMMA TaskDoneGood ==
  ASSUME IInv, TaskDone
  PROVE  IInv'
  <1> DEFINE failed == IF task.stage = "raised" THEN FailClosed(reg, drv) ELSE Done(reg, drv)
             again  == ~failed.drv.unloaded /\ Outdated(failed.drv)
             next   == [stage |-> "scheduled", step |-> None, frame |-> latest.frame]
  <1>1. /\ task # None /\ task \in Task
        /\ reg' = failed.reg /\ drv' = failed.drv
        /\ task' = IF again THEN next ELSE None
        /\ auth' = IF again THEN BeginAuthorityEpoch(auth, latest.frame.epoch) ELSE auth
        /\ latest' = IF again THEN latest ELSE [latest EXCEPT !.signature = None]
        /\ UNCHANGED <<disturbances, now, plant, suppressed>>
    BY DEF TaskDone, Staged, IInv, Typed
  <1>2. Keeps(reg', drv') /\ SameSwitches(drv, drv')
    <2>1. CASE task.stage = "raised"
      BY <1>1, <2>1, FailClosedFacts
    <2>2. CASE task.stage # "raised"
      <3>1. reg' = reg /\ drv' = drv
        BY <1>1, <2>2 DEF Done, Result
      <3>2. Keeps(reg, drv) /\ SameSwitches(drv, drv)
        BY DEF IInv, Typed, Keeps, Timed, Unloaded, Latched, SameSwitches
      <3> QED
        BY <3>1, <3>2
    <2> QED
      BY <2>1, <2>2
  <1>3. ~again => drv'.unloaded \/ (drv'.last # None /\ drv'.last.epoch = latest.frame.epoch)
    BY <1>1 DEF Outdated
  <1> HIDE DEF failed, again
  <1>4. Shown /\ latest.frame \in Frame /\ latest.frame.epoch \in Epochs /\ now \in Nat
    BY <1>1, BoundsAssumption DEF IInv, Timed, Typed, Shown, Frame
  <1>5. Shown' /\ latest'.frame = latest.frame
    <2>1. latest' = [frame |-> latest.frame, signature |-> latest'.signature]
      BY <1>1, <1>4 DEF Shown
    <2> QED
      BY <1>1, <1>4, <2>1 DEF Shown
  <1>6. auth' \in Authority
    BY <1>1, <1>4, AuthorityTypes DEF IInv, Typed
  <1>7. next \in Task /\ next # None
    BY <1>4, TaskAssumption DEF Task
  <1>8. Typed'
    BY <1>1, <1>2, <1>4, <1>5, <1>6, <1>7 DEF IInv, Typed, Keeps
  <1>9. Timed'
    <2>1. task' # None => task'.frame.at = now
      BY <1>1, <1>4 DEF Shown
    <2> QED
      BY <1>1, <1>2, <1>4, <1>5, <2>1, LeaseFacts
      DEF Timed, Keeps, Staged, RegGood, RegInv, OwnerAgrees, Owners, FiltrationOwners
  <1>10. Staging'
    BY <1>1 DEF Staging
  <1>11. RegGood(reg') /\ Acquiring(reg', drv') /\ Unloaded' /\ Latched'
    BY <1>1, <1>2 DEF Keeps, Unloaded, Latched
  <1>12. IdleMeansCurrent'
    BY <1>1, <1>3, <1>5, <1>7 DEF IdleMeansCurrent
  <1> QED
    BY <1>8, <1>9, <1>10, <1>11, <1>12 DEF IInv

-----------------------------------------------------------------------------
(***************************************************************************)
(* The steps beside the task.                                              *)
(***************************************************************************)
LEMMA AsideGood ==
  ASSUME IInv, UNCHANGED <<disturbances, now, task, latest>>,
         plant' \in Plant, suppressed' \in BOOLEAN, auth' \in Authority, Keeps(reg', drv'),
         drv'.last = drv.last, drv'.attempt \in {drv.attempt, None},
         drv.unloaded => drv'.unloaded,
         drv'.reenable => drv.reenable \/ "orchestration" \in disturbances,
         reg'.owner = "FILTRATION_SUSPENDED" =>
           reg.owner = "FILTRATION_SUSPENDED"
             /\ reg'.lease.established_at = reg.lease.established_at
  PROVE  IInv'
  <1>1. Typed'
    BY DEF IInv, Typed, Keeps
  <1>2. RegGood(reg') /\ Acquiring(reg', drv') /\ Unloaded' /\ Latched'
    BY DEF Keeps, Unloaded, Latched
  <1>3. Timed'
    BY DEF IInv, Timed, Shown, Keeps, Staged
  <1>4. Staging'
    BY DEF IInv, Staging
  <1>5. IdleMeansCurrent'
    BY DEF IInv, IdleMeansCurrent
  <1> QED
    BY <1>1, <1>2, <1>3, <1>4, <1>5 DEF IInv

LEMMA KeepsNow ==
  ASSUME IInv
  PROVE  /\ Keeps(reg, drv) /\ RegGood(reg) /\ reg \in Registry /\ drv \in Driver
         /\ auth \in Authority /\ plant \in Plant /\ suppressed \in BOOLEAN /\ now \in Nat
         /\ Acquiring(reg, drv)
  BY BoundsAssumption
  DEF IInv, Typed, Keeps, Timed, Unloaded, Latched, RegGood, RegInv

LEMMA SwitchGood ==
  ASSUME IInv, NEW on \in BOOLEAN, Switch(on)
  PROVE  IInv'
  <1> DEFINE epoch == IF latest = None THEN None ELSE latest.frame.epoch
             opened == on /\ ~drv.enabled
             reenable == drv.reenable /\ ~opened
             armed == drv.armed /\ on
             after == IF opened THEN epoch ELSE drv.after
  <1>1. /\ ~drv.unloaded /\ auth' = ConfigureGate(auth, on)
        /\ drv' = [drv EXCEPT !.enabled = on, !.after = after, !.reenable = reenable,
                              !.armed = armed]
        /\ UNCHANGED <<disturbances, now, plant, suppressed, reg, task, latest>>
    BY DEF Switch, SetEnabled
  <1>2. epoch \in Epochs \cup {None}
    BY DEF IInv, Typed, Frame
  <1>3. after \in Epochs \cup {None} /\ reenable \in BOOLEAN /\ armed \in BOOLEAN
        /\ (reenable => drv.reenable)
    BY <1>2 DEF IInv, Typed, Driver
  <1> HIDE DEF epoch, opened, reenable, armed, after
  <1>4. /\ drv' \in Driver /\ drv'.last = drv.last /\ drv'.attempt = drv.attempt
        /\ drv'.session = drv.session /\ drv'.unloaded = drv.unloaded
        /\ (drv'.reenable => drv.reenable)
    BY <1>1, <1>3, KeepsNow DEF Driver
  <1>5. auth' \in Authority
    BY <1>1, KeepsNow DEF ConfigureGate, Invalidated, Authority
  <1>6. Keeps(reg', drv')
    BY <1>1, <1>4, KeepsNow DEF Keeps, Acquiring
  <1> QED
    BY <1>1, <1>4, <1>5, <1>6, KeepsNow, AsideGood

LEMMA ToldGood ==
  ASSUME IInv, NEW d \in Domains, reg' = Told(d), ~drv.unloaded,
         plant' \in Plant, suppressed' \in BOOLEAN,
         UNCHANGED <<disturbances, now, drv, auth, task, latest>>
  PROVE  IInv'
  <1>1. Moves(reg, reg', now) /\ SameHold(reg, reg')
    BY KeepsNow, ToldMoves
  <1>2. Acquiring(reg', drv)
    BY <1>1, KeepsNow, SameHoldAcquiring
  <1>3. reg'.lease # None => reg.lease # None /\ reg'.lease.established_at <= now
    BY <1>1, KeepsNow DEF SameHold, Keeps
  <1>4. Keeps(reg', drv')
    BY <1>1, <1>2, <1>3, KeepsNow DEF Keeps, Moves
  <1>5. reg'.owner = "FILTRATION_SUSPENDED" => reg.lease # None
    BY <1>1, KeepsNow DEF SameHold, RegGood, RegInv, OwnerAgrees, Owners, FiltrationOwners
  <1>6. reg'.owner = "FILTRATION_SUSPENDED" =>
           reg.owner = "FILTRATION_SUSPENDED"
             /\ reg'.lease.established_at = reg.lease.established_at
    BY <1>1, <1>5 DEF SameHold
  <1> QED
    BY <1>4, <1>6, KeepsNow, AsideGood

LEMMA OutsideGood ==
  ASSUME IInv, OperatorSetsPump \/ OperatorStopsPool \/ OperatorLiftsRestraint \/ PlantChanges
  PROVE  IInv'
  <1>1. "PUMP" \in Domains /\ "BODY" \in Domains
    BY DEF Domains
  <1>2. CASE OperatorSetsPump
    <2>1. plant' \in Plant /\ suppressed' \in BOOLEAN
      BY <1>2, KeepsNow DEF OperatorSetsPump, Plant
    <2> QED
      BY <1>1, <1>2, <2>1, ToldGood DEF OperatorSetsPump
  <1>3. CASE OperatorStopsPool
    <2>1. plant' \in Plant /\ suppressed' \in BOOLEAN
      BY <1>3, KeepsNow DEF OperatorStopsPool, Plant
    <2> QED
      BY <1>1, <1>3, <2>1, ToldGood DEF OperatorStopsPool
  <1>4. CASE OperatorLiftsRestraint
    BY <1>4, KeepsNow, AsideGood DEF OperatorLiftsRestraint
  <1>5. CASE PlantChanges
    <2>1. plant' \in Plant
      BY <1>5, KeepsNow DEF PlantChanges, Plant
    <2> QED
      BY <1>5, <2>1, KeepsNow, AsideGood DEF PlantChanges
  <1> QED
    BY <1>2, <1>3, <1>4, <1>5

LEMMA ThermalActsMoves ==
  ASSUME IInv, ThermalActs
  PROVE  ThermalMoves(reg, reg')
  BY KeepsNow, HandsOverGood, OwnsGood, ReturnsGood DEF ThermalActs

LEMMA ThermalActsGood ==
  ASSUME IInv, ThermalActs
  PROVE  IInv'
  <1>1. /\ ~drv.unloaded /\ ThermalMoves(reg, reg')
        /\ UNCHANGED <<disturbances, now, plant, suppressed, drv, auth, task, latest>>
    BY ThermalActsMoves DEF ThermalActs
  <1>2. reg'.lease # None => /\ reg'.lease.established_at <= now
                             /\ "return" \notin disturbances => reg.lease # None
    BY <1>1, KeepsNow DEF ThermalMoves, Keeps
  <1>3. Keeps(reg', drv')
    BY <1>1, <1>2, KeepsNow DEF Keeps, ThermalMoves
  <1>4. reg'.owner = "FILTRATION_SUSPENDED" =>
           reg.owner = "FILTRATION_SUSPENDED"
             /\ reg'.lease.established_at = reg.lease.established_at
    BY <1>1 DEF ThermalMoves
  <1> QED
    BY <1>1, <1>3, <1>4, KeepsNow, AsideGood

LEMMA OrchestrationFailsGood ==
  ASSUME IInv, OrchestrationFails
  PROVE  IInv'
  <1>1. /\ auth' = BeginAuthorityEpoch(auth, FreshEpoch)
        /\ reg' = FailClosed(reg, drv).reg /\ drv' = FailClosed(reg, drv).drv
        /\ UNCHANGED <<disturbances, now, plant, suppressed, task, latest>>
    BY DEF OrchestrationFails
  <1>2. auth' \in Authority
    BY <1>1, KeepsNow, FreshNames, AuthorityTypes
  <1>3. /\ Keeps(reg', drv') /\ reg'.owner # "FILTRATION_SUSPENDED"
        /\ drv'.attempt = None /\ drv'.last = drv.last /\ drv'.unloaded = drv.unloaded
    BY <1>1, FailClosedFacts DEF SameSwitches
  <1>4. "orchestration" \in disturbances
    BY DEF OrchestrationFails
  <1> QED
    BY <1>1, <1>2, <1>3, <1>4, KeepsNow, AsideGood

LEMMA SanitationBoundaryGood ==
  ASSUME IInv, SanitationBoundary
  PROVE  IInv'
  <1>1. /\ reg.lease # None /\ reg' = Released(reg)
        /\ auth' \in {auth, BeginAuthorityEpoch(auth, FreshEpoch)}
        /\ UNCHANGED <<disturbances, now, plant, suppressed, drv, task, latest>>
    BY DEF SanitationBoundary
  <1>2. auth' \in Authority
    BY <1>1, KeepsNow, FreshNames, AuthorityTypes
  <1>3. Moves(reg, reg', now) /\ reg'.lease = None
    BY <1>1, KeepsNow, ReleasedMoves
  <1>4. RegGood(reg') /\ reg'.owner # "FILTRATION_SUSPENDED"
    BY <1>3 DEF Moves, RegGood, RegInv, OwnerAgrees, Owners, FiltrationOwners
  <1>5. ~drv.unloaded
    BY <1>1 DEF IInv, Unloaded
  <1>6. Keeps(reg', drv')
    BY <1>1, <1>3, <1>4, <1>5, KeepsNow DEF Keeps, Acquiring
  <1> QED
    BY <1>1, <1>2, <1>4, <1>6, KeepsNow, AsideGood

LEMMA UnloadGood ==
  ASSUME IInv, Unload
  PROVE  IInv'
  <1>1. /\ auth' = UnloadAuthority(auth) /\ drv' = UnloadDriver(drv)
        /\ reg' = UnloadRegistry(reg)
        /\ UNCHANGED <<disturbances, now, plant, suppressed, task, latest>>
    BY DEF Unload, RegistryUnloads
  <1>2. auth' \in Authority
    BY <1>1, KeepsNow DEF UnloadAuthority, Invalidated, Authority
  <1>3. /\ drv' \in Driver /\ drv'.session = None /\ drv'.attempt = None
        /\ drv'.unloaded /\ drv'.last = drv.last /\ drv'.reenable = drv.reenable
    BY <1>1, KeepsNow DEF UnloadDriver, Cleared, Driver
  <1>4. reg'.lease = None /\ reg'.owner = "NONE" /\ reg'.handoff = None /\ reg'.reserved = None
    BY <1>1 DEF UnloadRegistry, EmptyRegistry
  <1>5. RegInv(reg')
    BY <1>1, KeepsNow, UnloadInv DEF RegGood
  <1>6. Keeps(reg', drv')
    BY <1>3, <1>4, <1>5 DEF Keeps, Acquiring, RegGood, Pledged
  <1> QED
    BY <1>1, <1>2, <1>3, <1>4, <1>6, KeepsNow, AsideGood

-----------------------------------------------------------------------------
LEMMA StepGood ==
  ASSUME IInv, [Next]_vars
  PROVE  IInv'
  <1>1. CASE TaskStarts
    BY <1>1, TaskStartsGood
  <1>2. CASE GatewaySends
    BY <1>2, GatewaySendsGood
  <1>3. CASE GatewayRefuses
    BY <1>3, ResumesGood DEF GatewayRefuses
  <1>4. CASE Reply
    <2>1. PICK o \in {"accepted"} \cup Among("lost", {"failed"}, "accepted") : Resumes(o)
      BY <1>4 DEF Reply
    <2>2. o \in {"not_dispatched", "failed", "accepted"}
      BY DEF Among
    <2> QED
      BY <1>4, <2>1, <2>2, ResumesGood DEF Reply
  <1>5. CASE TaskDone
    BY <1>5, TaskDoneGood
  <1>6. CASE ThermalActs
    BY <1>6, ThermalActsGood
  <1>7. CASE SomeSnapshot
    <2>1. UNCHANGED <<disturbances, plant, suppressed>>
      BY <1>7 DEF SomeSnapshot, Snapshot
    <2> QED
      BY <1>7, <2>1, SnapshotGood
  <1>8. CASE \E on \in BOOLEAN : Switch(on)
    BY <1>8, SwitchGood
  <1>9. CASE OperatorSetsPump \/ OperatorStopsPool \/ OperatorLiftsRestraint \/ PlantChanges
    BY <1>9, OutsideGood
  <1>10. CASE OrchestrationFails
    BY <1>10, OrchestrationFailsGood
  <1>11. CASE SanitationBoundary
    BY <1>11, SanitationBoundaryGood
  <1>12. CASE Unload
    BY <1>12, UnloadGood
  <1>13. CASE UNCHANGED vars
    BY <1>13 DEF vars, IInv, Typed, Timed, Shown, Staged, Unloaded, Staging, Latched,
                 IdleMeansCurrent
  <1> QED
    BY <1>1, <1>2, <1>3, <1>4, <1>5, <1>6, <1>7, <1>8, <1>9, <1>10, <1>11, <1>12, <1>13
    DEF Next, TaskSteps

LEMMA Inductive == Spec => []IInv
  <1>1. Init => IInv
    BY InitGood
  <1>2. IInv /\ [Next]_vars => IInv'
    BY StepGood
  <1> QED
    BY <1>1, <1>2, PTL DEF Spec

-----------------------------------------------------------------------------
(***************************************************************************)
(* Type correctness: no handler gives a variable a value it should not     *)
(* have, whatever is raised, refused or lost on the way.                   *)
(***************************************************************************)
THEOREM FiltrationTypeCorrect == Spec => []TypeOK
  <1>1. IInv => TypeOK
    BY DEF IInv, Typed, RegGood, RegInv, TypeOK
  <1> QED
    BY <1>1, Inductive, PTL

(***************************************************************************)
(* The registry in use: what PoolCirculation promises of single calls      *)
(* holds at every await of the drivers that share it, although one stretch *)
(* of the filtration task makes several calls (_recover_suspended, _deliver*)
(* and _verify_attempt): one owner, leases their constructor accepts, and  *)
(* a pending hand-over that names its verified donor.                      *)
(***************************************************************************)
THEOREM SharedRegistryIsSound == Spec => [](SingleOwner /\ LeaseNeverRefused /\ TokenHasItsDonor)
  <1>1. IInv => SingleOwner /\ LeaseNeverRefused /\ TokenHasItsDonor
    BY DEF IInv, RegGood, RegInv, OwnerAgrees, SingleOwner, LeaseAgrees, LeaseNeverRefused,
           DonorAgrees, TokenHasItsDonor
  <1> QED
    BY <1>1, Inductive, PTL

(***************************************************************************)
(* No lost wake-up: with no task, the driver has processed the snapshot    *)
(* published last (observe, _schedule_if_idle, _task_done).                *)
(***************************************************************************)
THEOREM NoLostSnapshot == Spec => []IdleMeansCurrent
  <1>1. IInv => IdleMeansCurrent
    BY DEF IInv
  <1> QED
    BY <1>1, Inductive, PTL

(***************************************************************************)
(* Once unloaded, nothing is owned again: a delivery that comes back after *)
(* unload finds no session to record itself for.                           *)
(***************************************************************************)
THEOREM UnloadStaysFinal == Spec => []UnloadIsFinal
  <1>1. IInv => UnloadIsFinal
    BY DEF IInv, Unloaded, UnloadIsFinal
  <1> QED
    BY <1>1, Inductive, PTL

-----------------------------------------------------------------------------
\* Only the gateway sends what is queued.
LEMMA DispatchSends ==
  ASSUME IInv, [Next]_vars, Dispatches
  PROVE  GatewaySends
  <1>1. task # None /\ task.stage = "queued" /\ task' # task /\ Staged("sent")' /\ task' # None
        /\ task'.stage = "sent"
    BY DEF Dispatches, Staged
  <1>2. ~TaskStarts /\ ~TaskDone
    BY <1>1 DEF TaskStarts, TaskDone, Staged
  <1>3. ASSUME NEW o \in {"not_dispatched", "failed", "accepted"}, Resumes(o)
        PROVE  FALSE
    <2>1. PICK x : Follows(x) /\ Reports(reg, drv, task.frame, o, x)
      BY <1>1, <1>3, ResumesFacts DEF Staged
    <2>2. RegGood(x.reg) /\ x.next \in {"done", "raised"} /\ MayQueue(x, task.frame)
      BY <2>1 DEF Reports, Moves, MayQueue, Steps
    <2> QED
      BY <1>1, <2>1, <2>2, FollowsFacts
  <1>4. ~GatewayRefuses
    BY <1>3 DEF GatewayRefuses
  <1>5. ~Reply
    <2>1. ASSUME NEW o \in {"accepted"} \cup Among("lost", {"failed"}, "accepted"), Resumes(o)
          PROVE  FALSE
      <3>1. o \in {"not_dispatched", "failed", "accepted"}
        BY DEF Among
      <3> QED
        BY <1>3, <2>1, <3>1
    <2> QED
      BY <2>1 DEF Reply
  <1>6. ~SomeSnapshot
    <2>1. ASSUME SomeSnapshot
          PROVE  task' = task
      <3>1. PICK g : Publishes(g)
        BY <2>1, SnapshotPublishes
      <3> QED
        BY <1>1, <3>1 DEF Publishes, Observe1
    <2> QED
      BY <1>1, <2>1
  <1> QED
    BY <1>1, <1>2, <1>4, <1>5, <1>6
    DEF Next, TaskSteps, ThermalActs, Switch, OperatorSetsPump, OperatorStopsPool,
        OperatorLiftsRestraint, PlantChanges, OrchestrationFails, SanitationBoundary, Unload,
        vars

(***************************************************************************)
(* Filtration never sends a command while an earlier one is unverified,    *)
(* whatever is published, failed closed or restarted in between.           *)
(***************************************************************************)
THEOREM OneUnverifiedCommand == Spec => OneCommandAtATime
  <1>1. ASSUME IInv, [Next]_vars, Dispatches
        PROVE  drv.attempt = None
    BY <1>1 DEF IInv, Staging, Dispatches, Staged
  <1>2. IInv /\ [Next]_vars => [Dispatches => drv.attempt = None]_vars
    BY <1>1
  <1> QED
    BY <1>2, Inductive, PTL DEF Spec, OneCommandAtATime

(***************************************************************************)
(* What thermal owns is taken from it by thermal alone: no delivery,       *)
(* verification, failure or release of filtration, early or late, changes  *)
(* the owner.                                                              *)
(***************************************************************************)
THEOREM ThermalKeepsCirculation == Spec => ThermalIsUndisturbed
  <1> DEFINE Stays == reg'.owner = "THERMAL" /\ reg'.thermal_lease = reg.thermal_lease
  <1>1. ASSUME IInv, reg.owner = "THERMAL", TaskSteps
        PROVE  Stays
    <2>1. ASSUME NEW o \in {"not_dispatched", "failed", "accepted"}, Resumes(o),
                 Staged("queued") \/ Staged("sent")
          PROVE  Stays
      <3>1. PICK x : Follows(x) /\ Reports(reg, drv, task.frame, o, x)
        BY <1>1, <2>1, ResumesFacts
      <3>2. Moves(reg, x.reg, task.frame.at) /\ reg' = x.reg
        BY <3>1 DEF Reports, Follows
      <3> QED
        BY <1>1, <3>2 DEF Moves
    <2>2. CASE TaskStarts
      <3>1. task.frame.epoch \in Epochs
        BY <1>1, <2>2 DEF TaskStarts, Staged, IInv, Typed, Task, Frame
      <3> DEFINE r0 == BeginEpoch(reg, task.frame.epoch)
      <3>2. r0.owner = "THERMAL" /\ r0.thermal_lease = reg.thermal_lease
        BY <1>1, <3>1, EpochMoves DEF IInv, SameHold
      <3>3. PICK x : Follows(x) /\ Started(r0, x)
        BY <1>1, <2>2, TaskStartsFacts
      <3> HIDE DEF r0
      <3>4. reg' = x.reg
        BY <3>3 DEF Follows
      <3>5. x.reg = reg \/ Moves(r0, x.reg, task.frame.at)
        BY <3>3 DEF Started, Processes, Result
      <3> QED
        BY <1>1, <3>2, <3>4, <3>5 DEF Moves
    <2>3. CASE GatewaySends
      BY <1>1, <2>3 DEF GatewaySends
    <2>4. CASE GatewayRefuses
      BY <2>1, <2>4 DEF GatewayRefuses
    <2>5. CASE Reply
      <3>1. PICK o \in {"accepted"} \cup Among("lost", {"failed"}, "accepted") : Resumes(o)
        BY <2>5 DEF Reply
      <3>2. o \in {"not_dispatched", "failed", "accepted"}
        BY DEF Among
      <3> QED
        BY <2>1, <2>5, <3>1, <3>2 DEF Reply
    <2>6. CASE TaskDone
      <3>1. reg' = reg \/ reg' = FailClosed(reg, drv).reg
        BY <2>6 DEF TaskDone, Done, Result
      <3> QED
        BY <1>1, <3>1, FailClosedFacts DEF Moves
    <2> QED
      BY <1>1, <2>2, <2>3, <2>4, <2>5, <2>6 DEF TaskSteps
  <1>2. IInv /\ [Next]_vars => [reg.owner = "THERMAL" /\ TaskSteps => Stays]_vars
    BY <1>1
  <1> QED
    BY <1>2, Inductive, PTL DEF Spec, ThermalIsUndisturbed

-----------------------------------------------------------------------------
(***************************************************************************)
(* What a stretch between two awaits makes of the lease.                   *)
(***************************************************************************)
Shifts(r, q) ==
  /\ Evolves(r, q)
  /\ r.lease # None /\ q.owner = "THERMAL" => Earned(r.lease)

LEMMA MovesShifts ==
  ASSUME NEW r, NEW q, NEW at, Moves(r, q, at)
  PROVE  Shifts(r, q)
  BY ThermalHasNoLease DEF Moves, RegGood, Shifts

LEMMA CallsShift ==
  ASSUME RegInv(reg), [RegistryNext]_registryVars
  PROVE  Shifts(reg, reg')
  <1>1. Kept(reg, reg') \/ Fresh(reg, reg')
    BY LeaseSteps DEF RegistryIInv
  <1>2. Evolves(reg, reg')
    BY <1>1, StepEvolves
  <1>3. reg.lease # None /\ reg'.owner = "THERMAL" => Earned(reg.lease)
    BY TransferSteps DEF RegistryIInv
  <1> QED
    BY <1>2, <1>3 DEF Shifts

\* An epoch and a reservation leave the lease and the owner alone.
LEMMA SnapshotShifts ==
  ASSUME IInv, SomeSnapshot
  PROVE  Shifts(reg, reg')
  <1>1. RegInv(reg) /\ reg \in Registry
    BY DEF IInv, RegGood, RegInv
  <1>2. \E e, reserve :
          reg' = IF reserve THEN ReserveThermal(BeginEpoch(reg, e), e) ELSE BeginEpoch(reg, e)
    BY DEF SomeSnapshot, Snapshot
  <1>3. reg'.lease = reg.lease /\ reg'.generation = reg.generation /\ reg'.owner = reg.owner
    BY <1>1, <1>2 DEF BeginEpoch, ReserveThermal, Registry
  <1>4. Evolves(reg, reg')
    BY <1>1, <1>3, SameLeaseEvolves
  <1> QED
    BY <1>1, <1>3, <1>4, ThermalHasNoLease DEF Shifts

\* Thermal's calls and unload are steps of PoolCirculation.
LEMMA ThermalShifts ==
  ASSUME IInv, ThermalActs \/ Unload
  PROVE  Shifts(reg, reg')
  <1>1. RegInv(reg) /\ now \in Times
    BY DEF IInv, RegGood, Typed, Times
  <1>2. CASE Unload
    BY <1>1, <1>2, CallsShift DEF Unload, RegistryNext
  <1>3. CASE ThermalHandsOver
    BY <1>1, <1>3, CallsShift DEF ThermalHandsOver, RegistryNext
  <1>4. CASE ThermalTakes
    BY <1>1, <1>4, CallsShift DEF ThermalTakes, RegistryNext
  <1>5. CASE ThermalGivesBack
    <2>1. FreshSession \in Sessions
      BY FreshNames DEF IInv, Typed, RegGood, RegInv
    <2>2. None \in EarlierBodySessions
      BY DEF EarlierBodySessions
    <2>3. RegistryNext
      BY <1>1, <1>5, <2>1, <2>2 DEF ThermalGivesBack, RegistryNext
    <2> QED
      BY <1>1, <2>3, CallsShift
  <1> QED
    BY <1>2, <1>3, <1>4, <1>5 DEF ThermalActs

LEMMA TaskShifts ==
  ASSUME IInv, TaskSteps
  PROVE  Shifts(reg, reg')
  <1>0. RegGood(reg) /\ RegInv(reg)
    BY DEF IInv, RegGood
  <1>1. Shifts(reg, reg)
    BY <1>0, MovesRefl, MovesShifts
  <1>2. ASSUME NEW o \in {"not_dispatched", "failed", "accepted"}, Resumes(o),
               Staged("queued") \/ Staged("sent")
        PROVE  Shifts(reg, reg')
    <2>1. PICK x : Follows(x) /\ Reports(reg, drv, task.frame, o, x)
      BY <1>2, ResumesFacts
    <2>2. Moves(reg, x.reg, task.frame.at) /\ reg' = x.reg
      BY <2>1 DEF Reports, Follows
    <2> QED
      BY <2>2, MovesShifts
  <1>3. CASE TaskStarts
    <2> DEFINE r0 == BeginEpoch(reg, task.frame.epoch)
    <2>1. task.frame.epoch \in Epochs
      BY <1>3 DEF TaskStarts, Staged, IInv, Typed, Task, Frame
    <2>2. RegInv(r0) /\ SameHold(reg, r0) /\ r0.lease = reg.lease /\ Evolves(reg, r0)
      BY <1>0, <2>1, EpochMoves DEF RegGood
    <2>3. PICK x : Follows(x) /\ Started(r0, x)
      BY <1>3, TaskStartsFacts
    <2> HIDE DEF r0
    <2>4. reg' = x.reg /\ (x.reg = reg \/ Moves(r0, x.reg, task.frame.at))
      BY <2>3 DEF Follows, Started, Processes, Result
    <2>5. ASSUME Moves(r0, x.reg, task.frame.at)
          PROVE  Shifts(reg, x.reg)
      <3>1. Shifts(r0, x.reg) /\ RegInv(x.reg) /\ Evolves(r0, x.reg)
        BY <2>5, MovesShifts DEF Moves, RegGood
      <3>2. Evolves(reg, x.reg)
        BY <1>0, <2>2, <3>1, EvolvesTrans
      <3> QED
        BY <2>2, <3>1, <3>2 DEF Shifts
    <2> QED
      BY <1>1, <2>4, <2>5
  <1>4. CASE GatewaySends
    BY <1>1, <1>4 DEF GatewaySends
  <1>5. CASE GatewayRefuses
    BY <1>2, <1>5 DEF GatewayRefuses
  <1>6. CASE Reply
    <2>1. PICK o \in {"accepted"} \cup Among("lost", {"failed"}, "accepted") : Resumes(o)
      BY <1>6 DEF Reply
    <2>2. o \in {"not_dispatched", "failed", "accepted"}
      BY DEF Among
    <2> QED
      BY <1>2, <1>6, <2>1, <2>2 DEF Reply
  <1>7. CASE TaskDone
    <2>1. reg' = reg \/ reg' = FailClosed(reg, drv).reg
      BY <1>7 DEF TaskDone, Done, Result
    <2> QED
      BY <1>1, <2>1, FailClosedFacts, MovesShifts
  <1> QED
    BY <1>3, <1>4, <1>5, <1>6, <1>7 DEF TaskSteps

LEMMA StepShifts == IInv /\ [Next]_vars => Shifts(reg, reg')
  <1> SUFFICES ASSUME IInv, [Next]_vars PROVE Shifts(reg, reg')
    OBVIOUS
  <1>1. RegGood(reg) /\ now \in Nat
    BY KeepsNow DEF IInv
  <1>2. Shifts(reg, reg)
    BY <1>1, MovesRefl, MovesShifts
  <1>3. CASE TaskSteps
    BY <1>3, TaskShifts
  <1>4. CASE ThermalActs \/ Unload
    BY <1>4, ThermalShifts
  <1>5. CASE SomeSnapshot
    BY <1>5, SnapshotShifts
  <1>6. CASE OperatorSetsPump \/ OperatorStopsPool
    <2>1. \E d \in Domains : reg' = Told(d)
      BY <1>6 DEF OperatorSetsPump, OperatorStopsPool, Domains
    <2> QED
      BY <1>1, <2>1, ToldMoves, MovesShifts
  <1>7. CASE OrchestrationFails
    BY <1>7, FailClosedFacts, MovesShifts DEF OrchestrationFails
  <1>8. CASE SanitationBoundary
    BY <1>1, <1>8, ReleasedMoves, MovesShifts DEF SanitationBoundary
  <1>9. CASE (\E on \in BOOLEAN : Switch(on)) \/ OperatorLiftsRestraint \/ PlantChanges
             \/ UNCHANGED vars
    BY <1>2, <1>9 DEF Switch, OperatorLiftsRestraint, PlantChanges, vars
  <1> QED
    BY <1>3, <1>4, <1>5, <1>6, <1>7, <1>8, <1>9 DEF Next

(***************************************************************************)
(* Generations with both drivers at work: whatever a stretch of several    *)
(* calls makes of a lease (released and adopted again, recorded, given     *)
(* back by thermal), one that was not there before has a generation above  *)
(* every earlier one.                                                      *)
(***************************************************************************)
THEOREM SharedGenerationsAreFresh == Spec => GenerationsNeverReused
  <1> DEFINE A == /\ reg'.generation >= reg.generation
                  /\ reg'.lease # None
                     /\ (reg.lease = None \/ reg'.lease.generation # reg.lease.generation)
                     => reg'.lease.generation > reg.generation
  <1>1. IInv /\ [Next]_vars => [A]_registryVars
    BY StepShifts DEF Shifts, Evolves
  <1> QED
    BY <1>1, Inductive, PTL DEF Spec, GenerationsNeverReused

(***************************************************************************)
(* No await of filtration, no failure and no frame takes back what the     *)
(* operator took of a lease that lives.                                    *)
(***************************************************************************)
THEOREM SharedOperatorKeeps == Spec => OperatorKeepsDomain
  <1> DEFINE A == reg.lease # None /\ reg'.lease # None
                  /\ reg'.lease.generation = reg.lease.generation
                  => \A d \in Domains : DomainOf(reg.lease, d).authority = "OPERATOR"
                                          => DomainOf(reg'.lease, d).authority = "OPERATOR"
  <1>1. IInv /\ [Next]_vars => [A]_registryVars
    <2> SUFFICES ASSUME IInv, [Next]_vars PROVE A
      OBVIOUS
    <2>1. RegInv(reg) /\ Shifts(reg, reg')
      BY StepShifts DEF IInv, RegGood
    <2>2. reg.lease # None => reg.lease.generation \in Nat /\ reg.generation \in Nat
                              /\ reg.lease.generation <= reg.generation
      BY <2>1, LeaseFacts DEF Lease
    <2> QED
      BY <2>1, <2>2 DEF Shifts, Evolves, OperatorKeeps
  <1> QED
    BY <1>1, Inductive, PTL DEF Spec, OperatorKeepsDomain

(***************************************************************************)
(* With both drivers at work, thermal takes circulation from a filtration  *)
(* lease only by completing a hand-over: nothing filtration does by        *)
(* itself gives it away.                                                   *)
(***************************************************************************)
THEOREM SharedTransfersAreEarned == Spec => TransferIsEarned
  <1> DEFINE A == reg.lease # None /\ reg'.owner = "THERMAL" =>
                    /\ reg.lease.verified
                    /\ reg.lease.body_activation # None
                    /\ DomainOf(reg.lease, "BODY").authority = "POOLOS"
  <1>1. IInv /\ [Next]_vars => [A]_registryVars
    BY StepShifts DEF Shifts, Earned
  <1> QED
    BY <1>1, Inductive, PTL DEF Spec, TransferIsEarned

-----------------------------------------------------------------------------
(***************************************************************************)
(* The fault that waits for the operator.                                  *)
(***************************************************************************)
LiftsFault == drv.reenable /\ ~drv'.reenable

LEMMA ResumesKeepsFault ==
  ASSUME IInv, Staged("queued") \/ Staged("sent"),
         NEW o \in {"not_dispatched", "failed", "accepted"}, Resumes(o), LiftsFault
  PROVE  o = "failed" /\ ForeignLease
  <1>1. PICK x : Follows(x) /\ Reports(reg, drv, task.frame, o, x)
    BY ResumesFacts
  <1>2. drv' = x.drv
    BY <1>1 DEF Follows
  <1>3. o = "failed" /\ reg.lease # None /\ reg.lease.body_verified
    BY <1>1, <1>2 DEF Reports, LiftsFault
  <1>4. drv.session = None
    BY DEF IInv, Latched, LiftsFault
  <1>5. reg.lease.session \in Sessions
    BY <1>3 DEF IInv, RegGood, RegInv, Registry, Lease
  <1> QED
    BY <1>3, <1>4, <1>5, NoneAssumption DEF ForeignLease

LEMMA FaultLifted ==
  ASSUME IInv, [Next]_vars, LiftsFault
  PROVE  \/ ~drv.enabled /\ drv'.enabled
         \/ Staged("sent") /\ ForeignLease
  <1>1. CASE TaskStarts
    <2>1. PICK x : Follows(x) /\ Started(BeginEpoch(reg, task.frame.epoch), x)
      BY <1>1, TaskStartsFacts
    <2>2. drv' = x.drv
      BY <2>1 DEF Follows
    <2>3. drv.reenable => x.drv.reenable
      BY <2>1 DEF Started, Processes, Result
    <2> QED
      BY <2>2, <2>3 DEF LiftsFault
  <1>2. CASE GatewayRefuses
    BY <1>2, ResumesKeepsFault DEF GatewayRefuses
  <1>3. CASE Reply
    <2>1. PICK o \in {"accepted"} \cup Among("lost", {"failed"}, "accepted") : Resumes(o)
      BY <1>3 DEF Reply
    <2>2. o \in {"not_dispatched", "failed", "accepted"}
      BY DEF Among
    <2> QED
      BY <1>3, <2>1, <2>2, ResumesKeepsFault DEF Reply
  <1>4. CASE TaskDone
    <2>1. drv' = drv \/ drv' = FailClosed(reg, drv).drv
      BY <1>4 DEF TaskDone, Done, Result
    <2> QED
      BY <2>1, FailClosedFacts DEF LiftsFault
  <1>5. CASE SomeSnapshot
    <2>1. PICK g : Publishes(g)
      BY <1>5, SnapshotPublishes
    <2>2. drv' \in {drv, Processed(drv, g)}
      BY <2>1 DEF Publishes, Observe1
    <2>3. Processed(drv, g).reenable = drv.reenable
      BY DEF Processed, IInv, Typed, Driver
    <2> QED
      BY <2>2, <2>3 DEF LiftsFault
  <1>6. CASE \E on \in BOOLEAN : Switch(on)
    <2>1. PICK on \in BOOLEAN : Switch(on)
      BY <1>6
    <2> DEFINE opened == on /\ ~drv.enabled
               reenable == drv.reenable /\ ~opened
    <2>2. drv'.enabled = on /\ drv'.reenable = reenable
      BY <2>1 DEF Switch, SetEnabled, IInv, Typed, Driver
    <2>3. opened
      BY <2>2 DEF LiftsFault
    <2> QED
      BY <2>2, <2>3
  <1>7. CASE OrchestrationFails
    BY <1>7, FailClosedFacts DEF OrchestrationFails, LiftsFault
  <1>8. CASE Unload
    <2>1. drv' = UnloadDriver(drv) /\ drv \in Driver
      BY <1>8 DEF Unload, IInv, Typed
    <2>2. drv'.reenable = drv.reenable
      BY <2>1 DEF UnloadDriver, Cleared, Driver
    <2> QED
      BY <2>2 DEF LiftsFault
  <1>9. drv' # drv
    BY DEF LiftsFault
  <1> QED
    BY <1>1, <1>2, <1>3, <1>4, <1>5, <1>6, <1>7, <1>8, <1>9
    DEF Next, TaskSteps, GatewaySends, ThermalActs, OperatorSetsPump, OperatorStopsPool,
        OperatorLiftsRestraint, PlantChanges, SanitationBoundary, vars

(***************************************************************************)
(* Whatever happens at once, a fault that waits for the operator is lifted *)
(* by turning filtration on again, or by a delivery that ends in failure   *)
(* when there is a lease with a verified body that is not the driver's:    *)
(* filtration was failed closed with the command on its way, and thermal   *)
(* gave the lease back since.                                              *)
(***************************************************************************)
THEOREM FaultIsTheOperators == Spec => ReenableIsTheOperators
  <1> DEFINE Lifted == \/ ~drv.enabled /\ drv'.enabled
                       \/ Staged("sent") /\ ForeignLease
  <1>1. IInv /\ [Next]_vars => [drv.reenable /\ ~drv'.reenable => Lifted]_vars
    BY FaultLifted DEF LiftsFault
  <1> QED
    BY <1>1, Inductive, PTL DEF Spec, ReenableIsTheOperators

-----------------------------------------------------------------------------
(***************************************************************************)
(* Entitlement.  The gateway looks neither at the owner nor at the         *)
(* reservation.  What it is queued for holds because whoever reserves,     *)
(* fails or unloads withdraws the context first, and because a task that   *)
(* starts at once starts with the frame published last.                    *)
(***************************************************************************)
Published ==
  "lazy" \notin disturbances /\ ~drv.unloaded /\ task # None =>
    /\ reg.epoch = latest.frame.epoch
    /\ reg.reserved = latest.frame.epoch <=> latest.frame.candidate
    /\ task.stage = "scheduled" => task.frame = latest.frame

Unreserved == "thermal" \notin disturbances => reg.reserved = None

Apart == ~("lazy" \in disturbances /\ "thermal" \in disturbances)

Entitled ==
  Staged("queued") /\ auth.context # None =>
    /\ ~drv.unloaded /\ ~drv.reenable
    /\ Apart => /\ reg.owner \in FiltrationFree
                /\ reg.reserved # latest.frame.epoch
                /\ "thermal" \in disturbances => ~latest.signature[4]

EInv == IInv /\ Published /\ Unreserved /\ Entitled

\* A step that leaves the task, the published frame and what is reserved.
LEMMA AsideEntitled ==
  ASSUME EInv, UNCHANGED <<disturbances, task, latest>>,
         drv.unloaded => drv'.unloaded,
         ~drv'.unloaded => reg'.epoch = reg.epoch /\ reg'.reserved = reg.reserved,
         drv'.unloaded => reg'.reserved \in {None, reg.reserved},
         Staged("queued") /\ auth'.context # None
           => /\ auth.context # None
              /\ ~drv.reenable /\ ~drv.unloaded => ~drv'.reenable /\ ~drv'.unloaded
              /\ Apart /\ reg.owner \in FiltrationFree => reg'.owner \in FiltrationFree
  PROVE  Published' /\ Unreserved' /\ Entitled'
  <1>1. Published'
    BY DEF EInv, Published
  <1>2. Unreserved'
    BY DEF EInv, Unreserved
  <1>3. Entitled'
    BY DEF EInv, Entitled, Staged, Apart
  <1> QED
    BY <1>1, <1>2, <1>3

LEMMA TaskStartsEntitled ==
  ASSUME EInv, TaskStarts
  PROVE  Published' /\ Unreserved' /\ Entitled'
  <1> DEFINE f == task.frame
             r0 == BeginEpoch(reg, f.epoch)
  <1>1. /\ IInv /\ task # None /\ task.stage = "scheduled" /\ f \in Frame /\ f.epoch \in Epochs
        /\ disturbances' = disturbances /\ RegGood(reg)
    BY DEF EInv, TaskStarts, Staged, IInv, Typed, Task, Frame
  <1>2. PICK x : Follows(x) /\ Started(r0, x)
    BY <1>1, TaskStartsFacts
  <1>3. /\ r0.epoch = f.epoch
        /\ r0.reserved = IF f.epoch = reg.epoch THEN reg.reserved ELSE None
    BY <1>1, EpochMoves
  <1> HIDE DEF r0
  <1>4. CASE drv.unloaded \/ OldFrame(drv, f)
    <2>1. /\ x.reg = reg /\ x.drv = drv /\ x.next = "done" /\ x.next \notin Steps
      BY <1>2, <1>4 DEF Started, Result, Steps
    <2>2. /\ reg' = reg /\ drv' = drv /\ latest' = latest
          /\ task' = [task EXCEPT !.stage = "done"] /\ task \in Task
      BY <1>1, <1>2, <2>1 DEF Follows, IInv, Typed
    <2>3. task'.stage = "done" /\ ~Staged("queued")'
      BY <2>2 DEF Task, Staged
    <2> QED
      BY <1>1, <2>2, <2>3 DEF EInv, Published, Unreserved, Entitled, Apart
  <1>5. CASE ~(drv.unloaded \/ OldFrame(drv, f))
    <2>1. Processes(r0, drv, f, x)
      BY <1>2, <1>5 DEF Started
    <2>2. /\ x.reg.epoch = f.epoch /\ x.reg.reserved = r0.reserved /\ RegGood(x.reg)
          /\ x.drv.unloaded = drv.unloaded /\ MayQueue(x, f)
          /\ x.next \in {"done", "raised"} \cup Steps
      BY <1>3, <2>1 DEF Processes, Moves
    <2>3. /\ reg' = x.reg /\ drv' = x.drv /\ task'.stage # "scheduled"
          /\ latest'.frame = latest.frame /\ latest'.frame \in Frame
          /\ task'.stage \in {"queued", "sent"} => x.next \in Steps
      BY <1>1, <1>2, <2>2, FollowsFacts
    <2>4. "lazy" \notin disturbances => f = latest.frame /\ x.reg.reserved = reg.reserved
                                        /\ (reg.reserved = f.epoch <=> f.candidate)
      BY <1>1, <1>3, <1>5, <2>2 DEF EInv, Published
    <2>5. Published'
      BY <1>1, <2>2, <2>3, <2>4 DEF Published
    <2>6. Unreserved'
      BY <1>1, <1>3, <2>2, <2>3 DEF EInv, Unreserved
    <2>7. ASSUME Staged("queued")'
          PROVE  /\ ~drv'.unloaded /\ ~drv'.reenable
                 /\ Apart => /\ reg'.owner \in FiltrationFree
                             /\ reg'.reserved # latest'.frame.epoch
                             /\ "thermal" \in disturbances => ~latest'.signature[4]
      <3>1. x.next \in Steps
        BY <2>3, <2>7 DEF Staged
      <3>2. /\ ~x.drv.reenable /\ x.reg.reserved # f.epoch
            /\ x.reg.owner \in FiltrationFree
        BY <2>2, <3>1 DEF MayQueue, FiltrationMayDeliver, FiltrationFree
      <3>3. "thermal" \notin disturbances => reg'.reserved # latest'.frame.epoch
        BY <1>1, <2>3, <2>6, NoneAssumption DEF Unreserved, Frame
      <3>4. ASSUME Apart, "thermal" \in disturbances
            PROVE  reg'.reserved # latest'.frame.epoch /\ ~latest'.signature[4]
        <4>1. f = latest.frame /\ ~f.candidate
          BY <2>4, <3>2, <3>4 DEF Apart
        <4> DEFINE signature == Signature(f, x.reg, x.next = "BODY_ON")
        <4>2. latest' = [latest EXCEPT !.signature = signature]
          BY <1>2, <3>1 DEF Follows
        <4>3. signature[4] = f.candidate
          BY DEF Signature
        <4> HIDE DEF signature
        <4>4. latest = [frame |-> latest.frame, signature |-> latest.signature]
          BY <1>1 DEF IInv, Timed, Shown
        <4>5. latest'.signature = signature
          BY <4>2, <4>4
        <4> QED
          BY <2>3, <3>2, <4>1, <4>3, <4>5
      <3> QED
        BY <1>5, <2>2, <2>3, <3>2, <3>3, <3>4
    <2>8. Entitled'
      BY <1>1, <2>7 DEF Entitled, Apart
    <2> QED
      BY <2>5, <2>6, <2>8
  <1> QED
    BY <1>4, <1>5

LEMMA SnapshotEntitled ==
  ASSUME EInv, Turn, SomeSnapshot
  PROVE  Published' /\ Unreserved' /\ Entitled'
  <1>1. PICK g : Publishes(g)
    BY SnapshotPublishes DEF EInv
  <1> DEFINE signature == Signature(g, reg', BodyOnPending)
             disabled  == ~drv.enabled /\ reg'.lease = None
             scheduled == [stage |-> "scheduled", step |-> None, frame |-> g]
             revoked   == task = None \/ latest = None \/ latest.signature # signature
  <1>2. /\ auth' = IF revoked THEN BeginAuthorityEpoch(auth, g.epoch) ELSE auth
        /\ drv' = IF disabled THEN Processed(drv, g) ELSE drv
        /\ task' = IF task = None /\ ~disabled THEN scheduled ELSE task
        /\ latest' = [frame |-> g, signature |-> IF task' = None THEN None ELSE signature]
    BY <1>1 DEF Publishes, Observe1
  <1>3. signature[4] = g.candidate
    BY DEF Signature
  <1> HIDE DEF signature, disabled
  <1>4. /\ g \in Frame /\ g.epoch \in Epochs /\ g.epoch # auth.epoch /\ reg'.epoch = g.epoch
        /\ (reg'.reserved = g.epoch <=> g.candidate) /\ reg'.owner = reg.owner
        /\ ("thermal" \notin disturbances => reg'.reserved = None)
    BY <1>1 DEF Publishes, SameHold, Frame
  <1>5. disturbances' = disturbances /\ IInv
    BY DEF SomeSnapshot, Snapshot, EInv
  <1>6. latest'.frame = g
    BY <1>2
  <1>7. drv'.unloaded = drv.unloaded /\ drv'.reenable = drv.reenable
    BY <1>2, <1>5 DEF Processed, IInv, Typed, Driver
  <1>8. Unreserved'
    BY <1>4, <1>5 DEF Unreserved
  <1>9. Published'
    <2>1. task'.stage = "scheduled" /\ task' # None /\ "lazy" \notin disturbances => task'.frame = g
      BY <1>2 DEF Turn, Staged
    <2> QED
      BY <1>4, <1>5, <1>6, <2>1 DEF Published
  <1>10. Entitled'
    <2> SUFFICES ASSUME Staged("queued")', auth'.context # None
                 PROVE  /\ ~drv'.unloaded /\ ~drv'.reenable
                        /\ Apart => /\ reg'.owner \in FiltrationFree
                                    /\ reg'.reserved # latest'.frame.epoch
                                    /\ "thermal" \in disturbances => ~latest'.signature[4]
      BY <1>5 DEF Entitled, Apart
    <2>1. task' = task /\ Staged("queued") /\ task # None
      BY <1>2 DEF Staged
    <2>2. ~revoked /\ auth' = auth
      BY <1>2, <1>4, <1>5 DEF BeginAuthorityEpoch, IInv, Typed, Authority
    <2>3. latest'.signature = signature /\ latest.signature = signature
      BY <1>2, <2>1, <2>2
    <2>4. /\ ~drv.unloaded /\ ~drv.reenable
          /\ Apart => /\ reg.owner \in FiltrationFree
                      /\ "thermal" \in disturbances => ~latest.signature[4]
      BY <2>1, <2>2 DEF EInv, Entitled
    <2>5. Apart /\ "thermal" \in disturbances => ~latest'.signature[4] /\ ~g.candidate
      BY <1>3, <2>3, <2>4
    <2>6. Apart => reg'.reserved # latest'.frame.epoch
      BY <1>4, <1>6, <2>5, NoneAssumption
    <2> QED
      BY <1>4, <1>5, <1>7, <2>4, <2>5, <2>6
  <1> QED
    BY <1>8, <1>9, <1>10

\* A task that goes on without queueing anything.
LEMMA ResumesEntitled ==
  ASSUME EInv, Staged("queued") \/ Staged("sent"),
         NEW o \in {"not_dispatched", "failed", "accepted"}, Resumes(o)
  PROVE  Published' /\ Unreserved' /\ Entitled'
  <1>1. IInv /\ task # None /\ disturbances' = disturbances
    BY DEF EInv, Staged, Resumes
  <1>2. PICK x : Follows(x) /\ Reports(reg, drv, task.frame, o, x)
    BY <1>1, ResumesFacts
  <1>3. /\ RegGood(x.reg) /\ x.next \in {"done", "raised"} /\ x.next \notin Steps
        /\ MayQueue(x, task.frame) /\ x.reg.epoch = reg.epoch /\ x.reg.reserved = reg.reserved
        /\ x.drv.unloaded = drv.unloaded
    BY <1>2 DEF Reports, Moves, SameSwitches, MayQueue, Steps
  <1>4. /\ reg' = x.reg /\ drv' = x.drv /\ task'.stage # "scheduled" /\ ~Staged("queued")'
        /\ latest'.frame = latest.frame
    BY <1>1, <1>2, <1>3, FollowsFacts DEF Staged
  <1> QED
    BY <1>1, <1>3, <1>4 DEF EInv, Published, Unreserved, Entitled, Apart

LEMMA TaskDoneEntitled ==
  ASSUME EInv, TaskDone
  PROVE  Published' /\ Unreserved' /\ Entitled'
  <1> DEFINE failed == IF task.stage = "raised" THEN FailClosed(reg, drv) ELSE Done(reg, drv)
             again  == ~failed.drv.unloaded /\ Outdated(failed.drv)
             next   == [stage |-> "scheduled", step |-> None, frame |-> latest.frame]
  <1>1. /\ IInv /\ task # None /\ reg' = failed.reg /\ drv' = failed.drv
        /\ task' = IF again THEN next ELSE None
        /\ latest' = IF again THEN latest ELSE [latest EXCEPT !.signature = None]
        /\ disturbances' = disturbances
    BY DEF TaskDone, Staged, EInv
  <1>2. /\ reg'.epoch = reg.epoch /\ reg'.reserved = reg.reserved
        /\ drv'.unloaded = drv.unloaded
    BY <1>1, FailClosedFacts DEF Moves, SameSwitches, Done, Result
  <1> HIDE DEF failed, again
  <1>3. ~Staged("queued")'
    BY <1>1 DEF Staged
  <1>4. task' # None => task'.frame = latest.frame /\ latest' = latest
    BY <1>1
  <1> QED
    BY <1>1, <1>2, <1>3, <1>4 DEF EInv, Published, Unreserved, Entitled, Apart

LEMMA GatewaySendsEntitled ==
  ASSUME EInv, GatewaySends
  PROVE  Published' /\ Unreserved' /\ Entitled'
  <1>1. /\ task # None /\ task' = [task EXCEPT !.stage = "sent"] /\ task \in Task
        /\ UNCHANGED <<disturbances, reg, drv, auth, latest>>
    BY DEF GatewaySends, Staged, EInv, IInv, Typed
  <1>2. task'.stage = "sent" /\ ~Staged("queued")'
    BY <1>1 DEF Task, Staged
  <1> QED
    BY <1>1, <1>2 DEF EInv, Published, Unreserved, Entitled, Apart

LEMMA ThermalActsEntitled ==
  ASSUME EInv, ThermalActs
  PROVE  Published' /\ Unreserved' /\ Entitled'
  <1>1. /\ "thermal" \in disturbances /\ ~drv.unloaded /\ ThermalMoves(reg, reg')
        /\ UNCHANGED <<disturbances, drv, auth, task, latest>>
    BY ThermalActsMoves DEF ThermalActs, EInv
  <1>2. ASSUME Apart, Staged("queued"), auth.context # None
        PROVE  reg' = reg
    <2>1. reg.owner \in FiltrationFree /\ reg.reserved # latest.frame.epoch
      BY <1>2 DEF EInv, Entitled
    <2>2. reg.epoch = latest.frame.epoch
      BY <1>1, <1>2 DEF EInv, Published, Apart, Staged
    <2> QED
      BY <1>1, <2>1, <2>2 DEF ThermalMoves
  <1> QED
    BY <1>1, <1>2, AsideEntitled DEF ThermalMoves

LEMMA WithdrawnContext ==
  ASSUME IInv
  PROVE  BeginAuthorityEpoch(auth, FreshEpoch).context = None
  BY FreshNames DEF EpochsInUse, BeginAuthorityEpoch, IInv, Typed, Authority

LEMMA BesideEntitled ==
  ASSUME EInv, \/ \E on \in BOOLEAN : Switch(on)
               \/ OperatorSetsPump \/ OperatorStopsPool \/ OperatorLiftsRestraint
               \/ PlantChanges \/ OrchestrationFails \/ SanitationBoundary \/ Unload
  PROVE  Published' /\ Unreserved' /\ Entitled'
  <1>1. IInv
    BY DEF EInv
  <1>2. CASE \E on \in BOOLEAN : Switch(on)
    <2>1. PICK on \in BOOLEAN : Switch(on)
      BY <1>2
    <2>2. drv \in Driver /\ auth \in Authority
      BY <1>1, KeepsNow
    <2> DEFINE reenable == drv.reenable /\ ~(on /\ ~drv.enabled)
    <2>3. drv'.reenable = reenable /\ drv'.unloaded = drv.unloaded
      BY <2>1, <2>2 DEF Switch, SetEnabled, Driver
    <2>4. reenable => drv.reenable
      OBVIOUS
    <2> HIDE DEF reenable
    <2>5. auth'.context # None => auth.context # None
      BY <2>1, <2>2 DEF Switch, ConfigureGate, Invalidated, Authority
    <2> QED
      BY <2>1, <2>3, <2>4, <2>5, AsideEntitled DEF Switch
  <1>3. ASSUME NEW d \in Domains, reg' = Told(d),
               UNCHANGED <<disturbances, drv, auth, task, latest>>
        PROVE  Published' /\ Unreserved' /\ Entitled'
    <2>1. Moves(reg, reg', now) /\ SameHold(reg, reg')
      BY <1>1, <1>3, KeepsNow, ToldMoves
    <2> QED
      BY <1>3, <2>1, AsideEntitled DEF Moves, SameHold
  <1>4. CASE OperatorSetsPump
    BY <1>3, <1>4 DEF OperatorSetsPump, Domains
  <1>5. CASE OperatorStopsPool
    BY <1>3, <1>5 DEF OperatorStopsPool, Domains
  <1>6. CASE OperatorLiftsRestraint \/ PlantChanges
    BY <1>6, AsideEntitled DEF OperatorLiftsRestraint, PlantChanges
  <1>7. CASE OrchestrationFails
    <2>1. /\ auth'.context = None /\ reg' = FailClosed(reg, drv).reg
          /\ drv' = FailClosed(reg, drv).drv /\ UNCHANGED <<disturbances, task, latest>>
      BY <1>1, <1>7, WithdrawnContext DEF OrchestrationFails
    <2>2. /\ reg'.epoch = reg.epoch /\ reg'.reserved = reg.reserved
          /\ drv'.unloaded = drv.unloaded
      BY <1>1, <2>1, FailClosedFacts DEF Moves, SameSwitches
    <2> QED
      BY <2>1, <2>2, AsideEntitled
  <1>8. CASE SanitationBoundary
    <2>1. /\ reg.lease # None /\ reg' = Released(reg) /\ UNCHANGED <<disturbances, drv, task, latest>>
          /\ auth' = auth \/ auth'.context = None
      BY <1>1, <1>8, WithdrawnContext DEF SanitationBoundary
    <2>2. Moves(reg, reg', now) /\ reg \in Registry
      BY <1>1, <2>1, KeepsNow, ReleasedMoves
    <2>3. reg'.owner = "NONE"
      BY <2>1, <2>2 DEF Released, ReleaseFiltration, HoldsLease, Registry
    <2> QED
      BY <2>1, <2>2, <2>3, AsideEntitled DEF Moves, FiltrationFree
  <1>9. CASE Unload
    <2>1. /\ auth'.context = None /\ drv'.unloaded /\ reg'.reserved = None
          /\ UNCHANGED <<disturbances, task, latest>>
      BY <1>1, <1>9, KeepsNow
      DEF Unload, RegistryUnloads, UnloadAuthority, Invalidated, Authority, UnloadDriver,
          Cleared, Driver, UnloadRegistry, EmptyRegistry
    <2> QED
      BY <2>1, AsideEntitled
  <1> QED
    BY <1>2, <1>4, <1>5, <1>6, <1>7, <1>8, <1>9

LEMMA EntitledStep ==
  ASSUME EInv, [Next]_vars
  PROVE  EInv'
  <1> SUFFICES Published' /\ Unreserved' /\ Entitled'
    BY StepGood DEF EInv
  <1>2. CASE TaskStarts
    BY <1>2, TaskStartsEntitled
  <1>3. CASE GatewaySends
    BY <1>3, GatewaySendsEntitled
  <1>4. CASE GatewayRefuses
    BY <1>4, ResumesEntitled DEF GatewayRefuses
  <1>5. CASE Reply
    <2>1. PICK o \in {"accepted"} \cup Among("lost", {"failed"}, "accepted") : Resumes(o)
      BY <1>5 DEF Reply
    <2>2. o \in {"not_dispatched", "failed", "accepted"}
      BY DEF Among
    <2> QED
      BY <1>5, <2>1, <2>2, ResumesEntitled DEF Reply
  <1>6. CASE TaskDone
    BY <1>6, TaskDoneEntitled
  <1>7. CASE ThermalActs
    BY <1>7, ThermalActsEntitled
  <1>8. CASE Turn /\ SomeSnapshot
    BY <1>8, SnapshotEntitled
  <1>9. CASE \/ \E on \in BOOLEAN : Switch(on)
             \/ OperatorSetsPump \/ OperatorStopsPool \/ OperatorLiftsRestraint
             \/ PlantChanges \/ OrchestrationFails \/ SanitationBoundary \/ Unload
    BY <1>9, BesideEntitled
  <1>10. CASE UNCHANGED vars
    BY <1>10 DEF vars, EInv, Published, Unreserved, Entitled, Apart, Staged
  <1> QED
    BY <1>2, <1>3, <1>4, <1>5, <1>6, <1>7, <1>8, <1>9, <1>10 DEF Next, TaskSteps

LEMMA InitEntitled ==
  ASSUME Init
  PROVE  EInv
  <1>1. IInv
    BY InitGood
  <1>2. task = None /\ reg.reserved = None
    BY DEF Init, EmptyRegistry
  <1> QED
    BY <1>1, <1>2 DEF EInv, Published, Unreserved, Entitled, Staged

(***************************************************************************)
(* A command that was queued while filtration was entitled to it is sent   *)
(* only if filtration is entitled still: whatever happens at once, no      *)
(* fault awaits the operator; and where a task starts in the turn that     *)
(* scheduled it, thermal neither owns the circulation nor reserved the     *)
(* published snapshot.  Started later, process_epoch begins its older      *)
(* epoch again and so clears thermal's reservation (begin_epoch,           *)
(* pool_circulation_ownership).                                            *)
(***************************************************************************)
THEOREM DispatchStaysEntitled == Spec => DispatchIsEntitled
  <1> DEFINE IsEntitled ==
               /\ ~drv.reenable
               /\ "lazy" \notin disturbances
                    => /\ reg.owner \in {"NONE", "FILTRATION_ACQUIRING", "FILTRATION"}
                       /\ ~ThermalReservedFor(reg, latest.frame.epoch)
  <1>1. Init => EInv
    BY InitEntitled
  <1>2. EInv /\ [Next]_vars => EInv'
    BY EntitledStep
  <1>3. ASSUME EInv, [Next]_vars, Dispatches
        PROVE  IsEntitled
    <2>1. GatewaySends
      BY <1>3, DispatchSends DEF EInv
    <2>2. Staged("queued") /\ auth.context # None
      BY <2>1 DEF GatewaySends, MayDispatch
    <2> QED
      BY <1>3, <2>2 DEF EInv, Entitled, Apart, FiltrationFree, ThermalReservedFor
  <1>4. EInv /\ [Next]_vars => [Dispatches => IsEntitled]_vars
    BY <1>3
  <1> QED
    BY <1>1, <1>2, <1>4, PTL DEF Spec, DispatchIsEntitled

=============================================================================
