---------------------- MODULE DomainReconciliationProofs ----------------------
(***************************************************************************)
(* Theorems of DomainReconciliation, for every set of bindings and of      *)
(* request identities, every budget, window and bound of the clock.        *)
(***************************************************************************)
EXTENDS DomainReconciliation, FiniteSetTheorems, TLAPS

(***************************************************************************)
(* The type is not enough for the refinement: a domain that is owned by    *)
(* nobody would be charged for corrections the promise knows nothing of,   *)
(* and a count of corrections says nothing of an infinite set of them.     *)
(***************************************************************************)
Charged == dom.episode # None => IsFiniteSet(dom.episode.corrections)

Held == dom.authority \in {"POOLOS", "OPERATOR"}

IInv == TypeOK /\ Held /\ Charged

-----------------------------------------------------------------------------
LEMMA YieldedType ==
  ASSUME NEW d \in DomainState, NEW t \in Nat
  PROVE  /\ Yielded(d, t) \in DomainState
         /\ Yielded(d, t).episode = d.episode /\ Yielded(d, t).authority = "OPERATOR"
  BY DEF Yielded, DomainState, Authorities, Blockers, OptTime

LEMMA FaultedType ==
  ASSUME NEW d \in DomainState
  PROVE  /\ Faulted(d) \in DomainState
         /\ Faulted(d).episode = d.episode /\ Faulted(d).authority = d.authority
         /\ Faulted(d).health = "FAULTED"
  BY DEF Faulted, DomainState, Healths, Blockers

LEMMA NewEpisodeType ==
  ASSUME NEW b \in Bindings, NEW at \in Nat
  PROVE  /\ NewEpisode(b, at) \in Episode
         /\ NewEpisode(b, at) # None
         /\ NewEpisode(b, at).verified_at = None
         /\ NewEpisode(b, at).corrections = {}
  BY EvidenceAssumption, NoEpisodeAssumption DEF NewEpisode, Episode, OptTime

\* Reserving keeps the type; a new identity costs one, a retry nothing.
LEMMA ReserveCharges ==
  ASSUME NEW e \in Episode, NEW id \in Requests, NEW at \in Nat, MayReserve(e, id, at),
         IsFiniteSet(e.corrections), Cardinality(e.corrections) <= Budget
  PROVE  /\ Reserve(e, id) \in Episode
         /\ Reserve(e, id).verified_at = e.verified_at
         /\ IsFiniteSet(Reserve(e, id).corrections)
         /\ IF id \in e.corrections
            THEN Reserve(e, id).corrections = e.corrections
            ELSE /\ Cardinality(e.corrections) < Budget
                 /\ Cardinality(Reserve(e, id).corrections) = Cardinality(e.corrections) + 1
  <1>1. /\ Reserve(e, id) \in Episode
        /\ Reserve(e, id).verified_at = e.verified_at
        /\ Reserve(e, id).corrections = e.corrections \cup {id}
    BY DEF Reserve, Episode
  <1>2. /\ IsFiniteSet(e.corrections \cup {id})
        /\ Cardinality(e.corrections \cup {id})
             = IF id \in e.corrections THEN Cardinality(e.corrections)
               ELSE Cardinality(e.corrections) + 1
    BY FS_AddElement
  <1> QED
    BY <1>1, <1>2 DEF MayReserve

-----------------------------------------------------------------------------
(***************************************************************************)
(* What one frame does to a domain PoolOS holds: nothing to its episode,   *)
(* or it faults the domain, opens an episode where none was open, or       *)
(* verifies one by a sample later than its start and before its deadline.  *)
(***************************************************************************)
SameEpisode(d, e) == e.episode = d.episode /\ e.authority = d.authority

Unjudged(d, e) == SameEpisode(d, e) /\ (e.health = "FAULTED" <=> d.health = "FAULTED")

FaultedBy(d, e) == SameEpisode(d, e) /\ e.health = "FAULTED" /\ d.health # "FAULTED"

OpenedBy(d, e, s) ==
  /\ ~OpenEpisode(d) /\ d.health # "FAULTED" /\ e.health # "FAULTED"
  /\ e.authority = d.authority /\ e.episode = NewEpisode(s.binding, s.at)

VerifiedBy(d, e, s) ==
  /\ d.health # "FAULTED" /\ e.health = "STABLE" /\ e.authority = d.authority
  /\ d.episode # None /\ e.episode = [d.episode EXCEPT !.verified_at = s.seen]
  /\ s.seen \in Nat /\ s.seen > d.episode.started_at /\ s.seen <= s.at
  /\ OpenEpisode(d) => s.at < d.episode.deadline

LEMMA ObserveCases ==
  ASSUME NEW d \in DomainState, NEW s \in Samples, now \in Times
  PROVE  /\ Observe(d, s) \in DomainState
         /\ \/ Unjudged(d, Observe(d, s))
            \/ d.authority = "POOLOS" /\ \/ FaultedBy(d, Observe(d, s))
                                         \/ OpenedBy(d, Observe(d, s), s)
                                         \/ VerifiedBy(d, Observe(d, s), s)
  <1> DEFINE o == [d EXCEPT !.observed_at = s.seen]
             usable == s.usable /\ s.seen # None /\ s.seen <= s.at
  <1>1. /\ s.at \in Nat /\ s.seen \in OptTime /\ s.binding \in Bindings /\ s.operator = None
        /\ s.usable \in BOOLEAN /\ s.matches \in BOOLEAN /\ s.expected \in BOOLEAN
        /\ o \in DomainState
    BY MaxTimeAssumption DEF Samples, Times, OptTime, DomainState
  <1>2. CASE \/ d.authority # "POOLOS"
             \/ d.authority = "POOLOS" /\ d.episode # None /\ d.episode.binding # s.binding
             \/ d.authority = "POOLOS" /\ d.health = "FAULTED"
    BY <1>1, <1>2 DEF Observe, DomainState, Blockers, Unjudged, SameEpisode
  <1> SUFFICES ASSUME d.authority = "POOLOS", d.health # "FAULTED",
                      ~(d.episode # None /\ d.episode.binding # s.binding)
               PROVE  /\ Observe(d, s) \in DomainState
                      /\ \/ Unjudged(d, Observe(d, s))
                         \/ FaultedBy(d, Observe(d, s))
                         \/ OpenedBy(d, Observe(d, s), s)
                         \/ VerifiedBy(d, Observe(d, s), s)
    BY <1>2
  <1>3. CASE DeadlinePassed(o, s)
    BY <1>1, <1>3 DEF Observe, DomainState, Healths, Blockers, FaultedBy, SameEpisode
  <1>4. CASE ~DeadlinePassed(o, s) /\ Regressive(d, s)
    BY <1>1, <1>4 DEF Observe, DomainState, Blockers, Unjudged, SameEpisode
  <1>5. CASE ~DeadlinePassed(o, s) /\ ~Regressive(d, s) /\ Verifies(o, s, usable)
    <2>1. Observe(d, s) = Converged(o, s)
      BY <1>1, <1>5 DEF Observe
    <2>2. s.seen \in Nat
      BY <1>1, <1>5 DEF Verifies, OptTime
    <2>3. CASE d.episode = None
      BY <1>1, <2>1, <2>3 DEF Converged, DomainState, Healths, Blockers, Unjudged, SameEpisode
    <2>4. CASE d.episode # None
      <3>1. Converged(o, s) \in DomainState
        BY <1>1, <2>4 DEF Converged, DomainState, Healths, Blockers, Episode
      <3>2. VerifiedBy(d, Converged(o, s), s)
        BY <1>1, <1>5, <2>2, <2>4
        DEF Converged, DomainState, Episode, VerifiedBy, Verifies, DeadlinePassed, OpenEpisode
      <3> QED
        BY <2>1, <3>1, <3>2
    <2> QED
      BY <2>3, <2>4
  <1>6. CASE /\ ~DeadlinePassed(o, s) /\ ~Regressive(d, s) /\ ~Verifies(o, s, usable)
             /\ AlreadyVerified(o, s)
    BY <1>1, <1>6 DEF Observe, DomainState, Unjudged, SameEpisode
  <1>7. CASE /\ ~DeadlinePassed(o, s) /\ ~Regressive(d, s) /\ ~Verifies(o, s, usable)
             /\ ~AlreadyVerified(o, s)
    <2>1. Observe(d, s) = Drifted(o, s, usable)
      BY <1>1, <1>7 DEF Observe
    <2>2. CASE OpenEpisode(d)
      BY <1>1, <2>1, <2>2
      DEF Drifted, OpenEpisode, DomainState, Healths, Blockers, Unjudged, SameEpisode
    <2>3. CASE ~OpenEpisode(d)
      <3>1. NewEpisode(s.binding, s.at) \in Episode
        BY <1>1, NewEpisodeType
      <3>2. PICK h \in {"CONVERGING", "RECONCILING"},
                 b \in {"reconciliation_pending", "evidence_unusable"} :
              Drifted(o, s, usable) = [o EXCEPT !.episode = NewEpisode(s.binding, s.at),
                                                !.health = h, !.blocker = b]
        BY <1>1, <2>3 DEF Drifted, OpenEpisode, DomainState
      <3>3. /\ Observe(d, s) \in DomainState
            /\ Observe(d, s).health = h
            /\ Observe(d, s).authority = d.authority
            /\ Observe(d, s).episode = NewEpisode(s.binding, s.at)
        <4>1. o.authority = d.authority
          BY <1>1 DEF DomainState
        <4> HIDE DEF o, usable
        <4>2. o \in DomainState
          BY <1>1
        <4>3. Observe(d, s) = [o EXCEPT !.episode = NewEpisode(s.binding, s.at),
                                        !.health = h, !.blocker = b]
          BY <2>1, <3>2
        <4> QED
          BY <3>1, <4>1, <4>2, <4>3 DEF DomainState, Healths, Blockers
      <3> QED
        BY <2>3, <3>3 DEF OpenedBy
    <2> QED
      BY <2>2, <2>3
  <1> QED
    BY <1>3, <1>4, <1>5, <1>6, <1>7

-----------------------------------------------------------------------------
LEMMA InitInv == Init => IInv
  <1>1. /\ OwnedDomain \in DomainState
        /\ OwnedDomain.authority = "POOLOS"
        /\ OwnedDomain.episode = None
    BY DEF OwnedDomain, UnownedDomain, DomainState, Authorities, Healths, Blockers, OptTime
  <1> QED
    BY <1>1, MaxTimeAssumption DEF Init, IInv, TypeOK, WithinBounds, Held, Charged, Times

\* Each step keeps the invariant; the cases of a frame and of a command are told apart
\* for the properties that follow.
LEMMA ObserveInv ==
  ASSUME IInv, NEW s \in Samples, ObserveFrame(s)
  PROVE  IInv'
  <1>1. /\ dom \in DomainState /\ now \in Times /\ dom' = Observe(dom, s) /\ now' = now
        /\ dom' \in DomainState
    BY ObserveCases DEF IInv, TypeOK, ObserveFrame
  <1>2. CASE Unjudged(dom, dom') \/ FaultedBy(dom, dom')
    BY <1>1, <1>2 DEF IInv, TypeOK, WithinBounds, Held, Charged, Unjudged, FaultedBy, SameEpisode
  <1>3. CASE OpenedBy(dom, dom', s)
    <2>1. s.binding \in Bindings /\ s.at = now /\ now \in Nat
      BY <1>1 DEF Samples, Times
    <2>2. /\ dom'.episode.corrections = {} /\ dom'.episode.verified_at = None
          /\ dom'.episode.started_at = now /\ dom'.episode.deadline = now + Window
      BY <1>3, <2>1, NewEpisodeType DEF OpenedBy, NewEpisode
    <2>3. IsFiniteSet({}) /\ Cardinality({}) <= Budget
      BY FS_EmptySet, EvidenceAssumption
    <2> QED
      BY <1>1, <1>3, <2>1, <2>2, <2>3 DEF IInv, TypeOK, WithinBounds, Held, Charged, OpenedBy
  <1>4. CASE VerifiedBy(dom, dom', s)
    <2>1. /\ dom'.episode.corrections = dom.episode.corrections
          /\ dom'.episode.started_at = dom.episode.started_at
          /\ dom'.episode.deadline = dom.episode.deadline
          /\ dom'.episode.verified_at = s.seen /\ s.at = now
      BY <1>1, <1>4 DEF VerifiedBy, DomainState, Episode, Samples
    <2> QED
      BY <1>1, <1>4, <2>1 DEF IInv, TypeOK, WithinBounds, Held, Charged, VerifiedBy
  <1> QED
    BY <1>1, <1>2, <1>3, <1>4, ObserveCases

LEMMA DeliverInv ==
  ASSUME IInv, NEW id \in Requests, Deliver(id)
  PROVE  IInv'
  <1>1. /\ dom \in DomainState /\ now \in Times /\ dom' = Corrected(dom, id, now) /\ now' = now
    BY DEF IInv, TypeOK, Deliver
  <1>2. CASE ~OpenEpisode(dom)
    BY <1>1, <1>2 DEF Corrected, IInv, TypeOK, WithinBounds, Held, Charged
  <1>3. CASE OpenEpisode(dom) /\ MayReserve(dom.episode, id, now)
    <2>1. dom.episode \in Episode /\ now \in Nat
      BY <1>1, <1>3 DEF OpenEpisode, DomainState, Times
    <2>2. dom' = [dom EXCEPT !.episode = Reserve(dom.episode, id)]
      BY <1>1, <1>3 DEF Corrected
    <2>3. /\ IsFiniteSet(dom.episode.corrections) /\ Cardinality(dom.episode.corrections) <= Budget
      BY <1>3 DEF OpenEpisode, IInv, TypeOK, WithinBounds, Charged
    <2>4. /\ Reserve(dom.episode, id) \in Episode
          /\ IsFiniteSet(Reserve(dom.episode, id).corrections)
          /\ Cardinality(Reserve(dom.episode, id).corrections) <= Budget
          /\ Reserve(dom.episode, id).started_at = dom.episode.started_at
          /\ Reserve(dom.episode, id).deadline = dom.episode.deadline
          /\ Reserve(dom.episode, id).verified_at = dom.episode.verified_at
      <3>1. Cardinality(dom.episode.corrections) \in Nat /\ Budget \in Nat
        BY <2>3, FS_CardinalityType, EvidenceAssumption
      <3>2. /\ Reserve(dom.episode, id).started_at = dom.episode.started_at
            /\ Reserve(dom.episode, id).deadline = dom.episode.deadline
        BY <2>1 DEF Reserve, Episode
      <3> QED
        BY <1>3, <2>1, <2>3, <3>1, <3>2, ReserveCharges
    <2>5. /\ dom' \in DomainState /\ dom'.authority = dom.authority
          /\ dom'.episode = Reserve(dom.episode, id) /\ dom.episode # None
      BY <1>1, <1>3, <2>2, <2>4 DEF DomainState, OpenEpisode
    <2> QED
      BY <1>1, <2>4, <2>5 DEF IInv, TypeOK, WithinBounds, Held, Charged
  <1>4. CASE OpenEpisode(dom) /\ ~MayReserve(dom.episode, id, now)
    BY <1>1, <1>4 DEF Corrected, IInv, TypeOK, WithinBounds, Held, Charged, DomainState, Healths, Blockers
  <1> QED
    BY <1>2, <1>3, <1>4

LEMMA IInvStep == IInv /\ [Next]_vars => IInv'
  <1> SUFFICES ASSUME IInv, [Next]_vars
               PROVE  IInv'
    OBVIOUS
  <1>1. CASE Tick
    <2>1. dom' = dom /\ now \in Nat /\ now' \in Times /\ now' = now + 1
      BY <1>1, MaxTimeAssumption DEF Tick, IInv, TypeOK, Times
    <2>2. dom.episode # None =>
            dom.episode.started_at \in Nat /\ dom.episode.verified_at \in Nat \cup {None}
      BY DEF IInv, TypeOK, DomainState, Episode, OptTime
    <2> QED
      BY <2>1, <2>2 DEF IInv, TypeOK, WithinBounds, Held, Charged
  <1>2. CASE ObserveSome
    BY <1>2, ObserveInv DEF ObserveSome
  <1>3. CASE OperatorIntent
    <2>1. dom \in DomainState /\ now \in Nat /\ dom' = Yielded(dom, now) /\ now' = now
      BY <1>3, MaxTimeAssumption DEF OperatorIntent, IInv, TypeOK, Times
    <2>2. dom' \in DomainState /\ dom'.episode = dom.episode /\ dom'.authority = "OPERATOR"
      BY <2>1, YieldedType
    <2> QED
      BY <2>1, <2>2 DEF IInv, TypeOK, WithinBounds, Held, Charged
  <1>4. ASSUME NEW id \in Requests, Deliver(id)
        PROVE  IInv'
    BY <1>4, DeliverInv
  <1>5. CASE CommandFails
    <2>1. dom \in DomainState /\ dom' = Faulted(dom) /\ now' = now
      BY <1>5 DEF CommandFails, IInv, TypeOK
    <2>2. dom' \in DomainState /\ dom'.episode = dom.episode /\ dom'.authority = dom.authority
      BY <2>1, FaultedType
    <2> QED
      BY <2>1, <2>2 DEF IInv, TypeOK, WithinBounds, Held, Charged
  <1>6. CASE UNCHANGED vars
    BY <1>6 DEF vars, IInv, TypeOK, WithinBounds, Held, Charged
  <1> QED
    BY <1>1, <1>2, <1>3, <1>4, <1>5, <1>6 DEF Next

LEMMA Invariance == Spec => []IInv
  BY InitInv, IInvStep, PTL DEF Spec

(***************************************************************************)
(* The state of a domain keeps its type through every frame, correction,   *)
(* failure and intent, and its episode the budget of corrections, the      *)
(* window and the order of its times (ReconciliationEpisode).              *)
(***************************************************************************)
THEOREM DomainTypeCorrect == Spec => []TypeOK
  <1>1. IInv => TypeOK
    BY DEF IInv
  <1> QED
    BY <1>1, Invariance, PTL

(***************************************************************************)
(* An open drift is closed by a sample later than its start and before its *)
(* deadline, and by nothing else (DomainOwnershipState.observe).           *)
(***************************************************************************)
THEOREM DriftsCloseCausally == Spec => ConvergenceIsCausal
  <1> DEFINE A == OpenEpisode(dom) /\ ~OpenEpisode(dom') =>
                    /\ dom'.episode # None
                    /\ dom'.episode.verified_at > dom.episode.started_at
                    /\ now < dom.episode.deadline
  <1>1. IInv /\ [Next]_vars => [A]_vars
    <2> SUFFICES ASSUME IInv, [Next]_vars, OpenEpisode(dom), ~OpenEpisode(dom')
                 PROVE  /\ dom'.episode # None
                        /\ dom'.episode.verified_at > dom.episode.started_at
                        /\ now < dom.episode.deadline
      OBVIOUS
    <2>1. dom \in DomainState /\ dom.episode \in Episode /\ now \in Times
      BY DEF IInv, TypeOK, OpenEpisode, DomainState
    <2>2. PICK s \in Samples : ObserveFrame(s)
      <3>1. ~(Tick \/ OperatorIntent \/ CommandFails \/ UNCHANGED vars)
        BY <2>1, YieldedType, FaultedType, MaxTimeAssumption
        DEF Tick, OperatorIntent, CommandFails, vars, OpenEpisode, Times
      <3>2. ASSUME NEW id \in Requests, Deliver(id)
            PROVE  FALSE
        <4>1. dom' = Corrected(dom, id, now)
          BY <3>2 DEF Deliver
        <4>2. CASE MayReserve(dom.episode, id, now)
          <5>1. dom'.episode = Reserve(dom.episode, id)
            BY <2>1, <4>1, <4>2 DEF Corrected, DomainState
          <5>2. /\ Reserve(dom.episode, id) \in Episode
                /\ Reserve(dom.episode, id).verified_at = dom.episode.verified_at
            BY <2>1 DEF Reserve, Episode
          <5> QED
            BY <5>1, <5>2, NoEpisodeAssumption DEF OpenEpisode
        <4>3. CASE ~MayReserve(dom.episode, id, now)
          BY <2>1, <4>1, <4>3 DEF Corrected, OpenEpisode, DomainState
        <4> QED
          BY <4>2, <4>3
      <3> QED
        BY <3>1, <3>2 DEF Next, ObserveSome
    <2>3. dom' = Observe(dom, s) /\ s.at = now
      BY <2>2 DEF ObserveFrame, Samples
    <2>4. VerifiedBy(dom, dom', s)
      BY <2>1, <2>3, ObserveCases
      DEF Unjudged, FaultedBy, OpenedBy, SameEpisode, OpenEpisode
    <2> QED
      <3>1. /\ dom'.episode \in Episode /\ dom'.episode.verified_at = s.seen
        BY <2>1, <2>4 DEF VerifiedBy, Episode, OptTime
      <3> QED
        BY <2>3, <2>4, <3>1, NoEpisodeAssumption DEF VerifiedBy
  <1> QED
    BY <1>1, Invariance, PTL DEF Spec, ConvergenceIsCausal

-----------------------------------------------------------------------------
(***************************************************************************)
(* Refinement.  A step that leaves episode, authority and fault as they    *)
(* are is a stutter of the promise; each other kind is one of its actions. *)
(***************************************************************************)
LEMMA SameIsStutter ==
  ASSUME Unjudged(dom, dom')
  PROVE  UNCHANGED Promise!vars
  BY DEF Unjudged, SameEpisode, Promise!vars, Phase, Spent, OpenEpisode

LEMMA ObservePromised ==
  ASSUME IInv, NEW s \in Samples, ObserveFrame(s)
  PROVE  [Promise!Next]_(Promise!vars)
  <1>1. /\ dom \in DomainState /\ now \in Times /\ dom' = Observe(dom, s)
    BY DEF IInv, TypeOK, ObserveFrame
  <1>2. CASE Unjudged(dom, dom')
    BY <1>2, SameIsStutter
  <1>3. CASE dom.authority = "POOLOS" /\ FaultedBy(dom, dom')
    <2>1. Promise!Fault
      BY <1>3 DEF FaultedBy, SameEpisode, Promise!Fault, Phase, Spent, OpenEpisode
    <2> QED
      BY <2>1 DEF Promise!Next
  <1>4. CASE dom.authority = "POOLOS" /\ OpenedBy(dom, dom', s)
    <2>1. s.binding \in Bindings /\ s.at \in Nat
      BY <1>1, MaxTimeAssumption DEF Samples, Times
    <2>2. dom'.episode # None /\ dom'.episode.verified_at = None /\ dom'.episode.corrections = {}
      BY <1>4, <2>1, NewEpisodeType DEF OpenedBy
    <2>3. Promise!OpenDrift
      BY <1>4, <2>2, FS_EmptySet DEF OpenedBy, Promise!OpenDrift, Phase, Spent, OpenEpisode
    <2> QED
      BY <2>3 DEF Promise!Next
  <1>5. CASE dom.authority = "POOLOS" /\ VerifiedBy(dom, dom', s)
    <2>1. /\ dom.episode # None /\ dom.episode \in Episode
          /\ s.seen \in Nat /\ s.seen # None
      BY <1>1, <1>5, EvidenceAssumption DEF VerifiedBy, DomainState
    <2>2. /\ dom'.episode \in Episode /\ dom'.episode.verified_at = s.seen
          /\ dom'.episode.corrections = dom.episode.corrections
      BY <1>5, <2>1 DEF VerifiedBy, Episode, OptTime
    <2>3. dom'.episode # None /\ dom'.health # "FAULTED" /\ ~OpenEpisode(dom')
      BY <1>5, <2>1, <2>2, NoEpisodeAssumption DEF VerifiedBy, OpenEpisode
    <2>4. Phase' = "settled" /\ Phase \in {"open", "settled"} /\ Spent' = Spent
      BY <1>5, <2>1, <2>2, <2>3 DEF VerifiedBy, Phase, Spent
    <2> QED
      BY <2>4 DEF Promise!Next, Promise!Settle, Promise!vars
  <1> QED
    BY <1>1, <1>2, <1>3, <1>4, <1>5, ObserveCases

LEMMA DeliverPromised ==
  ASSUME IInv, NEW id \in Requests, Deliver(id)
  PROVE  [Promise!Next]_(Promise!vars)
  <1>1. /\ dom \in DomainState /\ now \in Nat /\ dom' = Corrected(dom, id, now)
        /\ dom.authority = "POOLOS" /\ dom.health # "FAULTED"
    BY MaxTimeAssumption DEF IInv, TypeOK, Held, Deliver, PermissionDenial, Times
  <1>2. CASE ~OpenEpisode(dom)
    BY <1>1, <1>2, SameIsStutter DEF Corrected, Unjudged, SameEpisode
  <1>3. CASE OpenEpisode(dom) /\ ~MayReserve(dom.episode, id, now)
    <2>1. FaultedBy(dom, dom')
      BY <1>1, <1>3 DEF Corrected, FaultedBy, SameEpisode, DomainState
    <2>2. Promise!Fault
      BY <1>1, <2>1 DEF FaultedBy, SameEpisode, Promise!Fault, Phase, Spent, OpenEpisode
    <2> QED
      BY <2>2 DEF Promise!Next
  <1>4. CASE OpenEpisode(dom) /\ MayReserve(dom.episode, id, now)
    <2>1. dom.episode # None /\ dom.episode \in Episode
      BY <1>1, <1>4 DEF OpenEpisode, DomainState
    <2>2. /\ dom'.episode = Reserve(dom.episode, id) /\ dom'.authority = dom.authority
          /\ dom'.health = dom.health
      BY <1>1, <1>4 DEF Corrected, DomainState
    <2>3. /\ IsFiniteSet(dom.episode.corrections) /\ Cardinality(dom.episode.corrections) <= Budget
      BY <2>1 DEF IInv, TypeOK, WithinBounds, Charged
    <2>4. /\ Reserve(dom.episode, id) \in Episode
          /\ Reserve(dom.episode, id).verified_at = dom.episode.verified_at
      BY <1>1, <1>4, <2>1, <2>3, ReserveCharges
    <2>5. Phase = "open" /\ Phase' = "open"
      BY <1>1, <1>4, <2>2, <2>4, NoEpisodeAssumption DEF Phase, OpenEpisode
    <2>6. /\ Spent = Cardinality(dom.episode.corrections)
          /\ Spent' = Cardinality(Reserve(dom.episode, id).corrections)
      BY <2>1, <2>2, <2>4, NoEpisodeAssumption DEF Spent
    <2>7. CASE id \in dom.episode.corrections
      <3>1. Spent' = Spent
        BY <1>1, <1>4, <2>1, <2>3, <2>6, <2>7, ReserveCharges
      <3> QED
        BY <2>5, <3>1 DEF Promise!vars
    <2>8. CASE id \notin dom.episode.corrections
      <3>1. Spent < Budget /\ Spent' = Spent + 1
        BY <1>1, <1>4, <2>1, <2>3, <2>6, <2>8, ReserveCharges
      <3> QED
        BY <2>5, <3>1 DEF Promise!Next, Promise!Correct
    <2> QED
      BY <2>7, <2>8
  <1> QED
    BY <1>2, <1>3, <1>4

(***************************************************************************)
(* Every step of a domain is a step of what BoundedReconciliation          *)
(* promises, or none: no more corrections than the budget in one drift, no *)
(* way back from a fault but an operator, none at all from an operator.    *)
(***************************************************************************)
THEOREM PromiseIsKept == Spec => KeepsPromise
  <1>1. Init => Promise!Init
    <2>1. OwnedDomain.authority = "POOLOS" /\ OwnedDomain.health = "PENDING"
          /\ OwnedDomain.episode = None
      BY DEF OwnedDomain, UnownedDomain
    <2> QED
      BY <2>1 DEF Init, Promise!Init, Phase, Spent, OpenEpisode
  <1>2. IInv /\ [Next]_vars => [Promise!Next]_(Promise!vars)
    <2> SUFFICES ASSUME IInv, [Next]_vars
                 PROVE  [Promise!Next]_(Promise!vars)
      OBVIOUS
    <2>1. CASE Tick \/ UNCHANGED vars
      BY <2>1, SameIsStutter DEF Tick, vars, Unjudged, SameEpisode
    <2>2. CASE ObserveSome
      BY <2>2, ObservePromised DEF ObserveSome
    <2>3. CASE OperatorIntent
      <3>1. dom'.episode = dom.episode /\ dom'.authority = "OPERATOR"
        BY <2>3, YieldedType, MaxTimeAssumption DEF OperatorIntent, IInv, TypeOK, Times
      <3>2. Phase' = "yielded" /\ Spent' = Spent
        BY <3>1 DEF Phase, Spent
      <3> QED
        BY <3>2 DEF Promise!Next, Promise!Yield, Promise!vars
    <2>4. ASSUME NEW id \in Requests, Deliver(id)
          PROVE  [Promise!Next]_(Promise!vars)
      BY <2>4, DeliverPromised
    <2>5. CASE CommandFails
      <3>1. /\ dom'.episode = dom.episode /\ dom'.authority = dom.authority
            /\ dom'.health = "FAULTED"
        BY <2>5, FaultedType DEF CommandFails, IInv, TypeOK
      <3>2. /\ Spent' = Spent
            /\ \/ Phase' = Phase
               \/ Phase \in {"settled", "open"} /\ Phase' = "faulted"
        BY <3>1 DEF Phase, Spent, OpenEpisode
      <3> QED
        BY <3>2 DEF Promise!Next, Promise!Fault, Promise!vars
    <2> QED
      BY <2>1, <2>2, <2>3, <2>4, <2>5 DEF Next
  <1> QED
    BY <1>1, <1>2, Invariance, PTL DEF Spec, KeepsPromise, Promise!Spec
=============================================================================
