-------------------------- MODULE OwnershipEvidence --------------------------
(***************************************************************************)
(* Evidence about one ownership domain (Pool BODY or PUMP) and the bounded *)
(* reconciliation of an unexplained drift (poolos/ownership_evidence.py).  *)
(* The values are immutable in the code, so every operation is an operator *)
(* from the old state to the new one.  Identities the code only compares   *)
(* (generation, body session, equipment, policy and intended value) are    *)
(* one element of Bindings; request identities are elements of Requests.   *)
(***************************************************************************)
EXTENDS Integers, FiniteSets

CONSTANTS
  Bindings,   \* what an episode is bound to, compared as a whole
  Requests,   \* correction request identities
  Budget,     \* ReconciliationEpisode.correction_budget, 2 in the code
  Window,     \* duration of an episode, 120 seconds in the code
  None

ASSUME EvidenceAssumption ==
  /\ Budget \in Nat
  /\ Window \in Nat \ {0}
  /\ None \notin Nat

Authorities == {"NONE", "POOLOS", "OPERATOR"}
Healths == {"PENDING", "CONVERGING", "STABLE", "RECONCILING", "FAULTED"}
Blockers == {"none", "origin_unavailable", "operator_domain_override",
             "binding_changed", "deadline_exhausted", "evidence_unusable",
             "reconciliation_pending", "budget_exhausted", "failure"}

OptTime == Nat \cup {None}

Episode == [binding     : Bindings,
            started_at  : Nat,
            deadline    : Nat,
            corrections : SUBSET Requests,
            verified_at : OptTime]

DomainState == [authority    : Authorities,
                health       : Healths,
                blocker      : Blockers,
                requested_at : OptTime,
                observed_at  : OptTime,
                episode      : Episode \cup {None}]

\* The default of DomainOwnershipState(domain): nothing is owned.
UnownedDomain == [authority |-> "NONE", health |-> "PENDING",
                  blocker |-> "origin_unavailable", requested_at |-> None,
                  observed_at |-> None, episode |-> None]

\* What FiltrationCirculationLease gives a domain whose origin it first holds.
OwnedDomain == [UnownedDomain EXCEPT !.authority = "POOLOS", !.blocker = "none"]

OpenEpisode(d) == d.episode # None /\ d.episode.verified_at = None

-----------------------------------------------------------------------------
(***************************************************************************)
(* Operators whose names end in _M are mutated forms, used by no           *)
(* definition: slips a change of the code could make, each of which a      *)
(* checked property must notice.                                           *)
(***************************************************************************)
NewEpisode_M(binding, at) ==   \* the deadline on the wrong side
  [binding |-> binding, started_at |-> at, deadline |-> at - Window,
   corrections |-> {}, verified_at |-> None]

NewEpisode(binding, at) ==
  [binding |-> binding, started_at |-> at, deadline |-> at + Window,
   corrections |-> {}, verified_at |-> None]

\* ReconciliationEpisode.reserve_correction raises where this is FALSE.
MayReserve(e, id, at) ==
  \/ id \in e.corrections
  \/ /\ e.started_at <= at
     /\ at < e.deadline
     /\ e.verified_at = None
     /\ Cardinality(e.corrections) < Budget

Reserve(e, id) == [e EXCEPT !.corrections = @ \cup {id}]

(***************************************************************************)
(* DomainOwnershipState.observe.  A sample is a record: at (the frame),    *)
(* seen (the observation's own time, or None), usable, matches, expected   *)
(* (a transition is expected), binding, operator (the request time of      *)
(* operator evidence bound to this domain, or None).                       *)
(***************************************************************************)
Yielded(d, requested_at) ==
  [d EXCEPT !.authority = "OPERATOR", !.requested_at = requested_at,
            !.blocker = "operator_domain_override"]

Drifted_M(d, s, usable) ==   \* every drifting frame renews the episode
  [d EXCEPT !.episode = NewEpisode(s.binding, s.at), !.health = "RECONCILING",
            !.blocker = "reconciliation_pending"]

Drifted(d, s, usable) ==
  LET e == IF d.episode = None \/ ~OpenEpisode(d)
           THEN NewEpisode(s.binding, s.at) ELSE d.episode
  IN [d EXCEPT !.episode = e,
               !.health  = IF s.expected THEN "CONVERGING" ELSE "RECONCILING",
               !.blocker = IF usable THEN "reconciliation_pending"
                                     ELSE "evidence_unusable"]

Converged(d, s) ==
  [d EXCEPT !.health = "STABLE", !.blocker = "none",
            !.episode = IF @ = None THEN None
                        ELSE [@ EXCEPT !.verified_at = s.seen]]

Verifies_M(d, s, usable) ==   \* a sample as old as the episode verifies it
  usable /\ s.matches /\ (d.episode = None \/ s.seen >= d.episode.started_at)

\* A sample verifies only when it is later than the start of the episode.
Verifies(d, s, usable) ==
  /\ usable /\ s.matches
  /\ d.episode = None \/ s.seen > d.episode.started_at

\* A mismatch no later than the last verification says nothing new.
AlreadyVerified(d, s) ==
  /\ d.episode # None
  /\ d.episode.verified_at # None
  /\ s.seen = None \/ s.seen <= d.episode.verified_at

DeadlinePassed_M(d, s) ==   \* frames without evidence do not count
  OpenEpisode(d) /\ s.usable /\ s.at >= d.episode.deadline

DeadlinePassed(d, s) == OpenEpisode(d) /\ s.at >= d.episode.deadline

Regressive(prior, s) ==
  prior.observed_at # None /\ s.seen # None /\ s.seen < prior.observed_at

Observe(prior, s) ==
  LET d      == [prior EXCEPT !.observed_at = s.seen]
      usable == s.usable /\ s.seen # None /\ s.seen <= s.at
  IN IF prior.authority # "POOLOS" THEN d
     ELSE IF s.operator # None /\ s.operator <= s.at THEN Yielded(d, s.operator)
     ELSE IF d.episode # None /\ d.episode.binding # s.binding
          THEN [d EXCEPT !.blocker = "binding_changed"]
     ELSE IF d.health = "FAULTED" THEN d
     ELSE IF DeadlinePassed(d, s)
          THEN [d EXCEPT !.health = "FAULTED", !.blocker = "deadline_exhausted"]
     ELSE IF Regressive(prior, s)
          THEN [prior EXCEPT !.blocker = "evidence_unusable"]
     ELSE IF Verifies(d, s, usable) THEN Converged(d, s)
     ELSE IF AlreadyVerified(d, s) THEN d
     ELSE Drifted(d, s, usable)

\* DomainOwnershipState.permission_denial; "none" is no additional denial.
PermissionDenial(d, completion_reduction) ==
  IF d.authority = "OPERATOR" THEN "operator"
  ELSE IF completion_reduction THEN "none"
  ELSE IF d.health = "FAULTED" THEN "control_fault"
  ELSE IF d.blocker \in {"evidence_unusable", "binding_changed"} THEN d.blocker
  ELSE "none"

-----------------------------------------------------------------------------
(***************************************************************************)
(* What the lifecycle owner does around a delivery: _deliver reserves a    *)
(* correction of an open episode first, and faults the domain when the     *)
(* reservation is refused; _fail faults the domain of a failed command.    *)
(***************************************************************************)
Corrected(d, id, at) ==
  IF ~OpenEpisode(d) THEN d
  ELSE IF MayReserve(d.episode, id, at)
       THEN [d EXCEPT !.episode = Reserve(@, id)]
       ELSE [d EXCEPT !.health = "FAULTED", !.blocker = "budget_exhausted"]

Faulted(d) == [d EXCEPT !.health = "FAULTED", !.blocker = "failure"]
=============================================================================
