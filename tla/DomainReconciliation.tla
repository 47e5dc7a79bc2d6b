------------------------ MODULE DomainReconciliation ------------------------
(***************************************************************************)
(* One PoolOS-owned domain over time: authoritative frames are observed,   *)
(* corrections are reserved before they are dispatched, a command fails,   *)
(* an operator states an intent.  Samples arrive late, early, twice, out   *)
(* of order or not at all: every sample time is possible in every frame.   *)
(***************************************************************************)
EXTENDS OwnershipEvidence

CONSTANT MaxTime   \* bound of the clock

ASSUME MaxTimeAssumption == MaxTime \in Nat

\* None is no episode.
ASSUME NoEpisodeAssumption == None \notin Episode

VARIABLES
  dom,     \* the DomainOwnershipState of the domain
  now      \* time of the latest frame

vars == <<dom, now>>

Times == 0..MaxTime

\* An episode keeps its budget and its window, and was verified after it began.
WithinBounds ==
  dom.episode # None =>
    /\ Cardinality(dom.episode.corrections) <= Budget
    /\ dom.episode.started_at <= now
    /\ dom.episode.deadline = dom.episode.started_at + Window
    /\ dom.episode.verified_at # None =>
         dom.episode.verified_at > dom.episode.started_at /\ dom.episode.verified_at <= now

TypeOK ==
  /\ dom \in DomainState
  /\ now \in Times
  /\ WithinBounds

Init ==
  /\ dom = OwnedDomain
  /\ now = 0

Tick ==
  /\ now < MaxTime
  /\ now' = now + 1
  /\ UNCHANGED dom

Samples ==
  [at : {now}, seen : Times \cup {None}, usable : BOOLEAN, matches : BOOLEAN,
   expected : BOOLEAN, binding : Bindings, operator : {None}]

\* A frame reaches the domain: filtration's _observe_filtration_domains.
ObserveFrame(s) ==
  /\ dom' = Observe(dom, s)
  /\ UNCHANGED now

\* The registry's record_operator_intent, for evidence that applies.
OperatorIntent ==
  /\ dom.requested_at # None => now > dom.requested_at
  /\ dom' = Yielded(dom, now)
  /\ UNCHANGED now

\* _deliver: a command of this domain is about to be dispatched.
Deliver(id) ==
  /\ PermissionDenial(dom, FALSE) = "none"
  /\ dom' = Corrected(dom, id, now)
  /\ UNCHANGED now

\* _fail: a command of this domain was refused or never verified.
CommandFails ==
  /\ dom' = Faulted(dom)
  /\ UNCHANGED now

ObserveSome == \E s \in Samples : ObserveFrame(s)

Next ==
  \/ Tick
  \/ ObserveSome
  \/ OperatorIntent
  \/ \E id \in Requests : Deliver(id)
  \/ CommandFails

Spec == Init /\ [][Next]_vars

\* Frames keep arriving: the runtime observes every coordinator update.
Fairness == WF_vars(Tick) /\ WF_vars(ObserveSome)

FairSpec == Spec /\ Fairness

-----------------------------------------------------------------------------
(***************************************************************************)
(* An open drift is closed only by a sample taken after it was opened and  *)
(* before its deadline was observed to pass.                               *)
(***************************************************************************)
ConvergenceIsCausal ==
  [][OpenEpisode(dom) /\ ~OpenEpisode(dom') =>
       /\ dom'.episode # None
       /\ dom'.episode.verified_at > dom.episode.started_at
       /\ now < dom.episode.deadline]_vars

(***************************************************************************)
(* Every open episode whose deadline the clock can reach comes to an end:  *)
(* it is verified, faulted, yielded, or its binding is found changed (and  *)
(* the domain is denied).                                                  *)
(***************************************************************************)
EpisodeSettles ==
  (OpenEpisode(dom) /\ dom.episode.deadline <= MaxTime) ~>
    (~OpenEpisode(dom) \/ dom.health = "FAULTED" \/ dom.authority # "POOLOS"
       \/ dom.blocker = "binding_changed")

-----------------------------------------------------------------------------
\* The refinement mapping onto what the domain promises.
Phase ==
  IF dom.authority # "POOLOS" THEN "yielded"
  ELSE IF dom.health = "FAULTED" THEN "faulted"
  ELSE IF OpenEpisode(dom) THEN "open"
  ELSE "settled"

Spent == IF dom.episode = None THEN 0 ELSE Cardinality(dom.episode.corrections)

Promise == INSTANCE BoundedReconciliation
             WITH MaxSpent <- Budget, phase <- Phase, spent <- Spent

(***************************************************************************)
(* Each frame, retry, failure and operator intent is one step, or none, of *)
(* the bounded reconciliation the owner relies on: no more corrections     *)
(* than the budget between two verified matches, however frames and late   *)
(* samples interleave; a fault that no late match, retry or frame reopens  *)
(* ("A late match cannot reopen an exhausted episode"); and an operator    *)
(* whom neither evidence nor a failed command puts aside.                  *)
(***************************************************************************)
KeepsPromise == Promise!Spec
=============================================================================
