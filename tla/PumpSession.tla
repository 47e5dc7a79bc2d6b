---------------------------- MODULE PumpSession ----------------------------
(***************************************************************************)
(* poolos/pump_speed_session.py: what a person wants of the pump while one *)
(* body runs for one purpose.  A session has a baseline speed; a request   *)
(* from Home Assistant is pending until the controller shows it, a change  *)
(* on the controller's panel is an override at once.                       *)
(*                                                                         *)
(* One pump circuit.  Times are ticks left or passed.  The prior override  *)
(* the code keeps by token is part of the pending override it belongs to:  *)
(* there is never another.                                                 *)
(***************************************************************************)
EXTENDS NoValue, Integers

CONSTANTS
  Sessions,  \* names of sessions
  Requests,  \* names of manual requests
  Purposes,  \* of the circulation: ordinary, solar, ...
  Speeds,
  Baseline,  \* the configured speed of each purpose
  Ttl,       \* pending_ttl
  Fresh      \* observation_freshness

ASSUME SessionAssumption ==
  /\ Speeds \subseteq Nat \ {0} /\ Baseline \in [Purposes -> Speeds]
  /\ Ttl \in Nat \ {0} /\ Fresh \in Nat

NoOverride == [state |-> "none"]

Verified(speed) == [state |-> "verified", value |-> speed]

Settled == {NoOverride} \cup {Verified(v) : v \in Speeds}

Pending ==
  [state : {"pending"}, request : Requests, value : Speeds, left : 0..Ttl,
   answer : {"none", "accepted", "unknown"}, correlated : BOOLEAN, prior : Settled]

ManualRequest == [id : Requests, session : Sessions, value : Speeds]

\* cancelling is _baseline_cancellation_request; moved says that the connection is not
\* the one the session was established on; spent that _last_native_transition_at is not
\* before the change of the configured speed seen last.
Session ==
  [id : Sessions, purpose : Purposes, configured : Speeds, usable : BOOLEAN,
   age : 0..(Fresh + 1), moved : BOOLEAN, spent : BOOLEAN, override : Settled \cup Pending,
   cancelling : {None} \cup [request : Requests, left : 0..Ttl]]

IsPending(s) == s # None /\ s.override.state = "pending"

Undecided(s) == IsPending(s) \/ (s # None /\ s.cancelling # None)

Effective(s) ==
  IF s.override.state = "none" THEN Baseline[s.purpose] ELSE s.override.value

-----------------------------------------------------------------------------
(***************************************************************************)
(* Boundaries.  _end_session and reset_currentness leave None.             *)
(***************************************************************************)
Expire_M(s) == s   \* mutant: a pending request is only ended by its consequence

Expire(s) ==
  IF s = None THEN None
  ELSE [s EXCEPT
         !.cancelling = IF @ # None /\ @.left = 0 THEN None ELSE @,
         !.override   = IF @.state = "pending" /\ @.left = 0 THEN @.prior ELSE @]

Sooner(r) == IF r.left > 0 THEN [r EXCEPT !.left = @ - 1] ELSE r

Passed(s) ==   \* one tick
  IF s = None THEN None
  ELSE [s EXCEPT
         !.age        = IF @ > Fresh THEN @ ELSE @ + 1,
         !.cancelling = IF @ # None THEN Sooner(@) ELSE None,
         !.override   = IF @.state = "pending" THEN Sooner(@) ELSE @]

Started(id, purpose, configured) ==
  [id |-> id, purpose |-> purpose, configured |-> configured, usable |-> TRUE, age |-> 0,
   moved |-> FALSE, spent |-> FALSE, override |-> NoOverride, cancelling |-> None]

\* observe: purpose None is no body; a frame is never older than the one before.
Observed(s, usable, purpose, configured, again, id) ==
  LET e == Expire(s) IN
    CASE ~usable -> IF e = None THEN None
                    ELSE [e EXCEPT !.usable = FALSE, !.age = 0, !.moved = @ \/ again]
      [] usable /\ purpose = None -> None
      [] OTHER ->
           IF e = None \/ again \/ e.moved \/ e.purpose # purpose
           THEN Started(id, purpose, configured)
           ELSE [e EXCEPT !.usable = TRUE, !.age = 0, !.configured = configured]

-----------------------------------------------------------------------------
(***************************************************************************)
(* A manual request, from begin_manual_request to its answer.              *)
(***************************************************************************)
MayBegin(s) == s # None /\ s.usable

Begun(s, q) ==
  IF q.value = Baseline[s.purpose]
  THEN [s EXCEPT !.override = NoOverride, !.cancelling = [request |-> q.id, left |-> Ttl]]
  ELSE [s EXCEPT !.cancelling = None,
                 !.override = [state |-> "pending", request |-> q.id, value |-> q.value,
                               left |-> Ttl, answer |-> "none", correlated |-> FALSE,
                               prior |-> IF @.state = "verified" THEN @ ELSE NoOverride]]

Cancelled(s, q) == s.cancelling # None /\ s.cancelling.request = q.id

\* _request_is_current: an older request no longer decides anything
IsCurrent(s, q) ==
  /\ s # None /\ s.id = q.session
  /\ Cancelled(s, q) \/ (s.override.state = "pending" /\ s.override.request = q.id)

Settle(s, override) == [s EXCEPT !.override = override, !.cancelling = None]

Answer(s, q, answer, shown) ==
  LET e == Expire(s) IN
    IF ~IsCurrent(e, q) THEN e
    ELSE IF Cancelled(e, q) THEN [e EXCEPT !.cancelling = None]
    ELSE IF shown \/ e.override.correlated THEN Settle(e, Verified(q.value))
    ELSE [e EXCEPT !.override.answer = answer]

\* manual_delivery_accepted: a request for the speed the controller already shows has
\* no consequence to wait for
Accepted(s, q) ==
  Answer(s, q, "accepted", s # None /\ s.configured = q.value /\ s.age <= Fresh)

OutcomeUnknown(s, q) == Answer(s, q, "unknown", FALSE)

Failed_M(s, q) ==   \* mutant: a failed request takes the override before it along
  IF ~IsCurrent(s, q) THEN s ELSE Settle(s, NoOverride)

Failed(s, q) ==
  IF ~IsCurrent(s, q) THEN s
  ELSE IF Cancelled(s, q) THEN [s EXCEPT !.cancelling = None]
  ELSE [s EXCEPT !.override = s.override.prior]

-----------------------------------------------------------------------------
(***************************************************************************)
(* apply_transition.  A change says where it lies relative to the frame    *)
(* that established the session; positive is positive_operator_intent.     *)
(***************************************************************************)
Change == [value : Speeds, positive : BOOLEAN, when : {"before", "at", "after"}]

ASSUME NoneAssumption ==
  /\ None \notin Session /\ None \notin Speeds /\ None \notin Change
  /\ None \notin [request : Requests, left : 0..Ttl]
  /\ None \notin [id : Sessions, value : Speeds]

Adopted(s, speed) ==
  Settle(s, IF speed = Baseline[s.purpose] THEN NoOverride ELSE Verified(speed))

MayChange_M(s, c) ==   \* mutant: the change seen last is applied with every frame
  c.when = "after" \/ (c.when = "at" /\ c.positive)

MayChange(s, c) ==
  /\ c.when = "after" \/ (c.when = "at" /\ c.positive)
  /\ ~s.spent

\* A change nothing explains, which a request that is still undecided does not adopt.
Changed(s, c) ==
  LET t == [s EXCEPT !.spent = TRUE, !.configured = c.value] IN
    IF ~MayChange(s, c) THEN s
    ELSE IF Undecided(s) THEN t
    ELSE Adopted(t, c.value)

\* The consequence of a request, seen in a frame that did not establish the session.
Correlated(s, request, speed) ==
  LET t == [s EXCEPT !.spent = TRUE, !.configured = speed] IN
    IF ~(IsPending(s) /\ s.override.request = request /\ s.override.value = speed) THEN t
    ELSE IF s.override.answer = "none" THEN [t EXCEPT !.override.correlated = TRUE]
    ELSE Adopted(t, speed)
=============================================================================
