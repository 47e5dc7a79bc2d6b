------------------------- MODULE PhysicalAuthority -------------------------
(***************************************************************************)
(* poolos/physical_command_authority.py: the one place that answers        *)
(* whether a request may move equipment now, and the registry of native    *)
(* consequences its commands are expected to have.                         *)
(*                                                                         *)
(* A request turns a target on or off.  "speed" on is a pump speed above   *)
(* the outage ceiling, off one at or below it.  A context is a token: what *)
(* the code compares field by field (generation, epoch, frame, session) it *)
(* compares to learn whether it is the one registered now.                 *)
(***************************************************************************)
EXTENDS NoValue, FiniteSets, Integers

CONSTANTS
  Tokens,  \* names of contexts
  Limit,   \* expectation_limit
  Ttl      \* expectation_ttl

ASSUME AuthorityAssumption == Limit \in Nat \ {0} /\ Ttl \in Nat \ {0}

Bodies == {"pool", "spa"}

BodyTargets   == Bodies
SourceTargets == {"pool_source", "spa_source"}
LoadTargets   == {"light", "jets", "slide", "waterfall"}
Targets       == BodyTargets \cup SourceTargets \cup LoadTargets \cup {"speed"}

Automatic == {"THERMAL", "FILTRATION"}
Contexts  == Automatic \cup {"OUTAGE", "SANITATION"}
Sources   == Contexts \cup {"MANUAL", "RESET"}

\* PhysicalCommandRequest; context is None for what needs none
Request == [source : Sources, target : Targets, on : BOOLEAN, body : Bodies,
            context : Tokens \cup {None}]

Session == [body : Bodies, id : Tokens]

\* None is none of the values it stands beside.
ASSUME NoneAssumption == None \notin Tokens /\ None \notin Session

Outage == [loaded : BOOLEAN, gate : BOOLEAN, active : BOOLEAN, ceiling : BOOLEAN]

\* _PendingExpectation: one per request identity
Expectation == [id : Tokens, request : Request, left : 0..Ttl, started : BOOLEAN]

Authority ==
  [maintenance : {"unresolved", "off", "on"},
   mode        : {"none", "auto", "service"},
   sanitation  : Session \cup {None},
   reset       : BOOLEAN,
   restoring   : SUBSET Bodies,   \* restraints the startup barrier still waits for
   suppressed  : SUBSET Bodies,
   scope       : SUBSET Bodies,   \* of thermal: empty when one of its gates is off
   filtration  : BOOLEAN,         \* its gate
   outage      : Outage,
   current     : [Contexts -> Tokens \cup {None}],
   known       : SUBSET Targets,  \* what _native_truth has a value of
   truth       : SUBSET Targets,  \* what of it is on
   expected    : SUBSET Expectation]

\* A start of the entry: gates off, everything that was persisted unresolved.
NewAuthority ==
  [maintenance |-> "unresolved", mode |-> "none", sanitation |-> None, reset |-> FALSE,
   restoring |-> Bodies, suppressed |-> {}, scope |-> {}, filtration |-> FALSE,
   outage |-> [loaded |-> TRUE, gate |-> FALSE, active |-> FALSE, ceiling |-> FALSE],
   current |-> [c \in Contexts |-> None], known |-> {}, truth |-> {},
   expected |-> {}]

-----------------------------------------------------------------------------
(***************************************************************************)
(* Contexts.  Invalidation drops the expectations of an automatic driver   *)
(* even if they were dispatched, those of outage and sanitation only if    *)
(* they were not.                                                          *)
(***************************************************************************)
Without(expected, sources) ==
  {e \in expected :
     \/ e.request.source \notin sources
     \/ e.started /\ e.request.source \notin Automatic}

Invalidated_M(a, sources) ==   \* mutant: a context outlives what it was issued for
  [a EXCEPT !.expected = Without(@, sources)]

Invalidated(a, sources) ==
  [a EXCEPT !.current  = [c \in Contexts |-> IF c \in sources THEN None ELSE @[c]],
            !.expected = Without(@, sources)]

\* begin_..._epoch, register_..., bind_...: older contexts of the source are stale
Bind(a, source, token) == [a EXCEPT !.current[source] = token]

\* begin_automatic_..._epoch: nothing is bound until a driver binds again
BeginEpoch(a, source) == Bind(a, source, None)

-----------------------------------------------------------------------------
(***************************************************************************)
(* What the operator, Home Assistant and the controller change.            *)
(***************************************************************************)
Forget(a) == [a EXCEPT !.expected = {}]

ResolveMaintenance(a, value) ==
  IF a.maintenance = value THEN a ELSE [Forget(a) EXCEPT !.maintenance = value]

SetControllerMode(a, mode) ==
  IF a.mode = mode THEN a ELSE [Forget(a) EXCEPT !.mode = mode]

Stales(body) == IF body = "pool" THEN Automatic \cup {"OUTAGE"} ELSE {"THERMAL"}

SetSuppressed_M(a, body, on) ==   \* mutant: the restraint itself is thought to be enough
  [a EXCEPT !.suppressed = IF on THEN @ \cup {body} ELSE @ \ {body}]

SetSuppressed(a, body, on) ==
  IF (body \in a.suppressed) = on THEN a
  ELSE Invalidated([a EXCEPT !.suppressed = IF on THEN @ \cup {body} ELSE @ \ {body}],
                   Stales(body))

ResolveSuppressed(a, body, on) ==
  Invalidated([SetSuppressed(a, body, on) EXCEPT !.restoring = @ \ {body}],
              Automatic \cup {"OUTAGE"})

ConfigureThermal(a, scope) ==
  IF a.scope = scope THEN a ELSE Invalidated([a EXCEPT !.scope = scope], {"THERMAL"})

ConfigureFiltration(a, on) ==
  IF a.filtration = on THEN a
  ELSE Invalidated([a EXCEPT !.filtration = on], {"FILTRATION"})

BeginReset(a) ==
  Invalidated([Forget(a) EXCEPT !.reset = TRUE], Automatic \cup {"OUTAGE"})

FinishReset(a) == Invalidated([a EXCEPT !.reset = FALSE], Automatic)

-----------------------------------------------------------------------------
(***************************************************************************)
(* Sanitation and the outage domain.                                       *)
(***************************************************************************)
MayBeginSanitation(a, session) == a.sanitation \in {None, session}

BeginSanitation(a, session) ==
  Invalidated([a EXCEPT !.sanitation = session], Automatic \cup {"SANITATION"})

EndSanitation(a, id) ==
  IF a.sanitation = None \/ a.sanitation.id # id THEN a
  ELSE Invalidated([a EXCEPT !.sanitation = None], Automatic \cup {"SANITATION"})

ConfigureOutage(a, on) ==
  IF a.outage.gate = on THEN a
  ELSE Invalidated([a EXCEPT !.outage.gate = on], {"OUTAGE"})

\* The domain's epoch identity changes only with a new confirmation.
SetOutageDomain(a, active, ceiling) ==
  LET b == [a EXCEPT !.outage.active = active, !.outage.ceiling = active /\ ceiling]
  IN IF active # a.outage.active THEN Invalidated(b, Automatic) ELSE b

BeginOutageFrame_M(a) ==   \* mutant: a newer frame of the same outage replaces nothing
  IF a.outage.active THEN a ELSE Invalidated(a, {"OUTAGE"})

BeginOutageFrame(a) == Invalidated(a, {"OUTAGE"})

UnloadOutage(a) ==
  Invalidated([a EXCEPT !.outage = [loaded |-> FALSE, gate |-> FALSE, active |-> FALSE,
                                    ceiling |-> FALSE]], {"OUTAGE"})

-----------------------------------------------------------------------------
(***************************************************************************)
(* assess: each conjunct is one of its reasons.                            *)
(***************************************************************************)
BaseAllows(a) == a.maintenance = "off" /\ a.mode = "auto"

SanitationAllows(a, r) ==
  a.sanitation # None =>
    /\ r.source \notin Automatic
    /\ r.source = "MANUAL" /\ r.on =>
         r.target \notin SourceTargets /\ r.target \notin BodyTargets \ {a.sanitation.body}

ResetAllows(a, r) ==
  /\ a.reset => r.source \in {"RESET", "OUTAGE"}
  /\ r.source = "RESET" =>
       a.reset /\ r.target \in SourceTargets \cup BodyTargets /\ ~r.on

RestraintAllows_M(a, r) ==   \* mutant: without the barrier of the startup
  /\ r.source = "FILTRATION" => "pool" \notin a.suppressed
  /\ r.source = "THERMAL" => r.body \notin a.suppressed

RestraintAllows(a, r) ==
  /\ r.source \in Contexts => a.restoring = {}
  /\ r.source = "FILTRATION" => "pool" \notin a.suppressed
  /\ r.source = "THERMAL" => r.body \notin a.suppressed
  /\ r.source = "OUTAGE" /\ r.target \in {"pool_source", "speed"} => "pool" \notin a.suppressed

\* What a manual command would recreate while the outage domain reduces: what is not
\* known to be off may be on.
MayBeOn(a, target) == target \notin a.known \/ target \in a.truth

RecreatesLoad(a, r) ==
  /\ r.on
  /\ \/ r.target \in LoadTargets \cup {"spa"}
     \/ r.target \in SourceTargets /\ MayBeOn(a, r.body)
     \/ r.target = "pool" /\ MayBeOn(a, "pool_source")
     \/ r.target = "speed" /\ a.outage.ceiling

OutageAllows(a, r) ==
  a.outage.active =>
    /\ r.source \notin Automatic
    /\ a.outage.gate /\ r.source # "OUTAGE" => ~(r.target = "speed" /\ r.on)
    /\ a.outage.gate /\ r.source = "MANUAL" => ~RecreatesLoad(a, r)

ContextAllows(a, r) ==
  r.source \in Contexts => r.context # None /\ r.context = a.current[r.source]

DriverAllows(a, r) ==
  /\ r.source = "THERMAL" => r.body \in a.scope
  /\ r.source = "FILTRATION" => a.filtration \/ (r.target = "pool" /\ ~r.on)
  /\ r.source = "OUTAGE" => a.outage.loaded /\ a.outage.gate
  /\ r.source = "SANITATION" => a.sanitation # None /\ ~a.outage.active

Allowed(a, r) ==
  /\ BaseAllows(a) /\ SanitationAllows(a, r) /\ ResetAllows(a, r)
  /\ RestraintAllows(a, r) /\ OutageAllows(a, r) /\ ContextAllows(a, r) /\ DriverAllows(a, r)

-----------------------------------------------------------------------------
(***************************************************************************)
(* The registry of expected consequences.                                  *)
(***************************************************************************)
Expired(a, passed) ==
  [a EXCEPT !.expected = {[e EXCEPT !.left = @ - passed] : e \in {x \in @ : x.left > passed}}]

AlreadyTrue(a, r) == r.target \in a.known /\ (r.target \in a.truth) = r.on

Full_M(a) == Cardinality(a.expected) > Limit   \* mutant: off by one

Full(a) == Cardinality(a.expected) >= Limit

\* reserve of an allowed request, unless the registry is full
Reserve(a, id, r) ==
  IF AlreadyTrue(a, r) THEN a
  ELSE [a EXCEPT !.expected =
          @ \cup {[id |-> id, request |-> r, left |-> Ttl, started |-> FALSE]}]

Reserved(a, id) == \E e \in a.expected : e.id = id

Cancel(a, id) == [a EXCEPT !.expected = {e \in @ : e.id # id}]

\* supersede_dispatched_expectations, mark_dispatch_started
Superseded(a, id, r) ==
  [a EXCEPT !.expected = {e \in @ : ~(e.started /\ e.id # id /\ e.request.target = r.target)}]

StartDispatch(a, id, r) ==
  [a EXCEPT !.expected =
     {[e EXCEPT !.started = @ \/ e.id = id] : e \in Superseded(a, id, r).expected}]

Matching_M(a, target, on) ==   \* mutant: an undispatched command claims a change
  {e \in a.expected : e.request.target = target /\ e.request.on = on}

Matching(a, target, on) ==
  {e \in a.expected : e.started /\ e.request.target = target /\ e.request.on = on}

\* process of the external change monitor compares what this snapshot and the one before
\* both have a value of: the oldest match explains a change and is consumed; what nothing
\* explains is external.
Turned(a, plant, seen) == {t \in seen \cap a.known : (t \in plant) # (t \in a.truth)}

Explained(a, changed) == {t \in changed : Matching(a, t, t \notin a.truth) # {}}

\* replace_native_truth; without a baseline that is all
Replaced(a, plant, seen) == [a EXCEPT !.known = seen, !.truth = plant \cap seen]

Observed(a, plant, seen) ==
  LET Oldest(t) == CHOOSE e \in Matching(a, t, t \in plant) :
                     \A f \in Matching(a, t, t \in plant) : e.left <= f.left
  IN [Replaced(a, plant, seen) EXCEPT
        !.expected = @ \ {Oldest(t) : t \in Explained(a, Turned(a, plant, seen))}]
=============================================================================
