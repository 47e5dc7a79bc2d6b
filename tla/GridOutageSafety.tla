-------------------------- MODULE GridOutageSafety --------------------------
(***************************************************************************)
(* poolos/grid_outage_physical_safety.py: the engine that during a         *)
(* confirmed outage selects one reduction per frame and verifies it before *)
(* it selects the next.                                                    *)
(*                                                                         *)
(* A frame says which loads are seen on and which cannot be judged; the    *)
(* pump is one load, "speed", on while it is told to run above the outage  *)
(* ceiling; lingers says that its motor is still faster than it is told.   *)
(* Instead of comparing times, old says that a frame was taken before the  *)
(* last acceptance or enabling, lags that its samples were.  Every frame   *)
(* has an identity of its own, so that _last_delivery_frame has no effect. *)
(***************************************************************************)
EXTENDS GridOutageConfirmation, FiniteSets

CONSTANT Timeout   \* verification time of an accepted reduction, in frames

Circuits == {"jets", "slide", "waterfall"}
Loads    == {"spa_source", "pool_source", "light", "spa", "speed", "pool"} \cup Circuits

ASSUME SafetyAssumption == Timeout \in Nat \ {0} /\ None \notin Loads

SourceOf(body) == IF body = "pool" THEN "pool_source" ELSE "spa_source"

Frame ==
  [outage     : Dispositions,
   id         : EpochId \cup {None},      \* of a confirmed outage
   unresolved : BOOLEAN,                  \* unresolved_confirmed_outage_since
   on         : SUBSET Loads,
   blind      : SUBSET (Loads \cup {"freeze"}),
   freeze     : BOOLEAN,
   immediate  : BOOLEAN \cup {None},      \* filtration must run now; None when stale
   entitled   : BOOLEAN,                  \* pool_shutdown_authorized
   external   : BOOLEAN,                  \* a change nothing explains, since the candidate
   ready      : BOOLEAN,                  \* physical authority and transport
   old        : BOOLEAN,
   lags       : BOOLEAN,
   lingers    : BOOLEAN]

Engine ==
  [gate      : BOOLEAN,
   epoch     : EpochId \cup {None},
   candidate : Loads \cup {None},   \* of an assessment that is CANDIDATE_READY
   attempt   : [load : Loads, left : 0..Timeout] \cup {None},
   blocked   : EpochId \cup {None},
   verified  : Loads \cup {None},   \* _last_verified
   unloaded  : BOOLEAN]

NewEngine ==
  [gate |-> FALSE, epoch |-> None, candidate |-> None, attempt |-> None, blocked |-> None,
   verified |-> None, unloaded |-> FALSE]

-----------------------------------------------------------------------------
(***************************************************************************)
(* What a frame lets one reduce.                                           *)
(***************************************************************************)
Seen(f, load) == load \in f.on \ f.blind

ActiveBodies(f) == {"pool", "spa"} \cap f.on

Routed(f) ==   \* both bodies are known, one is on at most, and its source is known
  /\ {"pool", "spa"} \cap f.blind = {}
  /\ Cardinality(ActiveBodies(f)) <= 1
  /\ \A body \in ActiveBodies(f) : SourceOf(body) \notin f.blind

Blocked(f) ==
  \/ f.blind \cap ({"pool", "spa", "speed", "freeze"} \cup Circuits) # {}
  \/ ~Routed(f)
  \/ f.immediate = None

Heating(f) == {body \in ActiveBodies(f) : Seen(f, SourceOf(body))}

Needed(f) == f.immediate = TRUE \/ Heating(f) # {} \/ "spa" \in f.on

\* assess_outage_circulation_requirement
Circulation(f) ==
  CASE Blocked(f)                                              -> "BLOCKED"
    [] ~Blocked(f) /\ Needed(f) /\ ActiveBodies(f) # {"pool"}  -> "BLOCKED"
    [] ~Blocked(f) /\ Needed(f) /\ ActiveBodies(f) = {"pool"}  -> "REQUIRED"
    [] ~Blocked(f) /\ ~Needed(f) /\ (f.freeze \/ Circuits \cap f.on # {}) -> "BLOCKED"
    [] OTHER                                                   -> "NOT_REQUIRED"

Rank == [spa_source |-> 1, pool_source |-> 2, light |-> 3, jets |-> 4, slide |-> 5,
         waterfall |-> 6, spa |-> 7, speed |-> 8, pool |-> 9]

Before(load) == {c \in Circuits : Rank[c] <= Rank[load]}

\* _select_candidate, in which a load of lower rank comes first
Reducible(f) ==
  LET hydraulic == Routed(f) /\ "freeze" \notin f.blind /\ ~f.freeze
      Clear(load) == hydraulic /\ Before(load) \cap f.blind = {}
  IN {SourceOf(body) : body \in {b \in Heating(f) : b \notin f.blind}}
       \cup {l \in {"light"} : Seen(f, l)}
       \cup {c \in Circuits \cup {"spa"} : c \in f.on /\ Clear(c)}
       \cup {l \in {"speed"} : Clear(l) /\ Circulation(f) = "REQUIRED" /\ Seen(f, l)}
       \cup {l \in {"pool"} : Clear(l) /\ Circulation(f) = "NOT_REQUIRED" /\ f.entitled /\ l \in f.on}

Selected(f) ==
  IF Reducible(f) = {} THEN None
  ELSE CHOOSE l \in Reducible(f) : \A m \in Reducible(f) : Rank[l] <= Rank[m]

-----------------------------------------------------------------------------
(***************************************************************************)
(* _verify: only what was seen after the acceptance counts.                *)
(***************************************************************************)
PumpRuns(f) ==
  /\ f.blind \cap ({"pool", "spa", "pool_source", "freeze"} \cup Circuits) = {}
  /\ ActiveBodies(f) = {"pool"} /\ "pool_source" \notin f.on
  /\ ~f.freeze /\ Circuits \cap f.on = {}

Verification_M(f, t) ==   \* mutant: a frame from before the acceptance verifies
  CASE t.load \in f.blind -> IF t.left = 0 THEN "timed_out" ELSE "pending"
    [] OTHER -> IF t.load \in f.on THEN "failed" ELSE "verified"

\* Turning the Pool off and slowing the pump also wait for the motor.
Unseen(f, t) ==
  \/ f.old \/ f.lags \/ t.load \in f.blind
  \/ t.load = "pool" /\ "pool" \notin f.on /\ "speed" \in f.blind

Contradicted(f, t) == t.load \in f.on \/ (t.load = "speed" /\ ~PumpRuns(f))

Verification(f, t) ==
  CASE ~Unseen(f, t) /\ Contradicted(f, t)                                   -> "failed"
    [] ~Unseen(f, t) /\ ~Contradicted(f, t) /\ (f.lingers => t.load \notin {"pool", "speed"})
                                                                             -> "verified"
    [] OTHER -> IF t.left = 0 /\ ~f.old THEN "timed_out" ELSE "pending"

-----------------------------------------------------------------------------
(***************************************************************************)
(* evaluate.                                                               *)
(***************************************************************************)
Idle(e)  == [e EXCEPT !.candidate = None]
Given(e) == [e EXCEPT !.candidate = None, !.attempt = None]

Fails_M(e) == Given(e)   \* mutant: the epoch stays open

Fails(e) == [Given(e) EXCEPT !.blocked = e.epoch]

TimesOut(e, f) == e.attempt # None /\ e.attempt.left = 0 /\ ~f.old

NewEpoch(e, f) ==
  IF f.id = e.epoch THEN e
  ELSE [Given(e) EXCEPT !.epoch = f.id, !.verified = None, !.blocked = None]

Judged_M(e, f) ==   \* mutant: a reduction that is not verified in time ends them all
  LET v == Verification(f, e.attempt)
  IN CASE v = "verified" -> [Given(e) EXCEPT !.verified = e.attempt.load]
       [] v \in {"failed", "timed_out"} -> Fails(e)
       [] OTHER -> Idle(e)

Judged(e, f) ==
  LET v == Verification(f, e.attempt)
  IN CASE v = "verified" -> [Given(e) EXCEPT !.verified = e.attempt.load]
       [] v \in {"failed", "timed_out"} -> Given(e)
       [] OTHER -> Idle(e)

MaySelect(e, f) == e.gate /\ ~f.old /\ f.ready

\* a confirmed outage, in the epoch it belongs to
Assessed(e, f) ==
  CASE e.blocked = f.id                                         -> Idle(e)
    [] e.blocked # f.id /\ e.attempt # None /\ f.external        -> Fails(e)
    [] e.blocked # f.id /\ e.attempt # None /\ ~f.external       -> Judged(e, f)
    [] OTHER ->
         [e EXCEPT !.candidate = IF MaySelect(e, f) THEN Selected(f) ELSE None]

Evaluate(e, f) ==
  CASE e.unloaded -> e
    [] ~e.unloaded /\ f.outage = "ON_GRID" -> [Given(e) EXCEPT !.epoch = None]
    [] ~e.unloaded /\ f.outage = "UNKNOWN" -> IF TimesOut(e, f) THEN Given(e) ELSE Idle(e)
    [] ~e.unloaded /\ f.outage = "OFF_GRID_PENDING" -> Idle(e)
    [] ~e.unloaded /\ f.outage = "CONFIRMED_OUTAGE" ->
         IF f.id # e.epoch /\ e.attempt # None THEN NewEpoch(e, f)
         ELSE Assessed(NewEpoch(e, f), f)

\* Whether the outage domain is active after e became d by frame f.
DomainActive_M(e, d, f) ==   \* mutant: only while the outage is seen
  d.epoch # None /\ ~d.unloaded /\ f.outage = "CONFIRMED_OUTAGE"

DomainActive(e, d, f) ==
  /\ d.epoch # None /\ ~d.unloaded
  /\ \/ f.outage = "CONFIRMED_OUTAGE"
     \/ f.outage = "UNKNOWN" /\ (f.unresolved \/ TimesOut(e, f))

-----------------------------------------------------------------------------
(***************************************************************************)
(* The gate, deliveries and the end.                                       *)
(***************************************************************************)
SetEnabled(e, on) ==
  IF e.unloaded \/ e.gate = on THEN e
  ELSE [(IF ~on /\ e.attempt # None THEN Fails(e) ELSE Given(e)) EXCEPT !.gate = on]

FailClosed(e) == IF e.unloaded THEN e ELSE IF e.attempt # None THEN Fails(e) ELSE Given(e)

Rejected(e, load) ==
  IF e.unloaded \/ e.candidate # load THEN e ELSE Given(e)

\* Accepted raises ValueError unless the candidate is the current one still.
MayAccept(e, load) == e.unloaded \/ e.candidate = load

Accepted_M(e, load) ==   \* mutant: a frame too many
  IF e.unloaded THEN e
  ELSE [Idle(e) EXCEPT !.attempt = [load |-> load, left |-> Timeout + 1]]

Accepted(e, load) ==
  IF e.unloaded THEN e
  ELSE [Idle(e) EXCEPT !.attempt = [load |-> load, left |-> Timeout]]

DeliveryFailed(e) == IF e.unloaded THEN e ELSE Fails(e)

UnloadEngine(e) ==
  [Given(e) EXCEPT !.unloaded = TRUE, !.gate = FALSE, !.epoch = None, !.blocked = None]
=============================================================================
