------------------------- MODULE GridOutageRuntime -------------------------
(***************************************************************************)
(* custom_components/poolos/grid_outage_runtime.py with the tracker, the   *)
(* engine and the authority it drives: frames come while a reduction is    *)
(* delivered, and wait until its task is over.  A snapshot passes one unit *)
(* of time.                                                                *)
(***************************************************************************)
EXTENDS PhysicalAuthority, GridOutageSafety

CONSTANT Environments   \* what may happen and what is on at first, one per behaviour

Kinds == {"return", "unknown", "handoff", "lags", "lingers", "blind", "freeze", "stale", "immediate",
          "outsider", "lost", "late", "ambiguous", "gate", "failure", "maintenance", "restraint",
          "unload"}

ASSUME RuntimeAssumption ==
  Environments \subseteq [changes : SUBSET Kinds, on : SUBSET Loads, owned : BOOLEAN]

\* Names of contexts and of outages do not run out.
ASSUME NamesAssumption ==
  /\ \A used \in SUBSET Tokens :
       IsFiniteSet(used) /\ Cardinality(used) <= Limit + 1 => Tokens \ used # {}
  /\ \A e1, e2, e3, e4, e5 \in OutageEpochs \cup {None} :
       OutageEpochs \ {e1, e2, e3, e4, e5} # {}

VARIABLES
  env,
  tracker,   \* GridOutageConfirmationTracker
  engine,    \* GridOutagePhysicalSafetyEngine
  a,         \* PoolOSPhysicalCommandAuthority
  task,      \* the delivery under way, or None
  pending,   \* the newest frame that waits for it, or None
  latch,     \* _pool_shutdown_entitled, None before its epoch is set
  owner,     \* whose Pool circulation it is as far as snapshots have shown
  taken,     \* a change nothing explains was seen since the last candidate
  wire,      \* loads whose reduction was sent and has its effect still to come
  plant,     \* loads that are on
  proven,    \* the load of the attempt was off at a time since it was accepted
  spoilt     \* the last epoch in which the outcome of a command was unknown, until the
             \* evidence changes its sensor

vars == <<env, tracker, engine, a, task, pending, latch, owner, taken, wire, plant, proven,
          spoilt>>

Task == [load : Loads, epoch : EpochId, id : Tokens,
         phase : {"new", "waiting", "sent", "over", "raised"}, expected : BOOLEAN]

ASSUME TaskAssumption == None \notin Task

TypeOK ==
  /\ tracker \in Tracker /\ engine \in Engine /\ a \in Authority
  /\ task \in Task \cup {None} /\ pending \in Frame \cup {None}
  /\ latch \in BOOLEAN \cup {None} /\ owner \in {"poolos", "outsider", "nobody"}
  /\ taken \in BOOLEAN /\ proven \in BOOLEAN
  /\ wire \subseteq Loads /\ plant \subseteq Loads
  /\ spoilt \in EpochId \cup {None}

Init ==
  /\ env \in Environments
  /\ tracker = NewTracker
  /\ engine = [NewEngine EXCEPT !.gate = TRUE]
  /\ a = [NewAuthority EXCEPT !.maintenance = "off", !.mode = "auto", !.restoring = {},
                              !.outage.gate = TRUE, !.known = Targets, !.truth = env.on]
  /\ task = None /\ pending = None /\ latch = None
  /\ owner = (IF "pool" \notin env.on THEN "nobody"
              ELSE IF env.owned THEN "poolos" ELSE "outsider")
  /\ taken = FALSE /\ wire = {} /\ plant = env.on
  /\ proven = FALSE /\ spoilt = None

-----------------------------------------------------------------------------
May(kind) == kind \in env.changes

Either(kind) == IF May(kind) THEN BOOLEAN ELSE {FALSE}

FreshToken ==
  CHOOSE t \in Tokens : t \notin {a.current["OUTAGE"]} \cup {e.id : e \in a.expected}

EpochsInUse ==
  {tracker.epoch} \cup {i.epoch : i \in {engine.epoch, engine.blocked, spoilt,
                                          IF pending = None THEN None ELSE pending.id} \ {None}}

FreshEpoch == CHOOSE e \in OutageEpochs : e \notin EpochsInUse

Samples ==
  [off : {TRUE} \cup (IF May("return") THEN {FALSE} ELSE {}),
   age : {0} \cup (IF May("stale") THEN {Fresh} ELSE {}),
   sensor : IF May("handoff") THEN Sensors ELSE {CHOOSE x \in Real : TRUE}]
    \cup (IF May("unknown") THEN {None} ELSE {})

Blinds == {{}} \cup (IF May("blind") THEN {{"pool"}, {"speed"}, {"jets"}} ELSE {})

Reduction(load, id) ==
  [source |-> "OUTAGE", target |-> load, on |-> FALSE,
   body |-> IF load \in {"spa", "spa_source"} THEN "spa" ELSE "pool", context |-> id]

Unexplained(b, seen) == Turned(b, plant, seen) \ Explained(b, Turned(b, plant, seen))

-----------------------------------------------------------------------------
(***************************************************************************)
(* Frames.                                                                 *)
(***************************************************************************)
Entitlement(outage) ==   \* in observe
  CASE outage = "ON_GRID"          -> None
    [] outage = "OFF_GRID_PENDING" -> latch = TRUE \/ owner = "poolos"
    [] OTHER                       -> latch

\* _process_frame, with the authority as b, the engine as e and the latch as l
Process(f, b, e, l) ==
  LET g == [f EXCEPT !.entitled = (latch' = TRUE), !.ready = BaseAllows(b)]
      c == BeginOutageFrame(SetOutageDomain(b, DomainActive(e, engine', g),
             g.outage = "CONFIRMED_OUTAGE" /\ Circulation(g) = "REQUIRED"))
  IN /\ latch' = (CASE f.outage = "ON_GRID" -> None
                    [] f.outage = "CONFIRMED_OUTAGE" /\ l = None -> owner = "poolos"
                    [] OTHER -> l)
     /\ engine' = Evaluate(e, g)
     /\ pending' = None
     /\ IF engine'.candidate = None THEN task' = None /\ a' = c
        ELSE /\ a' = Bind(c, "OUTAGE", FreshToken)
             /\ task' = [load |-> engine'.candidate, epoch |-> engine'.epoch,
                         id |-> FreshToken, phase |-> "new", expected |-> FALSE]

Older(e) ==
  IF e.attempt = None THEN e ELSE [e EXCEPT !.attempt.left = IF @ = 0 THEN 0 ELSE @ - 1]

\* Equipment that is not late turns before the next snapshot.
Prompt == wire = {} \/ May("late")

\* One snapshot: external changes, the tracker, then observe.
Snapshot ==
  \E s \in Samples, blind \in Blinds, freeze \in Either("freeze"), lags \in Either("lags"),
     lingers \in Either("lingers"), immediate \in Either("immediate") :
    /\ Prompt
    /\ LET t == Aged(tracker, 1)
           outage == Disposition(t, s, tracker')
           c == Expired(a, 1)
           b == Observed(c, plant, Targets \ blind)
           seen == taken \/ Unexplained(c, Targets \ blind) # {}
           f == [outage |-> outage, on |-> plant, blind |-> blind, freeze |-> freeze,
                 id |-> IF outage = "CONFIRMED_OUTAGE"
                        THEN [epoch |-> tracker'.epoch, sensor |-> tracker'.sensor] ELSE None,
                 unresolved |-> outage = "UNKNOWN" /\ tracker'.confirmed,
                 immediate |-> immediate, entitled |-> FALSE, external |-> seen, ready |-> FALSE,
                 old |-> FALSE, lags |-> lags, lingers |-> lingers]
       IN /\ tracker' = Evaluated(t, s, FreshEpoch)
          /\ \/ /\ engine.unloaded
                /\ a' = b /\ taken' = seen
                /\ UNCHANGED <<engine, task, pending, latch>>
             \/ /\ ~engine.unloaded /\ task # None
                /\ a' = BeginOutageFrame(IF outage = "ON_GRID" THEN SetOutageDomain(b, FALSE, FALSE)
                                         ELSE b)
                /\ engine' = Older(engine) /\ pending' = f /\ latch' = Entitlement(outage)
                /\ taken' = seen /\ UNCHANGED task
             \/ /\ ~engine.unloaded /\ task = None
                /\ Process(f, b, Older(engine), Entitlement(outage))
                /\ taken' = (seen /\ task' = None)
          /\ owner' = (CASE "pool" \notin plant -> "nobody"
                         [] "pool" \in plant /\ owner = "nobody" -> "outsider"
                         [] OTHER -> owner)
          /\ spoilt' = (IF tracker'.sensor = tracker.sensor THEN spoilt ELSE None)
          /\ UNCHANGED <<env, wire, plant, proven>>

OrchestrationFailed ==
  /\ May("failure") /\ ~engine.unloaded
  /\ a' = BeginOutageFrame(a) /\ engine' = FailClosed(engine) /\ pending' = None
  /\ UNCHANGED <<env, tracker, task, latch, owner, taken, wire, plant, proven, spoilt>>

-----------------------------------------------------------------------------
(***************************************************************************)
(* _deliver through the gateway, whose lock others may hold for any time.  *)
(***************************************************************************)
In(phase) == task # None /\ task.phase = phase

Records(e, phase) == engine' = e /\ task' = [task EXCEPT !.phase = phase]

Asked == Reduction(task.load, task.id)

HasRoom == AlreadyTrue(a, Asked) \/ ~Full(a)

Reserves ==
  /\ In("new") /\ Allowed(a, Asked) /\ HasRoom
  /\ a' = Reserve(a, task.id, Asked)
  /\ task' = [task EXCEPT !.phase = "waiting", !.expected = ~AlreadyTrue(a, Asked)]
  /\ UNCHANGED <<env, tracker, engine, pending, latch, owner, taken, wire, plant, proven, spoilt>>

Lost == task.expected /\ ~Reserved(a, task.id)   \* mark_dispatch_started raises KeyError

Sends ==
  /\ In("waiting") /\ Allowed(a, Asked) /\ ~Lost
  /\ a' = StartDispatch(a, task.id, Asked)
  /\ task' = [task EXCEPT !.phase = "sent"]
  /\ wire' = wire \cup {task.load}
  /\ UNCHANGED <<env, tracker, engine, pending, latch, owner, taken, plant, proven, spoilt>>

\* Nothing is sent: for want of authority, which the frame survives, or else of room or
\* of the expectation, which no caller tells from an unknown outcome.
Refused ==
  /\ \/ In("new") /\ ~(Allowed(a, Asked) /\ HasRoom)
     \/ In("waiting") /\ (~Allowed(a, Asked) \/ Lost)
  /\ a' = Cancel(a, task.id)
  /\ Records(IF Allowed(a, Asked) THEN DeliveryFailed(engine) ELSE Rejected(engine, task.load),
             "over")
  /\ UNCHANGED <<env, tracker, pending, latch, owner, taken, wire, plant, proven, spoilt>>

AcceptedBy ==
  /\ In("sent") /\ MayAccept(engine, task.load)
  /\ Records(Accepted(engine, task.load), "over")
  /\ pending' = IF pending = None THEN None ELSE [pending EXCEPT !.old = TRUE]
  /\ proven' = (task.load \notin plant)
  /\ UNCHANGED <<env, tracker, a, latch, owner, taken, wire, plant, spoilt>>

\* The outcome is unknown, or the candidate is no longer current when it is accepted.
Ambiguous ==
  /\ In("sent")
  /\ \/ May("ambiguous") /\ Records(DeliveryFailed(engine), "over")
     \/ ~MayAccept(engine, task.load) /\ Records(engine, "raised")
  /\ spoilt' = task.epoch
  /\ UNCHANGED <<env, tracker, a, pending, latch, owner, taken, wire, plant, proven>>

\* _task_done
TaskDone ==
  LET e == IF In("raised") THEN DeliveryFailed(engine) ELSE engine
  IN /\ In("over") \/ In("raised")
     /\ IF pending = None
        THEN task' = None /\ engine' = e /\ UNCHANGED <<a, pending, latch, taken>>
        ELSE Process(pending, a, e, latch) /\ taken' = (taken /\ task' = None)
     /\ UNCHANGED <<env, tracker, owner, wire, plant, proven, spoilt>>

-----------------------------------------------------------------------------
(***************************************************************************)
(* The equipment and everybody else.                                       *)
(***************************************************************************)
Turns(now) ==
  /\ plant' = now
  /\ proven' = (proven \/ (engine.attempt # None /\ engine.attempt.load \notin now))

Arrives(load) ==
  /\ load \in wire
  /\ wire' = wire \ {load}
  /\ Turns(plant \ IF load = "pool" THEN {"pool", "speed"} ELSE {load})
  /\ UNCHANGED <<env, tracker, engine, a, task, pending, latch, owner, taken, spoilt>>

Vanishes ==
  /\ May("lost")
  /\ \E load \in wire : wire' = wire \ {load}
  /\ UNCHANGED <<env, tracker, engine, a, task, pending, latch, owner, taken, plant, proven,
                 spoilt>>

Outsider ==
  /\ May("outsider")
  /\ \E load \in env.on : Turns(IF load \in plant THEN plant \ {load} ELSE plant \cup {load})
  /\ UNCHANGED <<env, tracker, engine, a, task, pending, latch, owner, taken, wire, spoilt>>

Gate ==
  /\ May("gate") /\ ~engine.unloaded
  /\ engine' = SetEnabled(engine, ~engine.gate)
  /\ a' = ConfigureOutage(a, ~engine.gate)
  /\ pending' = IF pending = None \/ engine.gate THEN pending ELSE [pending EXCEPT !.old = TRUE]
  /\ UNCHANGED <<env, tracker, task, latch, owner, taken, wire, plant, proven, spoilt>>

Authorities ==
  /\ \/ May("maintenance")
          /\ a' = ResolveMaintenance(a, IF a.maintenance = "on" THEN "off" ELSE "on")
     \/ May("restraint") /\ a' = SetSuppressed(a, "pool", "pool" \notin a.suppressed)
  /\ UNCHANGED <<env, tracker, engine, task, pending, latch, owner, taken, wire, plant, proven,
                 spoilt>>

Unload ==
  /\ May("unload") /\ ~engine.unloaded
  /\ a' = UnloadOutage(SetOutageDomain(a, FALSE, FALSE))
  /\ engine' = UnloadEngine(engine) /\ pending' = None /\ latch' = None
  /\ UNCHANGED <<env, tracker, task, owner, taken, wire, plant, proven, spoilt>>

Effect == Vanishes \/ \E load \in Loads : Arrives(load)

Delivery == Reserves \/ Sends \/ Refused \/ AcceptedBy \/ Ambiguous \/ TaskDone

Next ==
  \/ Snapshot \/ OrchestrationFailed \/ Delivery
  \/ Effect \/ Outsider \/ Gate \/ Authorities \/ Unload

\* Snapshots keep coming and tasks run; no step of a delivery loses every time to a newer
\* frame, what was sent has its effect or is lost, and of what is sent over and over
\* something arrives in the end.
Fairness ==
  /\ WF_vars(Snapshot) /\ WF_vars(Delivery) /\ SF_vars(Reserves) /\ SF_vars(Sends)
  /\ WF_vars(Effect) /\ SF_vars(\E load \in Loads : Arrives(load))

Spec == Init /\ [][Next]_vars /\ Fairness

-----------------------------------------------------------------------------
\* A command leaves only if nothing newer than the frame it answers is known: no frame
\* waits, and the engine has not been failed, disabled or given another epoch meanwhile.
AnswersNewestFrame ==
  [][Sends => pending = None /\ engine.candidate = task.load /\ engine.epoch = task.epoch]_vars

\* Once the outcome of a command is unknown nothing is sent again in that outage, unless
\* the grid evidence is handed to another sensor: to _epoch_id that is another outage.
AmbiguityEndsEpoch == [][Sends => task.epoch # spoilt]_vars

\* A reduction is taken for verified only if its load was off after it was accepted,
\* even when evidence lags, effects are late or lost, or others turn the load again.
VerifiedIsReal ==
  [][(engine.attempt # None /\ engine.verified # engine.attempt.load
        /\ engine'.verified = engine.attempt.load)
       => proven]_vars

\* Automatic drivers stay locked out until the grid is back: no lack of evidence, no
\* failure and no operator ends the domain of an outage that is still confirmed.
DomainEndsOnlyByReturn ==
  [][(a.outage.active /\ ~a'.outage.active) => (~tracker'.confirmed \/ engine'.unloaded)]_vars

\* A circulation PoolOS does not own is left alone (ADR-005).
ExternalPoolIsLeft == [][Sends /\ task.load = "pool" => owner # "outsider"]_vars

\* In an outage that lasts and is well observed, everything the policy lets it reduce
\* is off in the end, although commands are lost.
Benign == env.changes \subseteq {"lost", "lags"}

ReductionCompletes ==
  (Benign /\ tracker.confirmed) ~>
     (plant \subseteq (IF env.owned THEN {} ELSE {"pool", "speed"}))
=============================================================================
