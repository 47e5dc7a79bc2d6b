# PoolOS: specifications and proofs

PoolOS supervises a residential pool behind Home Assistant.  It observes an
IntelliCenter controller, decides when the Pool has to circulate (filtration) or
to be heated (thermal), and sends single bounded commands through one physical
gateway.  What is hard in it is not any one decision.  It is who owns the shared
pump and body at a moment, what a command that was queued or sent earlier is
still entitled to, and what survives lost evidence, an operator, a failure, a
reload.  These modules specify that part.

Paths below are relative to `src/`.

## 1. Inventory

| Component | State | Operations | Interacts with | Model |
|---|---|---|---|---|
| Ownership evidence, `poolos/ownership_evidence.py` | authority, health, blocker, episode of one domain (BODY, PUMP) | observe a frame, reserve a correction, deny permission | registry, thermal lease | OwnershipEvidence, DomainReconciliation |
| Circulation registry, `poolos/pool_circulation_ownership.py` | owner, filtration lease, thermal lease id, pending token, generation, epoch, reservation | begin epoch, reserve, adopt, record, confirm, suspend, resume, hand over both ways, release, unload | filtration and thermal drivers, sanitation, operator boundary | CirculationRegistry, PoolCirculation |
| Filtration driver and runtime, `poolos/filtration_automatic_execution.py`, `custom_components/poolos/filtration_automatic_runtime.py` | enabled, session, attempt, last epoch, re-enable latch; latest frame, one task, admitted context | process an epoch, deliver, verify, fail, suspend, recover; observe, schedule, task done, unload | registry, authority, manual delivery | FiltrationDriver, FiltrationRuntime |
| Physical command authority, `poolos/physical_command_authority.py` | mode, Maintenance, restraints, epochs and contexts, gates, outage domain, sanitation, expectations | begin epoch, bind, assess, invalidate, reserve, supersede, correlate | every driver, the gateway | PhysicalAuthority, CommandGateway |
| Manual IntelliCenter, `custom_components/poolos/manual_intellicenter.py` | connection, command lock | deliver one command | authority, suppression, pump sessions | CommandGateway, PumpSessionRuntime |
| Operator switches and buttons, `custom_components/poolos/switch.py`, `button.py` | restored state | Maintenance, restraints, gates, Reset | authority | CommandGateway |
| External change, `poolos/external_change.py`, `custom_components/poolos/external_change_runtime.py` | baseline, retained events | correlate, retain, attribute | authority, drivers, pump sessions | CommandGateway, PumpSessionRuntime |
| Pump sessions, `poolos/pump_speed_session.py`, `poolos/pump_target_session.py`, `custom_components/poolos/pump_speed_session.py` | session, override, pending request | observe, request, answer, apply a change, expire | authority, drivers, number entities | PumpSession, PumpSessionRuntime |
| Grid outage, `poolos/grid_outage_*.py`, `custom_components/poolos/grid_outage_runtime.py` | confirmation, safety lifecycle, one task and one waiting frame | confirm, reduce, verify, gate, unload | authority | GridOutageConfirmation, GridOutageSafety, GridOutageRuntime |
| Sanitation, `poolos/sanitation.py`, `custom_components/poolos/sanitation_runtime.py` | session, task, saves | start, observe, cancel, abandon, restore, unload | authority, outage, store | SanitationController, SanitationRuntime |
| Suppression, `poolos/pool_automatic_control_suppression.py` | restraint per scope | suppress, resume | every automatic driver | CommandGateway (whole body only) |
| Thermal, `poolos/thermal_*.py`, `custom_components/poolos/thermal_automatic_runtime.py` | session, termination, cleanup provenance, lease | acquire, promote, verify, terminate, hand over | registry, authority, pump sessions | only its calls on the registry and its pump commands |
| Reevaluation, `poolos/reevaluation_*.py`, `poolos/runtime_trigger_coalescing.py` | scheduled deadlines | schedule, coalesce, submit | runtime | no |
| Execution pipeline, `poolos/execution_*.py` | plan and step states, dispatch identities | advance, dispatch, verify, recover | transports | no |
| Transport and coordinator, `custom_components/poolos/independent_intellicenter.py`, `coordinator.py` | connection, refresh tasks | refresh, reconnect | everything | no |
| Policy, accounting, reports | none that controls | pure computations | | no |

Everything runs on one event loop, so the steps that interleave are the stretches
between two awaits.  The behaviours that are hard, each listed at its line in
`PROJECT.json` under `hazards`:

* a command is decided for one frame, waits for the connection and for the command
  lock, is sent, and is answered and takes effect later; at each of those moments the
  operator, thermal, sanitation, an outage, a failure or unload may have changed what
  it is entitled to;
* frames that arrive during a task are coalesced into the latest one;
* samples are late, repeated, out of order, unusable or missing;
* attempts and requests have deadlines, drifts have a budget of corrections;
* leases, tokens, contexts, sessions and expectations are referred to after they are
  gone;
* what PoolOS did must be told from what somebody did, with effects that are late,
  lost, superseded or seen twice;
* a crash falls between two saves, and a restart restores the switches one by one.

## 2. Modules

```
OwnershipEvidence <- DomainReconciliation (refines BoundedReconciliation)
                            ^
                     DomainReconciliationProofs
       ^
CirculationRegistry <- PoolCirculation <- PoolCirculationProofs
       ^                       ^                  ^
FiltrationDriver <---- FiltrationRuntime <- FiltrationRuntimeProofs

PhysicalAuthority <- CommandGateway
       ^   ^
       |   +-- GridOutageRuntime -> GridOutageSafety -> GridOutageConfirmation
       +------ SanitationRuntime -> SanitationController

PumpSession <- PumpSessionRuntime <- PumpSessionProofs

PhysicalAuthority <- PhysicalAuthorityProofs, lemmas that
  CommandGatewayProofs, GridOutageProofs and SanitationProofs extend

NoValue declares None for all of them
```

(`A <- B`: B extends A.)  Records that are immutable values in the code are records
here, and objects with methods are too: a method is an operator from old to new, and
one that may raise has a `May...` operator for the condition under which it does not.
Names follow the code.  Operators ending in `_M` are used by no definition: each is a
slip a change of the code could make that a checked property has to notice
(`mutants` in `PROJECT.json`).

**OwnershipEvidence** is `ownership_evidence.py` and the two ways an owner changes
a domain around a delivery (`_deliver` reserves a correction, `_fail` faults the
domain).  `Observe` keeps the order of the early returns of `observe`.  What an
episode is bound to is one value of `Bindings`, because the code compares it as a
whole.

**DomainReconciliation** lets one owned domain observe frames whose sample time is
any time, or none, while commands are delivered, fail, and an operator acts.
**BoundedReconciliation** is what an owner may rely on, in four phases; the
refinement mapping is `Phase` and `Spent`.

**CirculationRegistry** is `pool_circulation_ownership.py`; `WithOrigins` is the
end of the lease constructor, `WellFormed` is what it refuses.  **PoolCirculation**
calls it in every order its callers could, with any time in the clock; the runtime that
holds the registry extends it.

**FiltrationDriver** is `process_epoch` as a function from registry, driver and
frame to registry, driver and what follows, with one operator per branch and the
code's order of decisions; `Delivered` is the part of `_deliver` behind its await
and reads the registry and driver of that later moment.

**FiltrationRuntime** composes it with the runtime and with PoolCirculation: the
registry is `reg`, filtration's calls are made by the driver, several in one step, and
those of thermal and unload are the actions of PoolCirculation.  `SomeSnapshot` is one
publication (the thermal observer begins the epoch and may reserve it, then the
filtration observer); `TaskStarts`, `GatewaySends` or `GatewayRefuses`, `Reply`,
`TaskDone` are the stretches of the execution task; `Switch`, `OperatorSetsPump`,
`OperatorStopsPool`, `OperatorLiftsRestraint` are the operator; `ThermalActs` is
what the thermal driver calls on the registry at its own awaits;
`OrchestrationFails`, `SanitationBoundary`, `Unload` and `PlantChanges` are the
rest.  The gateway's part of the physical authority is `MayDispatch`: a context is
withdrawn by every new authority epoch, by the gate and by unload, and a cleanup
asks the ownership once more.  What it leaves out of a frame, and why it may:

* a pump session is never active and targets are RPM: `adopt_pump_session` and
  `retain_filtration_body_for_pump_session` are only in PoolCirculation; the binding
  of the pump session is taken as current, although the run `filtration_pump_session`
  shows an installation on which it never is;
* `_externally_preempted`: it asks of an event in the frame the evidence of an operator
  about BODY and its circuit "B1101"
  (`poolos/filtration_automatic_execution.py:1076-1088`).  The evidence that
  `external_change_runtime.py:204-283` attaches to events, while a thermal lease is
  owned, is about PUMP ("pump.rpm", "pump.gpm") or THERMAL, and `record_operator_intent`
  refuses it too, since it wants the pump's circuit (`pool_circulation_ownership.py:199`).
  The evidence that does reach filtration is that of a manual command
  (`thermal_automatic_runtime.py:475-485`), which is `Told`;
* the pump turns at its configured speed exactly while water circulates, so "pump
  stopped" and "Pool off" are one fact;
* epochs and sessions are names; a snapshot takes one nothing refers to.

`hass.async_create_task` starts a task at once or in a later turn depending on the
Home Assistant release; the code pins none.  `Turn` models the first, and the
environment `"lazy"` the second.

**PhysicalAuthority** is `physical_command_authority.py` as operators on one record:
the gates, the epoch, frame or session each automatic source is bound to (`current`),
who withdraws which, and the registry of expected consequences with its limit and
its time to live.  `Allowed` has the order of `assess`.  A context is one name,
because the code compares all of it.

**CommandGateway** is `_async_deliver`: `Asks` is the stretch up to the command lock
(check, reserve), `TakesLock` the one up to the transport (check again, supersede,
mark, send), `Answered` the one behind it; `TakesEffect` is the controller, on its own
time.  Around it are the switches, Reset, restart with restoring, the
outage domain, sanitation and `Snapshot`, which correlates what changed and arms the
restraint of the Spa.  A reading may be missing: what the authority has no value of is
neither "already true" nor "off".  What it leaves out, and why it may:

* a Pool that goes off by itself arms a transient restraint, which a Spa that comes on
  lifts again (`_pending_pool_off_at`, `external_change_runtime.py:133-150`): the
  authority is told of durable restraints only
  (`custom_components/poolos/__init__.py:567-569`,
  `pool_automatic_control_suppression.py:206-210`), so neither reaches it;
* the restraint of the Spa may lapse over a restart whoever armed it, which allows more
  than the code does, and one restored from storage counts as the operator's;
* a pump speed expects a configured and an actual speed
  (`manual_intellicenter.py:751-766`); the model has one expectation;
* what a manual body Off arms before it is delivered happens without the command, as
  `Suppresses` or `Sanitation`; `GatewayAssumption` says that the manual commands of
  bodies in an environment are On.

**GridOutageConfirmation** is the tracker, **GridOutageSafety** the engine with its
choice of the next load and its verification, **GridOutageRuntime** its runtime: one
delivery task, one slot for the newest frame that waits for it, the entitlement to
stop the Pool, the gate, failure and unload.  `proven` and `spoilt` are its history: that
the load of the attempt was off, and the epoch in which an outcome was unknown, which is
forgotten when the grid evidence changes its sensor (section 4).  The motor may run on
after its circuit is off (`lingers`), which keeps a Pool Off unverified and a lower speed
pending; it is never slower than it was told.

**SanitationController** is `SanitationController.observe` and what a restart makes
of a saved session; **SanitationRuntime** adds the task, the saves, crash, boot,
cancel, abandon and unload.  A save takes the session as it is when it starts and ends at
any time, before or after older ones: each has a `Store` of its own, and nothing is
locked between them.  Unload waits for its own save (`up` is `"saving"`), then, with the
session ended for the authority, for the delivery under way (`"closing"`); cancellations
and Reset do not ask whether the runtime is unloaded, and the saves still under way end
in the next life of the entry (`of` is `"before"`).  After a crash those that were under
way are gone.  A manual Off of the body waits for the lock like any other command.
`ended` and `final` are its history: the sessions whose cancellation the store has held,
and those of which nothing older was left at that moment.

**PumpSession** is `poolos/pump_speed_session.py`: boundaries, a request from its
beginning to its answer, changes and correlation.  **PumpSessionRuntime** is a frame
as `observe_native_snapshot` handles it (`Frame`: boundaries first, then what changed
and what explains it, then the session hears of it and the authority is bound),
the number entity (`ManualAsks`, `Answered`), thermal's speed command (`ThermalAsks`),
the lock with the two checks that compare the session (`TakesLock`), and the
Maintenance switch.  Its only history is `word`, the speed somebody asked for last in
this session, or `Contested` where the order is not for the code to know: a panel
change while a request is undecided or that no frame has shown, a refusal behind
another pending request, a session that begins with a command of the last one on its
way.  Frames are strictly ordered; an unusable reading keeps its value; one pump
circuit; thermal plans only for a session nobody overrides.  The lease of thermal and
the staleness of its epoch are left out, which allows more than the code does.

## 3. Runs

| Run | Question | Bounds |
|---|---|---|
| `domain_reconciliation` | deadline and causality of one drift; it implements the promise, and every episode ends | clock 0..4, window 2, budget 2, three request identities, two bindings |
| `pool_circulation` | one owner, well-formed leases, tokens with their donor, generations, the operator's domains | two instants, two generations, symmetric names |
| `filtration` | in-flight commands against thermal, faults, sanitation and the operator; lost wake-ups; who lifts a fault; one command at a time; a queued command is entitled when sent; unload with a command in flight | clock 0..3, one lease and one returned; tasks start at once or late |
| `filtration_liveness` | an attempt is verified or failed; what is no longer due is stopped, a lost Body Off included | clock 0..3, fair |
| `command_gateway` | a withdrawn command is not sent, restraints outlive a restart, expectations stand for sent commands | two expectations, one tick to live, two or three sources |
| `grid_outage` | reductions answer the newest frame, ambiguity ends the epoch, verification is real, the domain ends by return only, load comes off | confirmation 2, timeout 2, six outage names |
| `sanitation` | cancellation survives a crash once nothing older is left, only verified time counts, authority follows the session, it ends, outages or not | duration 3, gap 2, granularity 2, two saves under way |
| `pump_sessions` | the last word of a person is the speed in force, thermal yields, nothing stays pending | three speeds, two purposes, one command on its way, one tick to live |
| `suspended_acquisition`, `unowned_pool`, `filtration_pump_session`, `cancelled_session` | four statements of the documents the code does not keep | as above |

**Environments.**  All that may happen at once is beyond reach.  Each behaviour
therefore picks one environment from the set `Environments` of its configuration (a
set of kinds of events, in the gateway with the commands that are asked), and each
property is checked in those environments that could break it: two or three events
whose crossing is a listed hazard.  The sets are in the configurations of filtration
and in the MC modules of the others.

**Bounds.**  A clock of three ticks is enough for filtration because a verification
takes one tick after its command (`Timeout` = 1) and the longest chain of one lease is
body on, its verification together with the speed command, the speed's verification,
body off and its verification.  Snapshots go on after the clock stops, so late frames
and late replies still happen; an attempt whose deadline lies beyond the clock is
named `OutOfTime` and excluded.  `MaxGeneration` stops new leases at the gateway, which
may refuse a command for many reasons; one lease with a predecessor or successor shows
every stale reference, since references are only compared for equality.  In the
gateway two sources, in one environment three, compete for the lock; that is every
order of a command and a competitor around a change.  Outage and sanitation count
their deadlines down, so
their runs have no last instant; a session of three ticks with a granularity of two
has a save in its middle and an end that is not a multiple of it, and a gap of two
separates a late frame from a lost one.  A pump request lives one tick, which is after
the freshness of an observation, as 45 s are after 30 s.  With one command on its way
at a time an unanswered one still lands after its session or its request is over.

**Names.**  Tokens, epochs and sessions are numbers and a new one is the first that
nothing refers to; there are always enough, or `CHOOSE` would fail the run.  In the runs
of filtration and sanitation a `VIEW` makes one state of those that differ in names only.
That is sound for what is checked in them: names are compared for equality and nothing
else, so such states have the same successors up to names, and no property speaks of one
name; this holds of the liveness properties and the fairness too, whose actions are
enabled and taken alike on both sides.  `View` of the MC modules says what is left of
the names.

**Fairness.**  The native source is polled, so snapshots keep coming (weak fairness of
`SomeSnapshot`, `Snapshot`, `Frame`); the event loop runs what is ready and a transport
call returns or times out (`TaskSteps`, `Delivery`, `SaveEnds`); time passes.  Strong
fairness is used where a step is enabled again and again rather than for good: frames
withdraw and renew the context of a waiting outage command (`Reserves`, `Sends`), and of
commands sent over and over one takes effect (`Arrives`).  Nothing is assumed of the
operator, of thermal or of the water, and of sanitation only in the environments of which
`SessionEnds` speaks (`Benign`).

`CHECK_DEADLOCK FALSE` appears in `filtration` only: an unloaded runtime has
nothing left to do.

## 4. Where code and documents disagree

* `suspended_acquisition`: evidence is lost after the body is verified and while the
  speed command is unverified; the lease is suspended, and stays suspended with all
  evidence back (`poolos/filtration_automatic_execution.py:656-668`).
* `unowned_pool`: the entitlement to stop the Pool is taken when an outage is pending and
  outlives the ownership it was taken from, so PoolOS stops a Pool that somebody turned
  on in between (`custom_components/poolos/grid_outage_runtime.py:155`).
* `filtration_pump_session`: a filtration frame takes its session from the runtime in
  gallons, which also exists for a pump that has speeds only as soon as its unit is known,
  while the authority is bound to the session in revolutions; from the first frame
  with both the ids differ, and an automatic pump command of filtration is stale
  (`custom_components/poolos/filtration_automatic_runtime.py:322`).  While the unit is
  unknown they agree;
* `cancelled_session`: `store` makes a new `Store` on every access, so a save of the
  running session can end after the later one of its cancellation; a crash or a reload then
  restores the session as running
  (`custom_components/poolos/sanitation_runtime.py:94`).  `CancelIsDurable` says what is
  left: a cancellation holds once nothing older of the session is on its way.

Observed on the way, without a run of their own:

* withdrawing a context drops the expectations of its commands, those already sent
  included, so PoolOS's own Pool Off, seen after an outage began, arms the Pool's
  restraint, against ADR-107:74 ("Accepted dispatch retains it until matching
  authoritative native evidence consumes it or it expires");
* a frame without a sample time makes a domain forget the newest one, so an older
  sample may open an episode (it never verifies one: `ConvergenceIsCausal`);
* with the pump under the operator a hand-over token is issued that can never be
  completed (`poolos/pool_circulation_ownership.py:541`);
* an unknown outcome blocks the outage epoch, but `_epoch_id`
  (`poolos/grid_outage_physical_safety.py:1171`) has the evidence's source in it: when the
  evidence is handed over between the real and the simulated sensor in the same
  confirmed outage, the epoch is another one, `_blocked_outage_epoch` is cleared, and a
  reduction may be sent again, later even in the very epoch that was blocked.
  ADR-005:138 ("If transport may have started or its outcome is ambiguous, the outage
  epoch fails closed and PoolOS does not resend the command") knows no such way out.
  `AmbiguityEndsEpoch` therefore ends with a handoff; the environment `"handoff"`,
  `"ambiguous"`, `"lost"` of `grid_outage` has the behaviour;
* a failed Body Off faults BODY and keeps the lease; every later cleanup asks that domain
  and is refused while it is faulted: `CleanupEnds` ends there (`BodyIsBeyondReach`);
* a pump command that supersedes another before a frame has shown its effect retires its
  expectation, so PoolOS's own speed can become an override by somebody in the next
  session; and a dispatched expectation whose effect is never shown explains, until its
  time is up, a panel change to the same value;
* filtration is failed closed, as by an orchestration that fails, with a command on its
  way; thermal takes the circulation and gives a lease back before that command ends
  without an answer.  `_fail` then finds a lease whose body is verified, keeps
  it with one domain faulted, and lifts the fault that waits for the operator, which was
  another (`poolos/filtration_automatic_execution.py:1240`).  `ReenableIsTheOperators`
  names that lease (`ForeignLease`); its run has the behaviour;
* a task that starts in a later turn than the one that scheduled it begins its own,
  older epoch again, which clears the reservation thermal made in the newer one
  (`poolos/pool_circulation_ownership.py:245`): filtration may then send what it
  queued for a circulation that thermal has reserved or owns.  `DispatchIsEntitled` says
  nothing of ownership and reservation where tasks start late; its run has the behaviour;
* a request refused before dispatch while another is pending rolls back to what was
  before both; a refused request for the configured speed ends the override anyway;
* Maintenance resets the session in revolutions and not the one in gallons.

Hazards without a property carry a `note` in `PROJECT.json`: no document says what
should happen, or the promise is made by a part that is not modelled.

## 5. Proofs

| Module | Theorems, each for every value of the constants |
|---|---|
| DomainReconciliationProofs | `DomainTypeCorrect`, `DriftsCloseCausally`, and `PromiseIsKept`: the domain implements BoundedReconciliation |
| PoolCirculationProofs | `TypeCorrect`, `OwnerIsSingle`, `LeasesAreWellFormed`, `DonorIsThere`, `GenerationsAreFresh`, `OperatorIsNotOverruled`, `TransfersAreEarned` |
| FiltrationRuntimeProofs | `FiltrationTypeCorrect`, `NoLostSnapshot`, `UnloadStaysFinal`, `OneUnverifiedCommand`, `ThermalKeepsCirculation`, `FaultIsTheOperators`, `DispatchStaysEntitled`; and of the registry in use `SharedRegistryIsSound`, `SharedGenerationsAreFresh`, `SharedOperatorKeeps`, `SharedTransfersAreEarned` |
| CommandGatewayProofs | `GatewayTypeCorrect`, `OnlySentCommandsExplain`, `WithdrawalIsFinal`, `RestraintsOutliveRestarts` |
| GridOutageProofs | `GridTypeCorrect`, `CommandsAnswerNewestFrame`, `UnknownOutcomeClosesEpoch`, `VerifiedReductionsAreReal`, `DomainEndsWithOutage` |
| SanitationProofs | `SanitationTypeCorrect`, `CancellationsLast`, `LockFollowsSession`, `EndedSessionsAreSilent`, `OnlyVerifiedTimeCounts` |
| PumpSessionProofs | `PumpTypeCorrect`, `ThermalYieldsToPersons`, `LastWordStands` |

Together they state every safety property of every passing run.  The bounds of the runs
do not limit them: any number of sources, tokens, loads that are on, sessions, saves,
speeds, commands on their way and instants the assumptions below allow, and any
environment, which is to say everything that may happen at once.  What the code does not
keep is excluded in the properties, by name, and not in hypotheses of the theorems:
`ForeignLease` and the late start of a task (section 4), Reset in `EarnedOnly`, what is
older than a cancellation in `CancelIsDurable`.

**The argument** is the same in each: an inductive invariant `IInv`, one lemma per action
or group of actions that keeps it, and the lemma that it holds in every state, from which
the theorems follow.  TLC has checked each `IInv`, and `WordInv`, as an invariant on the
instances of its runs.  None of the properties is inductive alone:

* *DomainReconciliation*: that an episode stays within its budget and window
  (`WithinBounds`) needs that its corrections are a finite set (`Charged`); the refinement
  also needs that the domain is somebody's (`Held`).
* *PoolCirculation*: that a suspension has a lease to suspend needs the agreement of owner
  and lease; that a token's donor is verified needs that a step which keeps the token
  keeps the lease.  `RegInv` joins the type, those agreements, well-formedness and a
  generation not above the registry's; the action properties follow from it and
  `LeaseSteps`: a step keeps the lease's generation and what its operator took (`Kept`), or
  it makes a lease of a newer generation (`Fresh`).
* *FiltrationRuntime*: the registry beside it keeps `RegInv`, and a token only while the
  owner is `FILTRATION_TO_THERMAL` (`Pledged`).  Nothing in the registry ensures the
  second, since its methods confirm a delivery for whoever owns; it rests on the driver:
  as long as a command other than Body Off waits for its verification, the owner is still
  acquiring or suspended (`Acquiring`), and not yet the one a hand-over begins with.  No
  lease begins after the latest snapshot (`Timed`).  A task that waits for a delivery has
  no attempt, no fault but orchestration's comes over it, and one that has begun has told
  the driver which frame is its last (`Staging`).  A driver that waits for the operator has no session, and no lease unless
  thermal gives leases back (`Latched`).  After unload nothing is held (`Unloaded`).  For
  `DispatchStaysEntitled`: the registry's epoch is the published frame's, and reserved
  exactly if that frame saw a candidate (`Published`), nothing is reserved without thermal
  (`Unreserved`), and a queued command whose context lives is one filtration is entitled
  to (`Entitled`).  The driver is proved a function at a time: `Good` says what
  `process_epoch` and each of its branches may make of registry and driver, for any
  registry, driver and frame.  The properties of single calls in PoolCirculation hold of
  whole stretches too: `Moves`, what filtration may make of a registry, is transitive and
  has `Evolves` in it, what any number of calls may do to a lease, and thermal's calls are
  steps of PoolCirculation (`CallsShift`).
* *CommandGateway*: a request that was withdrawn while it waits has lost something it
  cannot get back, its context or its expectation (`WithdrawnAreLost`).  For that an
  expectation belongs to one request only (`Own`), who waits was not sent (`Waiting`),
  and a started expectation was dispatched (`StartedAreDispatched`).  A restraint is in
  force or waited for by the startup barrier (`Restrains`).
* *GridOutage*: a task whose context is registered delivers the candidate of the newest
  frame (`Current`); the frame that waits says what the tracker still knows (`Waits`, hence
  the return of the grid is never processed late); the engine and the authority agree on
  gate and epoch (`Agree`); an unknown outcome has closed its epoch, or its answer is about
  to, or tracker and engine have left it for good (`Spoilt`); and a load that is off in
  the plant, or in a waiting frame that is not old, is `proven` (`Witnessed`).
* *Sanitation*: of a session in `final`, what runs, what is stored and every save under way
  is a cancellation or nothing (`Durable`), and the order of the saves does not matter to
  that; a task's context is the session's or is stale for good (`Registered`); the
  countdown started at a frame that qualified (`Earned`).

* *PumpSessionRuntime*: `IInv` is about the lock and what refers to it.  The queue holds
  one call of thermal and two of persons at most, under different names, and only its head
  was sent; every expectation is of such a call, or of one that was sent, and one of the
  latter at most (`Lock`); what the session waits for is a person's request of this
  session that is not answered while its call is there, and thermal's calls of this
  session ask for its configured speed (`Held`); the authority is bound to the session
  (`Bound`).  `ThermalYieldsToPersons` follows, because a call that was taken over fails
  the comparison in the lock.  The last word is a second invariant on top of it,
  `WordInv`.  As long as the order of the words is known, the speed in force is the one
  somebody wants, or the panel shows it and the next frame will take it for theirs
  (`InForce`, `Adopts`).  That is kept because an answer comes when its speed is set
  (`Landed`); because behind a request that was superseded stands the one that superseded
  it (`Newest`); and because a command on its way that nobody waits for any more sets the
  configured speed (`Harmless`) and is accounted for when the frame shows it
  (`Accounted`).  Like the property, `WordInv` is about the environments in which nothing
  is lost: no request expires, and no command is answered before it has taken effect
  (`Still`).

PoolCirculationProofs has one lemma per method of the registry, that it keeps `RegInv`.
PhysicalAuthorityProofs has one lemma per method of the authority: that it keeps the
type, and that it only withdraws (`Withdrawn`: contexts are kept or dropped, expectations
are dropped or grow older), which everything does but binding, reserving and sending.

**Assumptions**, each evaluated by TLC on every run of its module:

* `None` is none of the values it stands beside (three times `NoneAssumption`,
  `NoEpisodeAssumption`, `DriverAssumption`, `CommandAssumption`, `EpochAssumption`,
  `SessionAssumption` of SanitationController, two times `TaskAssumption` and a part of `SafetyAssumption`): it is Python's `None`;
* durations, budgets and limits are positive, as the constructors demand;
* names do not run out: identities in the code are UUIDs and timestamps.  The gateway only
  takes a step that has a name left (`TokenLeft`); `NamesAssumption` of FiltrationRuntime,
  of GridOutageRuntime and of PumpSessionRuntime and `RuntimeAssumption` of
  SanitationRuntime ask for as many names as can be in use and one more;
* configured speeds are speeds, a request lives some time, and there is a purpose
  `"ordinary"`, the one of a pump without another (`SessionAssumption` and
  `RuntimeAssumption` of the pump sessions);
* there is a pump circuit and something for an episode to be bound to, and more
  identities of requests than a budget spends (`TimeoutAssumption`);
* `FILTRATION` asks for the Pool and the pump speed only (`GatewayAssumption`), which is all
  `FiltrationLiveDelivery` has; there is a real grid sensor (`ConfirmationAssumption`); a
  session's name is a context's name (`Sessions \subseteq Tokens`).

**Only model-checked**: liveness (`EpisodeSettles`, `AttemptSettles`, `CleanupEnds`,
`ReductionCompletes`, `SessionEnds`, `PendingEnds`), which is out of the prover's reach
together with `ENABLED`.  A violation the runs expect is a behaviour, and needs no proof.

## 6. Not modelled, and the plan

Partly modelled: suppression (whole bodies; no scopes, no opportunities), external change
(correlation, retained changes and the restraint an Off arms; no ownership policies, no
drift, no schedules), the session in gallons (its boundaries only), manual commands
(their delivery, not the configuration writes), thermal (its calls on the registry
and its pump command).

Not modelled yet: thermal ownership, orchestration, execution, termination and cleanup;
confirmation of observation health; reevaluation (ADR-045 to ADR-050); the
execution pipeline (ADR-034, ADR-056 to ADR-067); the work queue and event bus;
transport and coordinator.

Next, in this order:

1. Thermal ownership and execution, composed with PoolCirculation in place of
   `ThermalActs`, and with PumpSessionRuntime in place of `ThermalAsks`.
2. Suppression with scopes and opportunities; the session in gallons.
3. Reevaluation, then the state machines of the execution pipeline.
4. Coalescing in transport and coordinator.

Not planned: policy, accounting and reports (pure computation of which the drivers
read one Boolean), entities, settings panel and configuration flow (wiring), and
vendored code.
