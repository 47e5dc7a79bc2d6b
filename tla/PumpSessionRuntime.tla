------------------------- MODULE PumpSessionRuntime -------------------------
(***************************************************************************)
(* The pump sessions at work.  Frames of the controller establish and end  *)
(* them (custom_components/poolos/pump_speed_session.py) and tell what a   *)
(* command of PoolOS did from what somebody did on the panel               *)
(* (external_change.py); people ask for a speed in Home Assistant          *)
(* (number.py); thermal sends the session's speed.  The authority binds    *)
(* the session of the moment, and the command lock checks against it.      *)
(*                                                                         *)
(* A pump with speeds only: the session in gallons per minute never is the *)
(* one in force, but the runtime keeps it (unit).                          *)
(***************************************************************************)
EXTENDS PumpSession, Sequences, FiniteSets, SequencesExt

CONSTANTS
  Environments,  \* what happens, one set per behaviour
  InFlight       \* bound of commands whose effect is still to come

ASSUME RuntimeAssumption ==
  /\ InFlight \in Nat \ {0} /\ "ordinary" \in Purposes
  /\ Environments \subseteq
       SUBSET {"panel", "second", "thermal", "purpose", "idle", "unusable", "unit", "lease", "mode",
               "maintenance", "reconnect", "refused", "unknown", "time"}

\* There is always a name that is not in use.
ASSUME NamesAssumption ==
  /\ \A used \in SUBSET Requests :
       IsFiniteSet(used) /\ Cardinality(used) <= 5 + InFlight => Requests \ used # {}
  /\ \A used \in SUBSET Sessions :
       IsFiniteSet(used) /\ Cardinality(used) <= 4 => Sessions \ used # {}

VARIABLES
  env,        \* the environment of this behaviour
  s,          \* the session of PumpSpeedSessionRuntime, None if there is none
  unit,       \* [purpose, moved] of the session of PumpTargetSessionRuntime, or None
  bound,      \* _pump_session_binding of the authority: [id, value], or None
  base,       \* [maintenance, auto]: what the authority knows of both
  truth,      \* the configured speed in the newest frame
  comparing,  \* the change monitor has a baseline to compare with
  retained,   \* the newest change nothing explained, which comes with every frame
  expected,   \* consequences of commands: [id, value, left, started]
  calls,      \* requests at the command lock in their order, the head may be sent
  wire,       \* [id, value] sent, with the effect still to come, in order
  native,     \* the configured speed of the controller
  plan,       \* the speed thermal wants since the newest frame, or None
  word        \* the speed somebody asked for last in this session, None, or Contested

vars == <<env, s, unit, bound, base, truth, comparing, retained, expected, calls, wire,
          native, plan, word>>

Contested == 0   \* who came last is not for the code to know

Call == [id : Requests, session : Sessions, value : Speeds, thermal : BOOLEAN,
         expects : BOOLEAN, sent : BOOLEAN]

TypeOK ==
  /\ s \in Session \cup {None}
  /\ unit \in [purpose : Purposes, moved : BOOLEAN] \cup {None}
  /\ bound \in [id : Sessions, value : Speeds] \cup {None}
  /\ base \in [maintenance : BOOLEAN, auto : BOOLEAN]
  /\ truth \in Speeds /\ native \in Speeds
  /\ comparing \in BOOLEAN
  /\ retained \in Change \cup {None}
  /\ expected \subseteq [id : Requests, value : Speeds, left : 1..Ttl, started : BOOLEAN]
  /\ Cardinality({e \in expected : e.started}) <= 1
  /\ calls \in Seq(Call)
  /\ wire \in Seq([id : Requests, value : Speeds])
  /\ plan \in Speeds \cup {None}
  /\ word \in Speeds \cup {None, Contested}

Init ==
  /\ env \in Environments
  /\ s = None /\ unit = None /\ bound = None
  /\ base = [maintenance |-> FALSE, auto |-> TRUE]
  /\ native \in Speeds /\ truth = native /\ comparing = FALSE
  /\ retained = None /\ expected = {} /\ calls = <<>> /\ wire = <<>>
  /\ plan = None /\ word = None

-----------------------------------------------------------------------------
BaseAllows == ~base.maintenance /\ base.auto

\* synchronize_authority
BoundTo(x) == IF x = None \/ ~x.usable THEN None ELSE [id |-> x.id, value |-> Effective(x)]

SessionsInUse == {c.session : c \in Range(calls)} \cup (IF s = None THEN {} ELSE {s.id})

RequestsInUse ==
  {c.id : c \in Range(calls)} \cup {w.id : w \in Range(wire)} \cup {e.id : e \in expected}
    \cup (IF IsPending(s) THEN {s.override.request} ELSE {})
    \cup (IF s # None /\ s.cancelling # None THEN {s.cancelling.request} ELSE {})

FreshRequest == CHOOSE r \in Requests : r \notin RequestsInUse

Without(id) == {e \in expected : e.id # id}

\* supersede_dispatched_expectations and mark_dispatch_started
Dispatched_M(expectations, c) ==   \* mutant: an older command keeps its expectation
  {[e EXCEPT !.started = @ \/ e.id = c.id] : e \in expectations}

Dispatched(expectations, c) ==
  {[e EXCEPT !.started = @ \/ e.id = c.id] :
     e \in {x \in expectations : ~(x.started /\ x.id # c.id)}}

Reserved(c) ==
  IF c.expects
  THEN expected \cup {[id |-> c.id, value |-> c.value, left |-> Ttl, started |-> FALSE]}
  ELSE expected

\* _async_deliver, from reserve on: a free lock is taken in the same step
Enters(c) ==
  LET direct == calls = <<>> IN
    /\ direct => Len(wire) < InFlight
    /\ calls' = Append(calls, [c EXCEPT !.sent = direct])
    /\ expected' = IF direct THEN Dispatched(Reserved(c), c) ELSE Reserved(c)
    /\ wire' = IF direct THEN Append(wire, [id |-> c.id, value |-> c.value]) ELSE wire

-----------------------------------------------------------------------------
(***************************************************************************)
(* A person asks in Home Assistant: _async_set_manual_pump_speed.          *)
(***************************************************************************)
Persons == {c \in Range(calls) : ~c.thermal}

\* The session has the request, and the authority its speed, before it is sent.
BindsBegun_M(begun) == bound   \* mutant: the authority hears of it with the answer

BindsBegun(begun) == BoundTo(begun)

ManualAsks ==
  \E v \in Speeds :
    LET q     == [id |-> FreshRequest, session |-> s.id, value |-> v]
        begun == Begun(s, q)
        c     == [id |-> q.id, session |-> s.id, value |-> v, thermal |-> FALSE,
                  expects |-> truth # v, sent |-> FALSE]
    IN /\ MayBegin(s)
       /\ Cardinality(Persons) < (IF "second" \in env THEN 2 ELSE 1)
       /\ \/ /\ ~BaseAllows \/ "refused" \in env
             /\ s' = Failed(begun, q) /\ bound' = BoundTo(s')
             /\ word' = IF v = Baseline[s.purpose] /\ truth = native /\ wire = <<>> THEN v
                        ELSE IF v = Baseline[s.purpose] \/ Undecided(s) THEN Contested
                        ELSE word
             /\ UNCHANGED <<calls, expected, wire>>
          \/ /\ BaseAllows
             /\ s' = begun /\ bound' = BindsBegun(begun)
             /\ Enters(c)
             /\ word' = v
       /\ UNCHANGED <<env, unit, base, truth, comparing, retained, native, plan>>

\* Thermal binds the session of the moment, for a speed planned before.
ThermalAsks ==
  LET c == [id |-> FreshRequest, session |-> s.id, value |-> plan, thermal |-> TRUE,
            expects |-> truth # plan, sent |-> FALSE]
  IN /\ \A d \in Range(calls) : ~d.thermal
     /\ plan # None /\ s # None /\ bound = [id |-> s.id, value |-> plan] /\ BaseAllows
     /\ Enters(c)
     /\ plan' = None
     /\ UNCHANGED <<env, s, unit, bound, base, truth, comparing, retained, native, word>>

\* MANUAL_PUMP_SESSION_STALE, AUTOMATIC_THERMAL_CONTEXT_STALE; an expectation that is
\* gone is a KeyError
Entitled(c) ==
  /\ BaseAllows
  /\ bound = [id |-> c.session, value |-> c.value]
  /\ c.expects => \E e \in expected : e.id = c.id

TakesLock ==
  LET c == Head(calls) IN
    /\ calls # <<>> /\ ~c.sent
    /\ \/ /\ Entitled(c) /\ Len(wire) < InFlight
          /\ calls' = <<[c EXCEPT !.sent = TRUE]>> \o Tail(calls)
          /\ expected' = Dispatched(expected, c)
          /\ wire' = Append(wire, [id |-> c.id, value |-> c.value])
          /\ UNCHANGED <<s, bound, word>>
       \/ /\ ~Entitled(c)
          /\ calls' = Tail(calls)
          /\ expected' = Without(c.id)
          /\ s' = IF c.thermal THEN s ELSE Failed(s, c)
          /\ bound' = IF c.thermal THEN bound ELSE BoundTo(s')
          /\ word' = IF ~c.thermal /\ IsCurrent(s, c) THEN Contested ELSE word
          /\ UNCHANGED wire
    /\ UNCHANGED <<env, unit, base, truth, comparing, retained, native, plan>>

OnWire(id) == \E w \in Range(wire) : w.id = id

\* The controller answers once the speed is set; without an answer it may still be, or
\* it was lost: what was sent last is the last on the way.
Answered ==
  LET c == Head(calls) IN
    /\ calls # <<>> /\ c.sent
    /\ calls' = Tail(calls)
    /\ \/ /\ ~OnWire(c.id)
          /\ s' = IF c.thermal THEN s ELSE Accepted(s, c)
          /\ UNCHANGED wire
       \/ /\ "unknown" \in env
          /\ s' = IF c.thermal THEN s ELSE OutcomeUnknown(s, c)
          /\ wire' \in {wire} \cup (IF OnWire(c.id) THEN {Front(wire)} ELSE {})
    /\ bound' = IF c.thermal THEN bound ELSE BoundTo(s')
    /\ UNCHANGED <<env, unit, base, truth, comparing, retained, expected, native, plan, word>>

-----------------------------------------------------------------------------
\* A change on the panel that no frame has shown is lost to a command that was sent.
TakesEffect ==
  /\ wire # <<>>
  /\ native' = Head(wire).value /\ wire' = Tail(wire)
  /\ word' = IF word = native /\ truth # native /\ native' # native THEN Contested ELSE word
  /\ UNCHANGED <<env, s, unit, bound, base, truth, comparing, retained, expected, calls, plan>>

\* Nothing under way, and the newest frame is what the controller has.
Quiet == calls = <<>> /\ wire = <<>> /\ ~Undecided(s) /\ truth = native

\* A command whose consequence no frame has shown would explain the change too.
Panel ==
  /\ "panel" \in env
  /\ native' \in Speeds \ {native}
  /\ word' = IF s = None THEN None
             ELSE IF Quiet /\ \A e \in expected : e.value # native' THEN native'
             ELSE Contested
  /\ UNCHANGED <<env, s, unit, bound, base, truth, comparing, retained, expected, calls, wire,
                 plan>>

TimePasses ==
  /\ "time" \in env
  /\ s' = Passed(s)
  /\ expected' = {[e EXCEPT !.left = @ - 1] : e \in {x \in expected : x.left > 1}}
  /\ UNCHANGED <<env, unit, bound, base, truth, comparing, retained, calls, wire, native, plan,
                 word>>

-----------------------------------------------------------------------------
(***************************************************************************)
(* A frame: observe_native_snapshot.  First the boundaries of the session, *)
(* then what changed and what explains it, then the session hears of it.   *)
(***************************************************************************)
Missing ==   \* evidence that is not usable, though the values are there
  {{}} \cup (IF "unusable" \in env THEN {{"purpose"}, {"speed"}} ELSE {})
       \cup (IF "unit" \in env THEN {{"unit"}} ELSE {})

FramePurposes ==   \* None if no body runs
  (IF "purpose" \in env THEN Purposes ELSE {"ordinary"})
    \cup (IF "idle" \in env THEN {None} ELSE {})

FreshSession == CHOOSE i \in Sessions : i \notin SessionsInUse

SessionIn(f) ==
  IF ~f.auto THEN None
  ELSE Observed(s, f.purpose = None \/ f.missing \cap {"purpose", "speed"} = {}, f.purpose,
                native, f.again, FreshSession)

\* observe of PumpTargetSessionRuntime, which needs the configured unit too
UnitIn(f) ==
  IF ~f.auto \/ f.purpose = None THEN None
  ELSE IF f.missing # {}
       THEN IF unit = None THEN None ELSE [unit EXCEPT !.moved = @ \/ f.again]
  ELSE IF unit = None \/ f.again \/ unit.moved \/ unit.purpose # f.purpose
       THEN [purpose |-> f.purpose, moved |-> FALSE]
       ELSE unit

Explaining(expectations) == {e \in expectations : e.started /\ e.value = native}

\* The latest change stays with the frames to come; a session that begins is newer.
RetainedIn(f, begins, external) ==
  IF external
  THEN [value |-> native, positive |-> f.positive, when |-> IF begins THEN "at" ELSE "after"]
  ELSE IF retained = None \/ f.again THEN None
  ELSE IF begins THEN [retained EXCEPT !.when = "before"] ELSE retained

\* apply_external_changes
Hears(f, x, begins, change, explained, external) ==
  LET y == IF external /\ x # None THEN [x EXCEPT !.spent = FALSE] ELSE x
      z == IF y = None \/ change = None THEN y ELSE Changed(y, change)
  IN IF z = None \/ "speed" \in f.missing \/ begins THEN z
     ELSE IF explained = {} THEN z
     ELSE Correlated(z, (CHOOSE e \in explained : TRUE).id, native)

Frame ==
  \E f \in [missing  : Missing,
            purpose  : FramePurposes,
            auto     : IF "mode" \in env THEN BOOLEAN ELSE {TRUE},
            again    : IF "reconnect" \in env THEN BOOLEAN ELSE {FALSE},
            positive : IF "lease" \in env THEN BOOLEAN ELSE {FALSE}] :
    LET x         == SessionIn(f)
        begins    == x # None /\ (s = None \/ x.id # s.id)
        waiting   == IF f.auto = base.auto THEN expected ELSE {}   \* set_controller_mode
        changed   == comparing /\ ~f.again /\ truth # native
        explained == IF changed THEN Explaining(waiting) ELSE {}
        external  == changed /\ explained = {}
    IN /\ unit' = UnitIn(f)
       /\ base' = [base EXCEPT !.auto = f.auto]
       /\ expected' = waiting \ explained
       /\ truth' = native /\ comparing' = TRUE
       /\ retained' = RetainedIn(f, begins, external)
       /\ s' = Hears(f, x, begins, retained', explained, external)
       /\ bound' = BoundTo(s')
       /\ plan' = IF "thermal" \in env /\ bound' # None /\ s'.override = NoOverride
                     /\ Effective(s') # native
                  THEN Effective(s') ELSE None
       /\ word' = IF s' # None /\ ~begins THEN word
                  ELSE IF wire # <<>> THEN Contested  \* of the session before, still to land
                  ELSE IF begins /\ external /\ f.positive THEN native
                  ELSE None
       /\ UNCHANGED <<env, calls, wire, native>>

\* async_turn_on and async_turn_off of the Maintenance switch
Maintains ==
  /\ "maintenance" \in env
  /\ base' = [base EXCEPT !.maintenance = ~@]
  /\ expected' = {}
  /\ s' = None /\ bound' = None /\ word' = None
  /\ comparing' = (comparing /\ ~base.maintenance)
  /\ UNCHANGED <<env, unit, truth, retained, calls, wire, native, plan>>

Next ==
  \/ ManualAsks \/ ThermalAsks \/ TakesLock \/ Answered
  \/ TakesEffect \/ Panel \/ TimePasses \/ Frame \/ Maintains

Fairness == WF_vars(Frame) /\ WF_vars(TimePasses)

Spec == Init /\ [][Next]_vars /\ Fairness

-----------------------------------------------------------------------------
\* Once everything under way is decided, the speed in force is the one somebody asked
\* for last in this session, in Home Assistant or on the panel, whatever was superseded,
\* refused, replayed or seen late on the way; nobody's word is the configured speed.
LastWordIsKept ==
  Quiet /\ s # None /\ s.usable /\ word # Contested /\ env \cap {"time", "unknown"} = {}
    => Effective(s) = IF word = None THEN Baseline[s.purpose] ELSE word

\* A speed thermal sends is the one in force in the session of that moment: never one a
\* person has asked to replace, nor one of a purpose that is over.
AutomaticYields ==
  [][\A c \in Range(calls') :
       c.thermal /\ c.sent /\ c \notin Range(calls)
         => s # None /\ s.usable /\ c.session = s.id /\ c.value = Effective(s)]_vars

\* A request whose consequence never shows does not stay undecided: it ends, or a newer
\* one takes its place, and with it ends what it kept others from.
PendingEnds ==
  "time" \in env =>
    ((IsPending(s) /\ s.override.left < Ttl) ~> ~(IsPending(s) /\ s.override.left < Ttl))

-----------------------------------------------------------------------------
\* custom_components/poolos/filtration_automatic_runtime.py: the session and the speed
\* an automatic filtration command is bound to
InGallons == None   \* the session in gallons has an id of its own

FiltrationContext ==
  IF unit # None /\ unit.purpose = "ordinary"
  THEN [id |-> InGallons, value |-> Baseline["ordinary"]]
  ELSE IF s # None /\ s.purpose = "ordinary" THEN [id |-> s.id, value |-> Effective(s)]
  ELSE None

\* In an ordinary session nobody overrides, what filtration would send is current.
FiltrationIsCurrent ==
  bound # None /\ s.purpose = "ordinary" /\ s.override = NoOverride
    => FiltrationContext = bound
=============================================================================
