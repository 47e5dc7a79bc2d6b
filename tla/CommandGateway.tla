--------------------------- MODULE CommandGateway ---------------------------
(***************************************************************************)
(* The one way to the equipment: _async_deliver of manual_intellicenter    *)
(* checks a request and reserves its expected consequence, waits for the   *)
(* command lock, checks again, and sends.  Around it everything that can   *)
(* change what a waiting request is entitled to: Maintenance and the       *)
(* controller mode, restraints, gates, sanitation, the outage domain,      *)
(* Reset, a restart; and the snapshots that explain what the equipment     *)
(* does by what was sent.  A source waits for one answer at a time.        *)
(***************************************************************************)
EXTENDS PhysicalAuthority, Sequences

CONSTANT Environments   \* what is asked and what else happens, one of them per behaviour

ASSUME GatewayAssumption ==
  /\ Environments \subseteq
       [asked   : SUBSET [source : Sources, target : Targets, on : BOOLEAN],
        changes : SUBSET {"maintenance", "mode", "suppress", "thermal", "filtration", "gate",
                          "sanitation", "outage", "reset", "restart", "reconnect",
                          "outsider", "blind", "lost", "time"}]
  /\ \A e \in Environments : \A q \in e.asked :
       \* FiltrationLiveDelivery has no other command
       /\ q.source = "FILTRATION" => q.target \in {"pool", "speed"}
       \* what a manual body Off arms before it is asked is Suppresses or Sanitation
       /\ q.source = "MANUAL" /\ q.target \in Bodies => q.on

VARIABLES
  env,         \* the environment of this behaviour
  a,           \* PoolOSPhysicalCommandAuthority
  cmd,         \* of each source: its request under way, or None
  queue,       \* sources that wait for the command lock, which is fair
  wire,        \* [target, on] sent, with effects still to come
  plant,       \* what is on
  restraint,   \* the restraints the authority is told of, which Home Assistant restores
  monitored,   \* the change monitor has a baseline to compare with
  baseline,    \* a snapshot was taken since Reset sent its last reduction
  withdrawn,   \* sources whose waiting request has lost its entitlement since it was asked
  dispatched   \* [target, on] sent since a change last emptied the registry

vars == <<env, a, cmd, queue, wire, plant, restraint, baseline, monitored, withdrawn, dispatched>>

Command == [id : Tokens, request : Request, sent : BOOLEAN, expected : BOOLEAN]

Effect == [target : Targets, on : BOOLEAN]

\* None is none of the values it stands beside.
ASSUME CommandAssumption == None \notin Command

TypeOK ==
  /\ a \in Authority
  /\ cmd \in [Sources -> Command \cup {None}]
  /\ queue \in Seq(Sources)
  /\ wire \subseteq Effect /\ dispatched \subseteq Effect
  /\ plant \subseteq Targets
  /\ restraint \subseteq Bodies
  /\ monitored \in BOOLEAN /\ baseline \in BOOLEAN
  /\ withdrawn \subseteq Sources
  /\ Cardinality(a.expected) <= Limit

Asked   == env.asked
Changes == env.changes

Init ==
  /\ env \in Environments
  /\ a = [NewAuthority EXCEPT !.maintenance = "off", !.mode = "auto", !.restoring = {},
                              !.scope = Bodies, !.filtration = TRUE, !.outage.gate = TRUE,
                              !.known = Targets]
  /\ cmd = [s \in Sources |-> None]
  /\ queue = <<>> /\ wire = {} /\ plant = {} /\ restraint = {} /\ monitored = TRUE /\ baseline = FALSE
  /\ withdrawn = {} /\ dispatched = {}

-----------------------------------------------------------------------------
TokensInUse ==
  {cmd[s].id : s \in {x \in Sources : cmd[x] # None}}
    \cup {e.id : e \in a.expected} \cup {a.current[c] : c \in Contexts}
    \cup (IF a.sanitation = None THEN {} ELSE {a.sanitation.id})

\* Identities do not run out in the code: the bound is that of the instance.
TokenLeft == Tokens \ TokensInUse # {}

FreshToken == CHOOSE t \in Tokens : t \notin TokensInUse

BodyOf(target) == IF target \in {"spa", "spa_source"} THEN "spa" ELSE "pool"

\* A driver binds its context to the newest epoch or frame when it asks.
Bound(source, token) ==
  IF source \notin Contexts THEN a
  ELSE Bind(IF source = "OUTAGE" THEN BeginOutageFrame(a) ELSE a, source, token)

LockFree == \A s \in Sources : cmd[s] # None => ~cmd[s].sent

Effects(requests) == {[target |-> r.target, on |-> r.on] : r \in requests}

Transmits(requests) ==
  /\ wire' = wire \cup Effects(requests)
  /\ dispatched' = dispatched \cup Effects(requests)

\* A free lock is taken in the same step.
Asks(q) ==
  LET t == FreshToken
      b == Bound(q.source, t)
      r == [source |-> q.source, target |-> q.target, on |-> q.on, body |-> BodyOf(q.target),
            context |-> IF q.source \in Contexts THEN t ELSE None]
      c == Reserve(b, t, r)
      direct == LockFree /\ queue = <<>>
  IN /\ TokenLeft /\ cmd[q.source] = None
     /\ Allowed(b, r)
     /\ AlreadyTrue(b, r) \/ ~Full(b)    \* else RuntimeError: nothing remains
     /\ a' = IF direct THEN StartDispatch(c, t, r) ELSE c
     /\ cmd' = [cmd EXCEPT ![q.source] =
                  [id |-> t, request |-> r, sent |-> direct, expected |-> ~AlreadyTrue(b, r)]]
     /\ queue' = IF direct THEN queue ELSE Append(queue, q.source)
     /\ Transmits(IF direct THEN {r} ELSE {})
     /\ baseline' = IF q.source = "RESET" THEN FALSE ELSE baseline
     /\ UNCHANGED <<env, plant, restraint, monitored, withdrawn>>

Ends(s) ==
  /\ cmd' = [cmd EXCEPT ![s] = None]
  /\ withdrawn' = withdrawn \ {s}

\* What the lock finds: still allowed, and the expectation there if one was made; without
\* it mark_dispatch_started raises KeyError and nothing is sent, although the command has
\* superseded those before it.
Entitled(c) == Allowed(a, c.request) /\ (c.expected => Reserved(a, c.id))

TakesLock(s) ==
  LET c == cmd[s]
  IN /\ queue # <<>> /\ s = Head(queue) /\ LockFree
     /\ queue' = Tail(queue)
     /\ \/ /\ Entitled(c)
           /\ a' = StartDispatch(a, c.id, c.request)
           /\ cmd' = [cmd EXCEPT ![s].sent = TRUE]
           /\ Transmits({c.request}) /\ UNCHANGED withdrawn
        \/ /\ ~Entitled(c)
           /\ a' = Cancel(IF Allowed(a, c.request) THEN Superseded(a, c.id, c.request) ELSE a,
                          c.id)
           /\ Ends(s) /\ UNCHANGED <<wire, dispatched>>
     /\ UNCHANGED <<env, plant, restraint, baseline, monitored>>

\* Accepted or outcome unknown: the expectation stays either way.
Answered(s) ==
  /\ cmd[s] # None /\ cmd[s].sent
  /\ Ends(s)
  /\ UNCHANGED <<env, a, queue, wire, plant, restraint, baseline, monitored, dispatched>>

TakesEffect ==
  \E e \in wire :
    /\ wire' = wire \ {e}
    /\ plant' \in {IF e.on THEN plant \cup {e.target} ELSE plant \ {e.target}}
                    \cup (IF "lost" \in Changes THEN {plant} ELSE {})
    /\ UNCHANGED <<env, a, cmd, queue, restraint, baseline, monitored, withdrawn, dispatched>>

Outsider ==
  /\ "outsider" \in Changes
  /\ \E t \in {q.target : q \in Asked} :
       plant' = IF t \in plant THEN plant \ {t} ELSE plant \cup {t}
  /\ UNCHANGED <<env, a, cmd, queue, wire, restraint, baseline, monitored, withdrawn, dispatched>>

-----------------------------------------------------------------------------
(***************************************************************************)
(* What withdraws a request that waits: for good, whatever is undone before *)
(* it reaches the lock.  One that reserved an expectation loses it too.     *)
(***************************************************************************)
Forgetting == {"maintenance", "mode", "reset_begun", "restart"}

WithdrawnBy(n) ==
  CASE n = "pool"                               -> Automatic \cup {"OUTAGE"}
    [] n \in {"spa", "thermal"}                 -> {"THERMAL"}
    [] n = "filtration"                         -> {"FILTRATION"}
    [] n = "gate"                               -> {"OUTAGE"}
    [] n \in {"sanitation", "domain", "reset_done"} -> Automatic
    [] n = "reset_begun"                        -> Automatic \cup {"OUTAGE"}
    [] OTHER                                    -> {}

Withdraws(names) ==
  /\ withdrawn' = withdrawn \cup
       {s \in Sources :
          /\ cmd[s] # None /\ ~cmd[s].sent
          /\ \E n \in names : s \in WithdrawnBy(n) \/ (n \in Forgetting /\ cmd[s].expected)}
  /\ dispatched' = IF names \cap Forgetting = {} THEN dispatched ELSE {}

Changed(kind, n, b) ==
  /\ kind \in Changes
  /\ a' = b
  /\ a' # a
  /\ Withdraws({n})
  /\ UNCHANGED <<env, cmd, queue, wire, plant>>

Unaffected == UNCHANGED <<restraint, baseline, monitored>>

\* A snapshot may lack a target, and shows nothing external if it is the first one after
\* a start, an end of Maintenance or a new connection.
Shown ==
  {Targets} \cup (IF "blind" \in Changes THEN {Targets \ {q.target} : q \in Asked} ELSE {})

External(b, seen, compares) ==
  IF compares THEN Turned(b, plant, seen) \ Explained(b, Turned(b, plant, seen)) ELSE {}

\* process of the external change runtime: mode, truth, and the Spa's restraint if it goes
\* off by itself in an opportunistic session.  The Pool's, which a Spa that comes on lifts
\* again, is transient, and the authority is told of durable ones only.
Snapshot ==
  \E passed \in IF "time" \in Changes THEN {0, 1} ELSE {0},
     mode \in IF "mode" \in Changes THEN {"auto", "service"} ELSE {"auto"},
     again \in IF "reconnect" \in Changes THEN BOOLEAN ELSE {FALSE},
     seen \in Shown :
    LET b        == Expired(SetControllerMode(a, mode), passed)
        compares == monitored /\ ~again
        o        == IF compares THEN Observed(b, plant, seen) ELSE Replaced(b, plant, seen)
    IN \E bodies \in {{}, External(b, seen, compares) \cap ({"spa"} \ plant)} :
         /\ a' = IF bodies = {} THEN o ELSE SetSuppressed(o, "spa", TRUE)
         /\ restraint' = restraint \cup bodies
         /\ Withdraws((bodies \ a.suppressed) \cup (IF mode = a.mode THEN {} ELSE {"mode"}))
         /\ baseline' = a.reset /\ monitored' = TRUE
         /\ UNCHANGED <<env, cmd, queue, wire, plant>>

Maintains ==
  \E value \in {"on", "off"} :
    /\ Changed("maintenance", "maintenance", ResolveMaintenance(a, value))
    /\ monitored' = (monitored /\ value = "on")
    /\ UNCHANGED <<restraint, baseline>>

Suppresses ==
  \E body \in Bodies, on \in BOOLEAN :
    /\ a.restoring = {}
    /\ Changed("suppress", body, SetSuppressed(a, body, on))
    /\ restraint' = a'.suppressed /\ UNCHANGED <<baseline, monitored>>

Gates ==
  /\ \/ \E scope \in {{}, {"spa"}, Bodies} : Changed("thermal", "thermal", ConfigureThermal(a, scope))
     \/ Changed("filtration", "filtration", ConfigureFiltration(a, ~a.filtration))
     \/ Changed("gate", "gate", ConfigureOutage(a, ~a.outage.gate))
  /\ Unaffected

Sanitation ==
  /\ \/ \E body \in Bodies :
          /\ TokenLeft /\ a.sanitation = None
          /\ Changed("sanitation", "sanitation",
                     BeginSanitation(a, [body |-> body, id |-> FreshToken]))
     \/ a.sanitation # None
          /\ Changed("sanitation", "sanitation", EndSanitation(a, a.sanitation.id))
  /\ Unaffected

OutageDomain ==
  \E active, ceiling \in BOOLEAN :
    /\ Changed("outage", IF active = a.outage.active THEN "ceiling" ELSE "domain",
               SetOutageDomain(a, active, ceiling))
    /\ Unaffected

\* async_press: sanitation is abandoned, the epoch begins, restraints are resumed.
PressesReset ==
  LET ended == IF a.sanitation = None THEN a ELSE EndSanitation(a, a.sanitation.id)
  IN /\ BaseAllows(a) /\ ~a.reset /\ a.restoring = {}
     /\ Changed("reset", "reset_begun",
          SetSuppressed(SetSuppressed(BeginReset(ended), "pool", FALSE), "spa", FALSE))
     /\ restraint' = {} /\ baseline' = FALSE /\ UNCHANGED monitored

SafeBaseline == baseline /\ BodyTargets \cup SourceTargets \subseteq a.known \ a.truth

ResetEnds ==
  /\ a.reset /\ cmd["RESET"] = None /\ SafeBaseline
  /\ Changed("reset", "reset_done", FinishReset(a)) /\ Unaffected

\* The entry is set up anew; what was sent still has its effect.
Restarts ==
  /\ "restart" \in Changes
  /\ a' = NewAuthority
  /\ cmd' = [s \in Sources |-> None] /\ queue' = <<>>
  /\ withdrawn' = {} /\ dispatched' = {} /\ baseline' = FALSE /\ monitored' = FALSE
  /\ UNCHANGED <<env, wire, plant, restraint>>

\* Home Assistant restores the switches one by one; thermal and filtration are
\* configured as soon as the entry is there.  The Spa's restraint may have lapsed.
Restores ==
  \/ /\ a.maintenance = "unresolved"
     /\ Changed("restart", "maintenance", ResolveMaintenance(a, "off")) /\ Unaffected
  \/ \E body \in a.restoring :
       \E on \in {body \in restraint} \cup (IF body = "spa" THEN {FALSE} ELSE {}) :
         /\ Changed("restart", body, ResolveSuppressed(a, body, on))
         /\ restraint' = IF on THEN restraint ELSE restraint \ {body}
         /\ UNCHANGED <<baseline, monitored>>
  \/ Changed("restart", "thermal", ConfigureThermal(a, Bodies)) /\ Unaffected
  \/ Changed("restart", "filtration", ConfigureFiltration(a, TRUE)) /\ Unaffected

Delivery == \E s \in Sources : TakesLock(s) \/ Answered(s)

Next ==
  \/ \E q \in Asked : Asks(q)
  \/ Delivery \/ TakesEffect \/ Outsider \/ Snapshot
  \/ Maintains \/ Suppresses \/ Gates \/ Sanitation
  \/ OutageDomain \/ PressesReset \/ ResetEnds \/ Restarts \/ Restores

Spec == Init /\ [][Next]_vars

-----------------------------------------------------------------------------
Sends(s) ==
  /\ cmd'[s] # None /\ cmd'[s].sent
  /\ cmd[s] # None => ~cmd[s].sent

\* What withdrew a waiting request withdraws it for good: although the restraint, the
\* gate, the sanitation session, the outage, the Reset or the Maintenance that did
\* so is over when the request reaches the lock, it is not sent.
WithdrawnIsNeverSent == [][\A s \in withdrawn : ~Sends(s)]_vars

\* After a restart no automatic command moves a body the operator had restrained,
\* whatever the order in which Home Assistant brings the switches back.
RestraintOutlivesRestart ==
  [][\A s \in Automatic : Sends(s) => cmd'[s].request.body \notin restraint]_vars

\* Whatever turns next, the registry explains it only by a command that was sent after
\* a Maintenance, a mode or a Reset last forgot what was expected.
ExplainedWasSent ==
  \A t \in Targets, on \in BOOLEAN :
    Matching(a, t, on) # {} => [target |-> t, on |-> on] \in dispatched
=============================================================================
