------------------------- MODULE SanitationRuntime -------------------------
(***************************************************************************)
(* custom_components/poolos/sanitation_runtime.py with the controller, the *)
(* authority and what Home Assistant keeps of a session across restarts.   *)
(* Frames come while an action is delivered and wait until its task is     *)
(* over.  Saving is a task of its own, and every save has a Store of its   *)
(* own: nothing keeps their order.                                         *)
(***************************************************************************)
EXTENDS PhysicalAuthority, SanitationController, Sequences, SequencesExt

CONSTANTS
  Grain,         \* _PERSIST_GRANULARITY_SECONDS
  MaxSaves,      \* bound on the saves under way
  Environments   \* what may happen, one of them per behaviour

Kinds == {"grid", "unknown", "stale", "pump", "late", "lost", "denied", "cancel", "off",
          "crash", "reload", "reset"}

ASSUME RuntimeAssumption ==
  /\ Grain \in Nat \ {0} /\ MaxSaves \in Nat \ {0}
  /\ Environments \subseteq [changes : SUBSET Kinds, on : SUBSET Parts, turned : SUBSET Parts]
  /\ Sessions \subseteq Tokens
  /\ \A t \in Tokens \cup {None} : \E u \in Tokens : u # t   \* another frame, another context

VARIABLES
  env,
  up,         \* "no", "yes" or, while async_unload waits for its save, "saving",
              \* and for what it waits for after that, "closing"
  session,    \* SanitationController.session
  a,          \* PoolOSPhysicalCommandAuthority
  task,       \* the delivery under way, or None
  pending,    \* the newest frame of a session that waits for it, and its age, or None
  writes,     \* saves under way
  stored,     \* what the store holds
  persisted,  \* _last_persisted_lifecycle and _remaining, or None
  off,        \* a manual Off of the body waits for the lock
  wire,       \* effects of what was sent that are still to come
  plant,      \* what is on
  steady,     \* the last snapshot qualified, for a session that is not overridden
  ended,      \* sessions whose cancellation the store has held
  final       \* those of which nothing older was left when it came to hold it

vars == <<env, up, session, a, task, pending, writes, stored, persisted, off, wire, plant, steady,
          ended, final>>

Task == [id : Sessions, action : Actions, context : Tokens, sent : BOOLEAN]

Effect == [part : Parts, on : BOOLEAN]

\* What is saved, and whether async_unload waits for it or an entry before this one began it
Save == [held : SanitationSession \cup {None}, of : {"now", "unload", "before"}]

TypeOK ==
  /\ up \in {"no", "yes", "saving", "closing"} /\ a \in Authority
  /\ session \in SanitationSession \cup {None} /\ stored \in SanitationSession \cup {None}
  /\ task \in Task \cup {None} /\ pending \in [frame : Frame, age : 0..Gap] \cup {None}
  /\ writes \in Seq(Save) /\ Len(writes) <= MaxSaves
  /\ persisted \in [life : Lives, left : 0..Duration] \cup {None}
  /\ off \in BOOLEAN /\ wire \subseteq Effect /\ plant \subseteq Parts
  /\ steady \in BOOLEAN /\ ended \subseteq Sessions /\ final \subseteq Sessions

\* The authority with no session and the entry's switches restored.
Ready == [NewAuthority EXCEPT !.maintenance = "off", !.mode = "auto", !.restoring = {},
                              !.outage.gate = TRUE]

Init ==
  /\ env \in Environments
  /\ up = "yes" /\ session = None /\ a = Ready
  /\ task = None /\ pending = None /\ writes = <<>> /\ stored = None /\ persisted = None
  /\ off = FALSE /\ wire = {} /\ plant = env.on /\ steady = FALSE
  /\ ended = {} /\ final = {}

-----------------------------------------------------------------------------
May(kind) == kind \in env.changes

Lesser(m, n) == IF m < n THEN m ELSE n

\* The sessions are of the Pool.
Begun(b, id) == BeginSanitation(b, [body |-> "pool", id |-> id])

NamesInUse ==
  ended \cup {i.id : i \in ({session, stored, task} \cup {w.held : w \in Range(writes)})
                            \ {None}}

Asked(t) ==
  [source |-> "SANITATION", context |-> t.context, body |-> "pool",
   on     |-> t.action \in {"body_on", "pump_set"},
   target |-> CASE t.action = "heat_off" -> "pool_source"
                [] t.action = "pump_set" -> "speed"
                [] OTHER -> "pool"]

EffectOf(action) ==
  [part |-> CASE action = "heat_off" -> "heat"
              [] action = "pump_set" -> "speed"
              [] OTHER -> "target",
   on   |-> action \in {"body_on", "pump_set"}]

-----------------------------------------------------------------------------
(***************************************************************************)
(* _persist saves the session as it is when it is called; the write ends   *)
(* later.                                                                  *)
(***************************************************************************)
Worth(s) == persisted = None \/ persisted.life # s.life \/ persisted.left - s.left >= Grain

Persist(force, of) ==
  LET saves == force \/ session' = None \/ Worth(session')
  IN /\ saves => Len(writes) < MaxSaves
     /\ writes' = IF saves THEN Append(writes, [held |-> Kept(session'), of |-> of]) ELSE writes
     /\ persisted' = IF session' = None THEN None ELSE persisted

\* A session that is neither over nor about to be
Runs(s) == s # None /\ s.life \notin Ending

SaveEnds ==
  \E k \in DOMAIN writes :
    LET saved == writes[k].held
        id    == {s.id : s \in {x \in {saved} \ {None} : x.life = "cancelling"}}
        left  == {s \in {session} \cup {w.held : w \in Range(writes')} : Runs(s)}
    IN /\ writes' = RemoveAt(writes, k) /\ stored' = saved
       /\ persisted' = IF saved = None \/ writes[k].of = "before" THEN persisted
                       ELSE [life |-> saved.life, left |-> saved.left]
       /\ ended' = ended \cup id
       /\ final' = final \cup (id \ {s.id : s \in left})
       /\ UNCHANGED <<env, up, session, a, task, pending, off, wire, plant, steady>>

-----------------------------------------------------------------------------
(***************************************************************************)
(* The operator.                                                           *)
(***************************************************************************)
Start ==
  /\ up = "yes" /\ session = None /\ Sessions \ NamesInUse # {}
  /\ session' = NewSession(CHOOSE id \in Sessions \ NamesInUse : TRUE)
  /\ a' = Begun(a, session'.id)
  /\ Persist(TRUE, "now")
  /\ UNCHANGED <<env, up, task, pending, stored, off, wire, plant, steady, ended, final>>

\* async_cancel of the switch, or note_manual_body_off before the manual command is delivered;
\* a repetition of either would change nothing.  Neither, nor Reset, asks whether the runtime
\* is unloaded: the switches and buttons are unloaded after it.
Cancels(manual) ==
  /\ May(IF manual THEN "off" ELSE "cancel")
  /\ session # None /\ session.life # "cancelling"
  /\ session' = Cancelled(session)
  /\ Persist(TRUE, "now")
  /\ off' = (off \/ manual)
  /\ UNCHANGED <<env, up, a, task, pending, stored, wire, plant, steady, ended, final>>

\* async_abandon_for_higher_authority, by Reset
Abandon ==
  /\ May("reset") /\ session # None
  /\ session' = None /\ a' = EndSanitation(a, session.id)
  /\ Persist(TRUE, "now")
  /\ UNCHANGED <<env, up, task, pending, stored, off, wire, plant, steady, ended, final>>

-----------------------------------------------------------------------------
(***************************************************************************)
(* Frames.                                                                 *)
(***************************************************************************)
Older(s, passed) ==
  IF s = None \/ s.since = None THEN s ELSE [s EXCEPT !.since = @ + passed]

\* _process_frame with the authority b of a frame that is as old as age; the save of an
\* end is forced.
Process(s, f, age, b) ==
  /\ session' = Older(Advance(s, f), age)
  /\ Persist(FALSE, "now")
  /\ pending' = None
  /\ \/ /\ Action(session', f) # None
        /\ a' = Bind(b, "SANITATION", CHOOSE t \in Tokens : t # b.current["SANITATION"])
        /\ task' = [id |-> s.id, action |-> Action(session', f),
                    context |-> a'.current["SANITATION"], sent |-> FALSE]
     \/ /\ Action(session', f) = None \/ May("denied")   \* the pump's circuit is not known
        /\ a' = IF session' = None THEN EndSanitation(b, s.id) ELSE b
        /\ task' = None

Grids == {"on"} \cup (IF May("grid") THEN {"off"} ELSE {})
               \cup (IF May("unknown") THEN {"unknown"} ELSE {})
Shown == {"fresh"} \cup (IF May("stale") THEN {"stale", "missing"} ELSE {})
Pumps == {"none"} \cup (IF May("pump") THEN {"away", "back"} ELSE {})

\* Equipment that is not late turns before the next snapshot.
Prompt == wire = {} \/ May("late")

\* The outage domain as GridOutageRuntime leaves it before sanitation sees the frame.
Grid(grid) == SetOutageDomain(a, grid = "off" \/ (grid = "unknown" /\ a.outage.active), FALSE)

Snapshot ==
  \E grid \in Grids, shown \in Shown, pump \in Pumps, passed \in 1..Gap :
    LET f == [grid |-> grid, on |-> plant, shown |-> shown, pump |-> pump]
        s == Older(session, passed)
    IN /\ up # "no" /\ Prompt
       /\ \/ /\ session = None \/ up # "yes"
             /\ a' = IF up = "yes" THEN Grid(grid) ELSE a
             /\ pending' = IF pending = None THEN None
                           ELSE [pending EXCEPT !.age = Lesser(@ + passed, Gap)]
             /\ UNCHANGED <<session, task, writes, persisted>>
          \/ /\ session # None /\ up = "yes" /\ task # None
             /\ session' = s /\ a' = Grid(grid) /\ pending' = [frame |-> f, age |-> 0]
             /\ UNCHANGED <<task, writes, persisted>>
          \/ /\ session # None /\ up = "yes" /\ task = None
             /\ Process(s, f, 0, Grid(grid))
       /\ steady' = (session' # None /\ ~session'.override /\ grid = "on" /\ Qualifies(f))
       /\ UNCHANGED <<env, up, stored, off, wire, plant, ended, final>>

-----------------------------------------------------------------------------
(***************************************************************************)
(* Delivery: a command may wait for the lock for any time.  Failed or not, *)
(* the session goes on with the next frame.                                *)
(***************************************************************************)
Queued == task # None /\ ~task.sent

\* The commands of a part are carried out in their order: the newest decides.
Put(effect) == {e \in wire : e.part # effect.part} \cup {effect}

Sends ==
  /\ Queued /\ Allowed(a, Asked(task))
  /\ task' = [task EXCEPT !.sent = TRUE]
  /\ wire' = Put(EffectOf(task.action))
  /\ UNCHANGED <<env, up, session, a, pending, writes, stored, persisted, off, plant, steady,
                 ended, final>>

\* The manual command after what waited for the lock before it.
OffSends ==
  /\ off /\ ~Queued
  /\ off' = FALSE /\ wire' = Put(EffectOf("body_off"))
  /\ UNCHANGED <<env, up, session, a, task, pending, writes, stored, persisted, plant, steady,
                 ended, final>>

\* The end of the delivery and _task_done
TaskDone ==
  /\ task # None
  /\ task.sent \/ ~Allowed(a, Asked(task))
  /\ \/ /\ pending # None /\ session # None /\ up = "yes"
        /\ Process(session, pending.frame, pending.age, a)
     \/ /\ pending = None \/ session = None \/ up # "yes"
        /\ task' = None /\ pending' = None
        /\ UNCHANGED <<session, a, writes, persisted>>
  /\ UNCHANGED <<env, up, stored, off, wire, plant, steady, ended, final>>

-----------------------------------------------------------------------------
(***************************************************************************)
(* The end of the entry, and its start.                                    *)
(***************************************************************************)
Gone(left) ==
  /\ up' = "no" /\ session' = None /\ a' = Ready /\ task' = None /\ pending' = None
  /\ writes' = left /\ persisted' = None /\ off' = FALSE /\ steady' = FALSE
  /\ UNCHANGED <<env, stored, wire, plant, ended, final>>

Crash == May("crash") /\ up # "no" /\ Gone(<<>>)

\* The outage runtime is unloaded before and has left its domain.
Unload ==
  /\ May("reload") /\ up = "yes"
  /\ up' = "saving" /\ a' = Grid("on") /\ UNCHANGED session
  /\ Persist(TRUE, "unload")
  /\ UNCHANGED <<env, task, pending, stored, off, wire, plant, steady, ended, final>>

UnloadSaved ==
  /\ up = "saving" /\ \A w \in Range(writes) : w.of # "unload"
  /\ up' = "closing" /\ a' = IF session = None THEN a ELSE EndSanitation(a, session.id)
  /\ UNCHANGED <<env, session, task, pending, writes, stored, persisted, off, wire, plant, steady,
                 ended, final>>

\* After the command under way the rest of the entry is unloaded; saves go on without it.
UnloadEnds ==
  /\ up = "closing" /\ task = None
  /\ Gone([k \in DOMAIN writes |-> [writes[k] EXCEPT !.of = "before"]])

Boots_M ==   \* mutant: a restored session does not lock out the rest
  /\ up = "no"
  /\ up' = "yes" /\ session' = Restored(stored)
  /\ persisted' = IF stored = None THEN None ELSE [life |-> session'.life, left |-> stored.left]
  /\ UNCHANGED <<env, a, task, pending, writes, stored, off, wire, plant, steady, ended, final>>

\* async_restore
Boots ==
  /\ up = "no"
  /\ up' = "yes" /\ session' = Restored(stored)
  /\ a' = IF stored = None THEN a ELSE Begun(a, stored.id)
  /\ persisted' = IF stored = None THEN None ELSE [life |-> session'.life, left |-> stored.left]
  /\ UNCHANGED <<env, task, pending, writes, stored, off, wire, plant, steady, ended, final>>

-----------------------------------------------------------------------------
Turns ==
  \/ \E e \in wire :
       /\ wire' = wire \ {e}
       /\ \/ plant' = IF e.on THEN plant \cup {e.part} ELSE plant \ {e.part}
          \/ May("lost") /\ plant' = plant
  \/ /\ UNCHANGED wire
     /\ \E p \in env.turned : plant' = IF p \in plant THEN plant \ {p} ELSE plant \cup {p}

Equipment ==
  /\ Turns
  /\ UNCHANGED <<env, up, session, a, task, pending, writes, stored, persisted, off, steady,
                 ended, final>>

Delivery == Sends \/ OffSends \/ TaskDone

Next ==
  \/ Start \/ Cancels(TRUE) \/ Cancels(FALSE) \/ Abandon
  \/ Snapshot \/ Delivery \/ SaveEnds \/ Crash \/ Unload \/ UnloadSaved \/ UnloadEnds
  \/ Boots \/ Equipment

\* Of what is sent over and over some takes effect.
Arrives == Equipment /\ plant' # plant

\* Nothing disturbs a session but lost commands, a cancellation, a manual Off and outages.
Benign == env.changes \subseteq {"lost", "cancel", "off", "grid"} /\ env.turned = {}

\* Liveness is claimed where Benign holds, and nothing is assumed to be fair elsewhere.
Fairness ==
  /\ WF_vars(Benign /\ Snapshot) /\ WF_vars(Benign /\ Delivery) /\ WF_vars(Benign /\ SaveEnds)
  /\ WF_vars(Benign /\ Equipment) /\ SF_vars(Benign /\ Arrives)

Spec == Init /\ [][Next]_vars /\ Fairness

-----------------------------------------------------------------------------
\* The countdown advances only by time that is verified from end to end: not by what passes
\* in an outage, under the operator's pump, without evidence or while Home Assistant is down,
\* nor by a frame that has waited for a delivery.  After a Reset it does not hold: a frame
\* that waits since before it dates the next session.
EarnedOnly ==
  [][(/\ ~May("reset") /\ session # None /\ session' # None
      /\ session'.id = session.id /\ session'.left < session.left)
     => task = None /\ steady /\ steady']_vars

\* A cancellation is not undone once the store has held it and nothing older of the session
\* is left, running or on its way to the store: a restart resumes it as a cancellation.
CancelIsDurable == session # None /\ session.id \in final => session.life \in Ending

\* A manual Off of the body or the switch ends the session: no restart runs it again after
\* the store has held its cancellation.
CancelSurvives == session # None /\ session.id \in ended => session.life \in Ending

\* What waits for the lock for a session that is over is not sent, not even when another
\* session has begun meanwhile, and nothing is sent once async_unload has ended the session
\* for the authority.
EndedSessionSendsNothing ==
  [][Sends => session # None /\ session.id = task.id /\ up \in {"yes", "saving"}]_vars

\* The rest of the program is locked out exactly while there is a session, during an unload
\* until its save has ended.
AuthorityFollowsSession ==
  IF session # None /\ up \in {"yes", "saving"}
    THEN a.sanitation # None /\ a.sanitation.id = session.id
    ELSE a.sanitation = None

\* Undisturbed but for an outage that comes to an end, every session ends: its time is up or
\* its cancellation is carried out, although commands are lost and frames overtake them.
SessionEnds ==
  (Benign /\ <>[]~a.outage.active) => (session # None ~> session = None)
=============================================================================
