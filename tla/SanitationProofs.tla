-------------------------- MODULE SanitationProofs --------------------------
(***************************************************************************)
(* Proofs about SanitationRuntime: an inductive invariant in named parts,  *)
(* kept by every step, and the properties of the run that follow from it.  *)
(***************************************************************************)
EXTENDS SanitationRuntime, PhysicalAuthorityProofs

\* The countdown of a session that does not earn has no start.
Tidy(s) == s.life \in Ending \/ s.override => s.since = None

\* What is left of a session that is over for good: its end.
EndedIn(ids, s) == s # None /\ s.id \in ids => s.life \in Ending

Undated(s) == s # None => s.since = None

-----------------------------------------------------------------------------
(***************************************************************************)
(* The controller.                                                         *)
(***************************************************************************)
LEMMA PausedFacts ==
  ASSUME NEW s \in SanitationSession, NEW life \in Lives
  PROVE  /\ Paused(s, life) \in SanitationSession
         /\ Paused(s, life).id = s.id /\ Paused(s, life).left = s.left
         /\ Paused(s, life).life = life /\ Paused(s, life).since = None
         /\ Paused(s, life).override = s.override
  BY DEF Paused, SanitationSession

LEMMA NewSessionFacts ==
  ASSUME NEW id \in Sessions
  PROVE  /\ NewSession(id) \in SanitationSession /\ NewSession(id) # None
         /\ NewSession(id).id = id /\ NewSession(id).since = None
         /\ NewSession(id).override = FALSE /\ NewSession(id).life = "starting"
  <1>1. Duration \in 0..Duration /\ "starting" \in Lives
    BY ControllerAssumption DEF Lives
  <1>2. NewSession(id) \in SanitationSession
    BY <1>1 DEF NewSession, SanitationSession
  <1> QED
    BY <1>2, SessionAssumption DEF NewSession

LEMMA KeptFacts ==
  ASSUME NEW s \in SanitationSession
  PROVE  /\ Kept(s) \in SanitationSession /\ Kept(s).id = s.id
         /\ Kept(s).life = s.life /\ Kept(s).left = s.left /\ Kept(s).since = None
  BY SessionAssumption DEF Kept, SanitationSession

LEMMA RestoredFacts ==
  ASSUME NEW s \in SanitationSession
  PROVE  /\ Restored(s) \in SanitationSession /\ Restored(s).id = s.id
         /\ s.life \in Ending => Restored(s).life \in Ending
         /\ s.since = None => Restored(s).since = None
  <1>1. CASE s.life \in Ending
    BY <1>1 DEF Restored
  <1>2. CASE s.life \notin Ending
    <2> DEFINE life == IF s.override THEN "override" ELSE "starting"
    <2>1. life \in Lives
      BY DEF Lives
    <2>2. Restored(s) = Paused(s, life)
      BY <1>2, SessionAssumption DEF Restored
    <2> HIDE DEF life
    <2> QED
      BY <1>2, <2>1, <2>2, PausedFacts DEF Ending
  <1> QED
    BY <1>1, <1>2

\* Time that passes changes nothing of a session but the age of its last evidence.
LEMMA OlderFacts ==
  ASSUME NEW s \in SanitationSession, s.since \in 0..Gap \cup {None}, NEW p \in 0..Gap
  PROVE  /\ Older(s, p) \in SanitationSession
         /\ Older(s, p).id = s.id /\ Older(s, p).left = s.left
         /\ Older(s, p).life = s.life /\ Older(s, p).override = s.override
         /\ Older(s, p).since = IF s.since = None THEN None ELSE s.since + p
         /\ Older(s, p).since = None <=> s.since = None
  <1>1. CASE s.since = None
    BY <1>1 DEF Older
  <1>2. CASE s.since # None
    <2>1. s.since + p \in 0..(2 * Gap)
      BY <1>2, ControllerAssumption
    <2>2. Older(s, p) = [s EXCEPT !.since = s.since + p]
      BY <1>2, SessionAssumption DEF Older
    <2>3. s.since + p # None
      BY <2>1, SessionAssumption
    <2> QED
      BY <1>2, <2>1, <2>2, <2>3 DEF SanitationSession
  <1> QED
    BY <1>1, <1>2

LEMMA PumpedFacts ==
  ASSUME NEW s \in SanitationSession, NEW f \in Frame
  PROVE  /\ Pumped(s, f) \in SanitationSession
         /\ Pumped(s, f).id = s.id /\ Pumped(s, f).left = s.left
         /\ f.pump = "none" => Pumped(s, f) = s
         /\ f.pump # "none" => Pumped(s, f).since = None
         /\ s.override /\ ~Pumped(s, f).override => f.pump = "back"
  <1>1. CASE f.pump = "away"
    <2>1. Pumped(s, f) = [Paused(s, "override") EXCEPT !.override = TRUE]
      BY <1>1 DEF Pumped
    <2>2. /\ Paused(s, "override") \in SanitationSession
          /\ Paused(s, "override").id = s.id /\ Paused(s, "override").left = s.left
          /\ Paused(s, "override").since = None
      BY PausedFacts DEF Lives
    <2> QED
      BY <1>1, <2>1, <2>2 DEF SanitationSession
  <1>2. CASE f.pump = "back"
    <2>1. Pumped(s, f) = [Paused(s, "starting") EXCEPT !.override = FALSE]
      BY <1>2 DEF Pumped
    <2>2. /\ Paused(s, "starting") \in SanitationSession
          /\ Paused(s, "starting").id = s.id /\ Paused(s, "starting").left = s.left
          /\ Paused(s, "starting").since = None
      BY PausedFacts DEF Lives
    <2> QED
      BY <1>2, <2>1, <2>2 DEF SanitationSession
  <1>3. CASE f.pump = "none"
    BY <1>3 DEF Pumped
  <1> QED
    BY <1>1, <1>2, <1>3 DEF Frame

LEMMA CreditedFacts ==
  ASSUME NEW s \in SanitationSession
  PROVE  /\ Credited(s) \in SanitationSession /\ Credited(s).id = s.id
         /\ Credited(s).since \in {0, None}
         /\ Credited(s).override = s.override
         /\ Credited(s).life \in Ending => Credited(s).since = None
         /\ Credited(s).left < s.left => s.since # None
  <1> DEFINE earned == IF s.since = None THEN 0 ELSE s.since
  <1>1. earned \in Nat /\ s.left \in 0..Duration
    BY ControllerAssumption DEF SanitationSession
  <1>2. CASE earned >= s.left
    <2>1. Credited(s) = [Paused(s, "completing") EXCEPT !.left = 0]
      BY <1>2 DEF Credited
    <2>2. /\ Paused(s, "completing") \in SanitationSession
          /\ Paused(s, "completing").id = s.id /\ Paused(s, "completing").since = None
          /\ Paused(s, "completing").override = s.override
      BY PausedFacts DEF Lives, Ending
    <2>3. Credited(s) \in SanitationSession
      BY <2>1, <2>2, ControllerAssumption DEF SanitationSession
    <2>4. /\ Credited(s).id = s.id /\ Credited(s).since = None /\ Credited(s).left = 0
          /\ Credited(s).override = s.override
      BY <2>1, <2>2 DEF SanitationSession
    <2>5. s.since = None => s.left = 0
      BY <1>1, <1>2
    <2> QED
      BY <1>1, <2>3, <2>4, <2>5
  <1>3. CASE ~(earned >= s.left)
    <2>1. Credited(s) = [s EXCEPT !.left = s.left - earned, !.life = "active", !.since = 0]
      BY <1>3 DEF Credited
    <2>2. s.left - earned \in 0..Duration /\ (s.left - earned < s.left => s.since # None)
      BY <1>1, <1>3, ControllerAssumption
    <2> HIDE DEF earned
    <2>3. Credited(s) \in SanitationSession
      <3>1. 0 \in 0..(2 * Gap) /\ "active" \in Lives
        BY ControllerAssumption DEF Lives
      <3> QED
        BY <2>1, <2>2, <3>1 DEF SanitationSession
    <2>4. /\ Credited(s).id = s.id /\ Credited(s).since = 0
          /\ Credited(s).left = s.left - earned /\ Credited(s).life = "active"
          /\ Credited(s).override = s.override
      BY <2>1 DEF SanitationSession
    <2> QED
      BY <2>2, <2>3, <2>4 DEF Ending
  <1> QED
    BY <1>2, <1>3

\* What a frame makes of a session: an end or the same session; it counts down or starts
\* its countdown only by a frame that qualifies, and none that the operator's pump paused.
LEMMA AdvanceFacts ==
  ASSUME NEW s \in SanitationSession, Tidy(s), NEW f \in Frame
  PROVE  LET t == Advance(s, f)
         IN /\ t \in SanitationSession \cup {None}
            /\ t # None =>
                 /\ t.id = s.id /\ t.since \in {0, None} /\ Tidy(t)
                 /\ s.life \in Ending => t = s
                 /\ t.since # None \/ t.left < s.left =>
                      /\ f.grid = "on" /\ Qualifies(f) /\ ~t.override
                      /\ s.override => f.pump = "back"
                 /\ t.left < s.left => s.since # None
  <1> DEFINE p == Pumped(s, f)
  <1>0. s.left \in Int
    BY ControllerAssumption DEF SanitationSession
  <1>p. /\ p \in SanitationSession /\ p.id = s.id /\ p.left = s.left
        /\ f.pump = "none" => p = s
        /\ f.pump # "none" => p.since = None
        /\ s.override /\ ~p.override => f.pump = "back"
    BY PumpedFacts
  <1>q. p.override => p.since = None
    BY <1>p DEF Tidy
  <1>1. CASE s.life \in Ending
    <2>1. Advance(s, f) \in {s, None}
      BY <1>1 DEF Advance
    <2> QED
      BY <1>0, <1>1, <2>1 DEF Tidy
  <1>2. CASE s.life \notin Ending /\ f.grid \in {"off", "unknown"}
    <2>1. PICK life \in {"outage", "starting"} : Advance(s, f) = Paused(s, life)
      BY <1>2 DEF Advance
    <2>2. life \in Lives
      BY DEF Lives
    <2> QED
      BY <1>0, <1>2, <2>1, <2>2, PausedFacts DEF Tidy
  <1>3. CASE s.life \notin Ending /\ f.grid = "on" /\ p.override
    <2>1. Advance(s, f) = p
      BY <1>3 DEF Advance
    <2> HIDE DEF p
    <2> QED
      BY <1>0, <1>p, <1>q, <1>3, <2>1 DEF Tidy
  <1>4. CASE s.life \notin Ending /\ f.grid = "on" /\ ~p.override
    <2>1. Advance(s, f) = IF Qualifies(f) THEN Credited(p) ELSE Paused(p, "starting")
      BY <1>4 DEF Advance
    <2> HIDE DEF p
    <2>2. CASE Qualifies(f)
      <3>1. /\ Credited(p) \in SanitationSession /\ Credited(p).id = p.id
            /\ Credited(p).since \in {0, None} /\ Credited(p).override = p.override
            /\ Credited(p).life \in Ending => Credited(p).since = None
            /\ Credited(p).left < p.left => p.since # None
        BY <1>p, CreditedFacts
      <3>2. Tidy(Credited(p))
        BY <1>4, <3>1 DEF Tidy
      <3>3. Credited(p).left < s.left => s.since # None
        BY <1>p, <3>1
      <3> QED
        BY <1>p, <1>4, <2>1, <2>2, <3>1, <3>2, <3>3
    <2>3. CASE ~Qualifies(f)
      <3>1. "starting" \in Lives
        BY DEF Lives
      <3>2. /\ Paused(p, "starting") \in SanitationSession /\ Paused(p, "starting").id = p.id
            /\ Paused(p, "starting").left = p.left /\ Paused(p, "starting").since = None
        BY <1>p, <3>1, PausedFacts
      <3> QED
        BY <1>0, <1>p, <1>4, <2>1, <2>3, <3>2 DEF Tidy
    <2> QED
      BY <2>2, <2>3
  <1> QED
    BY <1>1, <1>2, <1>3, <1>4 DEF Frame

\* A frame that qualifies, and one under the operator's pump, ask for nothing.
LEMMA ActionFacts ==
  ASSUME NEW s \in SanitationSession \cup {None}, NEW f \in Frame, Action(s, f) # None
  PROVE  /\ Action(s, f) \in Actions
         /\ s # None
         /\ s.life \in Ending \/ (~s.override /\ ~(f.grid = "on" /\ Qualifies(f)))
  <1>1. s # None
    BY DEF Action
  <1>2. CASE s.life \in Ending
    BY <1>1, <1>2 DEF Action, Actions
  <1>3. CASE s.life \notin Ending /\ (f.grid # "on" \/ s.override \/ f.shown # "fresh")
    BY <1>1, <1>3 DEF Action
  <1>4. CASE s.life \notin Ending /\ ~(f.grid # "on" \/ s.override \/ f.shown # "fresh")
    <2>1. Action(s, f) = CASE "heat" \in f.on -> "heat_off"
                  [] "heat" \notin f.on /\ "target" \notin f.on -> "body_on"
                  [] f.on = {"target"} -> "pump_set"
                  [] OTHER -> None
      BY <1>1, <1>4 DEF Action
    <2>2. CASE "heat" \in f.on
      BY <1>1, <1>4, <2>1, <2>2 DEF Qualifies, Actions
    <2>3. CASE "heat" \notin f.on /\ "target" \notin f.on
      BY <1>1, <1>4, <2>1, <2>3 DEF Qualifies, Actions
    <2>4. CASE "heat" \notin f.on /\ "target" \in f.on
      BY <1>1, <1>4, <2>1, <2>4 DEF Qualifies, Actions
    <2> QED
      BY <2>2, <2>3, <2>4
  <1> QED
    BY <1>2, <1>3, <1>4

-----------------------------------------------------------------------------
(***************************************************************************)
(* The inductive invariant.                                                *)
(***************************************************************************)
Fits == session # None => Tidy(session) /\ session.since \in 0..Gap \cup {None}

\* While a command is delivered its session neither counts down nor is overridden.
Waits ==
  task # None /\ session # None =>
    session.since = None /\ (session.life \in Ending \/ ~session.override)

\* Without an entry there is no work of it.
Down ==
  up = "no" => /\ session = None /\ a = Ready /\ task = None /\ pending = None
               /\ off = FALSE

\* The context of the delivery is registered no longer than its session lives.
Registered ==
  task # None /\ task.context = a.current["SANITATION"] =>
    session # None /\ session.id = task.id /\ up \in {"yes", "saving"}

\* What the store holds of a session that is over for good, and what is saved of it, is its
\* end.  None keeps a start of the countdown.
Durable ==
  /\ EndedIn(final, session) /\ EndedIn(final, stored) /\ Undated(stored)
  /\ \A i \in DOMAIN writes : EndedIn(final, writes[i].held) /\ Undated(writes[i].held)
  /\ final \subseteq ended

\* A countdown has a start only after a snapshot that qualified, and steady says of the
\* frame that waits whether it does.
Earned ==
  ~May("reset") /\ up = "yes" =>
    /\ session # None /\ session.since # None => steady
    /\ pending # None =>
         /\ session # None
         /\ steady = (/\ ~session.override /\ pending.frame.grid = "on"
                      /\ Qualifies(pending.frame))

IInv ==
  /\ TypeOK /\ env \in Environments /\ Fits /\ Waits /\ Down
  /\ AuthorityFollowsSession /\ Registered /\ Durable /\ Earned

-----------------------------------------------------------------------------
LEMMA ReadyIsAuthority ==
  /\ Ready \in Authority /\ Ready.sanitation = None
  /\ \A c \in Contexts : Ready.current[c] = None
  BY NewIsAuthority DEF Ready, NewAuthority, Authority, Outage

LEMMA BegunFacts ==
  ASSUME NEW b \in Authority, NEW id \in Sessions
  PROVE  /\ Begun(b, id) \in Authority
         /\ Begun(b, id).sanitation # None /\ Begun(b, id).sanitation.id = id
         /\ Begun(b, id).current["SANITATION"] = None
  <1> DEFINE new == [body |-> "pool", id |-> id]
  <1>1. new \in Session /\ new # None /\ new.id = id
    BY RuntimeAssumption, NoneAssumption DEF Session, Bodies
  <1> HIDE DEF new
  <1>2. Begun(b, id) = BeginSanitation(b, new)
    BY DEF Begun, new
  <1> QED
    BY <1>1, <1>2, SanitationBegins

LEMMA GridFacts ==
  ASSUME a \in Authority, NEW grid
  PROVE  /\ Grid(grid) \in Authority /\ Grid(grid).sanitation = a.sanitation
         /\ Grid(grid).current["SANITATION"] = a.current["SANITATION"]
  <1> DEFINE active == grid = "off" \/ (grid = "unknown" /\ a.outage.active)
  <1>1. active \in BOOLEAN
    OBVIOUS
  <1>2. Grid(grid) = SetOutageDomain(a, active, FALSE)
    BY DEF Grid
  <1> HIDE DEF active
  <1>3. DomainAs(SetOutageDomain(a, active, FALSE), a, active)
    BY <1>1, OutageDomainFacts, Zenon
  <1> QED
    BY <1>2, <1>3 DEF DomainAs

LEMMA PersistFacts ==
  ASSUME TypeOK, session' \in SanitationSession \cup {None}, NEW of \in {"now", "unload"},
         Persist(TRUE, of) \/ Persist(FALSE, of)
  PROVE  /\ writes' \in Seq(Save) /\ Len(writes') <= MaxSaves
         /\ persisted' \in [life : Lives, left : 0..Duration] \cup {None}
         /\ writes' = writes \/ writes' = Append(writes, [held |-> Kept(session'), of |-> of])
  <1> DEFINE last == [held |-> Kept(session'), of |-> of]
  <1>1. last \in Save
    BY KeptFacts DEF Kept, Save
  <1>2. \/ writes' = writes
        \/ Len(writes) < MaxSaves /\ writes' = Append(writes, last)
    BY DEF Persist
  <1> HIDE DEF last
  <1>3. writes \in Seq(Save) /\ Len(writes) <= MaxSaves
    BY DEF TypeOK
  <1>4. writes' \in Seq(Save) /\ Len(writes') <= MaxSaves
    BY <1>1, <1>2, <1>3, RuntimeAssumption
  <1>5. persisted' \in [life : Lives, left : 0..Duration] \cup {None}
    BY DEF Persist, TypeOK
  <1> QED
    BY <1>2, <1>4, <1>5 DEF last

\* A session that goes on stays ended, a new one has a name nothing else has.
LEMMA SavedDurably ==
  ASSUME TypeOK, Durable, UNCHANGED <<stored, ended, final>>,
         session' \in SanitationSession \cup {None}, NEW of,
         writes' = writes \/ writes' = Append(writes, [held |-> Kept(session'), of |-> of]),
         session' # None =>
           \/ /\ session # None /\ session'.id = session.id
              /\ session.life \in Ending => session'.life \in Ending
           \/ session'.id \notin NamesInUse
  PROVE  Durable'
  <1> DEFINE last == [held |-> Kept(session'), of |-> of]
  <1>1. final \subseteq NamesInUse
    BY DEF NamesInUse, Durable
  <1>2. EndedIn(final, session')
    BY <1>1 DEF EndedIn, Durable
  <1>3. EndedIn(final, last.held) /\ Undated(last.held)
    BY <1>2, KeptFacts, SessionAssumption DEF Kept, EndedIn, Undated
  <1>4. CASE writes' = writes
    BY <1>2, <1>4 DEF Durable, EndedIn
  <1>5. CASE writes' = Append(writes, last)
    <2> HIDE DEF last
    <2>1. \A i \in DOMAIN writes' : \/ i \in DOMAIN writes /\ writes'[i] = writes[i]
                                   \/ writes'[i] = last
      BY <1>5 DEF TypeOK
    <2>2. \A i \in DOMAIN writes' : EndedIn(final, writes'[i].held) /\ Undated(writes'[i].held)
      BY <1>3, <2>1 DEF Durable
    <2> QED
      BY <1>2, <2>2 DEF Durable, EndedIn
  <1> QED
    BY <1>4, <1>5

-----------------------------------------------------------------------------
\* A new context is not the one registered before.
LEMMA AnotherContext ==
  ASSUME NEW b \in Authority
  PROVE  (CHOOSE t \in Tokens : t # b.current["SANITATION"]) \in Tokens
  <1>1. b.current["SANITATION"] \in Tokens \cup {None}
    BY DEF Authority, Contexts
  <1>2. \E u \in Tokens : u # b.current["SANITATION"]
    BY <1>1, RuntimeAssumption
  <1> QED
    BY <1>2

\* A frame that is processed: whether it comes with a snapshot or has waited for a task.
LEMMA ProcessFacts ==
  ASSUME TypeOK, Durable, UNCHANGED <<stored, ended, final>>, session # None,
         NEW s \in SanitationSession, Tidy(s), s.id = session.id, s.life = session.life,
         NEW f \in Frame, NEW age \in 0..Gap,
         NEW b \in Authority, b.sanitation # None, b.sanitation.id = s.id, up' = "yes",
         Process(s, f, age, b)
  PROVE  /\ session' \in SanitationSession \cup {None} /\ a' \in Authority
         /\ task' \in Task \cup {None} /\ pending' = None
         /\ writes' \in Seq(Save) /\ Len(writes') <= MaxSaves
         /\ persisted' \in [life : Lives, left : 0..Duration] \cup {None}
         /\ Fits' /\ Waits' /\ Registered' /\ Durable'
         /\ IF session' = None THEN a'.sanitation = None
            ELSE a'.sanitation # None /\ a'.sanitation.id = session'.id
         /\ session' # None =>
              /\ session'.id = s.id
              /\ session'.since # None \/ session'.left < s.left =>
                   /\ f.grid = "on" /\ Qualifies(f) /\ ~session'.override
                   /\ s.override => f.pump = "back"
              /\ session'.since # None => s.life \notin Ending
              /\ session'.left < s.left => s.since # None
  <1> DEFINE t == Advance(s, f)
  <1>1. /\ t \in SanitationSession \cup {None}
        /\ t # None =>
             /\ t.id = s.id /\ t.since \in {0, None} /\ Tidy(t)
             /\ s.life \in Ending => t = s
             /\ t.since # None \/ t.left < s.left =>
                  /\ f.grid = "on" /\ Qualifies(f) /\ ~t.override
                  /\ s.override => f.pump = "back"
             /\ t.left < s.left => s.since # None
    BY AdvanceFacts
  <1>2. session' = Older(t, age)
    BY DEF Process
  <1> HIDE DEF t
  <1>3. t = None => session' = None
    BY <1>2 DEF Older
  <1>4. ASSUME t # None
        PROVE  /\ session' \in SanitationSession
               /\ session'.id = t.id /\ session'.left = t.left
               /\ session'.life = t.life /\ session'.override = t.override
               /\ session'.since \in 0..Gap \cup {None}
               /\ session'.since = None <=> t.since = None
    <2>1. t \in SanitationSession /\ t.since \in 0..Gap \cup {None}
      BY <1>1, <1>4, ControllerAssumption
    <2>2. /\ Older(t, age) \in SanitationSession
          /\ Older(t, age).id = t.id /\ Older(t, age).left = t.left
          /\ Older(t, age).life = t.life /\ Older(t, age).override = t.override
          /\ Older(t, age).since = IF t.since = None THEN None ELSE t.since + age
          /\ Older(t, age).since = None <=> t.since = None
      BY <2>1, OlderFacts
    <2>3. t.since # None => t.since + age = age
      BY <1>1, <1>4, ControllerAssumption
    <2> QED
      BY <1>2, <2>2, <2>3
  <1>5. session' # None <=> t # None
    BY <1>3, <1>4, SessionAssumption
  <1>6. session' \in SanitationSession \cup {None} /\ Fits'
    BY <1>1, <1>3, <1>4, <1>5 DEF Fits, Tidy
  <1>7. /\ writes' \in Seq(Save) /\ Len(writes') <= MaxSaves
        /\ persisted' \in [life : Lives, left : 0..Duration] \cup {None}
        /\ writes' = writes \/ writes' = Append(writes, [held |-> Kept(session'), of |-> "now"])
    BY <1>6, PersistFacts DEF Process
  <1>8. Durable'
    <2>1. session' # None => session'.id = session.id
      BY <1>1, <1>4, <1>5
    <2>2. session' # None /\ session.life \in Ending => session'.life \in Ending
      BY <1>1, <1>4, <1>5
    <2> QED
      BY <1>6, <1>7, <2>1, <2>2, SavedDurably
  <1>9. session' # None =>
          /\ session'.id = s.id
          /\ session'.since # None \/ session'.left < s.left =>
               /\ f.grid = "on" /\ Qualifies(f) /\ ~session'.override
               /\ s.override => f.pump = "back"
          /\ session'.since # None => s.life \notin Ending
          /\ session'.left < s.left => s.since # None
    BY <1>1, <1>4, <1>5 DEF Tidy
  <1> DEFINE u == CHOOSE v \in Tokens : v # b.current["SANITATION"]
             Begins == /\ Action(session', f) # None
                       /\ a' = Bind(b, "SANITATION", u)
                       /\ task' = [id |-> s.id, action |-> Action(session', f),
                                   context |-> a'.current["SANITATION"], sent |-> FALSE]
             Rests == /\ a' = IF session' = None THEN EndSanitation(b, s.id) ELSE b
                      /\ task' = None
  <1>b. Begins \/ Rests
    BY DEF Process
  <1>u. u \in Tokens
    BY AnotherContext
  <1> HIDE DEF u
  <1>10. CASE Begins
    <2>1. u \in Tokens
      BY <1>u
    <2>2. a' = Bind(b, "SANITATION", u)
          /\ task' = [id |-> s.id, action |-> Action(session', f),
                      context |-> a'.current["SANITATION"], sent |-> FALSE]
      BY <1>10
    <2>3. a' \in Authority /\ a'.sanitation = b.sanitation /\ a'.current["SANITATION"] = u
      BY <2>1, <2>2, BindFacts DEF SameLocks, Contexts
    <2>4. /\ Action(session', f) \in Actions /\ session' # None
          /\ session'.life \in Ending
               \/ (~session'.override /\ ~(f.grid = "on" /\ Qualifies(f)))
      BY <1>6, <1>10, ActionFacts
    <2>5. s.id \in Sessions
      BY DEF SanitationSession
    <2>6. task' \in Task /\ task'.id = s.id
      BY <2>1, <2>2, <2>3, <2>4, <2>5 DEF Task
    <2>7. Waits'
      BY <1>6, <1>9, <2>4 DEF Waits, Fits, Tidy
    <2>8. Registered'
      BY <1>9, <2>4, <2>6 DEF Registered
    <2> QED
      BY <1>6, <1>7, <1>8, <1>9, <2>3, <2>4, <2>6, <2>7, <2>8 DEF Process
  <1>11. CASE Rests
    <2>1. task' = None /\ a' = IF session' = None THEN EndSanitation(b, s.id) ELSE b
      BY <1>11
    <2>2. a' \in Authority
      BY <2>1, SanitationEnds
    <2>3. IF session' = None THEN a'.sanitation = None
          ELSE a'.sanitation # None /\ a'.sanitation.id = session'.id
      BY <1>9, <2>1, SanitationEnds
    <2>4. Waits' /\ Registered'
      BY <2>1 DEF Waits, Registered
    <2> QED
      BY <1>6, <1>7, <1>8, <1>9, <2>1, <2>2, <2>3, <2>4 DEF Process
  <1> QED
    BY <1>b, <1>10, <1>11

-----------------------------------------------------------------------------
(***************************************************************************)
(* The operator.                                                           *)
(***************************************************************************)
LEMMA StartKeeps ==
  ASSUME IInv, Start
  PROVE  IInv'
  <1> USE DEF IInv
  <1> DEFINE id == CHOOSE i \in Sessions \ NamesInUse : TRUE
  <1>1. id \in Sessions /\ id \notin NamesInUse
    BY DEF Start
  <1>2. session' = NewSession(id) /\ a' = Begun(a, session'.id)
    BY DEF Start
  <1> HIDE DEF id
  <1>3. /\ session' \in SanitationSession /\ session'.id = id /\ session'.since = None
        /\ session'.override = FALSE /\ session'.life = "starting" /\ session' # None
    BY <1>1, <1>2, NewSessionFacts
  <1>4. /\ writes' \in Seq(Save) /\ Len(writes') <= MaxSaves
        /\ persisted' \in [life : Lives, left : 0..Duration] \cup {None}
        /\ writes' = writes \/ writes' = Append(writes, [held |-> Kept(session'), of |-> "now"])
    BY <1>3, PersistFacts DEF Start
  <1>5. /\ a' \in Authority /\ a'.sanitation # None /\ a'.sanitation.id = session'.id
        /\ a'.current["SANITATION"] = None
    BY <1>1, <1>2, <1>3, BegunFacts DEF TypeOK
  <1>6. TypeOK'
    BY <1>3, <1>4, <1>5 DEF TypeOK, Start
  <1>7. Fits' /\ Waits'
    BY <1>3 DEF Fits, Waits, Tidy
  <1>8. Down' /\ AuthorityFollowsSession'
    BY <1>3, <1>5 DEF Start, Down, AuthorityFollowsSession
  <1>9. Registered'
    BY <1>5, NoneAssumption DEF Start, Registered, TypeOK, Task
  <1>10. Durable'
    BY <1>1, <1>3, <1>4, SavedDurably DEF Start
  <1>11. Earned'
    BY <1>3 DEF Start, Earned, May
  <1> QED
    BY <1>6, <1>7, <1>8, <1>9, <1>10, <1>11 DEF Start

LEMMA CancelsKeeps ==
  ASSUME IInv, Cancels(TRUE) \/ Cancels(FALSE)
  PROVE  IInv'
  <1> USE DEF IInv
  <1>1. /\ session # None /\ session' = Cancelled(session)
        /\ Persist(TRUE, "now") /\ off' \in BOOLEAN
        /\ UNCHANGED <<env, up, a, task, pending, stored, wire, plant, steady, ended, final>>
    <2>1. CASE Cancels(TRUE)
      BY <2>1 DEF Cancels
    <2>2. CASE Cancels(FALSE)
      BY <2>2 DEF Cancels
    <2> QED
      BY <2>1, <2>2
  <1>2. /\ session' \in SanitationSession /\ session'.id = session.id /\ session'.since = None
        /\ session'.override = session.override /\ session'.life = "cancelling"
        /\ session' # None
    <2>1. session \in SanitationSession /\ "cancelling" \in Lives
      BY <1>1 DEF TypeOK, Lives, Ending
    <2> QED
      BY <1>1, <2>1, PausedFacts, SessionAssumption DEF Cancelled
  <1>3. /\ writes' \in Seq(Save) /\ Len(writes') <= MaxSaves
        /\ persisted' \in [life : Lives, left : 0..Duration] \cup {None}
        /\ writes' = writes \/ writes' = Append(writes, [held |-> Kept(session'), of |-> "now"])
    BY <1>1, <1>2, PersistFacts
  <1>4. TypeOK'
    BY <1>1, <1>2, <1>3 DEF TypeOK
  <1>5. Fits' /\ Waits'
    BY <1>2 DEF Fits, Waits, Tidy, Ending
  <1>6. Down' /\ AuthorityFollowsSession' /\ Registered'
    BY <1>1, <1>2 DEF Down, AuthorityFollowsSession, Registered
  <1>7. Durable'
    BY <1>1, <1>2, <1>3, SavedDurably DEF Ending
  <1>8. Earned'
    BY <1>1, <1>2 DEF Earned, May
  <1> QED
    BY <1>1, <1>4, <1>5, <1>6, <1>7, <1>8

LEMMA AbandonKeeps ==
  ASSUME IInv, Abandon
  PROVE  IInv'
  <1> USE DEF IInv
  <1>1. session' = None /\ a' = EndSanitation(a, session.id)
    BY DEF Abandon
  <1>2. /\ writes' \in Seq(Save) /\ Len(writes') <= MaxSaves
        /\ persisted' \in [life : Lives, left : 0..Duration] \cup {None}
        /\ writes' = writes \/ writes' = Append(writes, [held |-> Kept(session'), of |-> "now"])
    BY <1>1, PersistFacts DEF Abandon
  <1>3. /\ a' \in Authority /\ a'.sanitation = None
        /\ a'.current["SANITATION"] \in {a.current["SANITATION"], None}
        /\ up \in {"yes", "saving"} => a'.current["SANITATION"] = None
    <2>1. CASE up \in {"yes", "saving"}
      BY <1>1, <2>1, SanitationEnds DEF Abandon, AuthorityFollowsSession, TypeOK
    <2>2. CASE up \notin {"yes", "saving"}
      BY <1>1, <2>2, SanitationEnds DEF Abandon, AuthorityFollowsSession, TypeOK
    <2> QED
      BY <2>1, <2>2
  <1>4. TypeOK'
    BY <1>1, <1>2, <1>3 DEF TypeOK, Abandon
  <1>5. Fits' /\ Waits'
    BY <1>1 DEF Fits, Waits
  <1>6. Down' /\ AuthorityFollowsSession'
    BY <1>1, <1>3 DEF Abandon, Down, AuthorityFollowsSession
  <1>7. Registered'
    BY <1>3, NoneAssumption DEF Abandon, Registered, TypeOK, Task
  <1>8. Durable'
    BY <1>1, <1>2, SavedDurably DEF Abandon
  <1>9. Earned'
    BY DEF Abandon, Earned, May
  <1> QED
    BY <1>4, <1>5, <1>6, <1>7, <1>8, <1>9 DEF Abandon

LEMMA UnloadKeeps ==
  ASSUME IInv, Unload
  PROVE  IInv'
  <1> USE DEF IInv
  <1>1. session' = session /\ session' \in SanitationSession \cup {None} /\ a' = Grid("on")
    BY DEF Unload, TypeOK
  <1>2. /\ writes' \in Seq(Save) /\ Len(writes') <= MaxSaves
        /\ persisted' \in [life : Lives, left : 0..Duration] \cup {None}
        /\ writes' = writes \/ writes' = Append(writes, [held |-> Kept(session'), of |-> "unload"])
    BY <1>1, PersistFacts DEF Unload
  <1>3. /\ a' \in Authority /\ a'.sanitation = a.sanitation
        /\ a'.current["SANITATION"] = a.current["SANITATION"]
    BY <1>1, GridFacts DEF TypeOK
  <1>4. TypeOK'
    BY <1>1, <1>2, <1>3 DEF TypeOK, Unload
  <1>5. Fits' /\ Waits' /\ Registered'
    BY <1>1, <1>3 DEF Unload, Fits, Waits, Registered
  <1>6. Down' /\ AuthorityFollowsSession' /\ Earned'
    BY <1>1, <1>3 DEF Unload, Down, AuthorityFollowsSession, Earned, May
  <1>7. Durable'
    BY <1>1, <1>2, SavedDurably DEF Unload
  <1> QED
    BY <1>4, <1>5, <1>6, <1>7 DEF Unload

-----------------------------------------------------------------------------
(***************************************************************************)
(* Saves, the end of the entry and its start.                              *)
(***************************************************************************)
\* A save that ends leaves the others.
LEMMA RemoveFacts ==
  ASSUME NEW S, NEW s \in Seq(S), NEW k \in DOMAIN s
  PROVE  /\ RemoveAt(s, k) \in Seq(S) /\ Len(RemoveAt(s, k)) = Len(s) - 1
         /\ \A i \in DOMAIN RemoveAt(s, k) : \E j \in DOMAIN s : RemoveAt(s, k)[i] = s[j]
  <1> DEFINE l == SubSeq(s, 1, k - 1)
             r == SubSeq(s, k + 1, Len(s))
  <1>1. Len(s) \in Nat /\ k \in 1..Len(s)
    OBVIOUS
  <1>2. /\ l \in Seq(S) /\ Len(l) = k - 1
        /\ \A i \in 1..(k - 1) : l[i] = s[i]
    BY <1>1
  <1>3. /\ r \in Seq(S) /\ Len(r) = Len(s) - k
        /\ \A i \in 1..(Len(s) - k) : r[i] = s[k + i]
    BY <1>1
  <1>4. RemoveAt(s, k) = l \o r
    BY DEF RemoveAt
  <1> HIDE DEF l, r
  <1>5. /\ l \o r \in Seq(S) /\ Len(l \o r) = Len(s) - 1
        /\ \A i \in 1..(k - 1) : (l \o r)[i] = l[i]
        /\ \A i \in k..(Len(s) - 1) : (l \o r)[i] = r[i - (k - 1)]
    BY <1>1, <1>2, <1>3
  <1>6. ASSUME NEW i \in 1..(Len(s) - 1)
        PROVE  \E j \in DOMAIN s : (l \o r)[i] = s[j]
    <2>1. CASE i \in 1..(k - 1)
      BY <1>1, <1>2, <1>5, <2>1
    <2>2. CASE i \in k..(Len(s) - 1)
      <3>1. i - (k - 1) \in 1..(Len(s) - k) /\ k + (i - (k - 1)) = i + 1 /\ i + 1 \in DOMAIN s
        BY <1>1, <2>2
      <3> QED
        BY <1>3, <1>5, <2>2, <3>1
    <2>3. i \in 1..(k - 1) \/ i \in k..(Len(s) - 1)
      BY <1>1
    <2> QED
      BY <2>1, <2>2, <2>3, Zenon
  <1>7. DOMAIN (l \o r) = 1..(Len(s) - 1)
    BY <1>1, <1>5
  <1> QED
    BY <1>4, <1>5, <1>6, <1>7, Zenon

\* A session is over for good when its cancellation is stored and nothing else of it runs.
LEMMA SaveEndsKeeps ==
  ASSUME IInv, SaveEnds
  PROVE  IInv'
  <1> USE DEF IInv
  <1>1. PICK k \in DOMAIN writes :
          LET saved == writes[k].held
              id    == {s.id : s \in {x \in {saved} \ {None} : x.life = "cancelling"}}
              left  == {s \in {session} \cup {w.held : w \in Range(writes')} : Runs(s)}
          IN /\ writes' = RemoveAt(writes, k) /\ stored' = saved
             /\ persisted' = IF saved = None \/ writes[k].of = "before" THEN persisted
                             ELSE [life |-> saved.life, left |-> saved.left]
             /\ ended' = ended \cup id
             /\ final' = final \cup (id \ {s.id : s \in left})
             /\ UNCHANGED <<env, up, session, a, task, pending, off, wire, plant, steady>>
    BY DEF SaveEnds
  <1> DEFINE saved == writes[k].held
             id    == {s.id : s \in {x \in {saved} \ {None} : x.life = "cancelling"}}
             left  == {s \in {session} \cup {w.held : w \in Range(writes')} : Runs(s)}
  <1>2. /\ writes' = RemoveAt(writes, k) /\ stored' = saved
        /\ persisted' = IF saved = None \/ writes[k].of = "before" THEN persisted
                        ELSE [life |-> saved.life, left |-> saved.left]
        /\ ended' = ended \cup id /\ final' = final \cup (id \ {s.id : s \in left})
        /\ UNCHANGED <<env, up, session, a, task, pending, off, wire, plant, steady>>
    BY <1>1
  <1>3. /\ writes \in Seq(Save) /\ Len(writes) <= MaxSaves
        /\ writes[k] \in Save /\ saved \in SanitationSession \cup {None}
    <2>1. writes \in Seq(Save) /\ Len(writes) <= MaxSaves
      BY DEF TypeOK
    <2>2. writes[k] \in Save
      BY <2>1
    <2> QED
      BY <2>1, <2>2 DEF Save
  <1>4. /\ writes' \in Seq(Save) /\ Len(writes') <= MaxSaves
        /\ \A i \in DOMAIN writes' : \E j \in DOMAIN writes : writes'[i] = writes[j]
    <2>1. /\ RemoveAt(writes, k) \in Seq(Save) /\ Len(RemoveAt(writes, k)) = Len(writes) - 1
          /\ \A i \in DOMAIN RemoveAt(writes, k) :
                \E j \in DOMAIN writes : RemoveAt(writes, k)[i] = writes[j]
      BY <1>3, RemoveFacts
    <2>2. Len(writes) \in Nat
      BY <1>3
    <2> QED
      BY <1>2, <1>3, <2>1, <2>2, RuntimeAssumption
  <1>5. \A i \in id : saved # None /\ saved.id = i /\ saved.life \in Ending
    BY DEF Ending
  <1>6. id \subseteq Sessions
    BY <1>3 DEF SanitationSession
  <1>7. persisted' \in [life : Lives, left : 0..Duration] \cup {None}
    BY <1>2, <1>3 DEF SanitationSession, TypeOK
  <1>8. \A i \in final' : i \notin final => i \in id /\ i \notin {s.id : s \in left}
    BY <1>2
  <1>9. ASSUME NEW s \in {session} \cup {w.held : w \in Range(writes')}, EndedIn(final, s)
        PROVE  EndedIn(final', s)
    BY <1>8, <1>9 DEF EndedIn, Runs
  <1> HIDE DEF saved, id, left
  <1>10. TypeOK'
    BY <1>2, <1>3, <1>4, <1>6, <1>7, <1>8 DEF TypeOK
  <1>11. Fits' /\ Waits' /\ Registered' /\ AuthorityFollowsSession' /\ Earned' /\ Down'
    BY <1>2 DEF Fits, Waits, Registered, AuthorityFollowsSession, Earned, May, Down
  <1>12. Durable'
    <2>1. EndedIn(final, saved) /\ Undated(saved)
      BY DEF Durable, saved
    <2>2. EndedIn(final', saved)
      BY <1>5, <1>8, <2>1 DEF EndedIn
    <2>3. EndedIn(final', session)
      BY <1>9 DEF Durable
    <2>4. \A i \in DOMAIN writes' : EndedIn(final', writes'[i].held) /\ Undated(writes'[i].held)
      <3> SUFFICES ASSUME NEW i \in DOMAIN writes'
                   PROVE  EndedIn(final', writes'[i].held) /\ Undated(writes'[i].held)
        OBVIOUS
      <3>1. EndedIn(final, writes'[i].held) /\ Undated(writes'[i].held)
        BY <1>4 DEF Durable
      <3>2. writes'[i].held \in {w.held : w \in Range(writes')}
        BY DEF Range
      <3> QED
        BY <1>9, <3>1, <3>2
    <2>5. final' \subseteq ended'
      BY <1>2, <1>8 DEF Durable
    <2> QED
      BY <1>2, <2>1, <2>2, <2>3, <2>4, <2>5 DEF Durable, EndedIn, Undated
  <1> QED
    BY <1>2, <1>10, <1>11, <1>12

LEMMA GoneKeeps ==
  ASSUME IInv, NEW left \in Seq(Save), Len(left) <= MaxSaves, Gone(left),
         \A i \in DOMAIN left : \E j \in DOMAIN writes : left[i].held = writes[j].held
  PROVE  IInv'
  <1> USE DEF IInv
  <1>1. TypeOK'
    BY ReadyIsAuthority DEF TypeOK, Gone
  <1>2. Durable'
    BY DEF Durable, Gone, EndedIn, Undated
  <1> QED
    BY <1>1, <1>2, ReadyIsAuthority
    DEF Gone, Fits, Waits, Down, AuthorityFollowsSession, Registered, Earned

LEMMA CrashKeeps ==
  ASSUME IInv, Crash
  PROVE  IInv'
  <1>1. <<>> \in Seq(Save) /\ Len(<<>>) <= MaxSaves /\ DOMAIN <<>> = {}
    BY RuntimeAssumption
  <1> QED
    BY <1>1, GoneKeeps DEF Crash

LEMMA UnloadSavedKeeps ==
  ASSUME IInv, UnloadSaved
  PROVE  IInv'
  <1> USE DEF IInv
  <1>1. /\ up = "saving" /\ up' = "closing"
        /\ a' = IF session = None THEN a ELSE EndSanitation(a, session.id)
        /\ UNCHANGED <<env, session, task, pending, writes, stored, persisted, off, wire, plant,
                       steady, ended, final>>
    BY DEF UnloadSaved
  <1>2. /\ a' \in Authority /\ a'.sanitation = None
        /\ session # None => a'.current["SANITATION"] = None
        /\ session = None => a' = a
    BY <1>1, SanitationEnds DEF TypeOK, AuthorityFollowsSession
  <1>3. TypeOK'
    BY <1>1, <1>2 DEF TypeOK
  <1>4. Registered'
    BY <1>1, <1>2, NoneAssumption DEF Registered, TypeOK, Task
  <1>5. Durable'
    BY <1>1 DEF Durable, EndedIn, Undated
  <1> QED
    BY <1>1, <1>2, <1>3, <1>4, <1>5 DEF Fits, Waits, Down, AuthorityFollowsSession, Earned

LEMMA UnloadEndsKeeps ==
  ASSUME IInv, UnloadEnds
  PROVE  IInv'
  <1> DEFINE left == [k \in DOMAIN writes |-> [writes[k] EXCEPT !.of = "before"]]
  <1>1. writes \in Seq(Save) /\ Len(writes) <= MaxSaves /\ Gone(left)
    BY DEF UnloadEnds, IInv, TypeOK
  <1>2. /\ DOMAIN left = 1..Len(writes) /\ Len(writes) \in Nat
        /\ \A k \in DOMAIN writes : left[k] \in Save /\ left[k].held = writes[k].held
    <2>1. ASSUME NEW w \in Save
          PROVE  /\ [w EXCEPT !.of = "before"] \in Save
                 /\ [w EXCEPT !.of = "before"].held = w.held
      BY DEF Save
    <2>2. /\ DOMAIN writes = 1..Len(writes) /\ Len(writes) \in Nat
          /\ \A k \in DOMAIN writes : writes[k] \in Save
      BY <1>1
    <2>3. /\ DOMAIN left = DOMAIN writes
          /\ \A k \in DOMAIN writes : left[k] = [writes[k] EXCEPT !.of = "before"]
      OBVIOUS
    <2> HIDE DEF left
    <2>4. \A k \in DOMAIN writes : left[k] \in Save /\ left[k].held = writes[k].held
      BY <2>1, <2>2, <2>3
    <2> QED
      BY <2>2, <2>3, <2>4
  <1>3. left \in [1..Len(writes) -> Save]
    BY <1>1, <1>2
  <1>4. left \in Seq(Save) /\ Len(left) = Len(writes)
    BY <1>2, <1>3
  <1> HIDE DEF left
  <1> QED
    BY <1>1, <1>2, <1>4, GoneKeeps

LEMMA BootsKeeps ==
  ASSUME IInv, Boots
  PROVE  IInv'
  <1> USE DEF IInv
  <1>1. /\ session = None /\ a = Ready /\ task = None /\ pending = None
        /\ up' = "yes" /\ session' = Restored(stored)
        /\ a' = IF stored = None THEN a ELSE Begun(a, stored.id)
        /\ persisted' = IF stored = None THEN None ELSE [life |-> session'.life, left |-> stored.left]
        /\ UNCHANGED <<env, task, pending, writes, stored, off, wire, plant, steady, ended, final>>
    BY DEF Boots, Down
  <1>2. CASE stored = None
    <2>1. session' = None /\ a' = Ready /\ a'.sanitation = None
      BY <1>1, <1>2, ReadyIsAuthority DEF Restored
    <2>2. TypeOK'
      BY <1>1, <1>2, <2>1 DEF TypeOK
    <2>3. Durable'
      BY <1>1, <2>1 DEF Durable, EndedIn, Undated
    <2> QED
      BY <1>1, <2>1, <2>2, <2>3
      DEF Fits, Waits, Down, AuthorityFollowsSession, Registered, Earned
  <1>3. CASE stored # None
    <2>1. /\ stored \in SanitationSession /\ stored.since = None
          /\ stored.id \in final => stored.life \in Ending
      BY <1>3 DEF TypeOK, Durable, EndedIn, Undated
    <2>2. /\ session' \in SanitationSession /\ session' # None /\ session'.id = stored.id
          /\ stored.life \in Ending => session'.life \in Ending
          /\ session'.since = None
      BY <1>1, <2>1, RestoredFacts, SessionAssumption
    <2>3. a' \in Authority /\ a'.sanitation # None /\ a'.sanitation.id = session'.id
      BY <1>1, <1>3, <2>1, <2>2, BegunFacts, ReadyIsAuthority DEF SanitationSession
    <2>4. persisted' \in [life : Lives, left : 0..Duration]
      BY <1>1, <1>3, <2>1, <2>2 DEF SanitationSession
    <2>5. TypeOK'
      BY <1>1, <2>2, <2>3, <2>4 DEF TypeOK
    <2>6. Durable'
      BY <1>1, <2>1, <2>2 DEF Durable, EndedIn, Undated
    <2> QED
      BY <1>1, <2>2, <2>3, <2>5, <2>6
      DEF Fits, Waits, Down, AuthorityFollowsSession, Registered, Earned, Tidy
  <1> QED
    BY <1>2, <1>3

-----------------------------------------------------------------------------
(***************************************************************************)
(* Delivery and the equipment.                                             *)
(***************************************************************************)
LEMMA EffectFacts ==
  ASSUME NEW action, NEW w \in SUBSET Effect
  PROVE  {e \in w : e.part # EffectOf(action).part} \cup {EffectOf(action)} \subseteq Effect
  <1>1. EffectOf(action) \in Effect
    <2> DEFINE part == CASE action = "heat_off" -> "heat"
                         [] action = "pump_set" -> "speed"
                         [] OTHER -> "target"
    <2>1. part \in Parts
      BY DEF Parts
    <2> QED
      BY <2>1 DEF EffectOf, Effect
  <1> QED
    BY <1>1

LEMMA EquipmentKeeps ==
  ASSUME IInv, Equipment
  PROVE  IInv'
  <1> USE DEF IInv
  <1>1. UNCHANGED <<env, up, session, a, task, pending, writes, stored, persisted, off, steady,
                    ended, final>>
    BY DEF Equipment
  <1>2. env.turned \subseteq Parts
    BY RuntimeAssumption
  <1>3. wire' \subseteq Effect /\ plant' \subseteq Parts
    BY <1>2 DEF Equipment, Turns, TypeOK, Effect
  <1>4. TypeOK'
    BY <1>1, <1>3 DEF TypeOK
  <1>5. Durable'
    BY <1>1 DEF Durable, EndedIn, Undated
  <1> QED
    BY <1>1, <1>4, <1>5
    DEF Fits, Waits, Down, AuthorityFollowsSession, Registered, Earned, May

LEMMA SendsKeeps ==
  ASSUME IInv, Sends
  PROVE  IInv'
  <1> USE DEF IInv
  <1>1. /\ UNCHANGED <<env, up, session, a, pending, writes, stored, persisted, off, plant,
                       steady, ended, final>>
        /\ task # None /\ task' = [task EXCEPT !.sent = TRUE]
        /\ wire' = {e \in wire : e.part # EffectOf(task.action).part} \cup {EffectOf(task.action)}
    BY DEF Sends, Queued, Put
  <1>2. wire' \subseteq Effect
    BY <1>1, EffectFacts DEF TypeOK
  <1>3. task' \in Task /\ task'.id = task.id /\ task'.context = task.context
    BY <1>1 DEF TypeOK, Task
  <1>4. TypeOK'
    BY <1>1, <1>2, <1>3 DEF TypeOK
  <1>5. Durable'
    BY <1>1 DEF Durable, EndedIn, Undated
  <1> QED
    BY <1>1, <1>3, <1>4, <1>5
    DEF Fits, Waits, Down, AuthorityFollowsSession, Registered, Earned, May

LEMMA OffSendsKeeps ==
  ASSUME IInv, OffSends
  PROVE  IInv'
  <1> USE DEF IInv
  <1>1. /\ UNCHANGED <<env, up, session, a, task, pending, writes, stored, persisted, plant,
                       steady, ended, final>>
        /\ off' = FALSE
        /\ wire' = {e \in wire : e.part # EffectOf("body_off").part} \cup {EffectOf("body_off")}
    BY DEF OffSends, Put
  <1>2. wire' \subseteq Effect
    BY <1>1, EffectFacts DEF TypeOK
  <1>3. TypeOK'
    BY <1>1, <1>2 DEF TypeOK
  <1>4. Durable'
    BY <1>1 DEF Durable, EndedIn, Undated
  <1> QED
    BY <1>1, <1>3, <1>4
    DEF Fits, Waits, Down, AuthorityFollowsSession, Registered, Earned, May

LEMMA TaskDoneKeeps ==
  ASSUME IInv, TaskDone
  PROVE  IInv'
  <1> USE DEF IInv
  <1>1. UNCHANGED <<env, up, stored, off, wire, plant, steady, ended, final>> /\ task # None
    BY DEF TaskDone
  <1>2. CASE /\ pending # None /\ session # None /\ up = "yes"
             /\ Process(session, pending.frame, pending.age, a)
    <2> DEFINE f == pending.frame
    <2>1. /\ f \in Frame /\ pending.age \in 0..Gap
          /\ session \in SanitationSession /\ Tidy(session)
          /\ a \in Authority /\ a.sanitation # None /\ a.sanitation.id = session.id
      BY <1>2 DEF TypeOK, Fits, AuthorityFollowsSession
    <2>2. Process(session, f, pending.age, a)
      BY <1>2
    <2> HIDE DEF f
    <2>3. /\ session' \in SanitationSession \cup {None} /\ a' \in Authority
          /\ task' \in Task \cup {None} /\ pending' = None
          /\ writes' \in Seq(Save) /\ Len(writes') <= MaxSaves
          /\ persisted' \in [life : Lives, left : 0..Duration] \cup {None}
          /\ Fits' /\ Waits' /\ Registered' /\ Durable'
          /\ IF session' = None THEN a'.sanitation = None
             ELSE a'.sanitation # None /\ a'.sanitation.id = session'.id
          /\ session' # None /\ session'.since # None =>
               /\ f.grid = "on" /\ Qualifies(f) /\ session.life \notin Ending
      BY <1>1, <1>2, <2>1, <2>2, ProcessFacts
    <2>4. TypeOK'
      BY <1>1, <2>3 DEF TypeOK
    <2>5. Down' /\ AuthorityFollowsSession'
      BY <1>1, <1>2, <2>3 DEF Down, AuthorityFollowsSession
    <2>6. Earned'
      <3> SUFFICES ASSUME ~May("reset"), session' # None, session'.since # None
                   PROVE  steady
        BY <1>1, <2>3 DEF Earned, May
      <3>1. ~session.override
        BY <1>1, <1>2, <2>3 DEF Waits
      <3>2. steady = (~session.override /\ f.grid = "on" /\ Qualifies(f))
        BY <1>2 DEF Earned, f
      <3> QED
        BY <2>3, <3>1, <3>2
    <2> QED
      BY <1>1, <2>3, <2>4, <2>5, <2>6
  <1>3. CASE task' = None /\ pending' = None /\ UNCHANGED <<session, a, writes, persisted>>
    <2>1. TypeOK'
      BY <1>1, <1>3 DEF TypeOK
    <2>2. Durable'
      BY <1>1, <1>3 DEF Durable, EndedIn, Undated
    <2> QED
      BY <1>1, <1>3, <2>1, <2>2
      DEF Fits, Waits, Down, AuthorityFollowsSession, Registered, Earned, May
  <1> QED
    BY <1>2, <1>3 DEF TaskDone

-----------------------------------------------------------------------------
(***************************************************************************)
(* Snapshots: sanitation does not see one without a session; one that comes *)
(* during a delivery waits; the others are processed.                      *)
(***************************************************************************)
Unseen(grid, passed) ==
  /\ session = None \/ up # "yes"
  /\ a' = IF up = "yes" THEN Grid(grid) ELSE a
  /\ pending' = IF pending = None THEN None ELSE [pending EXCEPT !.age = Lesser(@ + passed, Gap)]
  /\ UNCHANGED <<session, task, writes, persisted>>

Delayed(f, passed) ==
  /\ session # None /\ up = "yes" /\ task # None
  /\ session' = Older(session, passed) /\ a' = Grid(f.grid) /\ pending' = [frame |-> f, age |-> 0]
  /\ UNCHANGED <<task, writes, persisted>>

Processed(f, passed) ==
  /\ session # None /\ up = "yes" /\ task = None
  /\ Process(Older(session, passed), f, 0, Grid(f.grid))

SteadyAfter(f) ==
  steady' = (session' # None /\ ~session'.override /\ f.grid = "on" /\ Qualifies(f))

LEMMA SnapshotCases ==
  ASSUME IInv, Snapshot
  PROVE  /\ up # "no" /\ UNCHANGED <<env, up, stored, off, wire, plant, ended, final>>
         /\ \E f \in Frame, passed \in 0..Gap :
              /\ SteadyAfter(f)
              /\ Unseen(f.grid, passed) \/ Delayed(f, passed) \/ Processed(f, passed)
  <1>1. PICK grid \in Grids, shown \in Shown, pump \in Pumps, passed \in 1..Gap :
          LET f == [grid |-> grid, on |-> plant, shown |-> shown, pump |-> pump]
              s == Older(session, passed)
          IN /\ up # "no" /\ Prompt
             /\ \/ /\ session = None \/ up # "yes"
                   /\ a' = IF up = "yes" THEN Grid(grid) ELSE a
                   /\ pending' = IF pending = None THEN None
                                 ELSE [pending EXCEPT !.age = Lesser(@ + passed, Gap)]
                   /\ UNCHANGED <<session, task, writes, persisted>>
                \/ /\ session # None /\ up = "yes" /\ task # None
                   /\ session' = s /\ a' = Grid(grid) /\ pending' = [frame |-> f, age |-> 0]
                   /\ UNCHANGED <<task, writes, persisted>>
                \/ /\ session # None /\ up = "yes" /\ task = None
                   /\ Process(s, f, 0, Grid(grid))
             /\ steady' = (session' # None /\ ~session'.override /\ grid = "on" /\ Qualifies(f))
             /\ UNCHANGED <<env, up, stored, off, wire, plant, ended, final>>
    BY DEF Snapshot
  <1> DEFINE f == [grid |-> grid, on |-> plant, shown |-> shown, pump |-> pump]
  <1>2. f \in Frame /\ f.grid = grid
    BY DEF Frame, Grids, Shown, Pumps, IInv, TypeOK
  <1>3. passed \in 0..Gap
    BY ControllerAssumption
  <1>4. /\ up # "no" /\ UNCHANGED <<env, up, stored, off, wire, plant, ended, final>>
        /\ steady' = (session' # None /\ ~session'.override /\ grid = "on" /\ Qualifies(f))
        /\ \/ /\ session = None \/ up # "yes"
              /\ a' = IF up = "yes" THEN Grid(grid) ELSE a
              /\ pending' = IF pending = None THEN None
                            ELSE [pending EXCEPT !.age = Lesser(@ + passed, Gap)]
              /\ UNCHANGED <<session, task, writes, persisted>>
           \/ /\ session # None /\ up = "yes" /\ task # None
              /\ session' = Older(session, passed) /\ a' = Grid(grid)
              /\ pending' = [frame |-> f, age |-> 0]
              /\ UNCHANGED <<task, writes, persisted>>
           \/ /\ session # None /\ up = "yes" /\ task = None
              /\ Process(Older(session, passed), f, 0, Grid(grid))
    BY <1>1
  <1> HIDE DEF f
  <1> QED
    BY <1>2, <1>3, <1>4 DEF Unseen, Delayed, Processed, SteadyAfter

LEMMA UnseenKeeps ==
  ASSUME IInv, NEW f \in Frame, NEW passed \in 0..Gap, Unseen(f.grid, passed), SteadyAfter(f),
         up # "no", UNCHANGED <<env, up, stored, off, wire, plant, ended, final>>
  PROVE  IInv'
  <1> USE DEF IInv
  <1>1. /\ a' \in Authority /\ a'.sanitation = a.sanitation
        /\ a'.current["SANITATION"] = a.current["SANITATION"]
    BY GridFacts DEF Unseen, TypeOK
  <1>2. pending' \in [frame : Frame, age : 0..Gap] \cup {None}
    BY ControllerAssumption DEF Unseen, Lesser, TypeOK
  <1>3. TypeOK'
    BY <1>1, <1>2 DEF TypeOK, Unseen, SteadyAfter
  <1>4. Earned'
    BY DEF Unseen, Earned, May
  <1>5. Durable'
    BY DEF Unseen, Durable, EndedIn, Undated
  <1> QED
    BY <1>1, <1>3, <1>4, <1>5 DEF Unseen, Fits, Waits, Down, AuthorityFollowsSession, Registered

LEMMA DelayedKeeps ==
  ASSUME IInv, NEW f \in Frame, NEW passed \in 0..Gap, Delayed(f, passed), SteadyAfter(f),
         UNCHANGED <<env, up, stored, off, wire, plant, ended, final>>
  PROVE  IInv'
  <1> USE DEF IInv
  <1>1. /\ a' \in Authority /\ a'.sanitation = a.sanitation
        /\ a'.current["SANITATION"] = a.current["SANITATION"]
    BY GridFacts DEF Delayed, TypeOK
  <1>2. session.since = None
    BY DEF Delayed, Waits
  <1>3. session' = session
    BY <1>2 DEF Delayed, Older
  <1>4. pending' \in [frame : Frame, age : 0..Gap]
    BY ControllerAssumption DEF Delayed
  <1>5. TypeOK'
    BY <1>1, <1>3, <1>4 DEF TypeOK, Delayed, SteadyAfter
  <1>6. Earned'
    BY <1>2, <1>3 DEF Delayed, Earned, May, SteadyAfter
  <1>7. Durable'
    BY <1>3 DEF Delayed, Durable, EndedIn, Undated
  <1> QED
    BY <1>1, <1>3, <1>5, <1>6, <1>7
    DEF Delayed, Fits, Waits, Down, AuthorityFollowsSession, Registered

LEMMA ProcessedKeeps ==
  ASSUME IInv, NEW f \in Frame, NEW passed \in 0..Gap, Processed(f, passed), SteadyAfter(f),
         UNCHANGED <<env, up, stored, off, wire, plant, ended, final>>
  PROVE  /\ IInv'
         /\ ~May("reset") /\ session' # None /\ session'.left < session.left => steady /\ steady'
  <1> USE DEF IInv
  <1> DEFINE s == Older(session, passed)
             b == Grid(f.grid)
  <1>0. session \in SanitationSession /\ session # None /\ up = "yes" /\ Tidy(session)
        /\ session.since \in 0..Gap \cup {None}
    BY DEF Processed, TypeOK, Fits
  <1>1. /\ s \in SanitationSession /\ s.id = session.id /\ s.left = session.left
        /\ s.life = session.life /\ s.override = session.override
        /\ s.since = None <=> session.since = None
    BY <1>0, OlderFacts
  <1>2. b \in Authority /\ b.sanitation # None /\ b.sanitation.id = session.id
    BY <1>0, GridFacts DEF TypeOK, AuthorityFollowsSession
  <1>3. Process(s, f, 0, b)
    BY DEF Processed
  <1>4. Tidy(s) /\ 0 \in 0..Gap
    BY <1>0, <1>1, ControllerAssumption DEF Tidy
  <1> HIDE DEF s, b
  <1>5. /\ session' \in SanitationSession \cup {None} /\ a' \in Authority
        /\ task' \in Task \cup {None} /\ pending' = None
        /\ writes' \in Seq(Save) /\ Len(writes') <= MaxSaves
        /\ persisted' \in [life : Lives, left : 0..Duration] \cup {None}
        /\ Fits' /\ Waits' /\ Registered' /\ Durable'
        /\ IF session' = None THEN a'.sanitation = None
           ELSE a'.sanitation # None /\ a'.sanitation.id = session'.id
        /\ session' # None =>
             /\ session'.since # None \/ session'.left < s.left =>
                  f.grid = "on" /\ Qualifies(f) /\ ~session'.override
             /\ session'.left < s.left => s.since # None
    BY <1>0, <1>1, <1>2, <1>3, <1>4, ProcessFacts
  <1>6. TypeOK'
    BY <1>5 DEF TypeOK, SteadyAfter
  <1>7. Down' /\ AuthorityFollowsSession'
    BY <1>0, <1>5 DEF Down, AuthorityFollowsSession
  <1>8. Earned'
    BY <1>5 DEF Earned, May, SteadyAfter
  <1>9. ~May("reset") /\ session' # None /\ session'.left < session.left => steady /\ steady'
    BY <1>0, <1>1, <1>5 DEF Earned, SteadyAfter
  <1> QED
    BY <1>5, <1>6, <1>7, <1>8, <1>9

-----------------------------------------------------------------------------
LEMMA IInvInit ==
  Init => IInv
  <1> SUFFICES ASSUME Init PROVE IInv
    OBVIOUS
  <1>1. env \in Environments /\ env.on \subseteq Parts
    BY RuntimeAssumption DEF Init
  <1>2. <<>> \in Seq(Save) /\ Len(<<>>) <= MaxSaves /\ DOMAIN <<>> = {}
    BY RuntimeAssumption
  <1>3. TypeOK
    BY <1>1, <1>2, ReadyIsAuthority DEF Init, TypeOK
  <1>4. Durable
    BY <1>2 DEF Init, Durable, EndedIn, Undated
  <1> QED
    BY <1>1, <1>3, <1>4, ReadyIsAuthority
    DEF IInv, Init, Fits, Waits, Down, AuthorityFollowsSession, Registered, Earned

LEMMA IInvStutters ==
  ASSUME IInv, UNCHANGED vars
  PROVE  IInv'
  <1> USE DEF IInv, vars
  <1>1. TypeOK'
    BY DEF TypeOK
  <1>2. Durable'
    BY DEF Durable, EndedIn, Undated
  <1> QED
    BY <1>1, <1>2
    DEF Fits, Waits, Down, AuthorityFollowsSession, Registered, Earned, May

LEMMA SnapshotKeeps ==
  ASSUME IInv, Snapshot
  PROVE  IInv'
  BY SnapshotCases, UnseenKeeps, DelayedKeeps, ProcessedKeeps

LEMMA IInvNext ==
  IInv /\ [Next]_vars => IInv'
  <1> SUFFICES ASSUME IInv, [Next]_vars PROVE IInv'
    OBVIOUS
  <1>1. CASE Start
    BY <1>1, StartKeeps
  <1>2. CASE Cancels(TRUE) \/ Cancels(FALSE)
    BY <1>2, CancelsKeeps
  <1>3. CASE Abandon
    BY <1>3, AbandonKeeps
  <1>4. CASE Snapshot
    BY <1>4, SnapshotKeeps
  <1>5. CASE Delivery
    BY <1>5, SendsKeeps, OffSendsKeeps, TaskDoneKeeps DEF Delivery
  <1>6. CASE SaveEnds
    BY <1>6, SaveEndsKeeps
  <1>7. CASE Crash
    BY <1>7, CrashKeeps
  <1>8. CASE Unload
    BY <1>8, UnloadKeeps
  <1>9. CASE UnloadSaved \/ UnloadEnds
    BY <1>9, UnloadSavedKeeps, UnloadEndsKeeps
  <1>10. CASE Boots
    BY <1>10, BootsKeeps
  <1>11. CASE Equipment
    BY <1>11, EquipmentKeeps
  <1>12. CASE UNCHANGED vars
    BY <1>12, IInvStutters
  <1> QED
    BY <1>1, <1>2, <1>3, <1>4, <1>5, <1>6, <1>7, <1>8, <1>9, <1>10, <1>11, <1>12 DEF Next

\* The invariant the theorems below rest on: authority, store and saves under way follow
\* the session, and a frame or command that waits belongs to it or can do nothing.
THEOREM Inductive == Spec => []IInv
  BY IInvInit, IInvNext, PTL DEF Spec

\* Every variable of the sanitation runtime keeps its type; the saves under way stay within
\* their bound and the countdown between zero and its duration.
THEOREM SanitationTypeCorrect == Spec => []TypeOK
  <1>1. IInv => TypeOK
    BY DEF IInv
  <1> QED
    BY <1>1, Inductive, PTL

\* A cancellation is never undone once the store has held it and nothing older of the session
\* was left, running or being saved: not by a crash or a reload, nor by a save of an entry
\* before (async_restore, _persist).
THEOREM CancellationsLast == Spec => []CancelIsDurable
  <1>1. IInv => CancelIsDurable
    BY DEF IInv, Durable, CancelIsDurable, EndedIn
  <1> QED
    BY <1>1, Inductive, PTL

\* The authority locks the rest of the program out exactly while the runtime has a session.
THEOREM LockFollowsSession == Spec => []AuthorityFollowsSession
  <1>1. IInv => AuthorityFollowsSession
    BY DEF IInv
  <1> QED
    BY <1>1, Inductive, PTL

\* A command that waits for the lock is not sent once its session is over, not even when
\* another session has begun, nor once async_unload has ended it for the authority.
THEOREM EndedSessionsAreSilent == Spec => EndedSessionSendsNothing
  <1>1. IInv /\ Sends => session # None /\ session.id = task.id /\ up \in {"yes", "saving"}
    <2> SUFFICES ASSUME IInv, Sends
                 PROVE  session # None /\ session.id = task.id /\ up \in {"yes", "saving"}
      OBVIOUS
    <2>1. Asked(task).source = "SANITATION" /\ Asked(task).context = task.context
      BY DEF Asked
    <2>2. task # None /\ task.context = a.current["SANITATION"]
      BY <2>1 DEF Sends, Queued, Allowed, ContextAllows, Contexts
    <2> QED
      BY <2>2 DEF IInv, Registered
  <1>2. IInv /\ [Next]_vars =>
          [Sends => session # None /\ session.id = task.id /\ up \in {"yes", "saving"}]_vars
    BY <1>1
  <1> QED
    BY <1>2, Inductive, PTL DEF Spec, EndedSessionSendsNothing

\* Nothing but a snapshot shortens the countdown of a session.
LEMMA OnlySnapshotsCount ==
  ASSUME IInv, Next, session # None, session' # None, session'.id = session.id,
         session'.left < session.left
  PROVE  Snapshot
  <1>1. session \in SanitationSession /\ session.left \in Int
    BY ControllerAssumption DEF IInv, TypeOK, SanitationSession
  <1>2. session' # session
    BY <1>1
  <1>3. ASSUME Cancels(TRUE) \/ Cancels(FALSE) PROVE FALSE
    <2>1. session' = Cancelled(session)
      BY <1>3 DEF Cancels
    <2>2. "cancelling" \in Lives
      BY DEF Lives, Ending
    <2> QED
      BY <1>1, <2>1, <2>2, PausedFacts DEF Cancelled
  <1>4. ASSUME TaskDone PROVE FALSE
    <2>1. /\ task # None /\ pending # None /\ up = "yes" /\ up' = "yes"
          /\ UNCHANGED <<stored, ended, final>>
          /\ Process(session, pending.frame, pending.age, a)
      BY <1>2, <1>4 DEF TaskDone
    <2>2. /\ pending.frame \in Frame /\ pending.age \in 0..Gap /\ Tidy(session)
          /\ a \in Authority /\ a.sanitation # None /\ a.sanitation.id = session.id
          /\ TypeOK /\ Durable /\ session.since = None
      BY <2>1 DEF IInv, TypeOK, Fits, AuthorityFollowsSession, Waits
    <2>3. session'.left < session.left => session.since # None
      BY <1>1, <2>1, <2>2, ProcessFacts
    <2> QED
      BY <2>2, <2>3
  <1>5. ASSUME Boots PROVE FALSE
    BY <1>5 DEF Boots, IInv, Down
  <1>6. ASSUME UnloadEnds \/ Crash \/ Abandon PROVE FALSE
    BY <1>6 DEF UnloadEnds, Crash, Gone, Abandon
  <1>7. ASSUME Start \/ SaveEnds \/ Unload \/ UnloadSaved \/ Sends \/ OffSends \/ Equipment
        PROVE  FALSE
    BY <1>2, <1>7 DEF Start, SaveEnds, Unload, UnloadSaved, Sends, OffSends, Equipment
  <1> QED
    BY <1>3, <1>4, <1>5, <1>6, <1>7 DEF Next, Delivery

\* Where nobody resets the control only verified time is counted: between two snapshots that
\* both qualify, for a session the operator's pump does not override, and by no frame that has
\* waited for a delivery (SanitationController.observe, _task_done).
THEOREM OnlyVerifiedTimeCounts == Spec => EarnedOnly
  <1> DEFINE Counts == /\ ~May("reset") /\ session # None /\ session' # None
                       /\ session'.id = session.id /\ session'.left < session.left
  <1>1. IInv /\ Next /\ Counts => task = None /\ steady /\ steady'
    <2> SUFFICES ASSUME IInv, Next, Counts PROVE task = None /\ steady /\ steady'
      OBVIOUS
    <2>1. Snapshot
      BY OnlySnapshotsCount
    <2>2. PICK f \in Frame, passed \in 0..Gap :
            /\ SteadyAfter(f)
            /\ Unseen(f.grid, passed) \/ Delayed(f, passed) \/ Processed(f, passed)
      BY <2>1, SnapshotCases
    <2>3. UNCHANGED <<env, up, stored, off, wire, plant, ended, final>>
      BY <2>1, SnapshotCases
    <2>4. session \in SanitationSession /\ session.left \in Int
      BY ControllerAssumption DEF IInv, TypeOK, SanitationSession
    <2>5. ~Unseen(f.grid, passed)
      BY <2>4 DEF Unseen
    <2>6. ~Delayed(f, passed)
      <3>1. session.since \in 0..Gap \cup {None}
        BY DEF IInv, Fits
      <3>2. Older(session, passed).left = session.left
        BY <2>4, <3>1, OlderFacts
      <3> QED
        BY <2>4, <3>2 DEF Delayed
    <2>7. Processed(f, passed)
      BY <2>2, <2>5, <2>6
    <2> QED
      BY <2>2, <2>3, <2>7, ProcessedKeeps DEF Processed
  <1>2. IInv /\ UNCHANGED vars /\ Counts => FALSE
    BY ControllerAssumption DEF IInv, TypeOK, SanitationSession, vars
  <1>3. IInv /\ [Next]_vars => [Counts => task = None /\ steady /\ steady']_vars
    BY <1>1, <1>2
  <1> QED
    BY <1>3, Inductive, PTL DEF Spec, EarnedOnly
=============================================================================
