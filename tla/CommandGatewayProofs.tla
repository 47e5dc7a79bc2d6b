------------------------ MODULE CommandGatewayProofs ------------------------
(***************************************************************************)
(* Proofs about CommandGateway: what a request loses while it waits for    *)
(* the command lock it never gets back, restraints outlive a restart, and  *)
(* the registry explains by nothing that was not sent.                     *)
(***************************************************************************)
EXTENDS CommandGateway, PhysicalAuthorityProofs

\* Each source's request under way is its own, and so is the expectation it reserved.
Own ==
  \A s \in Sources : cmd[s] # None =>
    /\ cmd[s].request.source = s
    /\ s \in Contexts => cmd[s].request.context = cmd[s].id
    /\ s = "FILTRATION" => cmd[s].request.body = "pool"
    /\ \A e \in a.expected : e.id = cmd[s].id => e.request = cmd[s].request

\* Who waits for the lock has not been sent, and waits once.
Waiting ==
  /\ \A i \in DOMAIN queue : cmd[queue[i]] # None /\ ~cmd[queue[i]].sent
  /\ \A i, j \in DOMAIN queue : queue[i] = queue[j] => i = j

\* The entitlement of a request is gone when its context is not registered or its
\* expectation is dropped.
Lost(s) ==
  \/ s \in Contexts /\ a.current[s] # cmd[s].request.context
  \/ cmd[s].expected /\ ~Reserved(a, cmd[s].id)

WithdrawnAreLost == \A s \in withdrawn : cmd[s] # None /\ ~cmd[s].sent /\ Lost(s)

StartedAreDispatched ==
  \A e \in a.expected :
    e.started => [target |-> e.request.target, on |-> e.request.on] \in dispatched

\* A restraint is in force, or the startup barrier still waits for it.
Restrains == restraint \ a.restoring \subseteq a.suppressed

IInv ==
  /\ TypeOK /\ env \in Environments /\ IsFiniteSet(a.expected)
  /\ Own /\ Waiting /\ WithdrawnAreLost /\ StartedAreDispatched /\ Restrains

-----------------------------------------------------------------------------
(***************************************************************************)
(* Steps that only withdraw: everything an operator, Home Assistant, the   *)
(* other domains or a snapshot change.                                     *)
(***************************************************************************)
\* What the names say is withdrawn has lost its context or its expectation.
Revokes(names) ==
  /\ \A n \in names : \A s \in WithdrawnBy(n) : a'.current[s] = None
  /\ names \cap Forgetting # {} => a'.expected = {}

LEMMA WithdrawnByContexts ==
  ASSUME NEW n
  PROVE  WithdrawnBy(n) \subseteq Automatic \cup {"OUTAGE"}
  BY DEF WithdrawnBy, Automatic

\* Nobody gets back what a step withdraws.
LEMMA LostStays ==
  ASSUME IInv, a' \in Authority, Withdrawn(a', a), cmd' = cmd,
         NEW s \in Sources, cmd[s] # None, Lost(s)
  PROVE  Lost(s)'
  <1> USE DEF IInv
  <1>0. cmd[s] \in Command
    BY DEF TypeOK
  <1>1. CASE s \in Contexts /\ a.current[s] # cmd[s].request.context
    <2>1. cmd[s].request.context # None
      BY <1>0, <1>1, NoneAssumption DEF Own, Command
    <2>2. a'.current[s] \in {a.current[s], None}
      BY <1>1 DEF Withdrawn
    <2> QED
      BY <1>1, <2>1, <2>2 DEF Lost
  <1>2. CASE cmd[s].expected /\ ~Reserved(a, cmd[s].id)
    <2>1. ~Reserved(a', cmd[s].id)
      BY <1>2 DEF Reserved, Withdrawn
    <2> QED
      BY <1>2, <2>1 DEF Lost
  <1> QED
    BY <1>1, <1>2 DEF Lost

LEMMA WithdrawalKeeps ==
  ASSUME IInv, a' \in Authority, Withdrawn(a', a),
         UNCHANGED <<env, cmd, queue>>, wire' \subseteq Effect, plant' \subseteq Targets,
         restraint' \subseteq Bodies, baseline' \in BOOLEAN, monitored' \in BOOLEAN,
         Restrains', NEW names, Withdraws(names), Revokes(names)
  PROVE  IInv'
  <1> USE DEF IInv
  <1>1. /\ IsFiniteSet(a'.expected) /\ Cardinality(a'.expected) <= Limit
    <2>1. /\ IsFiniteSet(a'.expected)
          /\ Cardinality(a'.expected) <= Cardinality(a.expected)
          /\ Cardinality(a.expected) <= Limit
      BY DEF Withdrawn, TypeOK
    <2>2. Cardinality(a'.expected) \in Nat /\ Cardinality(a.expected) \in Nat
      BY <2>1, FS_CardinalityType
    <2> QED
      BY <2>1, <2>2, AuthorityAssumption
  <1>2. withdrawn' \subseteq Sources /\ dispatched' \subseteq Effect
    BY DEF Withdraws, TypeOK
  <1>3. TypeOK'
    BY <1>1, <1>2 DEF TypeOK
  <1>4. Own'
    BY DEF Own, Withdrawn
  <1>5. Waiting'
    BY DEF Waiting
  <1>6. WithdrawnAreLost'
    <2> SUFFICES ASSUME NEW s \in withdrawn'
                 PROVE  cmd[s] # None /\ ~cmd[s].sent /\ Lost(s)'
      BY DEF WithdrawnAreLost
    <2>0. s \in Sources
      BY <1>2
    <2>1. CASE s \in withdrawn
      BY <2>0, <2>1, LostStays DEF WithdrawnAreLost
    <2>2. CASE s \notin withdrawn
      <3>1. /\ cmd[s] # None /\ ~cmd[s].sent
            /\ \E n \in names : s \in WithdrawnBy(n) \/ (n \in Forgetting /\ cmd[s].expected)
        BY <2>2 DEF Withdraws
      <3>2. PICK n \in names : s \in WithdrawnBy(n) \/ (n \in Forgetting /\ cmd[s].expected)
        BY <3>1
      <3>3. CASE s \in WithdrawnBy(n)
        <4>1. s \in Contexts
          BY <3>3, WithdrawnByContexts DEF Contexts
        <4>2. cmd[s].request.context # None
          BY <2>0, <3>1, <4>1, NoneAssumption DEF Own, TypeOK, Command
        <4>3. a'.current[s] = None
          BY <3>3 DEF Revokes
        <4> QED
          BY <3>1, <4>1, <4>2, <4>3 DEF Lost
      <3>4. CASE n \in Forgetting /\ cmd[s].expected
        <4>1. a'.expected = {}
          BY <3>4 DEF Revokes
        <4> QED
          BY <3>1, <3>4, <4>1 DEF Lost, Reserved
      <3> QED
        BY <3>2, <3>3, <3>4
    <2> QED
      BY <2>1, <2>2
  <1>7. StartedAreDispatched'
    <2>1. CASE names \cap Forgetting = {}
      <3>1. dispatched' = dispatched
        BY <2>1 DEF Withdraws
      <3> QED
        BY <3>1 DEF StartedAreDispatched, Withdrawn
    <2>2. CASE names \cap Forgetting # {}
      BY <2>2 DEF Revokes, StartedAreDispatched
    <2> QED
      BY <2>1, <2>2
  <1> QED
    BY <1>1, <1>3, <1>4, <1>5, <1>6, <1>7

LEMMA ChangedKeeps ==
  ASSUME IInv, NEW kind, NEW n, NEW b, Changed(kind, n, b),
         b \in Authority, Withdrawn(b, a), Revokes({n}),
         restraint' \subseteq Bodies, baseline' \in BOOLEAN, monitored' \in BOOLEAN, Restrains'
  PROVE  IInv'
  <1>1. /\ a' = b /\ UNCHANGED <<env, cmd, queue, wire, plant>> /\ Withdraws({n})
    BY DEF Changed
  <1>2. wire' \subseteq Effect /\ plant' \subseteq Targets
    BY <1>1 DEF IInv, TypeOK
  <1> QED
    BY <1>1, <1>2, WithdrawalKeeps

LEMMA NamesOfChanges ==
  /\ \A body \in Bodies : WithdrawnBy(body) = Stales(body)
  /\ WithdrawnBy("maintenance") = {} /\ WithdrawnBy("mode") = {} /\ WithdrawnBy("ceiling") = {}
  /\ WithdrawnBy("thermal") = {"THERMAL"} /\ WithdrawnBy("filtration") = {"FILTRATION"}
  /\ WithdrawnBy("gate") = {"OUTAGE"} /\ WithdrawnBy("sanitation") = Automatic
  /\ WithdrawnBy("domain") = Automatic /\ WithdrawnBy("reset_done") = Automatic
  /\ WithdrawnBy("reset_begun") = Automatic \cup {"OUTAGE"}
  /\ Bodies \cap Forgetting = {}
  /\ \A n \in {"ceiling", "thermal", "filtration", "gate", "sanitation", "domain", "reset_done"} :
       n \notin Forgetting
  BY DEF WithdrawnBy, Stales, Bodies, Forgetting

LEMMA NoneStays ==
  ASSUME NEW b, NEW c, Withdrawn(c, b)
  PROVE  /\ \A x \in Contexts : b.current[x] = None => c.current[x] = None
         /\ b.expected = {} => c.expected = {}
  BY DEF Withdrawn

LEMMA MaintainsKeeps ==
  ASSUME IInv, Maintains
  PROVE  IInv'
  <1>1. PICK value \in {"on", "off"} :
          /\ Changed("maintenance", "maintenance", ResolveMaintenance(a, value))
          /\ monitored' = (monitored /\ value = "on")
          /\ UNCHANGED <<restraint, baseline>>
    BY DEF Maintains
  <1> DEFINE b == ResolveMaintenance(a, value)
  <1>2. /\ b \in Authority /\ Withdrawn(b, a) /\ SameLocks(b, a)
        /\ b # a => b.expected = {}
    BY MaintenanceFacts DEF IInv, TypeOK
  <1>3. a' = b /\ a' # a /\ Changed("maintenance", "maintenance", b)
    BY <1>1 DEF Changed
  <1> HIDE DEF b
  <1>4. Revokes({"maintenance"})
    BY <1>2, <1>3, NamesOfChanges DEF Revokes
  <1>5. /\ restraint' \subseteq Bodies /\ baseline' \in BOOLEAN /\ monitored' \in BOOLEAN
        /\ Restrains'
    BY <1>1, <1>2, <1>3 DEF IInv, TypeOK, Restrains, SameLocks
  <1> QED
    BY <1>2, <1>3, <1>4, <1>5, ChangedKeeps

LEMMA SuppressesKeeps ==
  ASSUME IInv, Suppresses
  PROVE  IInv'
  <1>1. PICK body \in Bodies, on \in BOOLEAN :
          /\ a.restoring = {}
          /\ Changed("suppress", body, SetSuppressed(a, body, on))
          /\ restraint' = a'.suppressed /\ UNCHANGED <<baseline, monitored>>
    BY DEF Suppresses
  <1> DEFINE b == SetSuppressed(a, body, on)
  <1>2. a \in Authority
    BY DEF IInv, TypeOK
  <1>3. SuppressedAs(b, a, body, on)
    BY <1>2, SuppressedFacts, Zenon
  <1>4. a' = b /\ a' # a /\ Changed("suppress", body, b)
    BY <1>1 DEF Changed
  <1> HIDE DEF b
  <1>5. /\ b \in Authority /\ Withdrawn(b, a) /\ b.restoring = a.restoring
        /\ \A c \in Contexts : c \in Stales(body) => b.current[c] = None
    BY <1>3, <1>4 DEF SuppressedAs
  <1>6. Stales(body) \subseteq Contexts
    BY DEF Stales, Contexts, Automatic
  <1>7. Revokes({body})
    BY <1>4, <1>5, <1>6, NamesOfChanges DEF Revokes
  <1>8. /\ restraint' \subseteq Bodies /\ baseline' \in BOOLEAN /\ monitored' \in BOOLEAN
        /\ Restrains'
    BY <1>1, <1>4, <1>5 DEF IInv, TypeOK, Restrains, Authority
  <1> QED
    BY <1>4, <1>5, <1>7, <1>8, ChangedKeeps

\* The gates, sanitation and the outage domain leave the restraints as they are.
LEMMA UnaffectedKeeps ==
  ASSUME IInv, Unaffected, NEW kind, NEW n, NEW b, Changed(kind, n, b),
         b \in Authority, Withdrawn(b, a), Revokes({n}),
         b.restoring = a.restoring, b.suppressed = a.suppressed
  PROVE  IInv'
  <1>1. a' = b /\ UNCHANGED <<restraint, baseline, monitored>>
    BY DEF Changed, Unaffected
  <1>2. /\ restraint' \subseteq Bodies /\ baseline' \in BOOLEAN /\ monitored' \in BOOLEAN
        /\ Restrains'
    BY <1>1 DEF IInv, TypeOK, Restrains
  <1> QED
    BY <1>2, ChangedKeeps

LEMMA ThermalKeeps ==
  ASSUME IInv, Unaffected, NEW kind, NEW scope \in SUBSET Bodies,
         Changed(kind, "thermal", ConfigureThermal(a, scope))
  PROVE  IInv'
  <1> DEFINE b == ConfigureThermal(a, scope)
  <1>1. Narrowed(b, a, "THERMAL")
    BY ThermalFacts DEF IInv, TypeOK
  <1>2. a' = b /\ a' # a /\ Changed(kind, "thermal", b)
    BY DEF Changed
  <1> HIDE DEF b
  <1>3. Revokes({"thermal"})
    BY <1>1, <1>2, NamesOfChanges DEF Revokes, Narrowed
  <1> QED
    BY <1>1, <1>2, <1>3, UnaffectedKeeps DEF Narrowed, SameLocks

LEMMA FiltrationKeeps ==
  ASSUME IInv, Unaffected, NEW kind, NEW on \in BOOLEAN,
         Changed(kind, "filtration", ConfigureFiltration(a, on))
  PROVE  IInv'
  <1> DEFINE b == ConfigureFiltration(a, on)
  <1>0. a \in Authority
    BY DEF IInv, TypeOK
  <1>1. Narrowed(b, a, "FILTRATION")
    BY <1>0, FiltrationFacts, Zenon
  <1>2. a' = b /\ a' # a /\ Changed(kind, "filtration", b)
    BY DEF Changed
  <1> HIDE DEF b
  <1>3. Revokes({"filtration"})
    BY <1>1, <1>2, NamesOfChanges DEF Revokes, Narrowed
  <1> QED
    BY <1>1, <1>2, <1>3, UnaffectedKeeps DEF Narrowed, SameLocks

LEMMA OutageGateKeeps ==
  ASSUME IInv, Unaffected, NEW kind, NEW on \in BOOLEAN,
         Changed(kind, "gate", ConfigureOutage(a, on))
  PROVE  IInv'
  <1> DEFINE b == ConfigureOutage(a, on)
  <1>0. a \in Authority
    BY DEF IInv, TypeOK
  <1>1. GateAs(b, a)
    BY <1>0, OutageGateFacts, Zenon
  <1>2. a' = b /\ a' # a /\ Changed(kind, "gate", b)
    BY DEF Changed
  <1> HIDE DEF b
  <1>3. Revokes({"gate"})
    BY <1>1, <1>2, NamesOfChanges DEF Revokes, GateAs
  <1> QED
    BY <1>1, <1>2, <1>3, UnaffectedKeeps DEF GateAs

LEMMA GatesKeep ==
  ASSUME IInv, Gates
  PROVE  IInv'
  <1>1. CASE \E scope \in {{}, {"spa"}, Bodies} : Changed("thermal", "thermal", ConfigureThermal(a, scope))
    BY <1>1, ThermalKeeps DEF Gates, Bodies
  <1>2. CASE Changed("filtration", "filtration", ConfigureFiltration(a, ~a.filtration))
    <2> DEFINE on == ~a.filtration
    <2>1. on \in BOOLEAN
      OBVIOUS
    <2>2. Changed("filtration", "filtration", ConfigureFiltration(a, on)) /\ Unaffected
      BY <1>2 DEF Gates
    <2> HIDE DEF on
    <2> QED
      BY <2>1, <2>2, FiltrationKeeps
  <1>3. CASE Changed("gate", "gate", ConfigureOutage(a, ~a.outage.gate))
    <2> DEFINE on == ~a.outage.gate
    <2>1. on \in BOOLEAN
      OBVIOUS
    <2>2. Changed("gate", "gate", ConfigureOutage(a, on)) /\ Unaffected
      BY <1>3 DEF Gates
    <2> HIDE DEF on
    <2> QED
      BY <2>1, <2>2, OutageGateKeeps
  <1> QED
    BY <1>1, <1>2, <1>3 DEF Gates

LEMMA FreshTokenFacts ==
  ASSUME TokenLeft
  PROVE  FreshToken \in Tokens /\ FreshToken \notin TokensInUse
  BY DEF TokenLeft, FreshToken

LEMMA SanitationKeeps ==
  ASSUME IInv, Sanitation
  PROVE  IInv'
  <1>0. a \in Authority /\ Unaffected
    BY DEF IInv, TypeOK, Sanitation
  <1>1. CASE \E body \in Bodies :
               /\ TokenLeft /\ a.sanitation = None
               /\ Changed("sanitation", "sanitation",
                          BeginSanitation(a, [body |-> body, id |-> FreshToken]))
    <2>1. PICK body \in Bodies :
               /\ TokenLeft
               /\ Changed("sanitation", "sanitation",
                          BeginSanitation(a, [body |-> body, id |-> FreshToken]))
      BY <1>1
    <2> DEFINE session == [body |-> body, id |-> FreshToken]
               b == BeginSanitation(a, session)
    <2>2. session \in Session
      BY <2>1, FreshTokenFacts DEF Session
    <2> HIDE DEF session
    <2>3. /\ b \in Authority /\ Withdrawn(b, a)
          /\ b.restoring = a.restoring /\ b.suppressed = a.suppressed
          /\ \A c \in Automatic \cup {"SANITATION"} : b.current[c] = None
      BY <1>0, <2>2, SanitationBegins
    <2>4. a' = b /\ Changed("sanitation", "sanitation", b)
      BY <2>1 DEF Changed, session
    <2> HIDE DEF b
    <2>5. Revokes({"sanitation"})
      BY <2>3, <2>4, NamesOfChanges DEF Revokes
    <2> QED
      BY <1>0, <2>3, <2>4, <2>5, UnaffectedKeeps
  <1>2. CASE /\ a.sanitation # None
             /\ Changed("sanitation", "sanitation", EndSanitation(a, a.sanitation.id))
    <2> DEFINE b == EndSanitation(a, a.sanitation.id)
    <2>1. /\ b \in Authority /\ Withdrawn(b, a)
          /\ b.restoring = a.restoring /\ b.suppressed = a.suppressed
          /\ \A c \in Automatic \cup {"SANITATION"} : b.current[c] = None
      BY <1>0, <1>2, SanitationEnds
    <2>2. a' = b /\ Changed("sanitation", "sanitation", b)
      BY <1>2 DEF Changed
    <2> HIDE DEF b
    <2>3. Revokes({"sanitation"})
      BY <2>1, <2>2, NamesOfChanges DEF Revokes
    <2> QED
      BY <1>0, <2>1, <2>2, <2>3, UnaffectedKeeps
  <1> QED
    BY <1>1, <1>2 DEF Sanitation

LEMMA OutageDomainKeeps ==
  ASSUME IInv, OutageDomain
  PROVE  IInv'
  <1>1. PICK active \in BOOLEAN, ceiling \in BOOLEAN :
          /\ Changed("outage", IF active = a.outage.active THEN "ceiling" ELSE "domain",
                     SetOutageDomain(a, active, ceiling))
          /\ Unaffected
    BY DEF OutageDomain
  <1> DEFINE n == IF active = a.outage.active THEN "ceiling" ELSE "domain"
             b == SetOutageDomain(a, active, ceiling)
  <1>2. a \in Authority
    BY DEF IInv, TypeOK
  <1>3. DomainAs(b, a, active)
    BY <1>2, OutageDomainFacts, Zenon
  <1>4. a' = b /\ Changed("outage", n, b)
    BY <1>1 DEF Changed
  <1> HIDE DEF b
  <1>5. n \in {"ceiling", "domain"} /\ n \notin Forgetting
    BY NamesOfChanges
  <1>6. \A s \in WithdrawnBy(n) : b.current[s] = None
    BY <1>3, NamesOfChanges DEF DomainAs
  <1>7. Revokes({n})
    BY <1>4, <1>5, <1>6 DEF Revokes
  <1> HIDE DEF n
  <1> QED
    BY <1>1, <1>3, <1>4, <1>7, UnaffectedKeeps DEF DomainAs

LEMMA ResetEndsKeeps ==
  ASSUME IInv, ResetEnds
  PROVE  IInv'
  <1> DEFINE b == FinishReset(a)
  <1>1. /\ b \in Authority /\ Withdrawn(b, a) /\ SameLocks(b, a)
        /\ \A c \in Automatic : b.current[c] = None
    BY ResetFinishes DEF IInv, TypeOK
  <1>2. a' = b /\ Changed("reset", "reset_done", b) /\ Unaffected
    BY DEF ResetEnds, Changed
  <1> HIDE DEF b
  <1>3. Revokes({"reset_done"})
    BY <1>1, <1>2, NamesOfChanges DEF Revokes
  <1> QED
    BY <1>1, <1>2, <1>3, UnaffectedKeeps DEF SameLocks

LEMMA PressesResetKeeps ==
  ASSUME IInv, PressesReset
  PROVE  IInv'
  <1> DEFINE e == IF a.sanitation = None THEN a ELSE EndSanitation(a, a.sanitation.id)
             b == BeginReset(e)
             c == SetSuppressed(b, "pool", FALSE)
             d == SetSuppressed(c, "spa", FALSE)
             S == Automatic \cup {"OUTAGE"}
  <1>1. a' = d /\ Changed("reset", "reset_begun", d)
        /\ restraint' = {} /\ baseline' = FALSE /\ UNCHANGED monitored
    BY DEF PressesReset, Changed
  <1>2. e \in Authority /\ Withdrawn(e, a)
    BY SanitationEnds, WithdrawnReflexive DEF IInv, TypeOK
  <1> HIDE DEF e
  <1>3. /\ b \in Authority /\ Withdrawn(b, e) /\ b.expected = {}
        /\ \A x \in S : b.current[x] = None
    BY <1>2, ResetBegins
  <1> HIDE DEF b
  <1>4. "pool" \in Bodies /\ "spa" \in Bodies /\ FALSE \in BOOLEAN
    BY DEF Bodies
  <1>5. SuppressedAs(c, b, "pool", FALSE)
    BY <1>3, <1>4, SuppressedFacts, Zenon
  <1>6. c \in Authority /\ Withdrawn(c, b)
    BY <1>5 DEF SuppressedAs
  <1> HIDE DEF c
  <1>7. SuppressedAs(d, c, "spa", FALSE)
    BY <1>4, <1>6, SuppressedFacts, Zenon
  <1>8. d \in Authority /\ Withdrawn(d, c)
    BY <1>7 DEF SuppressedAs
  <1> HIDE DEF d
  <1>9. Withdrawn(d, b)
    BY <1>6, <1>8, WithdrawnTransitive
  <1>10. Withdrawn(b, a)
    BY <1>2, <1>3, WithdrawnTransitive
  <1>11. Withdrawn(d, a)
    BY <1>9, <1>10, WithdrawnTransitive
  <1>12. d.expected = {} /\ \A x \in S : d.current[x] = None
    BY <1>3, <1>9, NoneStays DEF Contexts
  <1>13. Revokes({"reset_begun"})
    BY <1>1, <1>12, NamesOfChanges DEF Revokes
  <1>14. /\ restraint' \subseteq Bodies /\ baseline' \in BOOLEAN /\ monitored' \in BOOLEAN
         /\ Restrains'
    BY <1>1 DEF IInv, TypeOK, Restrains
  <1> QED
    BY <1>1, <1>8, <1>11, <1>13, <1>14, ChangedKeeps

LEMMA RestoresKeeps ==
  ASSUME IInv, Restores
  PROVE  IInv'
  <1>0. a \in Authority
    BY DEF IInv, TypeOK
  <1>1. CASE Changed("restart", "maintenance", ResolveMaintenance(a, "off")) /\ Unaffected
    <2> DEFINE b == ResolveMaintenance(a, "off")
    <2>1. /\ b \in Authority /\ Withdrawn(b, a) /\ SameLocks(b, a)
          /\ b # a => b.expected = {}
      BY <1>0, MaintenanceFacts
    <2>2. a' = b /\ a' # a /\ Changed("restart", "maintenance", b)
      BY <1>1 DEF Changed
    <2> HIDE DEF b
    <2>3. Revokes({"maintenance"})
      BY <2>1, <2>2, NamesOfChanges DEF Revokes
    <2> QED
      BY <1>1, <2>1, <2>2, <2>3, UnaffectedKeeps DEF SameLocks
  <1>2. CASE \E body \in a.restoring :
               \E on \in {body \in restraint} \cup (IF body = "spa" THEN {FALSE} ELSE {}) :
                 /\ Changed("restart", body, ResolveSuppressed(a, body, on))
                 /\ restraint' = IF on THEN restraint ELSE restraint \ {body}
                 /\ UNCHANGED <<baseline, monitored>>
    <2>1. PICK body \in a.restoring, on \in BOOLEAN :
             /\ Changed("restart", body, ResolveSuppressed(a, body, on))
             /\ restraint' = IF on THEN restraint ELSE restraint \ {body}
             /\ UNCHANGED <<baseline, monitored>>
      BY <1>2
    <2> DEFINE b == ResolveSuppressed(a, body, on)
    <2>2. body \in Bodies
      BY <1>0 DEF Authority
    <2>3. ResolvedAs(b, a, body, on)
      BY <1>0, <2>2, ResolvedFacts, Zenon
    <2>4. a' = b /\ Changed("restart", body, b)
      BY <2>1 DEF Changed
    <2> HIDE DEF b
    <2>5. /\ b \in Authority /\ Withdrawn(b, a) /\ b.restoring = a.restoring \ {body}
          /\ b.suppressed = IF on THEN a.suppressed \cup {body} ELSE a.suppressed \ {body}
          /\ \A c \in Automatic \cup {"OUTAGE"} : b.current[c] = None
      BY <2>3 DEF ResolvedAs
    <2>6. Stales(body) \subseteq Automatic \cup {"OUTAGE"}
      BY DEF Stales, Automatic
    <2>7. Revokes({body})
      BY <2>2, <2>4, <2>5, <2>6, NamesOfChanges DEF Revokes
    <2>8. /\ restraint' \subseteq Bodies /\ baseline' \in BOOLEAN /\ monitored' \in BOOLEAN
          /\ Restrains'
      BY <2>1, <2>4, <2>5 DEF IInv, TypeOK, Restrains
    <2> QED
      BY <2>4, <2>5, <2>7, <2>8, ChangedKeeps
  <1>3. CASE Changed("restart", "thermal", ConfigureThermal(a, Bodies)) /\ Unaffected
    BY <1>3, ThermalKeeps
  <1>4. CASE Changed("restart", "filtration", ConfigureFiltration(a, TRUE)) /\ Unaffected
    <2>1. TRUE \in BOOLEAN
      OBVIOUS
    <2> QED
      BY <1>4, <2>1, FiltrationKeeps, Zenon
  <1> QED
    BY <1>1, <1>2, <1>3, <1>4 DEF Restores

-----------------------------------------------------------------------------
(***************************************************************************)
(* Snapshots and restarts.                                                 *)
(***************************************************************************)
LEMMA RestrainFacts ==
  ASSUME NEW b \in Authority, NEW bodies \in {{}, {"spa"}}
  PROVE  LET c == IF bodies = {} THEN b ELSE SetSuppressed(b, "spa", TRUE)
         IN /\ c \in Authority /\ Withdrawn(c, b) /\ c.restoring = b.restoring
            /\ c.suppressed = b.suppressed \cup bodies
            /\ \A body \in bodies \ b.suppressed :
                 \A s \in WithdrawnBy(body) : c.current[s] = None
  <1> DEFINE c == SetSuppressed(b, "spa", TRUE)
  <1>1. TRUE \in BOOLEAN /\ "spa" \in Bodies
    BY DEF Bodies
  <1>2. SuppressedAs(c, b, "spa", TRUE)
    BY <1>1, SuppressedFacts, Zenon
  <1> HIDE DEF c
  <1>3. /\ c \in Authority /\ Withdrawn(c, b) /\ c.restoring = b.restoring
        /\ c.suppressed = b.suppressed \cup {"spa"}
        /\ "spa" \notin b.suppressed =>
             \A x \in Contexts : x \in Stales("spa") => c.current[x] = None
    BY <1>2 DEF SuppressedAs
  <1>4. Stales("spa") \subseteq Contexts
    BY DEF Stales, Contexts, Automatic
  <1>5. CASE bodies = {}
    BY <1>5, WithdrawnReflexive
  <1>6. CASE bodies = {"spa"}
    <2> DEFINE d == IF bodies = {} THEN b ELSE SetSuppressed(b, "spa", TRUE)
    <2>1. d = c
      BY <1>6 DEF c
    <2>2. \A s \in WithdrawnBy("spa") : s \in Contexts /\ s \in Stales("spa")
      BY DEF WithdrawnBy, Stales, Contexts, Automatic
    <2>3. bodies = {"spa"} /\ b.suppressed \cup bodies = b.suppressed \cup {"spa"}
      BY <1>6
    <2> HIDE DEF d
    <2>4. \A body \in bodies \ b.suppressed :
            \A s \in WithdrawnBy(body) : d.current[s] = None
      BY <1>3, <2>1, <2>2, <2>3
    <2>5. /\ d \in Authority /\ Withdrawn(d, b) /\ d.restoring = b.restoring
          /\ d.suppressed = b.suppressed \cup bodies
      BY <1>3, <2>1, <2>3
    <2> QED
      BY <2>4, <2>5 DEF d
  <1> QED
    BY <1>5, <1>6

LEMMA SnapshotKeeps ==
  ASSUME IInv, Snapshot
  PROVE  IInv'
  <1>1. PICK passed \in IF "time" \in Changes THEN {0, 1} ELSE {0},
             mode \in IF "mode" \in Changes THEN {"auto", "service"} ELSE {"auto"},
             again \in IF "reconnect" \in Changes THEN BOOLEAN ELSE {FALSE},
             seen \in Shown :
     LET b        == Expired(SetControllerMode(a, mode), passed)
         compares == monitored /\ ~again
         o        == IF compares THEN Observed(b, plant, seen) ELSE Replaced(b, plant, seen)
     IN \E bodies \in {{}, External(b, seen, compares) \cap ({"spa"} \ plant)} :
         /\ a' = IF bodies = {} THEN o ELSE SetSuppressed(o, "spa", TRUE)
         /\ restraint' = restraint \cup bodies
         /\ Withdraws((bodies \ a.suppressed) \cup (IF mode = a.mode THEN {} ELSE {"mode"}))
         /\ baseline' = a.reset /\ monitored' = TRUE
         /\ UNCHANGED <<env, cmd, queue, wire, plant>>
    BY DEF Snapshot
  <1> DEFINE m == SetControllerMode(a, mode)
             b == Expired(m, passed)
             o == IF monitored /\ ~again THEN Observed(b, plant, seen) ELSE Replaced(b, plant, seen)
             shown == External(b, seen, monitored /\ ~again) \cap ({"spa"} \ plant)
  <1>2. PICK bodies \in {{}, shown} :
         /\ a' = IF bodies = {} THEN o ELSE SetSuppressed(o, "spa", TRUE)
         /\ restraint' = restraint \cup bodies
         /\ Withdraws((bodies \ a.suppressed) \cup (IF mode = a.mode THEN {} ELSE {"mode"}))
         /\ baseline' = a.reset /\ monitored' = TRUE
         /\ UNCHANGED <<env, cmd, queue, wire, plant>>
    BY <1>1
  <1>3. /\ bodies \in {{}, {"spa"}} /\ bodies \in SUBSET Bodies
        /\ seen \in SUBSET Targets
    <2>1. shown \in {{}, {"spa"}}
      OBVIOUS
    <2> HIDE DEF shown
    <2>2. bodies \in {{}, {"spa"}}
      BY <1>2, <2>1
    <2>3. seen \in SUBSET Targets
      BY DEF Shown
    <2> QED
      BY <2>2, <2>3 DEF Bodies
  <1> HIDE DEF shown
  <1>4. a \in Authority /\ plant \in SUBSET Targets
    BY DEF IInv, TypeOK
  <1>5. /\ m \in Authority /\ Withdrawn(m, a) /\ SameLocks(m, a)
        /\ mode # a.mode => m.expected = {}
    <2>1. mode \in {"none", "auto", "service"}
      OBVIOUS
    <2> QED
      BY <1>4, <2>1, ModeFacts
  <1> HIDE DEF m
  <1>6. b \in Authority /\ SameLocks(b, m) /\ Withdrawn(b, m)
    <2>1. passed \in Nat
      OBVIOUS
    <2> QED
      BY <1>5, <2>1, ExpiredFacts
  <1> HIDE DEF b
  <1>7. o \in Authority /\ SameLocks(o, b) /\ Withdrawn(o, b)
    <2>1. CASE monitored /\ ~again
      BY <1>3, <1>4, <1>6, <2>1, ObservedFacts
    <2>2. CASE ~(monitored /\ ~again)
      <3>1. o = Replaced(b, plant, seen)
        BY <2>2
      <3>2. /\ o \in Authority /\ SameLocks(o, b)
            /\ o.expected = b.expected /\ o.current = b.current
        BY <1>3, <1>4, <1>6, <3>1, ReplacedFacts
      <3> QED
        BY <3>2, SubsetWithdraws
    <2> QED
      BY <2>1, <2>2
  <1> HIDE DEF o
  <1>8. /\ a' \in Authority /\ Withdrawn(a', o) /\ a'.restoring = o.restoring
        /\ a'.suppressed = o.suppressed \cup bodies
        /\ \A body \in bodies \ o.suppressed :
             \A s \in WithdrawnBy(body) : a'.current[s] = None
    BY <1>2, <1>3, <1>7, RestrainFacts
  <1>9. Withdrawn(a', m)
    BY <1>6, <1>7, <1>8, WithdrawnTransitive
  <1>10. Withdrawn(a', a)
    BY <1>5, <1>9, WithdrawnTransitive
  <1>11. o.suppressed = a.suppressed /\ o.restoring = a.restoring
    BY <1>5, <1>6, <1>7 DEF SameLocks
  <1> DEFINE names == (bodies \ a.suppressed) \cup (IF mode = a.mode THEN {} ELSE {"mode"})
  <1>12. Revokes(names)
    <2>1. \A n \in names : \A s \in WithdrawnBy(n) : a'.current[s] = None
      BY <1>3, <1>8, <1>11, NamesOfChanges
    <2>2. names \cap Forgetting # {} => a'.expected = {}
      <3>1. names \cap Forgetting # {} => mode # a.mode
        BY <1>3, NamesOfChanges
      <3> QED
        BY <1>5, <1>9, <3>1, NoneStays
    <2> QED
      BY <2>1, <2>2 DEF Revokes
  <1>13. Withdraws(names)
    BY <1>2
  <1> HIDE DEF names
  <1>14. /\ restraint' \subseteq Bodies /\ Restrains'
    BY <1>2, <1>3, <1>8, <1>11 DEF IInv, TypeOK, Restrains
  <1>15. /\ baseline' \in BOOLEAN /\ monitored' \in BOOLEAN
         /\ wire' \subseteq Effect /\ plant' \subseteq Targets
    BY <1>2, <1>4 DEF IInv, TypeOK, Authority
  <1> QED
    BY <1>2, <1>8, <1>10, <1>12, <1>13, <1>14, <1>15, WithdrawalKeeps

LEMMA RestartsKeeps ==
  ASSUME IInv, Restarts
  PROVE  IInv'
  <1>1. /\ a' = NewAuthority /\ cmd' = [s \in Sources |-> None] /\ queue' = <<>>
        /\ withdrawn' = {} /\ dispatched' = {} /\ baseline' = FALSE /\ monitored' = FALSE
        /\ UNCHANGED <<env, wire, plant, restraint>>
    BY DEF Restarts
  <1>2. a' \in Authority /\ a'.expected = {} /\ a'.restoring = Bodies
    BY <1>1, NewIsAuthority DEF NewAuthority
  <1>3. IsFiniteSet({}) /\ Cardinality({}) <= Limit
    BY FS_EmptySet, AuthorityAssumption
  <1>4. TypeOK'
    <2>1. queue' \in Seq(Sources) /\ cmd' \in [Sources -> Command \cup {None}]
      BY <1>1
    <2> QED
      BY <1>1, <1>2, <1>3, <2>1 DEF IInv, TypeOK
  <1>5. Own' /\ Waiting' /\ WithdrawnAreLost' /\ StartedAreDispatched'
    BY <1>1, <1>2 DEF Own, Waiting, WithdrawnAreLost, StartedAreDispatched
  <1>6. Restrains'
    BY <1>1, <1>2 DEF IInv, TypeOK, Restrains
  <1> QED
    BY <1>1, <1>2, <1>3, <1>4, <1>5, <1>6 DEF IInv

-----------------------------------------------------------------------------
(***************************************************************************)
(* Commands.                                                               *)
(***************************************************************************)
LEMMA BoundFacts ==
  ASSUME a \in Authority, NEW source \in Sources, NEW t \in Tokens
  PROVE  LET b == Bound(source, t)
         IN /\ b \in Authority /\ SameLocks(b, a) /\ b.expected \subseteq a.expected
            /\ \A c \in Contexts \ {source} : b.current[c] = a.current[c]
  <1>1. CASE source \notin Contexts
    BY <1>1 DEF Bound, SameLocks
  <1>2. CASE source = "OUTAGE"
    <2> DEFINE b == Invalidated(a, {"OUTAGE"})
    <2>1. /\ b \in Authority /\ SameLocks(b, a) /\ b.expected \subseteq a.expected
          /\ \A c \in Contexts \ {source} : b.current[c] = a.current[c]
      BY <1>2, InvalidatedFacts
    <2>2. Bound(source, t) = Bind(b, source, t)
      BY <1>2 DEF Bound, BeginOutageFrame, Contexts
    <2> HIDE DEF b
    <2>3. source \in Contexts /\ t \in Tokens \cup {None}
      BY <1>2 DEF Contexts
    <2> QED
      BY <2>1, <2>2, <2>3, BindFacts DEF SameLocks
  <1>3. CASE source \in Contexts /\ source # "OUTAGE"
    <2>1. Bound(source, t) = Bind(a, source, t)
      BY <1>3 DEF Bound
    <2> QED
      BY <1>3, <2>1, BindFacts
  <1> QED
    BY <1>1, <1>2, <1>3

LEMMA AsksKeeps ==
  ASSUME IInv, NEW q \in Asked, Asks(q)
  PROVE  IInv'
  <1> USE DEF IInv
  <1> DEFINE t == FreshToken
             b == Bound(q.source, t)
             r == [source |-> q.source, target |-> q.target, on |-> q.on,
                   body |-> BodyOf(q.target),
                   context |-> IF q.source \in Contexts THEN t ELSE None]
             c == Reserve(b, t, r)
             direct == LockFree /\ queue = <<>>
             d == StartDispatch(c, t, r)
             known == AlreadyTrue(b, r)
             new == [id |-> t, request |-> r, sent |-> direct, expected |-> ~known]
  <1>1. /\ TokenLeft /\ cmd[q.source] = None
        /\ known \/ ~Full(b)
        /\ a' = IF direct THEN d ELSE c
        /\ cmd' = [cmd EXCEPT ![q.source] = new]
        /\ queue' = IF direct THEN queue ELSE Append(queue, q.source)
        /\ Transmits(IF direct THEN {r} ELSE {})
        /\ baseline' = IF q.source = "RESET" THEN FALSE ELSE baseline
        /\ UNCHANGED <<env, plant, restraint, monitored, withdrawn>>
    BY DEF Asks
  <1>2. /\ q \in [source : Sources, target : Targets, on : BOOLEAN]
        /\ q.source = "FILTRATION" => q.target \in {"pool", "speed"}
    BY GatewayAssumption DEF Asked
  <1>3. t \in Tokens /\ t \notin TokensInUse
    BY <1>1, FreshTokenFacts
  <1>4. /\ \A e \in a.expected : e.id # t
        /\ \A s \in Sources : cmd[s] # None => cmd[s].id # t
    BY <1>3 DEF TokensInUse
  <1>5. /\ r \in Request /\ r.source = q.source
        /\ q.source \in Contexts => r.context = t
        /\ q.source = "FILTRATION" => r.body = "pool"
    <2>1. BodyOf(q.target) \in Bodies
      BY DEF BodyOf, Bodies
    <2>2. r \in Request
      BY <1>2, <1>3, <2>1 DEF Request
    <2> QED
      BY <1>2, <2>2 DEF BodyOf
  <1> HIDE DEF t
  <1>6. /\ b \in Authority /\ SameLocks(b, a) /\ b.expected \subseteq a.expected
        /\ \A x \in Contexts \ {q.source} : b.current[x] = a.current[x]
    BY <1>2, <1>3, BoundFacts DEF TypeOK
  <1>7. IsFiniteSet(b.expected) /\ Cardinality(b.expected) <= Limit
    <2>1. IsFiniteSet(b.expected) /\ Cardinality(b.expected) <= Cardinality(a.expected)
      BY <1>6, FS_Subset
    <2>2. Cardinality(b.expected) \in Nat /\ Cardinality(a.expected) \in Nat
      BY <2>1, FS_CardinalityType
    <2> QED
      BY <2>1, <2>2, AuthorityAssumption DEF TypeOK
  <1> HIDE DEF b, r
  <1>8. /\ c \in Authority /\ SameLocks(c, b) /\ c.current = b.current
        /\ \A e \in c.expected :
             \/ e \in b.expected
             \/ e.id = t /\ e.request = r /\ ~e.started /\ ~AlreadyTrue(b, r)
        /\ IsFiniteSet(c.expected) /\ Cardinality(c.expected) <= Limit
    BY <1>1, <1>3, <1>5, <1>6, <1>7, ReserveFacts
  <1> HIDE DEF c
  <1>9. /\ d \in Authority /\ SameLocks(d, c) /\ d.current = c.current
        /\ \A e \in d.expected : \E x \in c.expected :
             /\ x.id = e.id /\ x.request = e.request
             /\ e.started => x.started \/ e.id = t
        /\ IsFiniteSet(d.expected) /\ Cardinality(d.expected) <= Cardinality(c.expected)
    BY <1>8, DispatchFacts
  <1> HIDE DEF d
  <1>10. direct \in BOOLEAN /\ (~known) \in BOOLEAN
    OBVIOUS
  <1>11. /\ new \in Command /\ new.id = t /\ new.request = r /\ new.sent = direct
         /\ new # None
    <2> HIDE DEF known, direct
    <2>1. new \in Command
      BY <1>3, <1>5, <1>10, Zenon DEF Command
    <2>2. new.id = t /\ new.request = r
      OBVIOUS
    <2>3. new.sent = direct
      BY Zenon
    <2> HIDE DEF new
    <2> QED
      BY <2>1, <2>2, <2>3, CommandAssumption
  <1> HIDE DEF new, known
  <1>12. IsFiniteSet(a'.expected) /\ Cardinality(a'.expected) <= Limit
    <2>1. Cardinality(c.expected) \in Nat /\ Cardinality(d.expected) \in Nat
      BY <1>8, <1>9, FS_CardinalityType
    <2> QED
      BY <1>1, <1>8, <1>9, <2>1, AuthorityAssumption
  <1>13. /\ a' \in Authority /\ SameLocks(a', a)
         /\ \A x \in Contexts \ {q.source} : a'.current[x] = a.current[x]
    BY <1>1, <1>6, <1>8, <1>9 DEF SameLocks
  <1>14. \A e \in a'.expected :
           \/ \E x \in a.expected : x.id = e.id /\ x.request = e.request /\ (e.started => x.started)
           \/ e.id = t /\ e.request = r /\ (e.started => direct)
    <2> SUFFICES ASSUME NEW e \in a'.expected
                 PROVE  \/ \E x \in a.expected :
                             x.id = e.id /\ x.request = e.request /\ (e.started => x.started)
                        \/ e.id = t /\ e.request = r /\ (e.started => direct)
      OBVIOUS
    <2>1. CASE direct
      <3>1. PICK x \in c.expected : /\ x.id = e.id /\ x.request = e.request
                                    /\ e.started => x.started \/ e.id = t
        BY <1>1, <1>9, <2>1
      <3> QED
        BY <1>4, <1>6, <1>8, <2>1, <3>1
    <2>2. CASE ~direct
      BY <1>1, <1>6, <1>8, <2>2
    <2> QED
      BY <2>1, <2>2
  <1>15. /\ wire' \subseteq Effect /\ dispatched' \subseteq Effect /\ dispatched \subseteq dispatched'
         /\ direct => [target |-> r.target, on |-> r.on] \in dispatched'
    <2>1. [target |-> r.target, on |-> r.on] \in Effect
      BY <1>5 DEF Request, Effect
    <2>2. Effects(IF direct THEN {r} ELSE {}) \subseteq Effect
      BY <2>1 DEF Effects
    <2>3. direct => [target |-> r.target, on |-> r.on] \in Effects(IF direct THEN {r} ELSE {})
      BY DEF Effects
    <2> QED
      BY <1>1, <2>2, <2>3 DEF Transmits, TypeOK
  <1> HIDE DEF direct
  <1>16. cmd' \in [Sources -> Command \cup {None}] /\ cmd'[q.source] = new
         /\ \A s \in Sources \ {q.source} : cmd'[s] = cmd[s]
    BY <1>1, <1>2, <1>11 DEF TypeOK
  <1>17. queue' \in Seq(Sources) /\ baseline' \in BOOLEAN
    <2>1. queue \in Seq(Sources) /\ q.source \in Sources /\ baseline \in BOOLEAN
      BY <1>2 DEF TypeOK
    <2>2. queue' = queue \/ queue' = Append(queue, q.source)
      BY <1>1
    <2>3. queue' \in Seq(Sources)
      BY <2>1, <2>2
    <2>4. baseline' \in BOOLEAN
      BY <1>1, <2>1
    <2> QED
      BY <2>3, <2>4
  <1>18. TypeOK'
    BY <1>1, <1>12, <1>13, <1>15, <1>16, <1>17 DEF TypeOK
  <1>19. Own'
    <2> SUFFICES ASSUME NEW s \in Sources, cmd'[s] # None
                 PROVE  /\ cmd'[s].request.source = s
                        /\ s \in Contexts => cmd'[s].request.context = cmd'[s].id
                        /\ s = "FILTRATION" => cmd'[s].request.body = "pool"
                        /\ \A e \in a'.expected : e.id = cmd'[s].id => e.request = cmd'[s].request
      BY DEF Own
    <2>1. CASE s = q.source
      BY <1>4, <1>5, <1>11, <1>14, <1>16, <2>1
    <2>2. CASE s # q.source
      BY <1>4, <1>14, <1>16, <2>2 DEF Own
    <2> QED
      BY <2>1, <2>2
  <1>20. Waiting'
    <2>1. \A i \in DOMAIN queue : queue[i] \in Sources \ {q.source}
      BY <1>1 DEF Waiting, TypeOK
    <2>2. CASE direct
      BY <1>1, <1>16, <2>1, <2>2 DEF Waiting
    <2>3. CASE ~direct
      <3> DEFINE n == Len(queue) + 1
      <3>1. /\ DOMAIN queue' = 1..n /\ DOMAIN queue = 1..Len(queue) /\ Len(queue) \in Nat
            /\ queue'[n] = q.source /\ \A i \in DOMAIN queue : queue'[i] = queue[i]
        BY <1>1, <1>2, <2>3 DEF TypeOK
      <3>2. \A i \in DOMAIN queue' : i \in DOMAIN queue \/ i = n
        BY <3>1
      <3>3. \A i \in DOMAIN queue' : cmd'[queue'[i]] # None /\ ~cmd'[queue'[i]].sent
        BY <1>11, <1>16, <2>1, <2>3, <3>1, <3>2 DEF Waiting
      <3>4. \A i, j \in DOMAIN queue' : queue'[i] = queue'[j] => i = j
        BY <2>1, <3>1, <3>2 DEF Waiting
      <3> QED
        BY <3>3, <3>4 DEF Waiting
    <2> QED
      BY <2>2, <2>3
  <1>21. WithdrawnAreLost'
    <2> SUFFICES ASSUME NEW s \in withdrawn
                 PROVE  cmd'[s] # None /\ ~cmd'[s].sent /\ Lost(s)'
      BY <1>1 DEF WithdrawnAreLost
    <2>1. /\ s \in Sources \ {q.source} /\ cmd[s] # None /\ ~cmd[s].sent /\ Lost(s)
          /\ cmd'[s] = cmd[s]
      BY <1>1, <1>16 DEF WithdrawnAreLost, TypeOK
    <2>2. Lost(s)'
      <3>1. CASE s \in Contexts /\ a.current[s] # cmd[s].request.context
        BY <1>13, <2>1, <3>1 DEF Lost
      <3>2. CASE cmd[s].expected /\ ~Reserved(a, cmd[s].id)
        <4>1. ~Reserved(a', cmd[s].id)
          BY <1>4, <1>14, <2>1, <3>2 DEF Reserved
        <4> QED
          BY <2>1, <3>2, <4>1 DEF Lost
      <3> QED
        BY <2>1, <3>1, <3>2 DEF Lost
    <2> QED
      BY <2>1, <2>2
  <1>22. StartedAreDispatched'
    BY <1>14, <1>15 DEF StartedAreDispatched
  <1>23. Restrains'
    BY <1>1, <1>13 DEF Restrains, SameLocks
  <1> QED
    BY <1>1, <1>12, <1>18, <1>19, <1>20, <1>21, <1>22, <1>23

\* Who has lost its entitlement is not entitled at the lock.
LEMMA LostIsNotEntitled ==
  ASSUME IInv, NEW s \in Sources, cmd[s] # None, Lost(s)
  PROVE  ~Entitled(cmd[s])
  <1>1. cmd[s].request.source = s
    BY DEF IInv, Own
  <1> QED
    BY <1>1 DEF Lost, Entitled, Allowed, ContextAllows

LEMMA QueueFacts ==
  ASSUME IInv, queue # <<>>
  PROVE  LET s == Head(queue)
         IN /\ s \in Sources /\ cmd[s] # None /\ ~cmd[s].sent
            /\ Tail(queue) \in Seq(Sources)
            /\ \A i \in DOMAIN Tail(queue) :
                 /\ Tail(queue)[i] # s /\ Tail(queue)[i] \in Sources
                 /\ i + 1 \in DOMAIN queue /\ Tail(queue)[i] = queue[i + 1]
  <1>1. /\ queue \in Seq(Sources) /\ Head(queue) = queue[1] /\ 1 \in DOMAIN queue
        /\ Tail(queue) \in Seq(Sources)
        /\ \A i \in DOMAIN Tail(queue) :
             /\ i \in Nat /\ i + 1 \in DOMAIN queue /\ Tail(queue)[i] = queue[i + 1] /\ i + 1 # 1
    BY DEF IInv, TypeOK
  <1>2. \A i \in DOMAIN Tail(queue) : Tail(queue)[i] # queue[1]
    BY <1>1 DEF IInv, Waiting
  <1>3. queue[1] \in Sources /\ \A i \in DOMAIN Tail(queue) : Tail(queue)[i] \in Sources
    BY <1>1
  <1> QED
    BY <1>1, <1>2, <1>3 DEF IInv, Waiting

\* The head of the queue leaves it: sent, or done with.
LEMMA HeadLeaves ==
  ASSUME IInv, queue # <<>>, queue' = Tail(queue), NEW new, cmd' = [cmd EXCEPT ![Head(queue)] = new]
  PROVE  Waiting'
  <1> DEFINE s == Head(queue)
  <1>1. /\ s \in Sources
        /\ Tail(queue) \in Seq(Sources)
        /\ \A i \in DOMAIN Tail(queue) :
             /\ Tail(queue)[i] # s /\ Tail(queue)[i] \in Sources
             /\ i + 1 \in DOMAIN queue /\ Tail(queue)[i] = queue[i + 1]
    BY QueueFacts
  <1>2. \A x \in Sources \ {s} : cmd'[x] = cmd[x]
    BY DEF IInv, TypeOK
  <1> HIDE DEF s
  <1>3. \A i \in DOMAIN queue' : cmd'[queue'[i]] # None /\ ~cmd'[queue'[i]].sent
    BY <1>1, <1>2 DEF IInv, Waiting
  <1>4. \A i, j \in DOMAIN queue' : queue'[i] = queue'[j] => i = j
    <2> SUFFICES ASSUME NEW i \in DOMAIN queue', NEW j \in DOMAIN queue', queue'[i] = queue'[j]
                 PROVE  i = j
      OBVIOUS
    <2>1. i \in Nat /\ j \in Nat
      BY <1>1
    <2>2. i + 1 = j + 1
      BY <1>1 DEF IInv, Waiting
    <2> QED
      BY <2>1, <2>2
  <1> QED
    BY <1>3, <1>4 DEF Waiting

\* What every other source relies on is kept when the command of s is sent or done with.
LEMMA OthersKeep ==
  ASSUME IInv, a' \in Authority, NEW s \in Sources,
         \A x \in Sources \ {s} : cmd'[x] = cmd[x],
         a'.current = a.current,
         \A e \in a'.expected : \E d \in a.expected : d.id = e.id /\ d.request = e.request,
         withdrawn' \subseteq withdrawn \ {s}
  PROVE  WithdrawnAreLost'
  <1> SUFFICES ASSUME NEW x \in withdrawn'
               PROVE  cmd'[x] # None /\ ~cmd'[x].sent /\ Lost(x)'
    BY DEF WithdrawnAreLost
  <1>1. /\ x \in Sources \ {s} /\ cmd[x] # None /\ ~cmd[x].sent /\ Lost(x)
        /\ cmd'[x] = cmd[x]
    BY DEF IInv, TypeOK, WithdrawnAreLost
  <1>2. Reserved(a', cmd[x].id) => Reserved(a, cmd[x].id)
    BY DEF Reserved
  <1> QED
    BY <1>1, <1>2 DEF Lost

LEMMA TakesLockKeeps ==
  ASSUME IInv, NEW s \in Sources, TakesLock(s)
  PROVE  IInv'
  <1> USE DEF IInv
  <1> DEFINE c == cmd[s]
  <1>1. /\ queue # <<>> /\ s = Head(queue) /\ queue' = Tail(queue)
        /\ UNCHANGED <<env, plant, restraint, baseline, monitored>>
    BY DEF TakesLock
  <1>2. /\ c # None /\ ~c.sent /\ queue' \in Seq(Sources)
    BY <1>1, QueueFacts
  <1>3. c \in Command /\ c.request \in Request /\ a \in Authority
    BY <1>2 DEF TypeOK, Command
  <1>4. Cardinality(a.expected) \in Nat
    BY FS_CardinalityType
  <1>5. CASE Entitled(c)
    <2> DEFINE d == StartDispatch(a, c.id, c.request)
               new == [c EXCEPT !.sent = TRUE]
    <2>1. /\ a' = d /\ cmd' = [cmd EXCEPT ![s].sent = TRUE]
          /\ Transmits({c.request}) /\ UNCHANGED withdrawn
      BY <1>5 DEF TakesLock
    <2>2. /\ d \in Authority /\ SameLocks(d, a) /\ d.current = a.current
          /\ \A e \in d.expected : \E x \in a.expected :
               /\ x.id = e.id /\ x.request = e.request
               /\ e.started => x.started \/ e.id = c.id
          /\ IsFiniteSet(d.expected) /\ Cardinality(d.expected) <= Cardinality(a.expected)
      BY <1>3, DispatchFacts
    <2> HIDE DEF d
    <2>3. cmd' = [cmd EXCEPT ![s] = new]
      BY <2>1
    <2>4. new \in Command /\ new.request = c.request /\ new.id = c.id
      BY <1>3 DEF Command
    <2> HIDE DEF new
    <2>5. /\ cmd' \in [Sources -> Command \cup {None}] /\ cmd'[s] = new
          /\ \A x \in Sources \ {s} : cmd'[x] = cmd[x]
      BY <2>3, <2>4 DEF TypeOK
    <2>6. Cardinality(a'.expected) <= Limit
      <3>1. Cardinality(d.expected) \in Nat
        BY <2>2, FS_CardinalityType
      <3> QED
        BY <1>4, <2>1, <2>2, <3>1, AuthorityAssumption DEF TypeOK
    <2>7. /\ wire' \subseteq Effect /\ dispatched' \subseteq Effect /\ dispatched \subseteq dispatched'
          /\ [target |-> c.request.target, on |-> c.request.on] \in dispatched'
      <3>1. [target |-> c.request.target, on |-> c.request.on] \in Effect
        BY <1>3 DEF Request, Effect
      <3>2. Effects({c.request}) = {[target |-> c.request.target, on |-> c.request.on]}
        BY DEF Effects
      <3> QED
        BY <2>1, <3>1, <3>2 DEF Transmits, TypeOK
    <2>8. TypeOK'
      BY <1>1, <1>2, <2>1, <2>2, <2>5, <2>6, <2>7 DEF TypeOK
    <2>9. Own'
      BY <1>2, <2>1, <2>2, <2>4, <2>5 DEF Own
    <2>10. Waiting'
      BY <1>1, <2>3, HeadLeaves
    <2>11. s \notin withdrawn
      BY <1>2, <1>5, LostIsNotEntitled DEF WithdrawnAreLost
    <2>12. WithdrawnAreLost'
      BY <2>1, <2>2, <2>5, <2>11, OthersKeep
    <2>13. StartedAreDispatched'
      BY <1>2, <2>1, <2>2, <2>7 DEF StartedAreDispatched, Own
    <2>14. Restrains'
      BY <1>1, <2>1, <2>2 DEF Restrains, SameLocks
    <2> QED
      BY <1>1, <2>1, <2>2, <2>8, <2>9, <2>10, <2>12, <2>13, <2>14
  <1>6. CASE ~Entitled(c)
    <2> DEFINE b == IF Allowed(a, c.request) THEN Superseded(a, c.id, c.request) ELSE a
               d == Cancel(b, c.id)
    <2>1. /\ a' = d /\ cmd' = [cmd EXCEPT ![s] = None] /\ withdrawn' = withdrawn \ {s}
          /\ UNCHANGED <<wire, dispatched>>
      BY <1>6 DEF TakesLock, Ends
    <2>2. d \in Authority /\ SameLocks(d, a) /\ d.current = a.current /\ Withdrawn(d, a)
      <3>1. b \in Authority /\ SameLocks(b, a) /\ b.current = a.current /\ Withdrawn(b, a)
        BY <1>3, SupersededFacts, WithdrawnReflexive DEF SameLocks
      <3> HIDE DEF b
      <3>2. d \in Authority /\ SameLocks(d, b) /\ d.current = b.current /\ Withdrawn(d, b)
        BY <3>1, CancelFacts
      <3> HIDE DEF d
      <3> QED
        BY <3>1, <3>2, WithdrawnTransitive DEF SameLocks
    <2> HIDE DEF d
    <2>3. /\ cmd' \in [Sources -> Command \cup {None}] /\ cmd'[s] = None
          /\ \A x \in Sources \ {s} : cmd'[x] = cmd[x]
      BY <2>1 DEF TypeOK
    <2>4. IsFiniteSet(a'.expected) /\ Cardinality(a'.expected) <= Limit
      <3>1. IsFiniteSet(d.expected) /\ Cardinality(d.expected) <= Cardinality(a.expected)
        BY <2>2 DEF Withdrawn
      <3>2. Cardinality(d.expected) \in Nat
        BY <3>1, FS_CardinalityType
      <3> QED
        BY <1>4, <2>1, <3>1, <3>2, AuthorityAssumption DEF TypeOK
    <2>5. TypeOK'
      BY <1>1, <1>2, <2>1, <2>2, <2>3, <2>4 DEF TypeOK
    <2>6. Own'
      BY <2>1, <2>2, <2>3 DEF Own, Withdrawn
    <2>7. Waiting'
      BY <1>1, <2>1, HeadLeaves
    <2>8. WithdrawnAreLost'
      <3>1. \A e \in a'.expected : \E x \in a.expected : x.id = e.id /\ x.request = e.request
        BY <2>1, <2>2 DEF Withdrawn
      <3> QED
        BY <2>1, <2>2, <2>3, <3>1, OthersKeep
    <2>9. StartedAreDispatched'
      BY <2>1, <2>2 DEF StartedAreDispatched, Withdrawn
    <2>10. Restrains'
      BY <1>1, <2>1, <2>2 DEF Restrains, SameLocks
    <2> QED
      BY <1>1, <2>4, <2>5, <2>6, <2>7, <2>8, <2>9, <2>10
  <1> QED
    BY <1>5, <1>6

LEMMA AnsweredKeeps ==
  ASSUME IInv, NEW s \in Sources, Answered(s)
  PROVE  IInv'
  <1> USE DEF IInv
  <1>1. /\ cmd[s] # None /\ cmd[s].sent
        /\ cmd' = [cmd EXCEPT ![s] = None] /\ withdrawn' = withdrawn \ {s}
        /\ UNCHANGED <<env, a, queue, wire, plant, restraint, baseline, monitored, dispatched>>
    BY DEF Answered, Ends
  <1>2. /\ cmd' \in [Sources -> Command \cup {None}] /\ cmd'[s] = None
        /\ \A x \in Sources \ {s} : cmd'[x] = cmd[x]
    BY <1>1 DEF TypeOK
  <1>3. TypeOK'
    BY <1>1, <1>2 DEF TypeOK
  <1>4. Own'
    BY <1>1, <1>2 DEF Own
  <1>5. Waiting'
    <2>1. \A i \in DOMAIN queue : queue[i] \in Sources \ {s}
      BY <1>1 DEF Waiting, TypeOK
    <2> QED
      BY <1>1, <1>2, <2>1 DEF Waiting
  <1>6. WithdrawnAreLost'
    BY <1>1, <1>2, OthersKeep DEF TypeOK
  <1> QED
    BY <1>1, <1>3, <1>4, <1>5, <1>6 DEF StartedAreDispatched, Restrains

LEMMA PlantKeeps ==
  ASSUME IInv, wire' \subseteq Effect, plant' \subseteq Targets,
         UNCHANGED <<env, a, cmd, queue, restraint, baseline, monitored, withdrawn, dispatched>>
  PROVE  IInv'
  <1> USE DEF IInv
  <1>1. TypeOK'
    BY DEF TypeOK
  <1>2. Own' /\ Waiting' /\ StartedAreDispatched' /\ Restrains'
    BY DEF Own, Waiting, StartedAreDispatched, Restrains
  <1>3. WithdrawnAreLost'
    BY DEF WithdrawnAreLost, Lost, Reserved
  <1> QED
    BY <1>1, <1>2, <1>3

LEMMA TakesEffectKeeps ==
  ASSUME IInv, TakesEffect
  PROVE  IInv'
  <1>1. /\ wire' \subseteq Effect /\ plant' \subseteq Targets
    BY DEF TakesEffect, IInv, TypeOK, Effect
  <1> QED
    BY <1>1, PlantKeeps DEF TakesEffect

LEMMA OutsiderKeeps ==
  ASSUME IInv, Outsider
  PROVE  IInv'
  <1>1. PICK t \in {q.target : q \in Asked} :
          plant' = IF t \in plant THEN plant \ {t} ELSE plant \cup {t}
    BY DEF Outsider
  <1>2. t \in Targets
    BY GatewayAssumption DEF IInv, Asked
  <1>3. wire' \subseteq Effect /\ plant' \subseteq Targets
    BY <1>1, <1>2 DEF Outsider, IInv, TypeOK
  <1> QED
    BY <1>3, PlantKeeps DEF Outsider

-----------------------------------------------------------------------------
LEMMA IInvInit ==
  Init => IInv
  <1> SUFFICES ASSUME Init PROVE IInv
    OBVIOUS
  <1>1. a \in Authority /\ a.expected = {} /\ a.restoring = {}
    BY NewIsAuthority DEF Init, NewAuthority, Authority, Outage
  <1>2. IsFiniteSet({}) /\ Cardinality({}) <= Limit
    BY FS_EmptySet, AuthorityAssumption
  <1>3. queue \in Seq(Sources) /\ cmd \in [Sources -> Command \cup {None}]
    BY DEF Init
  <1>4. TypeOK
    BY <1>1, <1>2, <1>3 DEF Init, TypeOK
  <1>5. /\ env \in Environments /\ queue = <<>> /\ withdrawn = {} /\ restraint = {}
        /\ \A s \in Sources : cmd[s] = None
    BY DEF Init
  <1>6. DOMAIN queue = {}
    BY <1>5
  <1>7. Own /\ Waiting
    BY <1>5, <1>6 DEF Own, Waiting
  <1>8. WithdrawnAreLost /\ StartedAreDispatched /\ Restrains
    BY <1>1, <1>5 DEF WithdrawnAreLost, StartedAreDispatched, Restrains
  <1> QED
    BY <1>1, <1>2, <1>4, <1>5, <1>7, <1>8 DEF IInv

LEMMA IInvNext ==
  IInv /\ [Next]_vars => IInv'
  <1> SUFFICES ASSUME IInv, [Next]_vars PROVE IInv'
    OBVIOUS
  <1>1. CASE \E q \in Asked : Asks(q)
    BY <1>1, AsksKeeps
  <1>2. CASE Delivery
    BY <1>2, TakesLockKeeps, AnsweredKeeps DEF Delivery
  <1>3. CASE TakesEffect
    BY <1>3, TakesEffectKeeps
  <1>4. CASE Outsider
    BY <1>4, OutsiderKeeps
  <1>5. CASE Snapshot
    BY <1>5, SnapshotKeeps
  <1>6. CASE Maintains
    BY <1>6, MaintainsKeeps
  <1>7. CASE Suppresses
    BY <1>7, SuppressesKeeps
  <1>8. CASE Gates
    BY <1>8, GatesKeep
  <1>9. CASE Sanitation
    BY <1>9, SanitationKeeps
  <1>10. CASE OutageDomain
    BY <1>10, OutageDomainKeeps
  <1>11. CASE PressesReset
    BY <1>11, PressesResetKeeps
  <1>12. CASE ResetEnds
    BY <1>12, ResetEndsKeeps
  <1>13. CASE Restarts
    BY <1>13, RestartsKeeps
  <1>14. CASE Restores
    BY <1>14, RestoresKeeps
  <1>15. CASE UNCHANGED vars
    <2>1. wire' \subseteq Effect /\ plant' \subseteq Targets
      BY <1>15 DEF IInv, TypeOK, vars
    <2> QED
      BY <1>15, <2>1, PlantKeeps DEF vars
  <1> QED
    BY <1>1, <1>2, <1>3, <1>4, <1>5, <1>6, <1>7, <1>8, <1>9, <1>10, <1>11, <1>12, <1>13,
       <1>14, <1>15 DEF Next

\* The invariant the theorems below rest on: besides the types, a command that waits has
\* its expectation to itself, what started was sent, and restraints are where they belong.
THEOREM Inductive == Spec => []IInv
  BY IInvInit, IInvNext, PTL DEF Spec

\* Every variable of the gateway keeps its type, and the registry of expectations its limit
\* (expectation_limit), whatever is asked, withdrawn and dispatched.
THEOREM GatewayTypeCorrect == Spec => []TypeOK
  <1>1. IInv => TypeOK
    BY DEF IInv
  <1> QED
    BY <1>1, Inductive, PTL

\* The registry explains a native change only by a command that was sent since a
\* Maintenance, a mode or a Reset last emptied it (mark_dispatch_started, the monitor's process).
THEOREM OnlySentCommandsExplain == Spec => []ExplainedWasSent
  <1>1. IInv => ExplainedWasSent
    BY DEF IInv, StartedAreDispatched, ExplainedWasSent, Matching
  <1> QED
    BY <1>1, Inductive, PTL

\* A request that asks while its source has none under way, or the head of the queue, is sent.
LEMMA WhoSends ==
  ASSUME IInv, [Next]_vars, NEW s \in Sources, Sends(s)
  PROVE  \/ \E q \in Asked : q.source = s /\ Asks(q)
         \/ TakesLock(s) /\ Entitled(cmd[s])
  <1>0. cmd' # cmd
    BY DEF Sends
  <1>1. CASE \E q \in Asked : Asks(q)
    <2>1. PICK q \in Asked : Asks(q)
      BY <1>1
    <2>2. q.source # s => cmd'[s] = cmd[s]
      BY <2>1 DEF Asks, IInv, TypeOK
    <2> QED
      BY <2>1, <2>2 DEF Sends
  <1>2. CASE Delivery
    <2>1. PICK x \in Sources : TakesLock(x) \/ Answered(x)
      BY <1>2 DEF Delivery
    <2>2. CASE Answered(x)
      BY <2>2 DEF Answered, Ends, Sends, IInv, TypeOK
    <2>3. CASE TakesLock(x) /\ ~Entitled(cmd[x])
      <3>1. Ends(x)
        BY <2>3, Zenon DEF TakesLock
      <3> QED
        BY <3>1 DEF Ends, Sends, IInv, TypeOK
    <2>4. CASE TakesLock(x) /\ Entitled(cmd[x])
      <3>1. x # s => cmd'[s] = cmd[s]
        BY <2>4 DEF TakesLock, IInv, TypeOK
      <3> QED
        BY <2>4, <3>1 DEF Sends
    <2> QED
      BY <2>1, <2>2, <2>3, <2>4
  <1>3. CASE Restarts
    BY <1>3 DEF Restarts, Sends
  <1>4. ~Snapshot /\ ~TakesEffect /\ ~Outsider
    <2>1. ASSUME Snapshot
          PROVE  FALSE
      <3>1. PICK passed, mode, again, seen :
              LET b        == Expired(SetControllerMode(a, mode), passed)
                  compares == monitored /\ ~again
              IN \E bodies \in {{}, External(b, seen, compares) \cap ({"spa"} \ plant)} :
                   UNCHANGED cmd
        BY <2>1 DEF Snapshot
      <3> QED
        BY <1>0, <3>1
    <2> QED
      BY <1>0, <2>1 DEF TakesEffect, Outsider
  <1>5. ~Maintains /\ ~Suppresses /\ ~Gates /\ ~Sanitation
    BY <1>0 DEF Maintains, Suppresses, Gates, Sanitation, Changed
  <1>6. ~OutageDomain /\ ~PressesReset /\ ~ResetEnds /\ ~Restores
    BY <1>0 DEF OutageDomain, PressesReset, ResetEnds, Restores, Changed
  <1> QED
    BY <1>0, <1>1, <1>2, <1>3, <1>4, <1>5, <1>6 DEF Next, vars

\* What withdrew a waiting request withdraws it for good: it is never sent, whatever is
\* undone before it reaches the lock (require_allowed and mark_dispatch_started at the lock).
THEOREM WithdrawalIsFinal == Spec => WithdrawnIsNeverSent
  <1>1. IInv /\ [Next]_vars => \A s \in withdrawn : ~Sends(s)
    <2> SUFFICES ASSUME IInv, [Next]_vars, NEW s \in withdrawn, Sends(s)
                 PROVE  FALSE
      OBVIOUS
    <2>1. s \in Sources /\ cmd[s] # None /\ Lost(s)
      BY DEF IInv, TypeOK, WithdrawnAreLost
    <2>2. ~Entitled(cmd[s])
      BY <2>1, LostIsNotEntitled
    <2> QED
      BY <2>1, <2>2, WhoSends DEF Asks
  <1>2. IInv /\ [Next]_vars => [\A s \in withdrawn : ~Sends(s)]_vars
    BY <1>1
  <1> QED
    BY <1>2, Inductive, PTL DEF Spec, WithdrawnIsNeverSent

\* After a restart no automatic command moves a body the operator had restrained, whatever
\* the order in which Home Assistant brings the switches back (resolve_suppression).
THEOREM RestraintsOutliveRestarts == Spec => RestraintOutlivesRestart
  <1> DEFINE Obeys(s) == Sends(s) => cmd'[s].request.body \notin restraint
  <1>1. IInv /\ [Next]_vars => \A s \in Automatic : Obeys(s)
    <2> SUFFICES ASSUME IInv, [Next]_vars, NEW s \in Automatic, Sends(s)
                 PROVE  cmd'[s].request.body \notin restraint
      OBVIOUS
    <2>0. s \in Sources /\ s \in Contexts /\ s \in {"THERMAL", "FILTRATION"}
      BY DEF Automatic, Contexts, Sources
    <2>1. ASSUME NEW b, b.restoring = a.restoring, b.suppressed = a.suppressed,
                 NEW r, RestraintAllows(b, r), r.source = s, s = "FILTRATION" => r.body = "pool"
          PROVE  r.body \notin restraint
      BY <2>0, <2>1 DEF RestraintAllows, IInv, Restrains
    <2>2. CASE \E q \in Asked : q.source = s /\ Asks(q)
      <3>1. PICK q \in Asked : q.source = s /\ Asks(q)
        BY <2>2
      <3> DEFINE t == FreshToken
                 b == Bound(q.source, t)
                 r == [source |-> q.source, target |-> q.target, on |-> q.on,
                       body |-> BodyOf(q.target),
                       context |-> IF q.source \in Contexts THEN t ELSE None]
      <3>2. RestraintAllows(b, r) /\ r.source = s
        BY <3>1 DEF Asks, Allowed
      <3>3. s = "FILTRATION" => r.body = "pool"
        BY <3>1, GatewayAssumption DEF IInv, Asked, BodyOf
      <3>4. cmd'[s].request = r
        BY <2>0, <3>1 DEF Asks, IInv, TypeOK
      <3>5. t \in Tokens
        BY <3>1, FreshTokenFacts DEF Asks
      <3> HIDE DEF t, r
      <3>6. b.restoring = a.restoring /\ b.suppressed = a.suppressed
        BY <2>0, <3>1, <3>5, BoundFacts DEF SameLocks, IInv, TypeOK
      <3> HIDE DEF b
      <3> QED
        BY <2>1, <3>2, <3>3, <3>4, <3>6
    <2>3. CASE TakesLock(s) /\ Entitled(cmd[s])
      <3>1. /\ RestraintAllows(a, cmd[s].request)
            /\ cmd[s] # None
        BY <2>3, QueueFacts DEF Entitled, Allowed, TakesLock
      <3>2. cmd[s].request.source = s /\ (s = "FILTRATION" => cmd[s].request.body = "pool")
        BY <2>0, <3>1 DEF IInv, Own
      <3>3. cmd' = [cmd EXCEPT ![s].sent = TRUE]
        BY <2>3 DEF TakesLock
      <3>4. cmd'[s].request = cmd[s].request
        BY <2>0, <3>1, <3>3 DEF IInv, TypeOK, Command
      <3> QED
        BY <2>1, <3>1, <3>2, <3>4
    <2> QED
      BY <2>0, <2>2, <2>3, WhoSends
  <1>2. IInv /\ [Next]_vars => [\A s \in Automatic : Obeys(s)]_vars
    BY <1>1
  <1> QED
    BY <1>2, Inductive, PTL DEF Spec, RestraintOutlivesRestart
=============================================================================
