----------------------- MODULE PhysicalAuthorityProofs -----------------------
(***************************************************************************)
(* Lemmas about the operators of PhysicalAuthority, for whatever modules   *)
(* drive it: each method keeps the type of the authority, and everything   *)
(* but binding a context, reserving and dispatching only withdraws.        *)
(***************************************************************************)
EXTENDS PhysicalAuthority, FiniteSetTheorems, TLAPS

\* b grants nothing a does not: contexts are withdrawn and expectations dropped or aged.
Withdrawn(b, a) ==
  /\ \A c \in Contexts : b.current[c] \in {a.current[c], None}
  /\ \A e \in b.expected : \E d \in a.expected :
       d.id = e.id /\ d.request = e.request /\ d.started = e.started
  /\ IsFiniteSet(a.expected) =>
       IsFiniteSet(b.expected) /\ Cardinality(b.expected) <= Cardinality(a.expected)

LEMMA WithdrawnTransitive ==
  ASSUME NEW a, NEW b, NEW c, Withdrawn(b, a), Withdrawn(c, b)
  PROVE  Withdrawn(c, a)
  <1>1. \A x \in Contexts : c.current[x] \in {a.current[x], None}
    BY DEF Withdrawn
  <1>2. \A e \in c.expected : \E d \in a.expected :
          d.id = e.id /\ d.request = e.request /\ d.started = e.started
    <2> SUFFICES ASSUME NEW e \in c.expected
                 PROVE  \E d \in a.expected :
                          d.id = e.id /\ d.request = e.request /\ d.started = e.started
      OBVIOUS
    <2>1. PICK f \in b.expected : f.id = e.id /\ f.request = e.request /\ f.started = e.started
      BY DEF Withdrawn
    <2>2. PICK d \in a.expected : d.id = f.id /\ d.request = f.request /\ d.started = f.started
      BY DEF Withdrawn
    <2> QED
      BY <2>1, <2>2
  <1>3. ASSUME IsFiniteSet(a.expected)
        PROVE  IsFiniteSet(c.expected) /\ Cardinality(c.expected) <= Cardinality(a.expected)
    <2>1. IsFiniteSet(b.expected) /\ Cardinality(b.expected) <= Cardinality(a.expected)
      BY <1>3 DEF Withdrawn
    <2>2. IsFiniteSet(c.expected) /\ Cardinality(c.expected) <= Cardinality(b.expected)
      BY <2>1 DEF Withdrawn
    <2>3. /\ Cardinality(a.expected) \in Nat /\ Cardinality(b.expected) \in Nat
          /\ Cardinality(c.expected) \in Nat
      BY <1>3, <2>1, <2>2, FS_CardinalityType
    <2> QED
      BY <2>1, <2>2, <2>3
  <1> QED
    BY <1>1, <1>2, <1>3 DEF Withdrawn

\* Dropping expectations withdraws, whatever else changes.
LEMMA SubsetWithdraws ==
  ASSUME NEW a, NEW b, b.expected \subseteq a.expected,
         \A c \in Contexts : b.current[c] \in {a.current[c], None}
  PROVE  Withdrawn(b, a)
  <1>1. IsFiniteSet(a.expected) =>
          IsFiniteSet(b.expected) /\ Cardinality(b.expected) <= Cardinality(a.expected)
    BY FS_Subset
  <1> QED
    BY <1>1 DEF Withdrawn

-----------------------------------------------------------------------------
(***************************************************************************)
(* Withdrawal.                                                             *)
(***************************************************************************)
\* What sanitation, restraints and the outage lock out is the same.
SameLocks(b, a) ==
  /\ b.sanitation = a.sanitation /\ b.outage = a.outage
  /\ b.restoring = a.restoring /\ b.suppressed = a.suppressed

LEMMA InvalidatedFacts ==
  ASSUME NEW a \in Authority, NEW S
  PROVE  /\ Invalidated(a, S) \in Authority
         /\ SameLocks(Invalidated(a, S), a)
         /\ \A c \in Contexts :
              Invalidated(a, S).current[c] = IF c \in S THEN None ELSE a.current[c]
         /\ Invalidated(a, S).expected \subseteq a.expected
         /\ Withdrawn(Invalidated(a, S), a)
  <1> DEFINE now == [c \in Contexts |-> IF c \in S THEN None ELSE a.current[c]]
             kept == Without(a.expected, S)
  <1>1. now \in [Contexts -> Tokens \cup {None}] /\ kept \subseteq a.expected
    BY DEF Authority, Without
  <1>2. Invalidated(a, S) = [a EXCEPT !.current = now, !.expected = kept]
    BY DEF Invalidated
  <1>3. \A c \in Contexts : now[c] = IF c \in S THEN None ELSE a.current[c]
    OBVIOUS
  <1> HIDE DEF now, kept
  <1>4. Invalidated(a, S).current = now /\ Invalidated(a, S).expected = kept
    BY <1>2 DEF Authority
  <1>5. Invalidated(a, S) \in Authority
    BY <1>1, <1>2 DEF Authority
  <1>6. SameLocks(Invalidated(a, S), a)
    BY <1>2 DEF Authority, SameLocks
  <1>7. Withdrawn(Invalidated(a, S), a)
    BY <1>1, <1>3, <1>4, SubsetWithdraws
  <1> QED
    BY <1>1, <1>3, <1>4, <1>5, <1>6, <1>7

LEMMA WithdrawnReflexive ==
  ASSUME NEW a
  PROVE  Withdrawn(a, a)
  BY SubsetWithdraws

\* A change of any other field keeps contexts and expectations.
LEMMA ForgetFacts ==
  ASSUME NEW a \in Authority
  PROVE  /\ Forget(a) \in Authority
         /\ SameLocks(Forget(a), a)
         /\ Forget(a).current = a.current
         /\ Forget(a).expected = {}
         /\ Withdrawn(Forget(a), a)
  <1>1. /\ Forget(a) \in Authority /\ SameLocks(Forget(a), a)
        /\ Forget(a).current = a.current /\ Forget(a).expected = {}
    BY DEF Forget, Authority, SameLocks
  <1> QED
    BY <1>1, SubsetWithdraws

LEMMA MaintenanceFacts ==
  ASSUME NEW a \in Authority, NEW v \in {"unresolved", "off", "on"}
  PROVE  /\ ResolveMaintenance(a, v) \in Authority
         /\ Withdrawn(ResolveMaintenance(a, v), a)
         /\ SameLocks(ResolveMaintenance(a, v), a)
         /\ ResolveMaintenance(a, v) # a => ResolveMaintenance(a, v).expected = {}
  <1>1. CASE a.maintenance = v
    BY <1>1, WithdrawnReflexive DEF ResolveMaintenance, Authority, SameLocks
  <1>2. CASE a.maintenance # v
    <2>1. ResolveMaintenance(a, v) = [Forget(a) EXCEPT !.maintenance = v]
      BY <1>2 DEF ResolveMaintenance
    <2>2. /\ ResolveMaintenance(a, v) \in Authority
          /\ ResolveMaintenance(a, v).current = a.current
          /\ ResolveMaintenance(a, v).expected = {}
          /\ SameLocks(ResolveMaintenance(a, v), a)
      BY <2>1, ForgetFacts DEF Authority, SameLocks
    <2> QED
      BY <2>2, SubsetWithdraws
  <1> QED
    BY <1>1, <1>2

LEMMA ModeFacts ==
  ASSUME NEW a \in Authority, NEW v \in {"none", "auto", "service"}
  PROVE  /\ SetControllerMode(a, v) \in Authority
         /\ Withdrawn(SetControllerMode(a, v), a)
         /\ SameLocks(SetControllerMode(a, v), a)
         /\ v # a.mode => SetControllerMode(a, v).expected = {}
  <1>1. CASE a.mode = v
    BY <1>1, WithdrawnReflexive DEF SetControllerMode, Authority, SameLocks
  <1>2. CASE a.mode # v
    <2>1. SetControllerMode(a, v) = [Forget(a) EXCEPT !.mode = v]
      BY <1>2 DEF SetControllerMode
    <2>2. /\ SetControllerMode(a, v) \in Authority
          /\ SetControllerMode(a, v).current = a.current
          /\ SetControllerMode(a, v).expected = {}
          /\ SameLocks(SetControllerMode(a, v), a)
      BY <2>1, ForgetFacts DEF Authority, SameLocks
    <2> QED
      BY <2>2, SubsetWithdraws
  <1> QED
    BY <1>1, <1>2

\* Withdrawal after a change of fields that are neither contexts nor expectations.
LEMMA ChangedThenInvalidated ==
  ASSUME NEW a \in Authority, NEW b \in Authority, NEW S,
         b.current = a.current, b.expected = a.expected
  PROVE  /\ Invalidated(b, S) \in Authority
         /\ SameLocks(Invalidated(b, S), b)
         /\ Withdrawn(Invalidated(b, S), a)
         /\ \A c \in Contexts :
              Invalidated(b, S).current[c] = IF c \in S THEN None ELSE a.current[c]
  BY InvalidatedFacts, SubsetWithdraws

-----------------------------------------------------------------------------
\* What b is once the restraint of a body is set on or off in a.
SuppressedAs(b, a, body, on) ==
  /\ b \in Authority /\ Withdrawn(b, a)
  /\ b.suppressed = IF on THEN a.suppressed \cup {body} ELSE a.suppressed \ {body}
  /\ b.restoring = a.restoring /\ b.sanitation = a.sanitation /\ b.outage = a.outage
  /\ (body \in a.suppressed) # on =>
       \A c \in Contexts :
         b.current[c] = IF c \in Stales(body) THEN None ELSE a.current[c]
  /\ (body \in a.suppressed) = on => b = a

LEMMA SuppressedFacts ==
  ASSUME NEW a \in Authority, NEW body \in Bodies, NEW on \in BOOLEAN
  PROVE  SuppressedAs(SetSuppressed(a, body, on), a, body, on)
  <1>1. CASE (body \in a.suppressed) = on
    <2>1. SetSuppressed(a, body, on) = a
      BY <1>1 DEF SetSuppressed
    <2> QED
      BY <1>1, <2>1, WithdrawnReflexive DEF Authority, SuppressedAs
  <1>2. CASE (body \in a.suppressed) # on
    <2> DEFINE now == IF on THEN a.suppressed \cup {body} ELSE a.suppressed \ {body}
               c == [a EXCEPT !.suppressed = now]
    <2>1. now \in SUBSET Bodies
      BY DEF Authority
    <2>2. SetSuppressed(a, body, on) = Invalidated(c, Stales(body))
      BY <1>2 DEF SetSuppressed
    <2> HIDE DEF now
    <2>3. /\ c \in Authority /\ c.current = a.current /\ c.expected = a.expected
          /\ c.suppressed = now /\ c.restoring = a.restoring /\ c.sanitation = a.sanitation
          /\ c.outage = a.outage
      BY <2>1 DEF Authority
    <2> HIDE DEF c
    <2>4. /\ Invalidated(c, Stales(body)) \in Authority
          /\ SameLocks(Invalidated(c, Stales(body)), c)
          /\ Withdrawn(Invalidated(c, Stales(body)), a)
          /\ \A x \in Contexts : Invalidated(c, Stales(body)).current[x]
                                  = IF x \in Stales(body) THEN None ELSE a.current[x]
      BY <2>3, ChangedThenInvalidated
    <2> QED
      BY <1>2, <2>2, <2>3, <2>4 DEF now, SameLocks, SuppressedAs
  <1> QED
    BY <1>1, <1>2

\* What b is once Home Assistant has resolved the restraint of a body in a.
ResolvedAs(b, a, body, on) ==
  /\ b \in Authority /\ Withdrawn(b, a)
  /\ b.suppressed = IF on THEN a.suppressed \cup {body} ELSE a.suppressed \ {body}
  /\ b.restoring = a.restoring \ {body}
  /\ b.sanitation = a.sanitation /\ b.outage = a.outage
  /\ \A c \in Automatic \cup {"OUTAGE"} : b.current[c] = None

LEMMA ResolvedFacts ==
  ASSUME NEW a \in Authority, NEW body \in Bodies, NEW on \in BOOLEAN
  PROVE  ResolvedAs(ResolveSuppressed(a, body, on), a, body, on)
  <1> DEFINE b == SetSuppressed(a, body, on)
             c == [b EXCEPT !.restoring = @ \ {body}]
             S == Automatic \cup {"OUTAGE"}
  <1>1. ResolveSuppressed(a, body, on) = Invalidated(c, S)
    BY DEF ResolveSuppressed
  <1>2. SuppressedAs(b, a, body, on)
    BY SuppressedFacts, Zenon
  <1> HIDE DEF b
  <1>2a. /\ b \in Authority /\ Withdrawn(b, a)
         /\ b.suppressed = IF on THEN a.suppressed \cup {body} ELSE a.suppressed \ {body}
         /\ b.restoring = a.restoring /\ b.sanitation = a.sanitation /\ b.outage = a.outage
    BY <1>2 DEF SuppressedAs
  <1>3. /\ c \in Authority /\ c.current = b.current /\ c.expected = b.expected
        /\ c.suppressed = b.suppressed /\ c.restoring = b.restoring \ {body}
        /\ c.sanitation = b.sanitation /\ c.outage = b.outage
    BY <1>2a DEF Authority
  <1> HIDE DEF c
  <1>4. /\ Invalidated(c, S) \in Authority /\ SameLocks(Invalidated(c, S), c)
        /\ Withdrawn(Invalidated(c, S), b)
        /\ \A x \in Contexts : Invalidated(c, S).current[x]
                                = IF x \in S THEN None ELSE b.current[x]
    BY <1>2a, <1>3, ChangedThenInvalidated
  <1>5. Withdrawn(Invalidated(c, S), a)
    BY <1>2a, <1>4, WithdrawnTransitive
  <1>6. \A x \in S : Invalidated(c, S).current[x] = None
    BY <1>4 DEF Contexts
  <1> QED
    BY <1>1, <1>2a, <1>3, <1>4, <1>5, <1>6 DEF SameLocks, ResolvedAs

\* b is a with one context fewer, at most.
Narrowed(b, a, source) ==
  /\ b \in Authority /\ Withdrawn(b, a) /\ SameLocks(b, a)
  /\ b # a => b.current[source] = None

LEMMA ThermalFacts ==
  ASSUME NEW a \in Authority, NEW scope \in SUBSET Bodies
  PROVE  Narrowed(ConfigureThermal(a, scope), a, "THERMAL")
  <1>1. CASE a.scope = scope
    BY <1>1, WithdrawnReflexive DEF ConfigureThermal, SameLocks, Narrowed
  <1>2. CASE a.scope # scope
    <2> DEFINE c == [a EXCEPT !.scope = scope]
    <2>1. ConfigureThermal(a, scope) = Invalidated(c, {"THERMAL"})
      BY <1>2 DEF ConfigureThermal
    <2>2. c \in Authority /\ c.current = a.current /\ c.expected = a.expected /\ SameLocks(c, a)
      BY DEF Authority, SameLocks
    <2> HIDE DEF c
    <2> QED
      BY <2>1, <2>2, ChangedThenInvalidated DEF SameLocks, Contexts, Automatic, Narrowed
  <1> QED
    BY <1>1, <1>2

LEMMA FiltrationFacts ==
  ASSUME NEW a \in Authority, NEW on \in BOOLEAN
  PROVE  Narrowed(ConfigureFiltration(a, on), a, "FILTRATION")
  <1>1. CASE a.filtration = on
    BY <1>1, WithdrawnReflexive DEF ConfigureFiltration, SameLocks, Narrowed
  <1>2. CASE a.filtration # on
    <2> DEFINE c == [a EXCEPT !.filtration = on]
    <2>1. ConfigureFiltration(a, on) = Invalidated(c, {"FILTRATION"})
      BY <1>2 DEF ConfigureFiltration
    <2>2. c \in Authority /\ c.current = a.current /\ c.expected = a.expected /\ SameLocks(c, a)
      BY DEF Authority, SameLocks
    <2> HIDE DEF c
    <2> QED
      BY <2>1, <2>2, ChangedThenInvalidated DEF SameLocks, Contexts, Automatic, Narrowed
  <1> QED
    BY <1>1, <1>2

-----------------------------------------------------------------------------
LEMMA ResetBegins ==
  ASSUME NEW a \in Authority
  PROVE  LET b == BeginReset(a)
         IN /\ b \in Authority /\ Withdrawn(b, a) /\ SameLocks(b, a)
            /\ b.expected = {}
            /\ \A c \in Automatic \cup {"OUTAGE"} : b.current[c] = None
  <1> DEFINE f == Forget(a)
             c == [f EXCEPT !.reset = TRUE]
             S == Automatic \cup {"OUTAGE"}
  <1>1. BeginReset(a) = Invalidated(c, S)
    BY DEF BeginReset
  <1>2. f \in Authority /\ SameLocks(f, a) /\ f.expected = {} /\ Withdrawn(f, a)
    BY ForgetFacts
  <1> HIDE DEF f
  <1>3. c \in Authority /\ c.current = f.current /\ c.expected = {} /\ SameLocks(c, a)
    BY <1>2 DEF Authority, SameLocks
  <1> HIDE DEF c
  <1>4. /\ Invalidated(c, S) \in Authority /\ SameLocks(Invalidated(c, S), c)
        /\ Invalidated(c, S).expected = {}
        /\ \A x \in Contexts : Invalidated(c, S).current[x]
                                = IF x \in S THEN None ELSE c.current[x]
    BY <1>3, InvalidatedFacts
  <1>5. Withdrawn(Invalidated(c, S), f)
    BY <1>2, <1>3, <1>4, ChangedThenInvalidated
  <1>6. \A x \in S : Invalidated(c, S).current[x] = None
    BY <1>4 DEF Contexts
  <1> QED
    BY <1>1, <1>2, <1>3, <1>4, <1>5, <1>6, WithdrawnTransitive DEF SameLocks

LEMMA ResetFinishes ==
  ASSUME NEW a \in Authority
  PROVE  LET b == FinishReset(a)
         IN /\ b \in Authority /\ Withdrawn(b, a) /\ SameLocks(b, a)
            /\ \A c \in Automatic : b.current[c] = None
  <1> DEFINE c == [a EXCEPT !.reset = FALSE]
  <1>1. FinishReset(a) = Invalidated(c, Automatic)
    BY DEF FinishReset
  <1>2. c \in Authority /\ c.current = a.current /\ c.expected = a.expected /\ SameLocks(c, a)
    BY DEF Authority, SameLocks
  <1> HIDE DEF c
  <1> QED
    BY <1>1, <1>2, ChangedThenInvalidated DEF SameLocks, Contexts

LEMMA SanitationBegins ==
  ASSUME NEW a \in Authority, NEW session \in Session
  PROVE  LET b == BeginSanitation(a, session)
         IN /\ b \in Authority /\ Withdrawn(b, a)
            /\ b.sanitation = session /\ b.outage = a.outage
            /\ b.restoring = a.restoring /\ b.suppressed = a.suppressed
            /\ \A c \in Automatic \cup {"SANITATION"} : b.current[c] = None
  <1> DEFINE c == [a EXCEPT !.sanitation = session]
             S == Automatic \cup {"SANITATION"}
  <1>1. BeginSanitation(a, session) = Invalidated(c, S)
    BY DEF BeginSanitation
  <1>2. /\ c \in Authority /\ c.current = a.current /\ c.expected = a.expected
        /\ c.sanitation = session /\ c.outage = a.outage
        /\ c.restoring = a.restoring /\ c.suppressed = a.suppressed
    BY DEF Authority
  <1> HIDE DEF c
  <1>3. /\ Invalidated(c, S) \in Authority /\ SameLocks(Invalidated(c, S), c)
        /\ Withdrawn(Invalidated(c, S), a)
        /\ \A x \in Contexts : Invalidated(c, S).current[x]
                                = IF x \in S THEN None ELSE a.current[x]
    BY <1>2, ChangedThenInvalidated
  <1>4. \A x \in S : Invalidated(c, S).current[x] = None
    BY <1>3 DEF Contexts
  <1> QED
    BY <1>1, <1>2, <1>3, <1>4 DEF SameLocks

LEMMA SanitationEnds ==
  ASSUME NEW a \in Authority, NEW id
  PROVE  LET b == EndSanitation(a, id)
         IN /\ b \in Authority /\ Withdrawn(b, a) /\ b.outage = a.outage
            /\ b.restoring = a.restoring /\ b.suppressed = a.suppressed
            /\ a.sanitation = None \/ a.sanitation.id # id => b = a
            /\ a.sanitation # None /\ a.sanitation.id = id =>
                 /\ b.sanitation = None
                 /\ \A c \in Automatic \cup {"SANITATION"} : b.current[c] = None
  <1>1. CASE a.sanitation = None \/ a.sanitation.id # id
    <2>1. EndSanitation(a, id) = a
      BY <1>1 DEF EndSanitation
    <2> QED
      BY <1>1, <2>1, WithdrawnReflexive
  <1>2. CASE ~(a.sanitation = None \/ a.sanitation.id # id)
    <2> DEFINE c == [a EXCEPT !.sanitation = None]
               S == Automatic \cup {"SANITATION"}
    <2>1. EndSanitation(a, id) = Invalidated(c, S)
      BY <1>2 DEF EndSanitation
    <2>2. /\ c \in Authority /\ c.current = a.current /\ c.expected = a.expected
          /\ c.sanitation = None /\ c.outage = a.outage
          /\ c.restoring = a.restoring /\ c.suppressed = a.suppressed
      BY DEF Authority
    <2> HIDE DEF c
    <2>3. /\ Invalidated(c, S) \in Authority /\ SameLocks(Invalidated(c, S), c)
          /\ Withdrawn(Invalidated(c, S), a)
          /\ \A x \in Contexts : Invalidated(c, S).current[x]
                                  = IF x \in S THEN None ELSE a.current[x]
      BY <2>2, ChangedThenInvalidated
    <2>4. \A x \in S : Invalidated(c, S).current[x] = None
      BY <2>3 DEF Contexts
    <2> QED
      BY <1>2, <2>1, <2>2, <2>3, <2>4 DEF SameLocks
  <1> QED
    BY <1>1, <1>2

-----------------------------------------------------------------------------
\* What b is once the gate of the outage domain is set in a.
GateAs(b, a) ==
  /\ b \in Authority /\ Withdrawn(b, a) /\ b.outage.active = a.outage.active
  /\ b.sanitation = a.sanitation
  /\ b.restoring = a.restoring /\ b.suppressed = a.suppressed
  /\ b # a => b.current["OUTAGE"] = None

LEMMA OutageGateFacts ==
  ASSUME NEW a \in Authority, NEW on \in BOOLEAN
  PROVE  GateAs(ConfigureOutage(a, on), a)
  <1>1. CASE a.outage.gate = on
    BY <1>1, WithdrawnReflexive DEF ConfigureOutage, GateAs
  <1>2. CASE a.outage.gate # on
    <2> DEFINE c == [a EXCEPT !.outage.gate = on]
    <2>1. ConfigureOutage(a, on) = Invalidated(c, {"OUTAGE"})
      BY <1>2 DEF ConfigureOutage
    <2>2. /\ c \in Authority /\ c.current = a.current /\ c.expected = a.expected
          /\ c.sanitation = a.sanitation /\ c.outage.active = a.outage.active
          /\ c.restoring = a.restoring /\ c.suppressed = a.suppressed
      BY DEF Authority, Outage
    <2> HIDE DEF c
    <2> QED
      BY <2>1, <2>2, ChangedThenInvalidated DEF SameLocks, Contexts, GateAs
  <1> QED
    BY <1>1, <1>2

\* What b is once the outage domain is set in a.
DomainAs(b, a, active) ==
  /\ b \in Authority /\ Withdrawn(b, a) /\ b.outage.active = active
  /\ b.sanitation = a.sanitation
  /\ b.restoring = a.restoring /\ b.suppressed = a.suppressed
  /\ b.current["SANITATION"] = a.current["SANITATION"]
  /\ active # a.outage.active => \A c \in Automatic : b.current[c] = None

LEMMA OutageDomainFacts ==
  ASSUME NEW a \in Authority, NEW active \in BOOLEAN, NEW ceiling \in BOOLEAN
  PROVE  DomainAs(SetOutageDomain(a, active, ceiling), a, active)
  <1> DEFINE c == [a EXCEPT !.outage.active = active, !.outage.ceiling = active /\ ceiling]
  <1>1. SetOutageDomain(a, active, ceiling)
          = IF active # a.outage.active THEN Invalidated(c, Automatic) ELSE c
    BY DEF SetOutageDomain
  <1>2. /\ c \in Authority /\ c.current = a.current /\ c.expected = a.expected
        /\ c.sanitation = a.sanitation /\ c.outage.active = active
        /\ c.restoring = a.restoring /\ c.suppressed = a.suppressed
    BY DEF Authority, Outage
  <1> HIDE DEF c
  <1>3. /\ Invalidated(c, Automatic) \in Authority /\ SameLocks(Invalidated(c, Automatic), c)
        /\ Withdrawn(Invalidated(c, Automatic), a)
        /\ \A x \in Contexts : Invalidated(c, Automatic).current[x]
                                = IF x \in Automatic THEN None ELSE a.current[x]
    BY <1>2, ChangedThenInvalidated
  <1>4. Withdrawn(c, a)
    BY <1>2, SubsetWithdraws
  <1> QED
    BY <1>1, <1>2, <1>3, <1>4 DEF SameLocks, Contexts, Automatic, DomainAs

-----------------------------------------------------------------------------
LEMMA NewIsAuthority ==
  NewAuthority \in Authority
  <1>1. [c \in Contexts |-> None] \in [Contexts -> Tokens \cup {None}]
    OBVIOUS
  <1>2. [loaded |-> TRUE, gate |-> FALSE, active |-> FALSE, ceiling |-> FALSE] \in Outage
    BY DEF Outage
  <1> QED
    BY <1>1, <1>2 DEF NewAuthority, Authority

\* Binding a context changes that context and nothing else.
LEMMA BindFacts ==
  ASSUME NEW a \in Authority, NEW source \in Contexts, NEW token \in Tokens \cup {None}
  PROVE  LET b == Bind(a, source, token)
         IN /\ b \in Authority /\ SameLocks(b, a) /\ b.expected = a.expected
            /\ b.current[source] = token
            /\ \A c \in Contexts \ {source} : b.current[c] = a.current[c]
  <1> DEFINE now == [a.current EXCEPT ![source] = token]
  <1>1. now \in [Contexts -> Tokens \cup {None}]
    BY DEF Authority
  <1>2. /\ now[source] = token
        /\ \A c \in Contexts \ {source} : now[c] = a.current[c]
    BY DEF Authority
  <1>3. Bind(a, source, token) = [a EXCEPT !.current = now]
    BY DEF Bind
  <1> HIDE DEF now
  <1> QED
    BY <1>1, <1>2, <1>3 DEF Authority, SameLocks

-----------------------------------------------------------------------------
(***************************************************************************)
(* The registry.                                                           *)
(***************************************************************************)
LEMMA ImageIsNoLarger ==
  ASSUME NEW S, IsFiniteSet(S), NEW T \in SUBSET S, NEW R, NEW f \in Surjection(T, R)
  PROVE  IsFiniteSet(R) /\ Cardinality(R) <= Cardinality(S)
  <1>1. IsFiniteSet(T) /\ Cardinality(T) <= Cardinality(S)
    BY FS_Subset
  <1>2. IsFiniteSet(R) /\ Cardinality(R) <= Cardinality(T)
    BY <1>1, FS_Surjection
  <1>3. Cardinality(R) \in Nat /\ Cardinality(T) \in Nat /\ Cardinality(S) \in Nat
    BY <1>1, <1>2, FS_CardinalityType
  <1> QED
    BY <1>1, <1>2, <1>3

\* A change of the registry alone.
LEMMA RegistryFacts ==
  ASSUME NEW a \in Authority, NEW kept \in SUBSET Expectation
  PROVE  LET b == [a EXCEPT !.expected = kept]
         IN b \in Authority /\ SameLocks(b, a) /\ b.current = a.current /\ b.expected = kept
  BY DEF Authority, SameLocks

LEMMA ExpiredFacts ==
  ASSUME NEW a \in Authority, NEW passed \in Nat
  PROVE  LET b == Expired(a, passed)
         IN /\ b \in Authority /\ SameLocks(b, a) /\ Withdrawn(b, a)
            /\ b.current = a.current
  <1> DEFINE live == {x \in a.expected : x.left > passed}
             f == [x \in live |-> [x EXCEPT !.left = x.left - passed]]
             kept == {f[x] : x \in live}
  <1>1. a.expected \subseteq Expectation
    BY DEF Authority
  <1>2. \A x \in live : /\ f[x] \in Expectation
                        /\ f[x].id = x.id /\ f[x].request = x.request /\ f[x].started = x.started
    <2> SUFFICES ASSUME NEW x \in live
                 PROVE  /\ f[x] \in Expectation
                        /\ f[x].id = x.id /\ f[x].request = x.request /\ f[x].started = x.started
      OBVIOUS
    <2>1. x \in Expectation /\ x.left > passed
      BY <1>1
    <2>2. x.left - passed \in 0..Ttl
      BY <2>1, AuthorityAssumption DEF Expectation
    <2> QED
      BY <2>1, <2>2 DEF Expectation
  <1>3. kept \subseteq Expectation
    BY <1>2
  <1>4. kept = {[e EXCEPT !.left = @ - passed] : e \in {x \in a.expected : x.left > passed}}
    OBVIOUS
  <1>5. Expired(a, passed) = [a EXCEPT !.expected = kept]
    BY <1>4 DEF Expired
  <1>6. \A e \in kept : \E d \in live : e = f[d]
    OBVIOUS
  <1>7. f \in Surjection(live, kept) /\ live \in SUBSET a.expected
    BY <1>6 DEF Surjection
  <1> HIDE DEF kept, f, live
  <1>8. IsFiniteSet(a.expected) =>
          IsFiniteSet(kept) /\ Cardinality(kept) <= Cardinality(a.expected)
    BY <1>7, ImageIsNoLarger
  <1>9. \A e \in kept : \E d \in a.expected :
          d.id = e.id /\ d.request = e.request /\ d.started = e.started
    BY <1>2, <1>6, <1>7
  <1> QED
    BY <1>3, <1>5, <1>8, <1>9, RegistryFacts DEF Withdrawn

LEMMA ReplacedFacts ==
  ASSUME NEW a \in Authority, NEW plant \in SUBSET Targets, NEW seen \in SUBSET Targets
  PROVE  LET b == Replaced(a, plant, seen)
         IN /\ b \in Authority /\ SameLocks(b, a)
            /\ b.current = a.current /\ b.expected = a.expected
  <1>1. Replaced(a, plant, seen) = [a EXCEPT !.known = seen, !.truth = plant \cap seen]
    BY DEF Replaced
  <1> QED
    BY <1>1 DEF Authority, SameLocks

LEMMA ObservedFacts ==
  ASSUME NEW a \in Authority, NEW plant \in SUBSET Targets, NEW seen \in SUBSET Targets
  PROVE  LET b == Observed(a, plant, seen)
         IN /\ b \in Authority /\ SameLocks(b, a) /\ Withdrawn(b, a)
            /\ b.current = a.current
  <1> DEFINE r == Replaced(a, plant, seen)
  <1>1. PICK explained :
          Observed(a, plant, seen) = [r EXCEPT !.expected = r.expected \ explained]
    BY DEF Observed
  <1>2. r \in Authority /\ SameLocks(r, a) /\ r.current = a.current /\ r.expected = a.expected
    BY ReplacedFacts
  <1> HIDE DEF r
  <1>3. /\ Observed(a, plant, seen) \in Authority /\ SameLocks(Observed(a, plant, seen), r)
        /\ Observed(a, plant, seen).current = r.current
        /\ Observed(a, plant, seen).expected \subseteq r.expected
    BY <1>1, <1>2 DEF Authority, SameLocks
  <1>4. SameLocks(Observed(a, plant, seen), a)
    BY <1>2, <1>3 DEF SameLocks
  <1> QED
    BY <1>2, <1>3, <1>4, SubsetWithdraws

LEMMA CancelFacts ==
  ASSUME NEW a \in Authority, NEW id
  PROVE  LET b == Cancel(a, id)
         IN b \in Authority /\ SameLocks(b, a) /\ Withdrawn(b, a) /\ b.current = a.current
  <1> DEFINE kept == {e \in a.expected : e.id # id}
  <1>1. Cancel(a, id) = [a EXCEPT !.expected = kept]
    BY DEF Cancel
  <1>2. kept \subseteq a.expected /\ kept \subseteq Expectation
    BY DEF Authority
  <1> HIDE DEF kept
  <1>3. /\ Cancel(a, id) \in Authority /\ SameLocks(Cancel(a, id), a)
        /\ Cancel(a, id).current = a.current /\ Cancel(a, id).expected = kept
    BY <1>1, <1>2, RegistryFacts
  <1> QED
    BY <1>2, <1>3, SubsetWithdraws

\* Reserving adds at most the one expectation, and never beyond the limit.
LEMMA ReserveFacts ==
  ASSUME NEW a \in Authority, NEW id \in Tokens, NEW r \in Request
  PROVE  LET b == Reserve(a, id, r)
         IN /\ b \in Authority /\ SameLocks(b, a) /\ b.current = a.current
            /\ \A e \in b.expected :
                 \/ e \in a.expected
                 \/ e.id = id /\ e.request = r /\ ~e.started /\ ~AlreadyTrue(a, r)
            /\ IsFiniteSet(a.expected) /\ Cardinality(a.expected) <= Limit
                 /\ (AlreadyTrue(a, r) \/ ~Full(a))
                 => IsFiniteSet(b.expected) /\ Cardinality(b.expected) <= Limit
  <1>1. CASE AlreadyTrue(a, r)
    BY <1>1 DEF Reserve, SameLocks
  <1>2. CASE ~AlreadyTrue(a, r)
    <2> DEFINE new == [id |-> id, request |-> r, left |-> Ttl, started |-> FALSE]
               kept == a.expected \cup {new}
    <2>1. Reserve(a, id, r) = [a EXCEPT !.expected = kept]
      BY <1>2 DEF Reserve
    <2>2. /\ new \in Expectation
          /\ new.id = id /\ new.request = r /\ ~new.started
      BY AuthorityAssumption DEF Expectation
    <2> HIDE DEF new
    <2>3. kept \subseteq Expectation
      BY <2>2 DEF Authority
    <2>4. ASSUME IsFiniteSet(a.expected), ~Full(a)
          PROVE  IsFiniteSet(kept) /\ Cardinality(kept) <= Limit
      <3>1. Cardinality(a.expected) \in Nat /\ Cardinality(a.expected) < Limit
        BY <2>4, FS_CardinalityType, AuthorityAssumption DEF Full
      <3>2. IsFiniteSet(kept) /\ Cardinality(kept) <= Cardinality(a.expected) + 1
        BY <2>4, <3>1, FS_AddElement
      <3>3. Cardinality(kept) \in Nat
        BY <3>2, FS_CardinalityType
      <3> QED
        BY <3>1, <3>2, <3>3, AuthorityAssumption
    <2>5. \A e \in kept : e \in a.expected \/ e = new
      OBVIOUS
    <2> HIDE DEF kept
    <2> QED
      BY <1>2, <2>1, <2>2, <2>3, <2>4, <2>5, RegistryFacts
  <1> QED
    BY <1>1, <1>2

LEMMA SupersededFacts ==
  ASSUME NEW a \in Authority, NEW id, NEW r
  PROVE  LET b == Superseded(a, id, r)
         IN b \in Authority /\ SameLocks(b, a) /\ Withdrawn(b, a) /\ b.current = a.current
  <1> DEFINE kept == {e \in a.expected : ~(e.started /\ e.id # id /\ e.request.target = r.target)}
  <1>1. Superseded(a, id, r) = [a EXCEPT !.expected = kept]
    BY DEF Superseded
  <1>2. kept \subseteq a.expected /\ kept \subseteq Expectation
    BY DEF Authority
  <1> HIDE DEF kept
  <1>3. /\ Superseded(a, id, r) \in Authority /\ SameLocks(Superseded(a, id, r), a)
        /\ Superseded(a, id, r).current = a.current /\ Superseded(a, id, r).expected = kept
    BY <1>1, <1>2, RegistryFacts
  <1> QED
    BY <1>2, <1>3, SubsetWithdraws

\* A dispatch starts only the expectation of its own request.
LEMMA DispatchFacts ==
  ASSUME NEW a \in Authority, NEW id, NEW r
  PROVE  LET b == StartDispatch(a, id, r)
         IN /\ b \in Authority /\ SameLocks(b, a) /\ b.current = a.current
            /\ \A e \in b.expected : \E d \in a.expected :
                 /\ d.id = e.id /\ d.request = e.request
                 /\ e.started => d.started \/ e.id = id
            /\ IsFiniteSet(a.expected) =>
                 IsFiniteSet(b.expected) /\ Cardinality(b.expected) <= Cardinality(a.expected)
  <1> DEFINE live == {x \in a.expected : ~(x.started /\ x.id # id /\ x.request.target = r.target)}
             f == [x \in live |-> [x EXCEPT !.started = x.started \/ x.id = id]]
             kept == {f[x] : x \in live}
  <1>1. a.expected \subseteq Expectation
    BY DEF Authority
  <1>2. \A x \in live : /\ f[x] \in Expectation
                        /\ f[x].id = x.id /\ f[x].request = x.request
                        /\ f[x].started => x.started \/ x.id = id
    <2> SUFFICES ASSUME NEW x \in live
                 PROVE  /\ f[x] \in Expectation
                        /\ f[x].id = x.id /\ f[x].request = x.request
                        /\ f[x].started => x.started \/ x.id = id
      OBVIOUS
    <2>1. x \in Expectation
      BY <1>1
    <2> QED
      BY <2>1 DEF Expectation
  <1>3. kept \subseteq Expectation
    BY <1>2
  <1>4. StartDispatch(a, id, r) = [a EXCEPT !.expected = kept]
    <2>1. Superseded(a, id, r).expected = live
      BY RegistryFacts DEF Superseded
    <2> QED
      BY <2>1 DEF StartDispatch
  <1>5. \A e \in kept : \E d \in live : e = f[d]
    OBVIOUS
  <1>6. f \in Surjection(live, kept) /\ live \in SUBSET a.expected
    BY <1>5 DEF Surjection
  <1> HIDE DEF kept, f, live
  <1>7. IsFiniteSet(a.expected) =>
          IsFiniteSet(kept) /\ Cardinality(kept) <= Cardinality(a.expected)
    BY <1>6, ImageIsNoLarger
  <1>8. \A e \in kept : \E d \in a.expected :
          d.id = e.id /\ d.request = e.request /\ (e.started => d.started \/ e.id = id)
    BY <1>2, <1>5, <1>6
  <1> QED
    BY <1>3, <1>4, <1>7, <1>8, RegistryFacts
=============================================================================
