-------------------------- MODULE PumpSessionProofs --------------------------
(***************************************************************************)
(* Theorems of PumpSessionRuntime, for every set of speeds, purposes and   *)
(* names, every number of commands on their way, every time to live, and   *)
(* every set of environments.                                              *)
(***************************************************************************)
EXTENDS PumpSessionRuntime, SequenceTheorems, FiniteSetTheorems, TLAPS

-----------------------------------------------------------------------------
(***************************************************************************)
(* Sequences of calls and of commands on their way.                        *)
(***************************************************************************)
LEMMA AppendFacts ==
  ASSUME NEW S, NEW q \in Seq(S), NEW x \in S
  PROVE  /\ Append(q, x) \in Seq(S)
         /\ Len(Append(q, x)) = Len(q) + 1
         /\ \A i \in 1..Len(q) : Append(q, x)[i] = q[i]
         /\ Append(q, x)[Len(q) + 1] = x
         /\ Append(q, x) # <<>>
         /\ Head(Append(q, x)) = IF q = <<>> THEN x ELSE Head(q)
  OBVIOUS

LEMMA TailFacts ==
  ASSUME NEW S, NEW q \in Seq(S), q # <<>>
  PROVE  /\ Tail(q) \in Seq(S)
         /\ Len(q) \in Nat \ {0}
         /\ Len(Tail(q)) = Len(q) - 1
         /\ \A i \in 1..Len(Tail(q)) : Tail(q)[i] = q[i + 1]
         /\ Head(q) = q[1] /\ q[1] \in S
  BY HeadTailProperties, EmptySeq

LEMMA FrontFacts ==
  ASSUME NEW S, NEW q \in Seq(S), q # <<>>
  PROVE  Front(q) \in Seq(S) /\ Len(Front(q)) = Len(q) - 1
  <1> DEFINE n == Len(q) - 1
  <1>1. n \in Nat
    BY EmptySeq
  <1>2. \A i \in 1..n : q[i] \in S
    BY <1>1
  <1>3. Front(q) = SubSeq(q, 1, n)
    BY DEF Front
  <1> HIDE DEF n
  <1>4. /\ SubSeq(q, 1, n) \in Seq(S)
        /\ Len(SubSeq(q, 1, n)) = IF 1 <= n THEN n - 1 + 1 ELSE 0
    BY <1>1, <1>2, SubSeqProperties
  <1>5. (IF 1 <= n THEN n - 1 + 1 ELSE 0) = n
    BY <1>1
  <1> QED
    BY <1>3, <1>4, <1>5 DEF n

\* The head of the queue is replaced.
LEMMA HeadFacts ==
  ASSUME NEW S, NEW q \in Seq(S), q # <<>>, NEW x \in S
  PROVE  /\ <<x>> \o Tail(q) \in Seq(S)
         /\ Len(<<x>> \o Tail(q)) = Len(q)
         /\ (<<x>> \o Tail(q))[1] = x
         /\ \A i \in 2..Len(q) : (<<x>> \o Tail(q))[i] = q[i]
         /\ <<x>> \o Tail(q) # <<>>
         /\ Head(<<x>> \o Tail(q)) = x
  BY TailFacts

LEMMA RangeFacts ==
  ASSUME NEW S, NEW q \in Seq(S)
  PROVE  /\ Range(q) \subseteq S
         /\ \A x : x \in Range(q) <=> \E i \in 1..Len(q) : q[i] = x
  BY DEF Range

-----------------------------------------------------------------------------
(***************************************************************************)
(* A session, as every handler leaves it: a lost connection makes it       *)
(* unusable until a new one begins, and who asked for the configured speed *)
(* has ended the override.                                                 *)
(***************************************************************************)
Fits(x) ==
  /\ x \in Session
  /\ x.usable => ~x.moved
  /\ x.cancelling # None => x.override = NoOverride

(***************************************************************************)
(* What is left of a session: it is the same one, and what it waits for it *)
(* has waited for before.                                                  *)
(***************************************************************************)
Waits(x, t) ==
  /\ t.cancelling # None => /\ x.cancelling # None
                            /\ t.cancelling.request = x.cancelling.request
  /\ t.override.state = "pending" => /\ x.override.state = "pending"
                                     /\ t.override.request = x.override.request
                                     /\ t.override.value = x.override.value

Keeps(x, t) ==
  /\ Fits(t)
  /\ t.id = x.id /\ t.purpose = x.purpose
  /\ x.moved => t.moved
  /\ Waits(x, t)

\* No request is answered.
SameAnswer(x, t) ==
  t.override.state = "pending" => t.override.answer = x.override.answer

LEMMA SessionFields ==
  ASSUME NEW x \in Session
  PROVE  /\ x # None
         /\ x = [id |-> x.id, purpose |-> x.purpose, configured |-> x.configured,
                 usable |-> x.usable, age |-> x.age, moved |-> x.moved, spent |-> x.spent,
                 override |-> x.override, cancelling |-> x.cancelling]
         /\ x.id \in Sessions /\ x.purpose \in Purposes /\ x.configured \in Speeds
         /\ x.usable \in BOOLEAN /\ x.age \in 0..(Fresh + 1) /\ x.moved \in BOOLEAN
         /\ x.spent \in BOOLEAN /\ x.override \in Settled \cup Pending
         /\ x.cancelling \in {None} \cup [request : Requests, left : 0..Ttl]
  BY NoneAssumption DEF Session

LEMMA OverrideKinds ==
  /\ \A o \in Settled : o.state \in {"none", "verified"}
  /\ \A o \in Settled : o.state = "none" <=> o = NoOverride
  /\ \A o \in Settled : o.state = "verified" => o.value \in Speeds
  /\ \A o \in Pending : /\ o.state = "pending" /\ o.value \in Speeds /\ o.request \in Requests
                        /\ o.prior \in Settled /\ o.left \in 0..Ttl
  /\ NoOverride \in Settled /\ NoOverride.state = "none"
  /\ \A v \in Speeds : Verified(v) \in Settled /\ Verified(v).state = "verified"
                       /\ Verified(v).value = v
  <1>1. /\ NoOverride \in Settled /\ NoOverride.state = "none"
        /\ \A v \in Speeds : Verified(v) \in Settled /\ Verified(v).state = "verified"
                             /\ Verified(v).value = v
    BY DEF Settled, NoOverride, Verified
  <1>2. \A o \in Settled : o = NoOverride \/ \E v \in Speeds : o = Verified(v)
    BY DEF Settled
  <1>3. \A o \in Pending : /\ o.state = "pending" /\ o.value \in Speeds /\ o.request \in Requests
                           /\ o.prior \in Settled /\ o.left \in 0..Ttl
    BY DEF Pending
  <1> QED
    BY <1>1, <1>2, <1>3

LEMMA EffectiveType ==
  ASSUME NEW x \in Session
  PROVE  Effective(x) \in Speeds
  BY SessionFields, OverrideKinds, SessionAssumption DEF Effective

LEMMA ExpireKeeps ==
  ASSUME NEW x, Fits(x)
  PROVE  /\ Keeps(x, Expire(x)) /\ SameAnswer(x, Expire(x))
         /\ Expire(x).spent = x.spent /\ Expire(x).moved = x.moved
         /\ Expire(x).usable = x.usable /\ Expire(x).configured = x.configured
         /\ Expire(x).age = x.age
  <1> DEFINE c == IF x.cancelling # None /\ x.cancelling.left = 0 THEN None ELSE x.cancelling
             o == IF x.override.state = "pending" /\ x.override.left = 0
                  THEN x.override.prior ELSE x.override
             t == [x EXCEPT !.cancelling = c, !.override = o]
  <1>1. x \in Session /\ x # None
    BY SessionFields DEF Fits
  <1>2. Expire(x) = t
    BY <1>1 DEF Expire
  <1>3. o \in Settled \cup Pending /\ c \in {None} \cup [request : Requests, left : 0..Ttl]
    BY <1>1, SessionFields, OverrideKinds
  <1>4. x.override = NoOverride => o = NoOverride
    BY OverrideKinds
  <1>5. o.state = "pending" => o = x.override
    BY <1>1, SessionFields, OverrideKinds
  <1>6. c # None => c = x.cancelling
    OBVIOUS
  <1> HIDE DEF c, o
  <1>7. /\ t \in Session
        /\ t.id = x.id /\ t.purpose = x.purpose /\ t.spent = x.spent /\ t.moved = x.moved
        /\ t.usable = x.usable /\ t.configured = x.configured /\ t.age = x.age
        /\ t.override = o /\ t.cancelling = c
    BY <1>1, <1>3 DEF Session
  <1> HIDE DEF t
  <1> QED
    BY <1>2, <1>4, <1>5, <1>6, <1>7 DEF Keeps, Fits, Waits, SameAnswer

LEMMA PassedKeeps ==
  ASSUME NEW x, Fits(x)
  PROVE  /\ Keeps(x, Passed(x)) /\ SameAnswer(x, Passed(x)) /\ Passed(x).spent = x.spent
         /\ Passed(x).usable = x.usable
         /\ Passed(x).override.state = x.override.state
         /\ x.override.state # "none" => Passed(x).override.value = x.override.value
  <1> DEFINE a == IF x.age > Fresh THEN x.age ELSE x.age + 1
             c == IF x.cancelling # None THEN Sooner(x.cancelling) ELSE None
             o == IF x.override.state = "pending" THEN Sooner(x.override) ELSE x.override
             t == [x EXCEPT !.age = a, !.cancelling = c, !.override = o]
  <1>1. x \in Session /\ x # None
    BY SessionFields DEF Fits
  <1>2. Passed(x) = t
    BY <1>1 DEF Passed
  <1>3. a \in 0..(Fresh + 1)
    BY <1>1, SessionFields, SessionAssumption
  <1>4. /\ c \in {None} \cup [request : Requests, left : 0..Ttl]
        /\ c # None => x.cancelling # None /\ c.request = x.cancelling.request
    BY <1>1, SessionFields, SessionAssumption DEF Sooner
  <1>5. /\ o \in Settled \cup Pending
        /\ x.override = NoOverride => o = NoOverride
        /\ o.state = x.override.state
        /\ x.override.state # "none" => o.value = x.override.value
        /\ o.state = "pending" => /\ x.override.state = "pending"
                                  /\ o.request = x.override.request
                                  /\ o.value = x.override.value
                                  /\ o.answer = x.override.answer
    <2>1. CASE x.override.state = "pending"
      <3>1. x.override \in Pending
        BY <1>1, <2>1, SessionFields, OverrideKinds
      <3>2. /\ o \in Pending /\ o.request = x.override.request /\ o.value = x.override.value
            /\ o.answer = x.override.answer
        BY <2>1, <3>1, SessionAssumption DEF Pending, Sooner
      <3> QED
        BY <2>1, <3>2, OverrideKinds
    <2>2. CASE x.override.state # "pending"
      BY <1>1, <2>2, SessionFields
    <2> QED
      BY <2>1, <2>2
  <1> HIDE DEF a, c, o
  <1>6. /\ t \in Session
        /\ t.id = x.id /\ t.purpose = x.purpose /\ t.spent = x.spent /\ t.moved = x.moved
        /\ t.usable = x.usable /\ t.override = o /\ t.cancelling = c
    BY <1>1, <1>3, <1>4, <1>5 DEF Session
  <1> HIDE DEF t
  <1> QED
    BY <1>1, <1>2, <1>4, <1>5, <1>6 DEF Keeps, Fits, Waits, SameAnswer

LEMMA StartedFacts ==
  ASSUME NEW id \in Sessions, NEW p \in Purposes, NEW v \in Speeds
  PROVE  /\ Fits(Started(id, p, v))
         /\ Started(id, p, v).id = id /\ Started(id, p, v).purpose = p
         /\ Started(id, p, v).override = NoOverride /\ Started(id, p, v).cancelling = None
         /\ Started(id, p, v).moved = FALSE /\ Started(id, p, v).spent = FALSE
         /\ Started(id, p, v).age = 0
  BY OverrideKinds, SessionAssumption DEF Started, Fits, Session

LEMMA BegunFacts ==
  ASSUME NEW x, Fits(x), NEW q, q.id \in Requests, q.value \in Speeds
  PROVE  /\ Fits(Begun(x, q))
         /\ Begun(x, q).id = x.id /\ Begun(x, q).purpose = x.purpose
         /\ Begun(x, q).moved = x.moved /\ Begun(x, q).usable = x.usable
         /\ Begun(x, q).spent = x.spent /\ Begun(x, q).age = x.age
         /\ Effective(Begun(x, q)) = q.value
         /\ q.value = Baseline[x.purpose]
              => /\ Begun(x, q).override = NoOverride
                 /\ Begun(x, q).cancelling = [request |-> q.id, left |-> Ttl]
         /\ q.value # Baseline[x.purpose]
              => /\ Begun(x, q).cancelling = None
                 /\ Begun(x, q).override.state = "pending"
                 /\ Begun(x, q).override.request = q.id
                 /\ Begun(x, q).override.value = q.value
                 /\ Begun(x, q).override.left = Ttl
                 /\ Begun(x, q).override.answer = "none"
                 /\ Begun(x, q).override.prior
                      = IF x.override.state = "verified" THEN x.override ELSE NoOverride
  <1>1. x \in Session
    BY DEF Fits
  <1>2. CASE q.value = Baseline[x.purpose]
    <2> DEFINE c == [request |-> q.id, left |-> Ttl]
    <2>1. c \in [request : Requests, left : 0..Ttl] /\ NoOverride \in Settled
      BY SessionAssumption, OverrideKinds
    <2>2. Begun(x, q) = [x EXCEPT !.override = NoOverride, !.cancelling = c]
      BY <1>2 DEF Begun
    <2> HIDE DEF c
    <2>3. /\ Begun(x, q) \in Session
          /\ Begun(x, q).id = x.id /\ Begun(x, q).purpose = x.purpose
          /\ Begun(x, q).moved = x.moved /\ Begun(x, q).usable = x.usable
          /\ Begun(x, q).spent = x.spent /\ Begun(x, q).age = x.age
          /\ Begun(x, q).override = NoOverride /\ Begun(x, q).cancelling = c
      BY <1>1, <2>1, <2>2 DEF Session
    <2>4. Effective(Begun(x, q)) = q.value
      BY <1>2, <2>3, OverrideKinds DEF Effective
    <2> QED
      BY <1>2, <2>3, <2>4 DEF Fits, c
  <1>3. CASE q.value # Baseline[x.purpose]
    <2> DEFINE prior == IF x.override.state = "verified" THEN x.override ELSE NoOverride
               o == [state |-> "pending", request |-> q.id, value |-> q.value,
                     left |-> Ttl, answer |-> "none", correlated |-> FALSE, prior |-> prior]
    <2>1. prior \in Settled
      BY <1>1, SessionFields, OverrideKinds
    <2> HIDE DEF prior
    <2>2. o \in Pending
      BY <2>1, SessionAssumption DEF Pending
    <2>3. Begun(x, q) = [x EXCEPT !.cancelling = None, !.override = o]
      BY <1>1, <1>3 DEF Begun, prior, Session
    <2>4. /\ o.state = "pending" /\ o.request = q.id /\ o.value = q.value /\ o.left = Ttl
          /\ o.answer = "none" /\ o.prior = prior
      OBVIOUS
    <2> HIDE DEF o
    <2>5. /\ Begun(x, q) \in Session
          /\ Begun(x, q).id = x.id /\ Begun(x, q).purpose = x.purpose
          /\ Begun(x, q).moved = x.moved /\ Begun(x, q).usable = x.usable
          /\ Begun(x, q).spent = x.spent /\ Begun(x, q).age = x.age
          /\ Begun(x, q).override = o /\ Begun(x, q).cancelling = None
      BY <1>1, <2>2, <2>3 DEF Session
    <2>6. Effective(Begun(x, q)) = q.value
      BY <2>4, <2>5 DEF Effective
    <2> QED
      BY <1>3, <2>4, <2>5, <2>6 DEF Fits, prior
  <1> QED
    BY <1>2, <1>3

\* A new override that is not pending, or the present one; the cancellation stays or ends.
LEMMA RevisedKeeps ==
  ASSUME NEW x, Fits(x), NEW t \in Session,
         t.id = x.id, t.purpose = x.purpose, t.usable = x.usable, t.moved = x.moved,
         t.cancelling = None \/ t.cancelling = x.cancelling,
         t.override = x.override \/ (t.override \in Settled /\ t.cancelling = None)
  PROVE  Keeps(x, t) /\ SameAnswer(x, t)
  BY OverrideKinds DEF Keeps, Fits, Waits, SameAnswer

LEMMA FailedKeeps ==
  ASSUME NEW x, Fits(x), NEW q
  PROVE  /\ Keeps(x, Failed(x, q)) /\ SameAnswer(x, Failed(x, q))
         /\ Failed(x, q).spent = x.spent /\ Failed(x, q).moved = x.moved
         /\ Failed(x, q).age = x.age
         /\ ~IsCurrent(x, q) => Failed(x, q) = x
         /\ IsCurrent(x, q) /\ Cancelled(x, q)
              => Failed(x, q).cancelling = None /\ Failed(x, q).override = x.override
         /\ IsCurrent(x, q) /\ ~Cancelled(x, q)
              => Failed(x, q).override = x.override.prior /\ Failed(x, q).cancelling = None
  <1>1. x \in Session
    BY DEF Fits
  <1>2. CASE ~IsCurrent(x, q)
    <2>1. Failed(x, q) = x
      BY <1>2 DEF Failed
    <2> QED
      BY <1>2, <2>1 DEF Keeps, Waits, SameAnswer
  <1>3. CASE IsCurrent(x, q) /\ Cancelled(x, q)
    <2>1. Failed(x, q) = [x EXCEPT !.cancelling = None]
      BY <1>3 DEF Failed
    <2>2. /\ Failed(x, q) \in Session /\ Failed(x, q).id = x.id
          /\ Failed(x, q).purpose = x.purpose /\ Failed(x, q).usable = x.usable
          /\ Failed(x, q).moved = x.moved /\ Failed(x, q).spent = x.spent
          /\ Failed(x, q).age = x.age /\ Failed(x, q).override = x.override
          /\ Failed(x, q).cancelling = None
      BY <1>1, <2>1, SessionFields DEF Session
    <2> QED
      BY <1>3, <2>2, RevisedKeeps
  <1>4. CASE IsCurrent(x, q) /\ ~Cancelled(x, q)
    <2>1. Failed(x, q) = [x EXCEPT !.override = x.override.prior]
      BY <1>4 DEF Failed
    <2>2. x.override.state = "pending" /\ x.override.prior \in Settled
      BY <1>1, <1>4, SessionFields, OverrideKinds DEF IsCurrent
    <2>3. x.cancelling = None
      BY <2>2, OverrideKinds DEF Fits
    <2>4. /\ Failed(x, q) \in Session /\ Failed(x, q).id = x.id
          /\ Failed(x, q).purpose = x.purpose /\ Failed(x, q).usable = x.usable
          /\ Failed(x, q).moved = x.moved /\ Failed(x, q).spent = x.spent
          /\ Failed(x, q).age = x.age /\ Failed(x, q).override = x.override.prior
          /\ Failed(x, q).cancelling = None
      BY <1>1, <2>1, <2>2, <2>3, SessionFields DEF Session
    <2> QED
      BY <1>4, <2>2, <2>4, RevisedKeeps
  <1> QED
    BY <1>2, <1>3, <1>4

\* An answer, to the request it belongs to; no answer settles another speed than asked for.
LEMMA AnswerKeeps ==
  ASSUME NEW x, Fits(x), NEW q, q.value \in Speeds, NEW a \in {"accepted", "unknown"},
         NEW shown \in BOOLEAN
  PROVE  /\ Keeps(x, Answer(x, q, a, shown))
         /\ Answer(x, q, a, shown).spent = x.spent
         /\ Answer(x, q, a, shown).override.state = "pending"
              => \/ Answer(x, q, a, shown).override.answer = x.override.answer
                 \/ Answer(x, q, a, shown).override.request = q.id
  <1> DEFINE e == Expire(x)
             t == Answer(x, q, a, shown)
  <1>1. Keeps(x, e) /\ SameAnswer(x, e) /\ e.spent = x.spent /\ e.moved = x.moved
    BY ExpireKeeps
  <1>2. Fits(e) /\ e \in Session
    BY <1>1 DEF Keeps, Fits
  <1>3. CASE ~IsCurrent(e, q)
    <2>1. t = e
      BY <1>3 DEF Answer
    <2> QED
      BY <1>1, <2>1 DEF SameAnswer
  <1>4. ASSUME Keeps(e, t), t.spent = e.spent
        PROVE  Keeps(x, t) /\ t.spent = x.spent
    BY <1>1, <1>4 DEF Keeps, Waits
  <1>5. CASE IsCurrent(e, q) /\ Cancelled(e, q)
    <2>1. t = [e EXCEPT !.cancelling = None]
      BY <1>5 DEF Answer
    <2>2. /\ t \in Session /\ t.id = e.id /\ t.purpose = e.purpose /\ t.usable = e.usable
          /\ t.moved = e.moved /\ t.spent = e.spent /\ t.override = e.override
          /\ t.cancelling = None
      BY <1>2, <2>1, SessionFields DEF Session
    <2> HIDE DEF t, e
    <2>3. Keeps(e, t)
      BY <1>2, <2>2, RevisedKeeps
    <2> QED
      BY <1>1, <1>4, <2>2, <2>3 DEF SameAnswer, t
  <1>6. CASE IsCurrent(e, q) /\ ~Cancelled(e, q) /\ (shown \/ e.override.correlated)
    <2>1. t = [e EXCEPT !.override = Verified(q.value), !.cancelling = None]
      BY <1>6 DEF Answer, Settle
    <2>2. Verified(q.value) \in Settled /\ Verified(q.value).state = "verified"
      BY OverrideKinds
    <2>3. /\ t \in Session /\ t.id = e.id /\ t.purpose = e.purpose /\ t.usable = e.usable
          /\ t.moved = e.moved /\ t.spent = e.spent /\ t.override = Verified(q.value)
          /\ t.cancelling = None
      BY <1>2, <2>1, <2>2, SessionFields DEF Session
    <2> HIDE DEF t, e
    <2>4. Keeps(e, t)
      BY <1>2, <2>2, <2>3, RevisedKeeps
    <2> QED
      BY <1>4, <2>2, <2>3, <2>4 DEF t
  <1>7. CASE IsCurrent(e, q) /\ ~Cancelled(e, q) /\ ~(shown \/ e.override.correlated)
    <2>1. t = [e EXCEPT !.override.answer = a]
      BY <1>7 DEF Answer
    <2>2. e.override \in Pending /\ e.override.request = q.id /\ e.override.state = "pending"
      BY <1>2, <1>7, SessionFields, OverrideKinds DEF IsCurrent
    <2> DEFINE o == [e.override EXCEPT !.answer = a]
    <2>3. /\ o \in Pending /\ o.request = q.id /\ o.value = e.override.value
          /\ o.state = "pending"
      BY <2>2 DEF Pending
    <2>4. t = [e EXCEPT !.override = o]
      BY <1>2, <2>1 DEF Session
    <2> HIDE DEF o
    <2>5. /\ t \in Session /\ t.id = e.id /\ t.purpose = e.purpose /\ t.moved = e.moved
          /\ t.usable = e.usable /\ t.spent = e.spent /\ t.override = o
          /\ t.cancelling = e.cancelling
      BY <1>2, <2>3, <2>4 DEF Session
    <2>6. e.cancelling = None
      BY <1>2, <2>2, OverrideKinds DEF Fits
    <2>7. Keeps(e, t) /\ t.spent = e.spent
      BY <1>2, <2>2, <2>3, <2>5, <2>6 DEF Keeps, Fits, Waits
    <2> QED
      BY <1>4, <2>3, <2>5, <2>7
  <1> QED
    BY <1>3, <1>5, <1>6, <1>7

LEMMA AdoptedFacts ==
  ASSUME NEW x, Fits(x), NEW v \in Speeds
  PROVE  /\ Keeps(x, Adopted(x, v)) /\ SameAnswer(x, Adopted(x, v))
         /\ Adopted(x, v).usable = x.usable /\ Adopted(x, v).moved = x.moved
         /\ Adopted(x, v).age = x.age /\ Adopted(x, v).spent = x.spent
         /\ Adopted(x, v).override
              = IF v = Baseline[x.purpose] THEN NoOverride ELSE Verified(v)
         /\ Adopted(x, v).cancelling = None
         /\ Effective(Adopted(x, v)) = v
         /\ ~Undecided(Adopted(x, v))
  <1> DEFINE o == IF v = Baseline[x.purpose] THEN NoOverride ELSE Verified(v)
             t == [x EXCEPT !.override = o, !.cancelling = None]
  <1>1. x \in Session /\ x # None
    BY SessionFields DEF Fits
  <1>2. Adopted(x, v) = t
    BY DEF Adopted, Settle
  <1>3. /\ o \in Settled /\ o.state # "pending"
        /\ (IF o.state = "none" THEN Baseline[x.purpose] ELSE o.value) = v
    BY OverrideKinds
  <1> HIDE DEF o
  <1>4. /\ t \in Session /\ t.id = x.id /\ t.purpose = x.purpose /\ t.usable = x.usable
        /\ t.moved = x.moved /\ t.spent = x.spent /\ t.age = x.age /\ t.override = o
        /\ t.cancelling = None
    BY <1>1, <1>3 DEF Session
  <1> HIDE DEF t
  <1>5. Keeps(x, t) /\ SameAnswer(x, t)
    BY <1>3, <1>4, RevisedKeeps
  <1>6. Effective(t) = v /\ ~Undecided(t)
    BY <1>3, <1>4 DEF Effective, Undecided, IsPending
  <1> QED
    BY <1>2, <1>4, <1>5, <1>6 DEF o

\* What a handler has seen of the controller, before it is adopted.
LEMMA SeenFacts ==
  ASSUME NEW x, Fits(x), NEW v \in Speeds, NEW t,
         t = [x EXCEPT !.spent = TRUE, !.configured = v]
  PROVE  /\ Keeps(x, t) /\ SameAnswer(x, t)
         /\ t.id = x.id /\ t.purpose = x.purpose /\ t.usable = x.usable /\ t.moved = x.moved
         /\ t.age = x.age /\ t.spent = TRUE /\ t.override = x.override
         /\ t.cancelling = x.cancelling
  <1>1. x \in Session
    BY DEF Fits
  <1>2. /\ t \in Session /\ t.id = x.id /\ t.purpose = x.purpose /\ t.usable = x.usable
        /\ t.moved = x.moved /\ t.age = x.age /\ t.spent = TRUE /\ t.override = x.override
        /\ t.cancelling = x.cancelling
    BY <1>1 DEF Session
  <1> QED
    BY <1>2, RevisedKeeps

LEMMA KeepsTwice ==
  ASSUME NEW x, NEW y, NEW z, Keeps(x, y), SameAnswer(x, y), Keeps(y, z), SameAnswer(y, z)
  PROVE  Keeps(x, z) /\ SameAnswer(x, z)
  BY DEF Keeps, Waits, SameAnswer

LEMMA ChangedFacts ==
  ASSUME NEW x, Fits(x), NEW c \in Change
  PROVE  /\ Keeps(x, Changed(x, c)) /\ SameAnswer(x, Changed(x, c))
         /\ Changed(x, c).usable = x.usable /\ Changed(x, c).moved = x.moved
         /\ Changed(x, c).age = x.age
         /\ ~MayChange(x, c) => Changed(x, c) = x
         /\ MayChange(x, c) => Changed(x, c).spent
         /\ MayChange(x, c) /\ Undecided(x)
              => /\ Changed(x, c).override = x.override
                 /\ Changed(x, c).cancelling = x.cancelling
         /\ MayChange(x, c) /\ ~Undecided(x)
              => /\ Changed(x, c).override
                      = IF c.value = Baseline[x.purpose] THEN NoOverride ELSE Verified(c.value)
                 /\ Changed(x, c).cancelling = None
                 /\ Effective(Changed(x, c)) = c.value
  <1> DEFINE t == [x EXCEPT !.spent = TRUE, !.configured = c.value]
  <1>1. c.value \in Speeds
    BY DEF Change
  <1>2. /\ Keeps(x, t) /\ SameAnswer(x, t)
        /\ t.id = x.id /\ t.purpose = x.purpose /\ t.usable = x.usable /\ t.moved = x.moved
        /\ t.age = x.age /\ t.spent = TRUE /\ t.override = x.override
        /\ t.cancelling = x.cancelling
    BY <1>1, SeenFacts
  <1>3. CASE ~MayChange(x, c)
    <2>1. Changed(x, c) = x
      BY <1>3 DEF Changed
    <2> QED
      BY <1>3, <2>1 DEF Keeps, Waits, SameAnswer
  <1>4. CASE MayChange(x, c) /\ Undecided(x)
    <2>1. Changed(x, c) = t
      BY <1>4 DEF Changed
    <2> QED
      BY <1>2, <1>4, <2>1
  <1>5. CASE MayChange(x, c) /\ ~Undecided(x)
    <2>1. Changed(x, c) = Adopted(t, c.value)
      BY <1>5 DEF Changed
    <2> HIDE DEF t
    <2>2. Fits(t)
      BY <1>2 DEF Keeps
    <2>3. /\ Keeps(t, Adopted(t, c.value)) /\ SameAnswer(t, Adopted(t, c.value))
          /\ Adopted(t, c.value).usable = t.usable /\ Adopted(t, c.value).moved = t.moved
          /\ Adopted(t, c.value).age = t.age /\ Adopted(t, c.value).spent = t.spent
          /\ Adopted(t, c.value).override
               = IF c.value = Baseline[t.purpose] THEN NoOverride ELSE Verified(c.value)
          /\ Adopted(t, c.value).cancelling = None
          /\ Effective(Adopted(t, c.value)) = c.value
      BY <1>1, <2>2, AdoptedFacts
    <2>4. Keeps(x, Changed(x, c)) /\ SameAnswer(x, Changed(x, c))
      BY <1>2, <2>1, <2>3, KeepsTwice
    <2> QED
      BY <1>2, <1>5, <2>1, <2>3, <2>4
  <1> QED
    BY <1>3, <1>4, <1>5

\* A request whose consequence is seen is settled if it was answered, and noted if not.
LEMMA CorrelatedFacts ==
  ASSUME NEW x, Fits(x), NEW q, NEW v \in Speeds
  PROVE  LET t == Correlated(x, q, v)
             meant == x.override.state = "pending" /\ x.override.request = q
                        /\ x.override.value = v
         IN /\ Keeps(x, t) /\ SameAnswer(x, t) /\ t.spent
            /\ t.usable = x.usable /\ t.moved = x.moved /\ t.age = x.age
            /\ ~meant => t.override = x.override /\ t.cancelling = x.cancelling
            /\ meant /\ x.override.answer = "none"
                 => /\ t.override.state = "pending" /\ t.override.request = q
                    /\ t.override.value = v /\ t.override.left = x.override.left
                    /\ t.override.answer = "none" /\ t.cancelling = x.cancelling
            /\ meant /\ x.override.answer # "none"
                 => /\ t.override = IF v = Baseline[x.purpose] THEN NoOverride ELSE Verified(v)
                    /\ t.cancelling = None
            /\ Effective(t) = Effective(x)
  <1> DEFINE t == Correlated(x, q, v)
             y == [x EXCEPT !.spent = TRUE, !.configured = v]
             meant == x.override.state = "pending" /\ x.override.request = q
                        /\ x.override.value = v
  <1>0. x \in Session /\ x # None
    BY SessionFields DEF Fits
  <1>1. y # None /\ y \in Session
    BY <1>0, SessionFields DEF Session
  <1>2. /\ Keeps(x, y) /\ SameAnswer(x, y)
        /\ y.id = x.id /\ y.purpose = x.purpose /\ y.usable = x.usable /\ y.moved = x.moved
        /\ y.age = x.age /\ y.spent = TRUE /\ y.override = x.override
        /\ y.cancelling = x.cancelling
    BY SeenFacts
  <1>3. CASE ~meant
    <2>1. t = y
      BY <1>0, <1>3 DEF Correlated, IsPending
    <2>2. Effective(y) = Effective(x)
      BY <1>2 DEF Effective
    <2> QED
      BY <1>2, <1>3, <2>1, <2>2
  <1>4. CASE meant /\ x.override.answer = "none"
    <2> DEFINE o == [x.override EXCEPT !.correlated = TRUE]
    <2>1. x.override \in Pending
      BY <1>0, <1>4, SessionFields, OverrideKinds
    <2>2. /\ o \in Pending /\ o.state = "pending" /\ o.request = q /\ o.value = v
          /\ o.left = x.override.left /\ o.answer = "none"
      BY <1>4, <2>1 DEF Pending
    <2>3. t = [y EXCEPT !.override = o]
      BY <1>0, <1>1, <1>2, <1>4 DEF Correlated, IsPending, Session
    <2> HIDE DEF o, y
    <2>4. /\ t \in Session /\ t.id = x.id /\ t.purpose = x.purpose /\ t.usable = x.usable
          /\ t.moved = x.moved /\ t.spent = TRUE /\ t.age = x.age /\ t.override = o
          /\ t.cancelling = x.cancelling
      BY <1>1, <1>2, <2>2, <2>3 DEF Session
    <2> HIDE DEF t
    <2>5. x.cancelling = None
      BY <1>4, OverrideKinds DEF Fits
    <2>6. Keeps(x, t) /\ SameAnswer(x, t)
      BY <1>4, <2>2, <2>4, <2>5 DEF Keeps, Fits, Waits, SameAnswer
    <2>7. Effective(t) = Effective(x)
      BY <1>4, <2>2, <2>4 DEF Effective
    <2> QED
      BY <1>4, <2>2, <2>4, <2>6, <2>7 DEF t
  <1>5. CASE meant /\ x.override.answer # "none"
    <2>1. t = Adopted(y, v)
      BY <1>0, <1>5 DEF Correlated, IsPending
    <2> HIDE DEF y
    <2>2. Fits(y)
      BY <1>2 DEF Keeps
    <2>3. /\ Keeps(y, Adopted(y, v)) /\ SameAnswer(y, Adopted(y, v))
          /\ Adopted(y, v).usable = y.usable /\ Adopted(y, v).moved = y.moved
          /\ Adopted(y, v).age = y.age /\ Adopted(y, v).spent = y.spent
          /\ Adopted(y, v).override
               = IF v = Baseline[y.purpose] THEN NoOverride ELSE Verified(v)
          /\ Adopted(y, v).cancelling = None
          /\ Effective(Adopted(y, v)) = v
      BY <2>2, AdoptedFacts
    <2>4. Keeps(x, t) /\ SameAnswer(x, t)
      BY <1>2, <2>1, <2>3, KeepsTwice
    <2>5. Effective(x) = v
      BY <1>5 DEF Effective
    <2> QED
      BY <1>2, <1>5, <2>1, <2>3, <2>4, <2>5
  <1> QED
    BY <1>3, <1>4, <1>5

\* A frame ends a session, begins one, or goes on with it.
LEMMA ObservedFacts ==
  ASSUME NEW x, x = None \/ Fits(x), NEW usable \in BOOLEAN,
         NEW p \in Purposes \cup {None}, NEW v \in Speeds, NEW again \in BOOLEAN,
         NEW id \in Sessions
  PROVE  LET t == Observed(x, usable, p, v, again, id)
         IN \/ t = None
            \/ p # None /\ t = Started(id, p, v)
            \/ /\ x # None /\ Keeps(x, t) /\ SameAnswer(x, t)
               /\ t.spent = x.spent /\ t.age = 0
               /\ ~t.moved => ~x.moved /\ ~again
               /\ t.override = Expire(x).override /\ t.cancelling = Expire(x).cancelling
  <1> DEFINE e == Expire(x)
             t == Observed(x, usable, p, v, again, id)
  <1>1. CASE x = None
    <2>1. e = None
      BY <1>1 DEF Expire
    <2>2. t = None \/ (p # None /\ t = Started(id, p, v))
      BY <2>1 DEF Observed
    <2> QED
      BY <2>2
  <1>2. CASE x # None
    <2>1. /\ Fits(x) /\ Keeps(x, e) /\ SameAnswer(x, e) /\ e.spent = x.spent
          /\ e.moved = x.moved
      BY <1>2, ExpireKeeps
    <2>2. Fits(e) /\ e \in Session /\ e # None /\ 0 \in 0..(Fresh + 1)
      BY <2>1, SessionFields, SessionAssumption DEF Keeps, Fits
    <2> HIDE DEF e
    <2>3. CASE ~usable
      <3>1. t = [e EXCEPT !.usable = FALSE, !.age = 0, !.moved = e.moved \/ again]
        BY <2>2, <2>3 DEF Observed, e
      <3>2. /\ t \in Session /\ t.id = e.id /\ t.purpose = e.purpose /\ t.usable = FALSE
            /\ t.moved = (e.moved \/ again) /\ t.spent = e.spent /\ t.age = 0
            /\ t.override = e.override /\ t.cancelling = e.cancelling
        BY <2>2, <3>1 DEF Session
      <3> HIDE DEF t
      <3>3. Keeps(e, t) /\ SameAnswer(e, t)
        BY <2>2, <3>2 DEF Keeps, Fits, Waits, SameAnswer
      <3>4. Keeps(x, t) /\ SameAnswer(x, t)
        BY <2>1, <3>3, KeepsTwice
      <3> QED
        BY <1>2, <2>1, <3>2, <3>4 DEF e, t
    <2>4. CASE usable /\ p = None
      BY <2>4 DEF Observed
    <2>5. CASE usable /\ p # None /\ (again \/ e.moved \/ e.purpose # p)
      BY <2>2, <2>5 DEF Observed, e
    <2>6. CASE usable /\ p # None /\ ~(again \/ e.moved \/ e.purpose # p)
      <3>1. t = [e EXCEPT !.usable = TRUE, !.age = 0, !.configured = v]
        BY <2>2, <2>6 DEF Observed, e
      <3>2. /\ t \in Session /\ t.id = e.id /\ t.purpose = e.purpose /\ t.usable = TRUE
            /\ t.moved = e.moved /\ t.spent = e.spent /\ t.age = 0
            /\ t.override = e.override /\ t.cancelling = e.cancelling
        BY <2>2, <3>1 DEF Session
      <3> HIDE DEF t
      <3>3. Keeps(e, t) /\ SameAnswer(e, t)
        BY <2>2, <2>6, <3>2 DEF Keeps, Fits, Waits, SameAnswer
      <3>4. Keeps(x, t) /\ SameAnswer(x, t)
        BY <2>1, <3>3, KeepsTwice
      <3> QED
        BY <1>2, <2>1, <2>6, <3>2, <3>4 DEF e, t
    <2> QED
      BY <2>3, <2>4, <2>5, <2>6
  <1> QED
    BY <1>1, <1>2

\* A change the session has to hear of: it lies after the frame that began it, or at it
\* and somebody meant it.
Concerns(c) == c # None /\ (c.when = "after" \/ (c.when = "at" /\ c.positive))

\* What a session hears is the newest change, once, and the request it explains.
LEMMA HearsFacts ==
  ASSUME NEW f, NEW x, Fits(x), NEW begins \in BOOLEAN, NEW c \in Change \cup {None},
         NEW X, X \subseteq [id : Requests, value : Speeds, left : 1..Ttl, started : BOOLEAN],
         NEW external \in BOOLEAN, native \in Speeds, external => c # None
  PROVE  LET t == Hears(f, x, begins, c, X, external)
         IN /\ Keeps(x, t) /\ SameAnswer(x, t)
            /\ t.usable = x.usable /\ t.moved = x.moved /\ t.age = x.age
            /\ Concerns(c) /\ (external \/ x.spent) => t.spent
            /\ X = {} \/ begins =>
                 /\ external /\ Concerns(c) /\ ~Undecided(x) =>
                      /\ t.override
                          = IF c.value = Baseline[x.purpose] THEN NoOverride ELSE Verified(c.value)
                      /\ t.cancelling = None
                      /\ Effective(t) = c.value
                 /\ external /\ Concerns(c) /\ Undecided(x) =>
                      t.override = x.override /\ t.cancelling = x.cancelling
                 /\ ~Concerns(c) => t.override = x.override /\ t.cancelling = x.cancelling
            /\ ~external /\ (Concerns(c) => x.spent) =>
                 \/ t = x
                 \/ \E e \in X : t = Correlated(x, e.id, native)
  <1> DEFINE y == IF external /\ x # None THEN [x EXCEPT !.spent = FALSE] ELSE x
             z == IF y = None \/ c = None THEN y ELSE Changed(y, c)
             t == Hears(f, x, begins, c, X, external)
  <1>1. x \in Session /\ x # None
    BY SessionFields DEF Fits
  <1>2. /\ y \in Session
        /\ y.id = x.id /\ y.purpose = x.purpose /\ y.usable = x.usable /\ y.moved = x.moved
        /\ y.age = x.age /\ y.override = x.override /\ y.cancelling = x.cancelling
        /\ y.spent = (~external /\ x.spent)
        /\ ~external => y = x
    <2>1. CASE external
      BY <1>1, <2>1 DEF Session
    <2>2. CASE ~external
      BY <1>1, <2>2, SessionFields
    <2> QED
      BY <2>1, <2>2
  <1> HIDE DEF y
  <1>3. Keeps(x, y) /\ SameAnswer(x, y) /\ Fits(y) /\ y # None
    BY <1>2, RevisedKeeps, SessionFields DEF Fits
  <1>4. Undecided(y) = Undecided(x)
    BY <1>1, <1>2, <1>3 DEF Undecided, IsPending
  <1>5. /\ Keeps(y, z) /\ SameAnswer(y, z)
        /\ z.usable = y.usable /\ z.moved = y.moved /\ z.age = y.age
    BY <1>3, ChangedFacts DEF Keeps, Waits, SameAnswer
  <1>6. c # None => c \in Change /\ (MayChange(y, c) <=> Concerns(c) /\ ~y.spent)
    BY DEF MayChange, Concerns
  <1>7. ~(Concerns(c) /\ ~y.spent) => z = y
    BY <1>3, <1>6, ChangedFacts
  <1>8. Concerns(c) /\ ~y.spent /\ Undecided(x)
          => z.spent /\ z.override = x.override /\ z.cancelling = x.cancelling
    BY <1>2, <1>3, <1>4, <1>6, ChangedFacts DEF Concerns
  <1>9. Concerns(c) /\ ~y.spent /\ ~Undecided(x)
          => /\ z.spent /\ z.cancelling = None /\ Effective(z) = c.value
             /\ z.override = IF c.value = Baseline[x.purpose] THEN NoOverride
                             ELSE Verified(c.value)
    BY <1>2, <1>3, <1>4, <1>6, ChangedFacts DEF Concerns
  <1> HIDE DEF z
  <1>10. Keeps(x, z) /\ SameAnswer(x, z) /\ Fits(z) /\ z # None
    BY <1>3, <1>5, KeepsTwice, SessionFields DEF Keeps, Fits
  <1>11. t = z \/ \E e \in X : t = Correlated(z, e.id, native)
    BY <1>10 DEF Hears, y, z
  <1>12. X = {} \/ begins => t = z
    BY <1>10 DEF Hears, y, z
  <1>13. Concerns(c) /\ (external \/ x.spent) => z.spent
    BY <1>2, <1>7, <1>8, <1>9
  <1>14. ~external /\ (Concerns(c) => x.spent) => z = x
    BY <1>2, <1>7
  <1> HIDE DEF t
  <1>15. /\ Keeps(x, t) /\ SameAnswer(x, t)
         /\ t.usable = x.usable /\ t.moved = x.moved /\ t.age = x.age
         /\ z.spent => t.spent
    <2>1. CASE t = z
      BY <1>2, <1>5, <1>10, <2>1
    <2>2. ASSUME NEW e \in X, t = Correlated(z, e.id, native)
          PROVE  /\ Keeps(x, t) /\ SameAnswer(x, t)
                 /\ t.usable = x.usable /\ t.moved = x.moved /\ t.age = x.age
                 /\ t.spent
      <3>1. /\ Keeps(z, t) /\ SameAnswer(z, t) /\ t.spent
            /\ t.usable = z.usable /\ t.moved = z.moved /\ t.age = z.age
        BY <1>10, <2>2, CorrelatedFacts
      <3>2. Keeps(x, t) /\ SameAnswer(x, t)
        BY <1>10, <3>1, KeepsTwice
      <3> QED
        BY <1>2, <1>5, <3>1, <3>2
    <2> QED
      BY <1>11, <2>1, <2>2
  <1>16. X = {} \/ begins =>
           /\ external /\ Concerns(c) /\ ~Undecided(x) =>
                /\ t.override
                    = IF c.value = Baseline[x.purpose] THEN NoOverride ELSE Verified(c.value)
                /\ t.cancelling = None
                /\ Effective(t) = c.value
           /\ external /\ Concerns(c) /\ Undecided(x) =>
                t.override = x.override /\ t.cancelling = x.cancelling
           /\ ~Concerns(c) => t.override = x.override /\ t.cancelling = x.cancelling
    BY <1>2, <1>7, <1>8, <1>9, <1>12
  <1> QED
    BY <1>11, <1>13, <1>14, <1>15, <1>16 DEF t

-----------------------------------------------------------------------------
(***************************************************************************)
(* The calls at the lock.                                                  *)
(***************************************************************************)
PersonsIn(q) == {c \in Range(q) : ~c.thermal}

Queued(q) ==
  /\ \A i, j \in 1..Len(q) : q[i].id = q[j].id => i = j
  /\ \A i \in 1..Len(q) : q[i].sent => i = 1
  /\ \A i, j \in 1..Len(q) : q[i].thermal /\ q[j].thermal => i = j
  /\ \A i \in 1..Len(q) : q[i].thermal => q[i].expects
  /\ IsFiniteSet(PersonsIn(q)) /\ Cardinality(PersonsIn(q)) <= 2

LEMMA AtMostMore ==
  ASSUME NEW S, NEW T, NEW x, NEW n \in Nat, IsFiniteSet(S), Cardinality(S) <= n,
         T \subseteq S \cup {x}
  PROVE  IsFiniteSet(T) /\ Cardinality(T) <= n + 1
  <1>1. /\ IsFiniteSet(S \cup {x}) /\ Cardinality(S) \in Nat
        /\ Cardinality(S \cup {x}) = IF x \in S THEN Cardinality(S) ELSE Cardinality(S) + 1
    BY FS_AddElement, FS_CardinalityType
  <1>2. IsFiniteSet(T) /\ Cardinality(T) <= Cardinality(S \cup {x})
    BY <1>1, FS_Subset
  <1>3. Cardinality(T) \in Nat /\ Cardinality(S \cup {x}) \in Nat
    BY <1>1, <1>2, FS_CardinalityType
  <1> QED
    BY <1>1, <1>2, <1>3

LEMMA AtMost ==
  ASSUME NEW S, NEW T, NEW n \in Nat, IsFiniteSet(S), Cardinality(S) <= n, T \subseteq S
  PROVE  IsFiniteSet(T) /\ Cardinality(T) <= n
  <1>1. IsFiniteSet(T) /\ Cardinality(T) <= Cardinality(S)
    BY FS_Subset
  <1>2. Cardinality(T) \in Nat /\ Cardinality(S) \in Nat
    BY <1>1, FS_CardinalityType
  <1> QED
    BY <1>1, <1>2

LEMMA AtMostImage ==
  ASSUME NEW S, NEW T, NEW n \in Nat, IsFiniteSet(S), Cardinality(S) <= n,
         NEW f, f = [x \in S |-> f[x]], T = {f[x] : x \in S}
  PROVE  IsFiniteSet(T) /\ Cardinality(T) <= n
  <1>1. f \in Surjection(S, T)
    BY DEF Surjection
  <1>2. IsFiniteSet(T) /\ Cardinality(T) <= Cardinality(S)
    BY <1>1, FS_Surjection
  <1>3. Cardinality(T) \in Nat /\ Cardinality(S) \in Nat
    BY <1>2, FS_CardinalityType
  <1> QED
    BY <1>2, <1>3

LEMMA FewCalls ==
  ASSUME NEW q \in Seq(Call), Queued(q)
  PROVE  IsFiniteSet(Range(q)) /\ Cardinality(Range(q)) <= 3
  <1>0. IsFiniteSet(PersonsIn(q)) /\ Cardinality(PersonsIn(q)) <= 2
    BY DEF Queued
  <1>1. Range(q) \subseteq PersonsIn(q) \cup {CHOOSE c \in Range(q) : c.thermal}
    <2> SUFFICES ASSUME NEW c \in Range(q), c.thermal
                 PROVE  c = CHOOSE d \in Range(q) : d.thermal
      BY DEF PersonsIn
    <2> DEFINE d == CHOOSE d \in Range(q) : d.thermal
    <2>1. d \in Range(q) /\ d.thermal
      OBVIOUS
    <2> HIDE DEF d
    <2>2. PICK i \in 1..Len(q), j \in 1..Len(q) : q[i] = c /\ q[j] = d
      BY <2>1, RangeFacts
    <2> QED
      BY <2>1, <2>2 DEF Queued, d
  <1>2. IsFiniteSet(Range(q)) /\ Cardinality(Range(q)) <= 2 + 1
    BY <1>0, <1>1, 2 \in Nat, AtMostMore
  <1> QED
    BY <1>2, 2 + 1 = 3

LEMMA EmptyQueue == Queued(<<>>)
  <1>1. Len(<<>>) = 0 /\ Range(<<>>) = {}
    BY DEF Range
  <1>2. PersonsIn(<<>>) = {}
    BY <1>1 DEF PersonsIn
  <1> QED
    BY <1>1, <1>2, FS_EmptySet DEF Queued

LEMMA QueueGrows ==
  ASSUME NEW q \in Seq(Call), Queued(q), NEW c \in Call,
         \A i \in 1..Len(q) : q[i].id # c.id,
         c.sent => q = <<>>,
         c.thermal => c.expects /\ \A i \in 1..Len(q) : ~q[i].thermal,
         ~c.thermal => Cardinality(PersonsIn(q)) < 2
  PROVE  Queued(Append(q, c))
  <1> DEFINE r == Append(q, c)
  <1>1. /\ r \in Seq(Call) /\ Len(r) = Len(q) + 1 /\ Len(q) \in Nat
        /\ \A i \in 1..Len(q) : r[i] = q[i]
        /\ r[Len(q) + 1] = c
    BY AppendFacts
  <1>2. q = <<>> => Len(q) = 0
    OBVIOUS
  <1>3. PersonsIn(r) \subseteq IF c.thermal THEN PersonsIn(q) ELSE PersonsIn(q) \cup {c}
    <2> SUFFICES ASSUME NEW d \in PersonsIn(r), d # c
                 PROVE  d \in PersonsIn(q)
      BY DEF PersonsIn
    <2>1. PICK i \in 1..Len(r) : r[i] = d
      BY <1>1, RangeFacts DEF PersonsIn
    <2>2. i \in 1..Len(q)
      BY <1>1, <2>1
    <2> QED
      BY <1>1, <2>1, <2>2, RangeFacts DEF PersonsIn
  <1>4. IsFiniteSet(PersonsIn(q)) /\ Cardinality(PersonsIn(q)) \in Nat
        /\ Cardinality(PersonsIn(q)) <= 2
    BY FS_CardinalityType DEF Queued
  <1>5. IsFiniteSet(PersonsIn(r)) /\ Cardinality(PersonsIn(r)) <= 2
    <2>1. CASE c.thermal
      BY <1>3, <1>4, <2>1, AtMost
    <2>2. CASE ~c.thermal
      <3>1. Cardinality(PersonsIn(q)) <= 1
        BY <1>4, <2>2
      <3>2. IsFiniteSet(PersonsIn(r)) /\ Cardinality(PersonsIn(r)) <= 1 + 1
        BY <1>3, <1>4, <2>2, <3>1, 1 \in Nat, AtMostMore
      <3> QED
        BY <3>2, 1 + 1 = 2
    <2> QED
      BY <2>1, <2>2
  <1> HIDE DEF r
  <1>6. \A i \in 1..Len(r) : i \in 1..Len(q) \/ i = Len(q) + 1
    BY <1>1
  <1>7. \A i, j \in 1..Len(r) : r[i].id = r[j].id => i = j
    BY <1>1, <1>6 DEF Queued
  <1>8. \A i \in 1..Len(r) : r[i].sent => i = 1
    BY <1>1, <1>2, <1>6 DEF Queued
  <1>9. \A i, j \in 1..Len(r) : r[i].thermal /\ r[j].thermal => i = j
    BY <1>1, <1>6 DEF Queued
  <1>10. \A i \in 1..Len(r) : r[i].thermal => r[i].expects
    BY <1>1, <1>6 DEF Queued
  <1> QED
    BY <1>5, <1>7, <1>8, <1>9, <1>10 DEF Queued, r

LEMMA QueueShrinks ==
  ASSUME NEW q \in Seq(Call), q # <<>>, Queued(q)
  PROVE  /\ Queued(Tail(q))
         /\ \A i \in 1..Len(Tail(q)) : ~Tail(q)[i].sent /\ Tail(q)[i].id # Head(q).id
  <1> DEFINE r == Tail(q)
  <1>1. /\ r \in Seq(Call) /\ Len(q) \in Nat \ {0} /\ Len(r) = Len(q) - 1
        /\ \A i \in 1..Len(r) : r[i] = q[i + 1]
        /\ Head(q) = q[1]
    BY TailFacts
  <1> HIDE DEF r
  <1>2. \A i \in 1..Len(r) : i + 1 \in 1..Len(q) /\ i + 1 # 1
    BY <1>1
  <1>3. PersonsIn(r) \subseteq PersonsIn(q)
    BY <1>1, <1>2, RangeFacts DEF PersonsIn
  <1>4. IsFiniteSet(PersonsIn(r)) /\ Cardinality(PersonsIn(r)) <= 2
    BY <1>3, AtMost, 2 \in Nat DEF Queued
  <1>5. \A i, j \in 1..Len(r) : r[i].id = r[j].id => i = j
    BY <1>1, <1>2 DEF Queued
  <1>6. \A i, j \in 1..Len(r) : r[i].thermal /\ r[j].thermal => i = j
    <2> SUFFICES ASSUME NEW i \in 1..Len(r), NEW j \in 1..Len(r), r[i].thermal, r[j].thermal
                 PROVE  i = j
      OBVIOUS
    <2>1. i + 1 = j + 1
      BY <1>1, <1>2 DEF Queued
    <2> QED
      BY <2>1
  <1>7. \A i \in 1..Len(r) : ~r[i].sent /\ r[i].id # q[1].id
    <2> SUFFICES ASSUME NEW i \in 1..Len(r)
                 PROVE  ~r[i].sent /\ r[i].id # q[1].id
      OBVIOUS
    <2>1. i + 1 \in 1..Len(q) /\ 1 \in 1..Len(q) /\ i + 1 # 1
      BY <1>1, <1>2
    <2> QED
      BY <1>1, <2>1 DEF Queued
  <1>8. \A i \in 1..Len(r) : r[i].thermal => r[i].expects
    BY <1>1, <1>2 DEF Queued
  <1> QED
    BY <1>1, <1>4, <1>5, <1>6, <1>7, <1>8 DEF Queued, r

\* The head of the queue is sent.
Sending(q) == <<[Head(q) EXCEPT !.sent = TRUE]>> \o Tail(q)

LEMMA QueueSends ==
  ASSUME NEW q \in Seq(Call), q # <<>>, Queued(q)
  PROVE  /\ Sending(q) \in Seq(Call) /\ Len(Sending(q)) = Len(q)
         /\ \A i \in 1..Len(q) :
              /\ Sending(q)[i].id = q[i].id /\ Sending(q)[i].session = q[i].session
              /\ Sending(q)[i].value = q[i].value /\ Sending(q)[i].thermal = q[i].thermal
              /\ Sending(q)[i].expects = q[i].expects
              /\ (Sending(q)[i].sent <=> i = 1)
         /\ \A i \in 2..Len(q) : Sending(q)[i] = q[i]
         /\ Sending(q) # <<>> /\ Head(Sending(q)) = Sending(q)[1]
         /\ Queued(Sending(q))
  <1> DEFINE c == [Head(q) EXCEPT !.sent = TRUE]
             r == <<c>> \o Tail(q)
  <1>1. Head(q) = q[1] /\ q[1] \in Call /\ Len(q) \in Nat \ {0}
    BY TailFacts
  <1>2. /\ c \in Call /\ c.id = q[1].id /\ c.session = q[1].session
        /\ c.value = q[1].value /\ c.thermal = q[1].thermal
        /\ c.expects = q[1].expects /\ c.sent
    BY <1>1 DEF Call
  <1> HIDE DEF c
  <1>3. /\ r \in Seq(Call) /\ Len(r) = Len(q) /\ r[1] = c
        /\ \A i \in 2..Len(q) : r[i] = q[i]
        /\ r # <<>> /\ Head(r) = c
    BY <1>2, HeadFacts
  <1>r. Sending(q) = r
    BY DEF Sending, c
  <1> HIDE DEF r
  <1>4. \A i \in 1..Len(q) : i = 1 \/ i \in 2..Len(q)
    BY <1>1
  <1>5. \A i \in 1..Len(q) : /\ r[i].id = q[i].id /\ r[i].session = q[i].session
                             /\ r[i].value = q[i].value /\ r[i].thermal = q[i].thermal
                             /\ r[i].expects = q[i].expects /\ (r[i].sent <=> i = 1)
    BY <1>1, <1>2, <1>3, <1>4 DEF Queued
  <1>6. IsFiniteSet(PersonsIn(r)) /\ Cardinality(PersonsIn(r)) <= 2
    <2> DEFINE f == [d \in PersonsIn(q) |-> IF d = q[1] THEN c ELSE d]
    <2>1. f = [d \in PersonsIn(q) |-> f[d]]
      OBVIOUS
    <2>2. ASSUME NEW d \in PersonsIn(r) PROVE \E e \in PersonsIn(q) : f[e] = d
      <3>1. PICK i \in 1..Len(q) : r[i] = d
        BY <1>3, RangeFacts DEF PersonsIn
      <3>2. q[i] \in PersonsIn(q)
        BY <1>5, <3>1, RangeFacts DEF PersonsIn
      <3>3. CASE i = 1
        BY <1>3, <3>1, <3>2, <3>3
      <3>4. CASE i # 1
        <4>1. q[i] # q[1]
          BY <1>1, <3>1, <3>4 DEF Queued
        <4> QED
          BY <1>3, <1>4, <3>1, <3>2, <3>4, <4>1
      <3> QED
        BY <3>3, <3>4
    <2>3. PersonsIn(r) \subseteq {f[d] : d \in PersonsIn(q)}
      BY <2>2
    <2> HIDE DEF f
    <2> DEFINE S == PersonsIn(q)
               T == {f[d] : d \in S}
    <2>4. IsFiniteSet(S) /\ Cardinality(S) <= 2
      BY DEF Queued
    <2>5. f = [d \in S |-> f[d]] /\ PersonsIn(r) \subseteq T
      BY <2>1, <2>3
    <2> HIDE DEF S
    <2>6. IsFiniteSet(T) /\ Cardinality(T) <= 2
      BY <2>4, <2>5, AtMostImage, 2 \in Nat
    <2> HIDE DEF T
    <2> QED
      BY <2>5, <2>6, AtMost, 2 \in Nat
  <1>7. \A i, j \in 1..Len(r) : r[i].id = r[j].id => i = j
    BY <1>3, <1>5 DEF Queued
  <1>8. \A i, j \in 1..Len(r) : r[i].thermal /\ r[j].thermal => i = j
    BY <1>3, <1>5 DEF Queued
  <1>9. \A i \in 1..Len(r) : (r[i].sent => i = 1) /\ (r[i].thermal => r[i].expects)
    BY <1>3, <1>5 DEF Queued
  <1>10. Queued(r)
    BY <1>6, <1>7, <1>8, <1>9 DEF Queued
  <1> QED
    BY <1>3, <1>5, <1>10, <1>r

-----------------------------------------------------------------------------
(***************************************************************************)
(* The consequences of the calls: each call has one, at most one has been  *)
(* started, and only a call at the lock may still have it unstarted.       *)
(***************************************************************************)
Expectation == [id : Requests, value : Speeds, left : 1..Ttl, started : BOOLEAN]

Effects(X, q) ==
  /\ \A e, g \in X : e.id = g.id => e = g
  /\ \A e, g \in X : e.started /\ g.started => e = g
  /\ \A e \in X : ~e.started => \E i \in 1..Len(q) : q[i].id = e.id
  /\ \A e \in X : \A i \in 1..Len(q) :
       e.id = q[i].id => e.value = q[i].value /\ (e.started <=> q[i].sent)

LEMMA EffectsEnd ==
  ASSUME NEW X, NEW Y, Y \subseteq X, NEW q, Effects(X, q)
  PROVE  Effects(Y, q)
  BY DEF Effects

\* Those still kept are a tick nearer to their end.
LEMMA EffectsAge ==
  ASSUME NEW X \in SUBSET Expectation, NEW q, Effects(X, q), NEW Y,
         Y = {[e EXCEPT !.left = @ - 1] : e \in {x \in X : x.left > 1}}
  PROVE  Y \subseteq Expectation /\ Effects(Y, q)
  <1>1. ASSUME NEW y \in Y
        PROVE  \E e \in X : /\ y = [id |-> e.id, value |-> e.value, left |-> e.left - 1,
                                    started |-> e.started]
                            /\ e.left > 1 /\ e \in Expectation
    <2>1. PICK e \in X : y = [e EXCEPT !.left = e.left - 1] /\ e.left > 1
      BY <1>1
    <2>2. y = [id |-> e.id, value |-> e.value, left |-> e.left - 1, started |-> e.started]
      BY <2>1 DEF Expectation
    <2> QED
      BY <2>1, <2>2
  <1>2. \A y \in Y : \E e \in X : y.id = e.id /\ y.value = e.value /\ y.started = e.started
    BY <1>1
  <1>3. \A y \in Y, z \in Y : y.id = z.id => y = z
    <2> SUFFICES ASSUME NEW y \in Y, NEW z \in Y, y.id = z.id PROVE y = z
      OBVIOUS
    <2>1. PICK e \in X : y = [id |-> e.id, value |-> e.value, left |-> e.left - 1,
                              started |-> e.started]
      BY <1>1
    <2>2. PICK g \in X : z = [id |-> g.id, value |-> g.value, left |-> g.left - 1,
                              started |-> g.started]
      BY <1>1
    <2>3. e.id = g.id
      BY <2>1, <2>2
    <2> QED
      BY <2>1, <2>2, <2>3 DEF Effects
  <1>4. \A y \in Y, z \in Y : y.started /\ z.started => y = z
    <2> SUFFICES ASSUME NEW y \in Y, NEW z \in Y, y.started, z.started PROVE y.id = z.id
      BY <1>3
    <2>1. PICK e \in X : y.id = e.id /\ y.started = e.started
      BY <1>2
    <2>2. PICK g \in X : z.id = g.id /\ z.started = g.started
      BY <1>2
    <2> QED
      BY <2>1, <2>2 DEF Effects
  <1>5. Y \subseteq Expectation
    <2> SUFFICES ASSUME NEW y \in Y PROVE y \in Expectation
      OBVIOUS
    <2>1. PICK e \in X : /\ y = [id |-> e.id, value |-> e.value, left |-> e.left - 1,
                                 started |-> e.started]
                         /\ e.left > 1 /\ e \in Expectation
      BY <1>1
    <2>2. e.left - 1 \in 1..Ttl
      BY <2>1, SessionAssumption DEF Expectation
    <2> QED
      BY <2>1, <2>2 DEF Expectation
  <1> QED
    BY <1>2, <1>3, <1>4, <1>5 DEF Effects

\* A call is announced.
Announced(X, c) ==
  IF c.expects
  THEN X \cup {[id |-> c.id, value |-> c.value, left |-> Ttl, started |-> FALSE]}
  ELSE X

LEMMA EffectsReserve ==
  ASSUME NEW X \in SUBSET Expectation, NEW q \in Seq(Call), Effects(X, q), NEW c \in Call,
         \A e \in X : e.id # c.id, \A i \in 1..Len(q) : q[i].id # c.id, ~c.sent
  PROVE  /\ Announced(X, c) \subseteq Expectation /\ Effects(Announced(X, c), Append(q, c))
         /\ c.expects => \E e \in Announced(X, c) : e.id = c.id /\ e.value = c.value
  <1> DEFINE n == [id |-> c.id, value |-> c.value, left |-> Ttl, started |-> FALSE]
             r == Append(q, c)
             Y == Announced(X, c)
  <1>1. /\ n \in Expectation /\ n.id = c.id /\ n.value = c.value /\ ~n.started
    BY SessionAssumption DEF Expectation, Call
  <1>2. /\ Len(r) = Len(q) + 1 /\ Len(q) \in Nat
        /\ \A i \in 1..Len(q) : r[i] = q[i]
        /\ r[Len(q) + 1] = c
    BY AppendFacts
  <1> HIDE DEF n, r
  <1>3. \A e \in Y : e \in X \/ (e = n /\ c.expects)
    BY DEF n, Announced
  <1> HIDE DEF Y
  <1>4. \A i \in 1..Len(r) : i \in 1..Len(q) \/ i = Len(q) + 1
    BY <1>2
  <1>5. 1..Len(q) \subseteq 1..Len(r) /\ Len(q) + 1 \in 1..Len(r)
    BY <1>2
  <1>6. Y \subseteq Expectation
    BY <1>1, <1>3
  <1>7. \A e \in Y, g \in Y : e.id = g.id => e = g
    BY <1>1, <1>3 DEF Effects
  <1>8. \A e \in Y, g \in Y : e.started /\ g.started => e = g
    BY <1>1, <1>3 DEF Effects
  <1>9. \A e \in Y : ~e.started => \E i \in 1..Len(r) : r[i].id = e.id
    <2> SUFFICES ASSUME NEW e \in Y, ~e.started PROVE \E i \in 1..Len(r) : r[i].id = e.id
      OBVIOUS
    <2>1. CASE e \in X
      <3>1. PICK i \in 1..Len(q) : q[i].id = e.id
        BY <2>1 DEF Effects
      <3> QED
        BY <1>2, <1>5, <3>1
    <2>2. CASE e = n
      BY <1>1, <1>2, <1>5, <2>2
    <2> QED
      BY <1>3, <2>1, <2>2
  <1>10. \A e \in Y, i \in 1..Len(r) :
           e.id = r[i].id => e.value = r[i].value /\ (e.started <=> r[i].sent)
    <2> SUFFICES ASSUME NEW e \in Y, NEW i \in 1..Len(r), e.id = r[i].id
                 PROVE  e.value = r[i].value /\ (e.started <=> r[i].sent)
      OBVIOUS
    <2>1. CASE e \in X /\ i \in 1..Len(q)
      BY <1>2, <2>1 DEF Effects
    <2>2. CASE i = Len(q) + 1
      BY <1>1, <1>2, <1>3, <2>2
    <2>3. CASE e = n /\ i \in 1..Len(q)
      BY <1>1, <1>2, <2>3
    <2> QED
      BY <1>3, <1>4, <2>1, <2>2, <2>3
  <1>11. c.expects => n \in Y
    BY DEF n, Announced, Y
  <1> QED
    BY <1>1, <1>6, <1>7, <1>8, <1>9, <1>10, <1>11 DEF Effects, r, Y

\* A call is dispatched: what was started before is over.
LEMMA EffectsDispatch ==
  ASSUME NEW X \in SUBSET Expectation, NEW q \in Seq(Call), q # <<>>, Queued(q), Effects(X, q),
         NEW d, d.id = Head(q).id
  PROVE  /\ Dispatched(X, d) \subseteq Expectation
         /\ Effects(Dispatched(X, d), Sending(q))
         /\ \A e \in X : e.id = d.id =>
              \E g \in Dispatched(X, d) : g.started /\ g.id = d.id /\ g.value = e.value
         /\ \A g \in Dispatched(X, d) : g.started => g.id = d.id
  <1> DEFINE c == Sending(q)[1]
             r == Sending(q)
             Y == Dispatched(X, d)
  <1>2. Head(q) = q[1] /\ q[1] \in Call /\ Len(q) \in Nat \ {0} /\ 1 \in 1..Len(q)
    BY TailFacts
  <1>1. /\ c.id = Head(q).id /\ c.value = Head(q).value /\ c.sent
    BY <1>2, QueueSends
  <1>3. /\ Len(r) = Len(q) /\ r[1] = c
        /\ \A i \in 2..Len(q) : r[i] = q[i]
    BY QueueSends
  <1> HIDE DEF r, c
  <1>4. \A i \in 1..Len(q) : i = 1 \/ (i \in 2..Len(q) /\ i # 1)
    BY <1>2
  <1>5. ASSUME NEW y \in Y
        PROVE  \E e \in X : /\ e \in Expectation /\ (e.started => e.id = c.id)
                            /\ y = [id |-> e.id, value |-> e.value, left |-> e.left,
                                    started |-> e.started \/ e.id = c.id]
    <2>1. PICK e \in X : /\ e.started => e.id = d.id
                         /\ y = [e EXCEPT !.started = e.started \/ e.id = d.id]
      BY <1>5 DEF Dispatched
    <2>2. y = [id |-> e.id, value |-> e.value, left |-> e.left,
               started |-> e.started \/ e.id = d.id]
      BY <2>1 DEF Expectation
    <2> QED
      BY <1>1, <2>1, <2>2
  <1>6. ASSUME NEW e \in X, e.id = c.id
        PROVE  \E g \in Y : g.started /\ g.id = c.id /\ g.value = e.value
    <2> DEFINE g == [e EXCEPT !.started = e.started \/ e.id = d.id]
    <2>1. g \in Y
      BY <1>1, <1>6 DEF Dispatched
    <2>2. g.started /\ g.id = c.id /\ g.value = e.value
      BY <1>1, <1>6 DEF Expectation
    <2> QED
      BY <2>1, <2>2
  <1> HIDE DEF Y
  <1>7. Y \subseteq Expectation
    <2> SUFFICES ASSUME NEW y \in Y PROVE y \in Expectation
      OBVIOUS
    <2>1. PICK e \in X : /\ e \in Expectation
                         /\ y = [id |-> e.id, value |-> e.value, left |-> e.left,
                                 started |-> e.started \/ e.id = c.id]
      BY <1>5
    <2>2. (e.started \/ e.id = c.id) \in BOOLEAN
      OBVIOUS
    <2> QED
      BY <2>1, <2>2 DEF Expectation
  <1>8. \A y \in Y : \E e \in X : /\ y.id = e.id /\ y.value = e.value
                                  /\ (y.started <=> y.id = c.id)
                                  /\ (e.started => e.id = c.id)
    <2> SUFFICES ASSUME NEW y \in Y
                 PROVE  \E e \in X : /\ y.id = e.id /\ y.value = e.value
                                     /\ (y.started <=> y.id = c.id)
                                     /\ (e.started => e.id = c.id)
      OBVIOUS
    <2>1. PICK e \in X : /\ e.started => e.id = c.id
                         /\ y = [id |-> e.id, value |-> e.value, left |-> e.left,
                                 started |-> e.started \/ e.id = c.id]
      BY <1>5
    <2>2. y.id = e.id /\ y.value = e.value /\ y.started = (e.started \/ e.id = c.id)
      BY <2>1
    <2>3. (y.started <=> y.id = c.id)
      BY <2>1, <2>2
    <2> QED
      BY <2>1, <2>2, <2>3
  <1>9. \A y \in Y, z \in Y : y.id = z.id => y = z
    <2> SUFFICES ASSUME NEW y \in Y, NEW z \in Y, y.id = z.id PROVE y = z
      OBVIOUS
    <2>1. PICK e \in X : y = [id |-> e.id, value |-> e.value, left |-> e.left,
                              started |-> e.started \/ e.id = c.id]
      BY <1>5
    <2>2. PICK g \in X : z = [id |-> g.id, value |-> g.value, left |-> g.left,
                              started |-> g.started \/ g.id = c.id]
      BY <1>5
    <2>3. e.id = g.id
      BY <2>1, <2>2
    <2>4. e = g
      BY <2>3 DEF Effects
    <2> QED
      BY <2>1, <2>2, <2>4
  <1>10. \A y \in Y, z \in Y : y.started /\ z.started => y = z
    BY <1>8, <1>9
  <1>11. \A y \in Y : ~y.started => \E i \in 1..Len(r) : r[i].id = y.id
    <2> SUFFICES ASSUME NEW y \in Y, ~y.started PROVE \E i \in 1..Len(r) : r[i].id = y.id
      OBVIOUS
    <2>1. PICK e \in X : y.id = e.id /\ e.id # c.id /\ ~e.started
      BY <1>8
    <2>2. PICK i \in 1..Len(q) : q[i].id = e.id
      BY <2>1 DEF Effects
    <2> QED
      BY <1>1, <1>2, <1>3, <1>4, <2>1, <2>2
  <1>12. \A y \in Y, i \in 1..Len(r) :
           y.id = r[i].id => y.value = r[i].value /\ (y.started <=> r[i].sent)
    <2> SUFFICES ASSUME NEW y \in Y, NEW i \in 1..Len(r), y.id = r[i].id
                 PROVE  y.value = r[i].value /\ (y.started <=> r[i].sent)
      OBVIOUS
    <2>1. PICK e \in X : y.id = e.id /\ y.value = e.value /\ (y.started <=> y.id = c.id)
      BY <1>8
    <2>2. CASE i = 1
      <3>1. e.id = q[1].id /\ 1 \in 1..Len(q)
        BY <1>1, <1>2, <1>3, <2>1, <2>2
      <3>2. e.value = q[1].value
        BY <3>1 DEF Effects
      <3> QED
        BY <1>1, <1>2, <1>3, <2>1, <2>2, <3>2
    <2>3. CASE i # 1
      <3>1. r[i] = q[i] /\ i \in 1..Len(q)
        BY <1>3, <1>4, <2>3
      <3>2. q[i].id # q[1].id /\ ~q[i].sent
        BY <1>2, <2>3, <3>1 DEF Queued
      <3>3. e.id = q[i].id
        BY <2>1, <3>1
      <3>4. e.value = q[i].value
        BY <3>1, <3>3 DEF Effects
      <3> QED
        BY <1>1, <1>2, <2>1, <3>1, <3>2, <3>4
    <2> QED
      BY <2>2, <2>3
  <1>13. \A g \in Y : g.started => g.id = c.id
    BY <1>8
  <1> QED
    BY <1>1, <1>6, <1>7, <1>9, <1>10, <1>11, <1>12, <1>13 DEF Effects, r, Y

\* A call leaves the lock: it was sent, or it takes its expectation along.
LEMMA EffectsLeave ==
  ASSUME NEW X, NEW Y, Y \subseteq X, NEW q \in Seq(Call), q # <<>>, Effects(X, q),
         Head(q).sent \/ \A e \in Y : e.id # Head(q).id
  PROVE  Effects(Y, Tail(q))
  <1> DEFINE r == Tail(q)
  <1>1. /\ Len(q) \in Nat \ {0} /\ Len(r) = Len(q) - 1
        /\ \A i \in 1..Len(r) : r[i] = q[i + 1]
        /\ Head(q) = q[1]
    BY TailFacts
  <1> HIDE DEF r
  <1>2. \A i \in 1..Len(r) : i + 1 \in 1..Len(q)
    BY <1>1
  <1>3. \A e \in Y : ~e.started => \E i \in 1..Len(r) : r[i].id = e.id
    <2> SUFFICES ASSUME NEW e \in Y, ~e.started PROVE \E i \in 1..Len(r) : r[i].id = e.id
      OBVIOUS
    <2>1. PICK i \in 1..Len(q) : q[i].id = e.id
      BY DEF Effects
    <2>2. i # 1
      BY <1>1, <2>1 DEF Effects
    <2>3. i - 1 \in 1..Len(r) /\ (i - 1) + 1 = i
      BY <1>1, <2>2
    <2> QED
      BY <1>1, <2>1, <2>3
  <1>4. \A e \in Y, i \in 1..Len(r) :
          e.id = r[i].id => e.value = r[i].value /\ (e.started <=> r[i].sent)
    BY <1>1, <1>2 DEF Effects
  <1> QED
    BY <1>3, <1>4 DEF Effects, r

-----------------------------------------------------------------------------
(***************************************************************************)
(* The session and the calls made for it.                                  *)
(***************************************************************************)
Belongs(x, q) ==
  \A i \in 1..Len(q) :
    /\ q[i].thermal /\ q[i].session = x.id => q[i].value = Baseline[x.purpose]
    /\ x.override.state = "pending" /\ x.override.request = q[i].id
         => /\ x.override.value = q[i].value /\ x.override.answer = "none"
            /\ ~q[i].thermal /\ q[i].session = x.id
    /\ x.cancelling # None /\ x.cancelling.request = q[i].id
         => /\ q[i].value = Baseline[x.purpose]
            /\ ~q[i].thermal /\ q[i].session = x.id

LEMMA BelongsKept ==
  ASSUME NEW x, NEW t, Keeps(x, t), SameAnswer(x, t), NEW q, Belongs(x, q)
  PROVE  Belongs(t, q)
  BY DEF Keeps, Waits, SameAnswer, Belongs

LEMMA BelongsTail ==
  ASSUME NEW x, NEW q \in Seq(Call), q # <<>>, Belongs(x, q)
  PROVE  Belongs(x, Tail(q))
  <1> DEFINE r == Tail(q)
  <1>1. /\ Len(q) \in Nat \ {0} /\ Len(r) = Len(q) - 1
        /\ \A i \in 1..Len(r) : r[i] = q[i + 1]
    BY TailFacts
  <1> HIDE DEF r
  <1>2. \A i \in 1..Len(r) : i + 1 \in 1..Len(q)
    BY <1>1
  <1> QED
    BY <1>1, <1>2 DEF Belongs, r

LEMMA BelongsSent ==
  ASSUME NEW x, NEW q \in Seq(Call), q # <<>>, Queued(q), Belongs(x, q)
  PROVE  Belongs(x, Sending(q))
  <1>1. 1..Len(Sending(q)) = 1..Len(q)
    BY QueueSends
  <1>2. \A i \in 1..Len(q) :
          /\ Sending(q)[i].id = q[i].id /\ Sending(q)[i].session = q[i].session
          /\ Sending(q)[i].value = q[i].value /\ Sending(q)[i].thermal = q[i].thermal
    BY QueueSends
  <1> QED
    BY <1>1, <1>2 DEF Belongs

LEMMA BelongsNew ==
  ASSUME NEW x, Fits(x), x.override.state # "pending", x.cancelling = None,
         NEW q, \A i \in 1..Len(q) : q[i].session # x.id
  PROVE  Belongs(x, q)
  BY DEF Belongs

LEMMA BelongsMore ==
  ASSUME NEW x, NEW q \in Seq(Call), Belongs(x, q), NEW c \in Call,
         c.thermal /\ c.session = x.id => c.value = Baseline[x.purpose],
         x.override.state = "pending" /\ x.override.request = c.id
           => /\ x.override.value = c.value /\ x.override.answer = "none"
              /\ ~c.thermal /\ c.session = x.id,
         x.cancelling # None /\ x.cancelling.request = c.id
           => /\ c.value = Baseline[x.purpose]
              /\ ~c.thermal /\ c.session = x.id
  PROVE  Belongs(x, Append(q, c))
  <1> DEFINE r == Append(q, c)
  <1>1. /\ Len(r) = Len(q) + 1 /\ Len(q) \in Nat
        /\ \A i \in 1..Len(q) : r[i] = q[i]
        /\ r[Len(q) + 1] = c
    BY AppendFacts
  <1> HIDE DEF r
  <1>2. \A i \in 1..Len(r) : i \in 1..Len(q) \/ i = Len(q) + 1
    BY <1>1
  <1> QED
    BY <1>1, <1>2 DEF Belongs, r

-----------------------------------------------------------------------------
(***************************************************************************)
(* The inductive invariant of every environment: the types, the binding    *)
(* follows the session, the lock's bookkeeping is sound, and a session is  *)
(* one the frames carry, with its requests among the calls.                *)
(***************************************************************************)
Typed ==
  /\ s = None \/ Fits(s)
  /\ unit \in [purpose : Purposes, moved : BOOLEAN] \cup {None}
  /\ base \in [maintenance : BOOLEAN, auto : BOOLEAN]
  /\ truth \in Speeds /\ native \in Speeds /\ comparing \in BOOLEAN
  /\ retained \in Change \cup {None}
  /\ expected \subseteq Expectation
  /\ calls \in Seq(Call) /\ wire \in Seq([id : Requests, value : Speeds])
  /\ plan \in Speeds \cup {None} /\ word \in Speeds \cup {None, Contested}

Bound == bound = BoundTo(s)

Lock == Queued(calls) /\ Effects(expected, calls) /\ Len(wire) <= InFlight

Held ==
  s # None =>
    /\ base.auto /\ comparing
    /\ Concerns(retained) => s.spent
    /\ Belongs(s, calls)
    /\ plan # None => plan = Baseline[s.purpose]

Planned == plan # None => plan # truth

IInv == Typed /\ Bound /\ Lock /\ Held /\ Planned

LEMMA InitEstablishes == Init => IInv
  <1> SUFFICES ASSUME Init PROVE IInv
    OBVIOUS
  <1>1. Typed
    <2>1. <<>> \in Seq(Call) /\ <<>> \in Seq([id : Requests, value : Speeds])
      OBVIOUS
    <2>2. base \in [maintenance : BOOLEAN, auto : BOOLEAN]
      BY DEF Init
    <2> QED
      BY <2>1, <2>2 DEF Init, Typed
  <1>2. Bound
    BY DEF Init, Bound, BoundTo
  <1>3. Effects(expected, calls)
    BY DEF Init, Effects
  <1>4. Len(wire) <= InFlight
    BY RuntimeAssumption DEF Init
  <1>5. Queued(calls)
    BY EmptyQueue DEF Init
  <1> QED
    BY <1>1, <1>2, <1>3, <1>4, <1>5 DEF IInv, Lock, Held, Planned, Init

-----------------------------------------------------------------------------
(***************************************************************************)
(* Names.                                                                  *)
(***************************************************************************)
LEMMA CallNames ==
  ASSUME NEW q \in Seq(Call), Queued(q)
  PROVE  /\ IsFiniteSet({c.id : c \in Range(q)}) /\ Cardinality({c.id : c \in Range(q)}) <= 3
         /\ IsFiniteSet({c.session : c \in Range(q)})
         /\ Cardinality({c.session : c \in Range(q)}) <= 3
  <1> DEFINE f == [c \in Range(q) |-> c.id]
             g == [c \in Range(q) |-> c.session]
  <1>1. IsFiniteSet(Range(q)) /\ Cardinality(Range(q)) <= 3
    BY FewCalls
  <1>2. f = [c \in Range(q) |-> f[c]] /\ {c.id : c \in Range(q)} = {f[c] : c \in Range(q)}
    OBVIOUS
  <1>3. g = [c \in Range(q) |-> g[c]]
        /\ {c.session : c \in Range(q)} = {g[c] : c \in Range(q)}
    OBVIOUS
  <1> HIDE DEF f, g
  <1>4. IsFiniteSet({f[c] : c \in Range(q)}) /\ Cardinality({f[c] : c \in Range(q)}) <= 3
    BY <1>1, <1>2, AtMostImage, 3 \in Nat
  <1>5. IsFiniteSet({g[c] : c \in Range(q)}) /\ Cardinality({g[c] : c \in Range(q)}) <= 3
    BY <1>1, <1>3, AtMostImage, 3 \in Nat
  <1> QED
    BY <1>2, <1>3, <1>4, <1>5

LEMMA WireNames ==
  ASSUME NEW w \in Seq([id : Requests, value : Speeds]), Len(w) <= InFlight
  PROVE  /\ IsFiniteSet({e.id : e \in Range(w)})
         /\ Cardinality({e.id : e \in Range(w)}) <= InFlight
  <1> DEFINE f == [i \in 1..Len(w) |-> w[i].id]
  <1>1. Len(w) \in Nat /\ InFlight \in Nat
    BY RuntimeAssumption
  <1>2. IsFiniteSet(1..Len(w)) /\ Cardinality(1..Len(w)) <= InFlight
    <2> DEFINE n == Len(w)
    <2>1. n \in Int /\ 1 \in Int
      BY <1>1
    <2> HIDE DEF n
    <2>2. IsFiniteSet(1..n) /\ Cardinality(1..n) = IF 1 > n THEN 0 ELSE n - 1 + 1
      BY <2>1, FS_Interval
    <2> QED
      BY <1>1, <2>2 DEF n
  <1>3. f = [i \in 1..Len(w) |-> f[i]]
    OBVIOUS
  <1>4. {e.id : e \in Range(w)} = {f[i] : i \in 1..Len(w)}
    <2>1. ASSUME NEW e \in Range(w) PROVE e.id \in {f[i] : i \in 1..Len(w)}
      <3>1. PICK i \in 1..Len(w) : w[i] = e
        BY <2>1, RangeFacts
      <3> QED
        BY <3>1
    <2>2. ASSUME NEW i \in 1..Len(w) PROVE f[i] \in {e.id : e \in Range(w)}
      <3>1. w[i] \in Range(w)
        BY RangeFacts
      <3> QED
        BY <3>1
    <2> QED
      BY <2>1, <2>2
  <1> HIDE DEF f
  <1>5. /\ IsFiniteSet({f[i] : i \in 1..Len(w)})
        /\ Cardinality({f[i] : i \in 1..Len(w)}) <= InFlight
    BY <1>1, <1>2, <1>3, AtMostImage
  <1> QED
    BY <1>4, <1>5

\* The names in use are the calls', those on their way, that of the expectation which was
\* started and that of the request the session waits for.
LEMMA FreshRequestFacts ==
  ASSUME Typed, Lock
  PROVE  FreshRequest \in Requests /\ FreshRequest \notin RequestsInUse
  <1> DEFINE C == {c.id : c \in Range(calls)}
             D == {w.id : w \in Range(wire)}
             e == (CHOOSE e \in expected : e.started).id
             r == IF IsPending(s) THEN s.override.request ELSE s.cancelling.request
  <1>1. IsFiniteSet(C) /\ Cardinality(C) <= 3
    BY CallNames DEF Typed, Lock
  <1>2. IsFiniteSet(D) /\ Cardinality(D) <= InFlight
    BY WireNames DEF Typed, Lock
  <1>3. \A x \in expected : x.id \in C \cup {e}
    <2> SUFFICES ASSUME NEW x \in expected PROVE x.id \in C \cup {e}
      OBVIOUS
    <2>1. CASE x.started
      <3> DEFINE y == CHOOSE y \in expected : y.started
      <3>1. y \in expected /\ y.started
        BY <2>1
      <3> HIDE DEF y
      <3>2. x = y
        BY <2>1, <3>1 DEF Lock, Effects
      <3> QED
        BY <3>2 DEF y
    <2>2. CASE ~x.started
      <3>1. PICK i \in 1..Len(calls) : calls[i].id = x.id
        BY <2>2 DEF Lock, Effects
      <3>2. calls[i] \in Range(calls)
        BY RangeFacts DEF Typed
      <3> QED
        BY <3>1, <3>2
    <2> QED
      BY <2>1, <2>2
  <1>4. IsPending(s) => ~(s # None /\ s.cancelling # None)
    BY OverrideKinds DEF IsPending, Typed, Fits
  <1> HIDE DEF C, D, e
  <1>5. RequestsInUse \subseteq ((C \cup D) \cup {e}) \cup {r}
    BY <1>3, <1>4 DEF RequestsInUse, C, D
  <1> HIDE DEF r
  <1>6. /\ IsFiniteSet(C \cup D)
        /\ Cardinality(C \cup D) = Cardinality(C) + Cardinality(D) - Cardinality(C \cap D)
        /\ IsFiniteSet(C \cap D)
    BY <1>1, <1>2, FS_Union, FS_Intersection
  <1>7. /\ Cardinality(C) \in Nat /\ Cardinality(D) \in Nat /\ Cardinality(C \cap D) \in Nat
        /\ InFlight \in Nat
    BY <1>1, <1>2, <1>6, FS_CardinalityType, RuntimeAssumption
  <1> DEFINE n == 3 + InFlight
             m == n + 1
             used == RequestsInUse \cap Requests
  <1>8. Cardinality(C \cup D) <= n /\ n \in Nat /\ m \in Nat
    BY <1>1, <1>2, <1>6, <1>7
  <1>9. used \subseteq ((C \cup D) \cup {e}) \cup {r}
    BY <1>5
  <1> HIDE DEF used, n
  <1>10. IsFiniteSet((C \cup D) \cup {e}) /\ Cardinality((C \cup D) \cup {e}) <= n + 1
    BY <1>6, <1>8, AtMostMore
  <1> HIDE DEF m
  <1>11. Cardinality((C \cup D) \cup {e}) <= m
    BY <1>10 DEF m
  <1>12. IsFiniteSet(used) /\ Cardinality(used) <= m + 1
    BY <1>8, <1>9, <1>10, <1>11, AtMostMore
  <1>13. Cardinality(used) <= 5 + InFlight
    BY <1>7, <1>12, FS_CardinalityType DEF m, n
  <1>14. Requests \ used # {}
    BY <1>12, <1>13, NamesAssumption DEF used
  <1> QED
    BY <1>14 DEF FreshRequest, used

LEMMA FreshSessionFacts ==
  ASSUME Typed, Lock
  PROVE  FreshSession \in Sessions /\ FreshSession \notin SessionsInUse
  <1> DEFINE C == {c.session : c \in Range(calls)}
             used == SessionsInUse \cap Sessions
  <1>1. IsFiniteSet(C) /\ Cardinality(C) <= 3
    BY CallNames DEF Typed, Lock
  <1>2. used \subseteq C \cup {s.id}
    BY DEF SessionsInUse
  <1> HIDE DEF C
  <1>3. IsFiniteSet(used) /\ Cardinality(used) <= 3 + 1
    BY <1>1, <1>2, 3 \in Nat, AtMostMore
  <1>4. Cardinality(used) <= 4
    BY <1>3, 3 + 1 = 4
  <1>5. Sessions \ used # {}
    BY <1>3, <1>4, NamesAssumption
  <1> QED
    BY <1>5 DEF FreshSession

LEMMA FreshRequestIsNew ==
  ASSUME Typed, Lock, NEW r, r = FreshRequest
  PROVE  /\ r \in Requests
         /\ \A i \in 1..Len(calls) : calls[i].id # r
         /\ \A e \in expected : e.id # r
         /\ \A i \in 1..Len(wire) : wire[i].id # r
         /\ IsPending(s) => s.override.request # r
         /\ s # None /\ s.cancelling # None => s.cancelling.request # r
  <1>1. r \in Requests /\ r \notin RequestsInUse
    BY FreshRequestFacts
  <1>2. \A i \in 1..Len(calls) : calls[i] \in Range(calls)
    BY RangeFacts DEF Typed
  <1>3. \A i \in 1..Len(wire) : wire[i] \in Range(wire)
    BY RangeFacts DEF Typed
  <1> QED
    BY <1>1, <1>2, <1>3 DEF RequestsInUse

LEMMA FreshSessionIsNew ==
  ASSUME Typed, Lock
  PROVE  /\ FreshSession \in Sessions
         /\ \A i \in 1..Len(calls) : calls[i].session # FreshSession
         /\ s # None => s.id # FreshSession
  <1>1. \A i \in 1..Len(calls) : calls[i] \in Range(calls)
    BY RangeFacts DEF Typed
  <1> QED
    BY <1>1, FreshSessionFacts DEF SessionsInUse

-----------------------------------------------------------------------------
(***************************************************************************)
(* Each action keeps the invariant.                                        *)
(***************************************************************************)
LEMMA CallsInRange ==
  ASSUME Typed
  PROVE  /\ \A c : c \in Range(calls) <=> \E i \in 1..Len(calls) : calls[i] = c
         /\ Persons = PersonsIn(calls)
         /\ calls # <<>> => Head(calls) = calls[1] /\ Head(calls) \in Call
                            /\ 1 \in 1..Len(calls)
  <1>1. calls # <<>> => Head(calls) = calls[1] /\ calls[1] \in Call /\ Len(calls) \in Nat \ {0}
    BY TailFacts DEF Typed
  <1>2. Persons = PersonsIn(calls)
    BY DEF Persons, PersonsIn
  <1>3. \A c : c \in Range(calls) <=> \E i \in 1..Len(calls) : calls[i] = c
    BY RangeFacts DEF Typed
  <1> QED
    BY <1>1, <1>2, <1>3

LEMMA EntersFacts ==
  ASSUME Typed, Lock, NEW c \in Call, ~c.sent, c.id = FreshRequest,
         c.thermal => c.expects /\ \A d \in Range(calls) : ~d.thermal,
         ~c.thermal => Cardinality(Persons) < 2,
         Enters(c), NEW d, d = [c EXCEPT !.sent = (calls = <<>>)]
  PROVE  /\ d \in Call /\ d.id = c.id /\ d.session = c.session /\ d.value = c.value
         /\ d.thermal = c.thermal /\ d.expects = c.expects /\ (d.sent <=> calls = <<>>)
         /\ calls' = Append(calls, d) /\ calls' \in Seq(Call) /\ Queued(calls')
         /\ expected' \subseteq Expectation /\ Effects(expected', calls')
         /\ wire' \in Seq([id : Requests, value : Speeds]) /\ Len(wire') <= InFlight
         /\ calls # <<>> => wire' = wire /\ expected' = Reserved(c)
         /\ calls = <<>> => /\ wire' = Append(wire, [id |-> c.id, value |-> c.value])
                            /\ \A e \in expected' : e.started => e.id = c.id
                            /\ c.expects => \E e \in expected' :
                                 e.started /\ e.id = c.id /\ e.value = c.value
  <1>1. /\ d \in Call /\ d.id = c.id /\ d.session = c.session /\ d.value = c.value
        /\ d.thermal = c.thermal /\ d.expects = c.expects /\ (d.sent <=> calls = <<>>)
    BY DEF Call
  <1>2. /\ \A i \in 1..Len(calls) : calls[i].id # c.id
        /\ \A e \in expected : e.id # c.id
    BY FreshRequestIsNew
  <1>3. calls' = Append(calls, d) /\ calls' \in Seq(Call)
    BY <1>1, AppendFacts DEF Enters, Typed
  <1>4. Queued(calls')
    <2>1. Cardinality(PersonsIn(calls)) < 2 \/ c.thermal
      BY CallsInRange
    <2>2. c.thermal => c.expects /\ \A i \in 1..Len(calls) : ~calls[i].thermal
      BY CallsInRange
    <2>3. /\ d.thermal => d.expects /\ \A i \in 1..Len(calls) : ~calls[i].thermal
          /\ ~d.thermal => Cardinality(PersonsIn(calls)) < 2
          /\ d.sent => calls = <<>>
          /\ \A i \in 1..Len(calls) : calls[i].id # d.id
      BY <1>1, <1>2, <2>1, <2>2
    <2>4. calls \in Seq(Call) /\ Queued(calls) /\ d \in Call
      BY <1>1 DEF Typed, Lock
    <2>5. Queued(Append(calls, d))
      BY <2>3, <2>4, QueueGrows
    <2> QED
      BY <1>3, <2>5
  <1> DEFINE X == Reserved(c)
  <1>5. X = Announced(expected, c)
    BY DEF Reserved, Announced
  <1>6. /\ X \subseteq Expectation /\ Effects(X, Append(calls, c))
        /\ c.expects => \E e \in X : e.id = c.id /\ e.value = c.value
    <2> HIDE DEF X
    <2>1. expected \in SUBSET Expectation /\ calls \in Seq(Call) /\ Effects(expected, calls)
      BY DEF Typed, Lock
    <2> QED
      BY <1>2, <1>5, <2>1, EffectsReserve
  <1> HIDE DEF X
  <1>7. [id |-> c.id, value |-> c.value] \in [id : Requests, value : Speeds]
    BY DEF Call
  <1>8. CASE calls = <<>>
    <2>1. /\ expected' = Dispatched(X, c)
          /\ wire' = Append(wire, [id |-> c.id, value |-> c.value]) /\ Len(wire) < InFlight
      BY <1>8 DEF Enters, X
    <2>2. /\ wire' \in Seq([id : Requests, value : Speeds]) /\ Len(wire') <= InFlight
      <3>1. Len(wire) \in Nat /\ InFlight \in Nat
        BY RuntimeAssumption DEF Typed
      <3>2. wire' \in Seq([id : Requests, value : Speeds]) /\ Len(wire') = Len(wire) + 1
        BY <1>7, <2>1, AppendFacts DEF Typed
      <3> QED
        BY <2>1, <3>1, <3>2
    <2> DEFINE q == Append(calls, c)
    <2>3. q \in Seq(Call) /\ q # <<>> /\ Head(q) = c
      BY <1>8, AppendFacts DEF Typed
    <2>4. Queued(q)
      <3>1. Cardinality(PersonsIn(calls)) < 2 \/ c.thermal
        BY CallsInRange
      <3>2. c.thermal => \A i \in 1..Len(calls) : ~calls[i].thermal
        BY CallsInRange
      <3> QED
        BY <1>2, <3>1, <3>2, QueueGrows DEF Typed, Lock
    <2>5. d = [Head(q) EXCEPT !.sent = TRUE]
      BY <1>8, <2>3
    <2>6. Sending(q) = calls'
      <3>1. Sending(q) = <<d>> \o Tail(q)
        BY <2>5 DEF Sending
      <3>2. <<d>> \o Tail(q) = calls'
        BY <1>1, <1>3, <1>8
      <3> QED
        BY <3>1, <3>2
    <2> HIDE DEF q
    <2>7. Effects(X, q)
      BY <1>6 DEF q
    <2>8. /\ Dispatched(X, c) \subseteq Expectation
          /\ Effects(Dispatched(X, c), Sending(q))
          /\ \A e \in X : e.id = c.id =>
               \E g \in Dispatched(X, c) : g.started /\ g.id = c.id /\ g.value = e.value
          /\ \A g \in Dispatched(X, c) : g.started => g.id = c.id
      <3>1. X \in SUBSET Expectation /\ c.id = Head(q).id
        BY <1>6, <2>3
      <3>2. q \in Seq(Call) /\ q # <<>> /\ Queued(q) /\ Effects(X, q)
        BY <2>3, <2>4, <2>7
      <3>3. Effects(Dispatched(X, c), Sending(q))
        BY <3>1, <3>2, EffectsDispatch
      <3>4. Dispatched(X, c) \subseteq Expectation
        BY <3>1, <3>2, EffectsDispatch
      <3>5. ASSUME NEW g \in Dispatched(X, c), g.started PROVE g.id = c.id
        BY <3>1, <3>2, <3>5, EffectsDispatch
      <3>6. \A e \in X : e.id = c.id =>
               \E g \in Dispatched(X, c) : g.started /\ g.id = c.id /\ g.value = e.value
        BY <3>1, <3>2, EffectsDispatch
      <3> QED
        BY <3>3, <3>4, <3>5, <3>6
    <2>9. /\ expected' \subseteq Expectation /\ Effects(expected', calls')
          /\ \A e \in expected' : e.started => e.id = c.id
      BY <1>1, <2>1, <2>6, <2>8
    <2>10. c.expects => \E e \in expected' : e.started /\ e.id = c.id /\ e.value = c.value
      <3> SUFFICES ASSUME c.expects
                   PROVE  \E e \in expected' : e.started /\ e.id = c.id /\ e.value = c.value
        OBVIOUS
      <3>1. PICK e \in X : e.id = c.id /\ e.value = c.value
        BY <1>6
      <3> QED
        BY <1>1, <2>1, <2>8, <3>1
    <2> QED
      BY <1>1, <1>3, <1>4, <1>8, <2>1, <2>2, <2>9, <2>10
  <1>9. CASE calls # <<>>
    <2>1. expected' = X /\ wire' = wire /\ d = c
      BY <1>1, <1>9 DEF Enters, X, Call
    <2> QED
      BY <1>1, <1>3, <1>4, <1>6, <1>9, <2>1 DEF Typed, Lock, X
  <1> QED
    BY <1>8, <1>9

\* A person asks.
LEMMA ManualAsksKeeps == IInv /\ ManualAsks => IInv'
  <1> SUFFICES ASSUME IInv, ManualAsks PROVE IInv'
    OBVIOUS
  <1> DEFINE Q(v) == [id |-> FreshRequest, session |-> s.id, value |-> v]
             C(v) == [id |-> FreshRequest, session |-> s.id, value |-> v, thermal |-> FALSE,
                      expects |-> truth # v, sent |-> FALSE]
  <1>1. PICK v \in Speeds :
          /\ MayBegin(s)
          /\ Cardinality(Persons) < (IF "second" \in env THEN 2 ELSE 1)
          /\ \/ /\ s' = Failed(Begun(s, Q(v)), Q(v)) /\ bound' = BoundTo(s')
                /\ word' \in {v, Contested, word}
                /\ UNCHANGED <<calls, expected, wire>>
             \/ /\ s' = Begun(s, Q(v)) /\ bound' = BoundTo(s')
                /\ Enters(C(v))
                /\ word' = v
          /\ UNCHANGED <<env, unit, base, truth, comparing, retained, native, plan>>
    BY DEF ManualAsks, BindsBegun
  <1> DEFINE q == Q(v)
             c == C(v)
             begun == Begun(s, q)
  <1>2. Typed /\ Bound /\ Lock /\ Held /\ Planned
    BY DEF IInv
  <1>3. s # None /\ Fits(s) /\ s \in Session
    BY <1>1, <1>2 DEF MayBegin, Typed, Fits
  <1>4. q.id \in Requests /\ q.id = FreshRequest /\ q.value \in Speeds /\ q.value = v
    BY <1>2, FreshRequestIsNew
  <1>5. c \in Call /\ ~c.sent /\ c.id = FreshRequest /\ ~c.thermal /\ c.value = v
        /\ c.session = s.id
    BY <1>2, <1>3, FreshRequestIsNew, SessionFields DEF Call
  <1> HIDE DEF q, c
  <1>6. /\ Fits(begun)
        /\ begun.id = s.id /\ begun.purpose = s.purpose
        /\ begun.spent = s.spent
        /\ v = Baseline[s.purpose]
              => /\ begun.override = NoOverride
                 /\ begun.cancelling = [request |-> q.id, left |-> Ttl]
        /\ v # Baseline[s.purpose]
              => /\ begun.cancelling = None
                 /\ begun.override.state = "pending"
                 /\ begun.override.request = q.id
                 /\ begun.override.value = v
                 /\ begun.override.answer = "none"
    BY <1>3, <1>4, BegunFacts
  <1> HIDE DEF begun
  <1>7. \A i \in 1..Len(calls) : calls[i].id # FreshRequest
    BY <1>2, FreshRequestIsNew
  <1>8. Belongs(begun, calls)
    <2> SUFFICES ASSUME NEW i \in 1..Len(calls)
                 PROVE  /\ begun.override.state = "pending" => begun.override.request # calls[i].id
                        /\ begun.cancelling # None => begun.cancelling.request # calls[i].id
      BY <1>2, <1>3, <1>6 DEF Held, Belongs
    <2>1. calls[i].id # q.id
      BY <1>4, <1>7
    <2>2. CASE v = Baseline[s.purpose]
      BY <1>6, <2>1, <2>2, OverrideKinds
    <2>3. CASE v # Baseline[s.purpose]
      BY <1>6, <2>1, <2>3
    <2> QED
      BY <2>2, <2>3
  <1>9. CASE /\ s' = Failed(begun, q) /\ bound' = BoundTo(s')
             /\ word' \in {v, Contested, word}
             /\ UNCHANGED <<calls, expected, wire>>
    <2>1. /\ Keeps(begun, s') /\ SameAnswer(begun, s') /\ s'.spent = begun.spent
      BY <1>6, <1>9, FailedKeeps
    <2>2. Fits(s') /\ s'.purpose = s.purpose
      BY <1>6, <2>1 DEF Keeps
    <2>3. Belongs(s', calls)
      BY <1>8, <2>1, BelongsKept
    <2>4. Typed'
      BY <1>1, <1>2, <1>9, <2>2 DEF Typed
    <2>5. Held'
      BY <1>1, <1>2, <1>3, <1>6, <1>9, <2>1, <2>2, <2>3 DEF Held
    <2> QED
      BY <1>1, <1>2, <1>9, <2>4, <2>5 DEF IInv, Bound, Lock, Planned, Queued
  <1>10. CASE s' = begun /\ bound' = BoundTo(s') /\ Enters(c) /\ word' = v
    <2> DEFINE d == [c EXCEPT !.sent = (calls = <<>>)]
    <2>1. Cardinality(Persons) < 2
      <3>1. Cardinality(Persons) \in Nat
        BY <1>2, CallsInRange, FS_CardinalityType DEF Lock, Queued
      <3> QED
        BY <1>1, <3>1
    <2>2. /\ d \in Call /\ d.id = c.id /\ d.session = c.session /\ d.value = c.value
          /\ d.thermal = c.thermal
          /\ calls' = Append(calls, d) /\ calls' \in Seq(Call) /\ Queued(calls')
          /\ expected' \subseteq Expectation /\ Effects(expected', calls')
          /\ wire' \in Seq([id : Requests, value : Speeds]) /\ Len(wire') <= InFlight
      BY <1>2, <1>5, <1>10, <2>1, EntersFacts
    <2> HIDE DEF d
    <2>3. begun.override.state = "pending" /\ begun.override.request = d.id
            => /\ begun.override.value = d.value /\ begun.override.answer = "none"
               /\ ~d.thermal /\ d.session = begun.id
      BY <1>5, <1>6, <2>2, OverrideKinds
    <2>4. begun.cancelling # None /\ begun.cancelling.request = d.id
            => /\ d.value = Baseline[begun.purpose]
               /\ ~d.thermal /\ d.session = begun.id
      BY <1>5, <1>6, <2>2
    <2>5. Belongs(begun, calls')
      BY <1>2, <1>5, <1>8, <2>2, <2>3, <2>4, BelongsMore DEF Typed
    <2>6. Typed'
      BY <1>1, <1>2, <1>6, <1>10, <2>2 DEF Typed
    <2>7. Held'
      BY <1>1, <1>2, <1>3, <1>6, <1>10, <2>5 DEF Held
    <2> QED
      BY <1>1, <1>2, <1>10, <2>2, <2>6, <2>7 DEF IInv, Bound, Lock, Planned
  <1> QED
    BY <1>1, <1>9, <1>10 DEF q, c, begun

\* Thermal asks for the configured speed of a session nobody overrides.
LEMMA ThermalAsksKeeps == IInv /\ ThermalAsks => IInv'
  <1> SUFFICES ASSUME IInv, ThermalAsks PROVE IInv'
    OBVIOUS
  <1> DEFINE c == [id |-> FreshRequest, session |-> s.id, value |-> plan, thermal |-> TRUE,
                   expects |-> truth # plan, sent |-> FALSE]
             d == [c EXCEPT !.sent = (calls = <<>>)]
  <1>1. /\ \A x \in Range(calls) : ~x.thermal
        /\ plan # None /\ s # None
        /\ Enters(c)
        /\ plan' = None
        /\ UNCHANGED <<env, s, unit, bound, base, truth, comparing, retained, native, word>>
    BY DEF ThermalAsks
  <1>2. Typed /\ Bound /\ Lock /\ Held /\ Planned
    BY DEF IInv
  <1>3. Fits(s) /\ s \in Session /\ s.id \in Sessions
    BY <1>1, <1>2, SessionFields DEF Typed, Fits
  <1>4. plan \in Speeds /\ plan # truth /\ plan = Baseline[s.purpose]
    BY <1>1, <1>2 DEF Typed, Planned, Held
  <1>5. /\ FreshRequest \in Requests
        /\ IsPending(s) => s.override.request # FreshRequest
        /\ s.cancelling # None => s.cancelling.request # FreshRequest
    BY <1>1, <1>2, FreshRequestIsNew
  <1>6. c \in Call /\ ~c.sent /\ c.id = FreshRequest /\ c.thermal /\ c.expects
        /\ c.value = plan
    BY <1>3, <1>4, <1>5 DEF Call
  <1> HIDE DEF c
  <1>7. /\ d \in Call /\ d.id = c.id /\ d.value = c.value
        /\ calls' = Append(calls, d) /\ calls' \in Seq(Call) /\ Queued(calls')
        /\ expected' \subseteq Expectation /\ Effects(expected', calls')
        /\ wire' \in Seq([id : Requests, value : Speeds]) /\ Len(wire') <= InFlight
    BY <1>1, <1>2, <1>6, EntersFacts
  <1> HIDE DEF d
  <1>8. Belongs(s, calls')
    BY <1>1, <1>2, <1>4, <1>5, <1>6, <1>7, BelongsMore DEF Typed, Held, IsPending
  <1>9. Typed'
    BY <1>1, <1>2, <1>7 DEF Typed
  <1>10. Held'
    BY <1>1, <1>2, <1>8 DEF Held
  <1> QED
    BY <1>1, <1>2, <1>7, <1>9, <1>10 DEF IInv, Bound, Lock, Planned, BoundTo

\* A call is sent.
LEMMA SendsFacts ==
  ASSUME Typed, Lock, calls # <<>>, Len(wire) < InFlight,
         expected' = Dispatched(expected, Head(calls)),
         wire' = Append(wire, [id |-> Head(calls).id, value |-> Head(calls).value]),
         calls' = Sending(calls)
  PROVE  /\ calls' \in Seq(Call) /\ Queued(calls')
         /\ expected' \subseteq Expectation /\ Effects(expected', calls')
         /\ wire' \in Seq([id : Requests, value : Speeds]) /\ Len(wire') <= InFlight
         /\ \A e \in expected : e.id = Head(calls).id =>
              \E g \in expected' : /\ g.started /\ g.id = Head(calls).id
                                   /\ g.value = e.value
         /\ \A g \in expected' : g.started => g.id = Head(calls).id
  <1> DEFINE c == Head(calls)
  <1>1. calls \in Seq(Call) /\ Queued(calls) /\ Effects(expected, calls)
        /\ expected \in SUBSET Expectation /\ c \in Call
    BY CallsInRange DEF Typed, Lock
  <1>2. calls' \in Seq(Call) /\ Queued(calls')
    BY <1>1, QueueSends
  <1>3. [id |-> c.id, value |-> c.value] \in [id : Requests, value : Speeds]
    BY <1>1 DEF Call
  <1>4. wire' \in Seq([id : Requests, value : Speeds]) /\ Len(wire') <= InFlight
    <2>1. Len(wire) \in Nat /\ InFlight \in Nat
      BY RuntimeAssumption DEF Typed
    <2>2. wire' \in Seq([id : Requests, value : Speeds]) /\ Len(wire') = Len(wire) + 1
      BY <1>3, AppendFacts DEF Typed
    <2> QED
      BY <2>1, <2>2
  <1>a. c.id = Head(calls).id
    OBVIOUS
  <1> HIDE DEF c
  <1>5. Effects(Dispatched(expected, c), Sending(calls))
    BY <1>1, <1>a, EffectsDispatch
  <1>6. Dispatched(expected, c) \subseteq Expectation
    BY <1>1, <1>a, EffectsDispatch
  <1>7. ASSUME NEW g \in Dispatched(expected, c), g.started PROVE g.id = c.id
    BY <1>1, <1>a, <1>7, EffectsDispatch
  <1>8. \A e \in expected : e.id = c.id =>
          \E g \in Dispatched(expected, c) : g.started /\ g.id = c.id /\ g.value = e.value
    BY <1>1, <1>a, EffectsDispatch
  <1> QED
    BY <1>2, <1>4, <1>5, <1>6, <1>7, <1>8 DEF c

LEMMA TakesLockKeeps == IInv /\ TakesLock => IInv'
  <1> SUFFICES ASSUME IInv, TakesLock PROVE IInv'
    OBVIOUS
  <1> DEFINE c == Head(calls)
  <1>1. /\ calls # <<>> /\ ~c.sent
        /\ UNCHANGED <<env, unit, base, truth, comparing, retained, native, plan>>
    BY DEF TakesLock
  <1>2. Typed /\ Bound /\ Lock /\ Held /\ Planned
    BY DEF IInv
  <1>3. calls \in Seq(Call) /\ Queued(calls) /\ Effects(expected, calls) /\ c \in Call
    BY <1>1, <1>2, CallsInRange DEF Typed, Lock
  <1>4. CASE /\ Len(wire) < InFlight
             /\ calls' = Sending(calls)
             /\ expected' = Dispatched(expected, c)
             /\ wire' = Append(wire, [id |-> c.id, value |-> c.value])
             /\ UNCHANGED <<s, bound, word>>
    <2>1. /\ calls' \in Seq(Call) /\ Queued(calls')
          /\ expected' \subseteq Expectation /\ Effects(expected', calls')
          /\ wire' \in Seq([id : Requests, value : Speeds]) /\ Len(wire') <= InFlight
      BY <1>1, <1>2, <1>4, SendsFacts
    <2>2. s # None => Belongs(s, calls')
      BY <1>1, <1>2, <1>3, <1>4, BelongsSent DEF Held
    <2>3. Typed'
      BY <1>1, <1>2, <1>4, <2>1 DEF Typed
    <2>4. Held'
      BY <1>1, <1>2, <1>4, <2>2 DEF Held
    <2> QED
      BY <1>1, <1>2, <1>4, <2>1, <2>3, <2>4 DEF IInv, Bound, BoundTo, Lock, Planned
  <1>5. CASE /\ calls' = Tail(calls)
             /\ expected' = Without(c.id)
             /\ s' = IF c.thermal THEN s ELSE Failed(s, c)
             /\ bound' = IF c.thermal THEN bound ELSE BoundTo(s')
             /\ word' = IF ~c.thermal /\ IsCurrent(s, c) THEN Contested ELSE word
             /\ UNCHANGED wire
    <2>1. calls' \in Seq(Call) /\ Queued(calls')
      BY <1>1, <1>3, <1>5, TailFacts, QueueShrinks
    <2>2. expected' \subseteq expected /\ \A e \in expected' : e.id # c.id
      BY <1>5 DEF Without
    <2>3. Effects(expected', calls')
      BY <1>1, <1>3, <1>5, <2>2, EffectsLeave
    <2>4. s # None => Belongs(s, calls')
      BY <1>1, <1>2, <1>3, <1>5, BelongsTail DEF Held
    <2>5. s = None => s' = None
      BY <1>5 DEF Failed, IsCurrent
    <2>6. s # None => /\ Keeps(s, s') /\ SameAnswer(s, s') /\ s'.spent = s.spent
      <3>1. CASE s # None /\ c.thermal
        BY <1>2, <1>5, <3>1 DEF Typed, Keeps, Waits, SameAnswer
      <3>2. CASE s # None /\ ~c.thermal
        BY <1>2, <1>5, <3>2, FailedKeeps DEF Typed
      <3> QED
        BY <3>1, <3>2
    <2>7. s # None => Belongs(s', calls') /\ Fits(s') /\ s'.purpose = s.purpose
      BY <2>4, <2>6, BelongsKept DEF Keeps
    <2>8. Typed'
      BY <1>1, <1>2, <1>5, <2>1, <2>2, <2>5, <2>7 DEF Typed
    <2>9. Held'
      BY <1>1, <1>2, <1>5, <2>5, <2>6, <2>7 DEF Held
    <2>10. Bound'
      BY <1>2, <1>5 DEF Bound
    <2> QED
      BY <1>1, <1>2, <1>5, <2>1, <2>3, <2>8, <2>9, <2>10 DEF IInv, Lock, Planned
  <1> QED
    BY <1>4, <1>5 DEF TakesLock, Sending

\* A call is answered, and the answer can only be that of its own request.
LEMMA AnsweredKeeps == IInv /\ Answered => IInv'
  <1> SUFFICES ASSUME IInv, Answered PROVE IInv'
    OBVIOUS
  <1> DEFINE c == Head(calls)
  <1>1. /\ calls # <<>> /\ c.sent /\ calls' = Tail(calls)
        /\ \/ s' = (IF c.thermal THEN s ELSE Accepted(s, c))
           \/ s' = (IF c.thermal THEN s ELSE OutcomeUnknown(s, c))
        /\ wire' = wire \/ (OnWire(c.id) /\ wire' = Front(wire))
        /\ bound' = IF c.thermal THEN bound ELSE BoundTo(s')
        /\ UNCHANGED <<env, unit, base, truth, comparing, retained, expected, native, plan, word>>
    BY DEF Answered
  <1>2. Typed /\ Bound /\ Lock /\ Held /\ Planned
    BY DEF IInv
  <1>3. calls \in Seq(Call) /\ Queued(calls) /\ Effects(expected, calls) /\ c \in Call
        /\ c.value \in Speeds
    BY <1>1, <1>2, CallsInRange DEF Typed, Lock, Call
  <1>4. calls' \in Seq(Call) /\ Queued(calls') /\ \A i \in 1..Len(calls') : calls'[i].id # c.id
    BY <1>1, <1>3, TailFacts, QueueShrinks
  <1>5. Effects(expected', calls')
    BY <1>1, <1>3, EffectsLeave
  <1>6. wire' \in Seq([id : Requests, value : Speeds]) /\ Len(wire') <= InFlight
    <2>1. CASE wire' = wire
      BY <1>2, <2>1 DEF Typed, Lock
    <2>2. CASE OnWire(c.id) /\ wire' = Front(wire)
      <3>1. wire \in Seq([id : Requests, value : Speeds]) /\ Len(wire) <= InFlight
        BY <1>2 DEF Typed, Lock
      <3>2. wire # <<>>
        <4>1. \E w : w \in Range(wire)
          BY <2>2 DEF OnWire
        <4>2. \E i \in 1..Len(wire) : TRUE
          BY <3>1, <4>1, RangeFacts
        <4> QED
          BY <4>2
      <3>3. /\ wire' \in Seq([id : Requests, value : Speeds])
            /\ Len(wire') = Len(wire) - 1
        BY <2>2, <3>1, <3>2, FrontFacts
      <3>4. Len(wire) \in Nat /\ InFlight \in Nat
        BY <3>1, RuntimeAssumption
      <3> QED
        BY <3>1, <3>3, <3>4
    <2> QED
      BY <1>1, <2>1, <2>2
  <1>7. s # None => Belongs(s, calls')
    BY <1>1, <1>2, <1>3, BelongsTail DEF Held
  <1>8. s = None => s' = None
    BY <1>1 DEF Accepted, OutcomeUnknown, Answer, Expire, IsCurrent
  <1>9. s # None => /\ Keeps(s, s') /\ s'.spent = s.spent
                    /\ s'.override.state = "pending" =>
                         s'.override.answer = s.override.answer \/ s'.override.request = c.id
    <2>1. CASE s # None /\ c.thermal
      BY <1>1, <1>2, <2>1 DEF Typed, Keeps, Waits
    <2>2. CASE s # None /\ ~c.thermal
      <3>1. \E a \in {"accepted", "unknown"}, shown \in BOOLEAN : s' = Answer(s, c, a, shown)
        <4>1. (s # None /\ s.configured = c.value /\ s.age <= Fresh) \in BOOLEAN
          OBVIOUS
        <4> QED
          BY <1>1, <2>2, <4>1 DEF Accepted, OutcomeUnknown
      <3> QED
        BY <1>2, <1>3, <2>2, <3>1, AnswerKeeps DEF Typed
    <2> QED
      BY <2>1, <2>2
  <1>10. s # None => Belongs(s', calls') /\ Fits(s') /\ s'.purpose = s.purpose
    <2> SUFFICES ASSUME s # None PROVE Belongs(s', calls') /\ Fits(s') /\ s'.purpose = s.purpose
      OBVIOUS
    <2> HIDE DEF c
    <2>1. Belongs(s', calls')
      BY <1>4, <1>7, <1>9 DEF Belongs, Keeps, Waits
    <2> QED
      BY <1>9, <2>1 DEF Keeps
  <1>11. Typed'
    BY <1>1, <1>2, <1>4, <1>6, <1>8, <1>10 DEF Typed
  <1>12. Held'
    BY <1>1, <1>2, <1>8, <1>9, <1>10 DEF Held
  <1>13. Bound'
    BY <1>1, <1>2 DEF Bound
  <1> QED
    BY <1>1, <1>2, <1>4, <1>5, <1>6, <1>11, <1>12, <1>13 DEF IInv, Lock, Planned

\* The controller moves, or somebody moves it.
LEMMA ControllerKeeps == IInv /\ (TakesEffect \/ Panel) => IInv'
  <1> SUFFICES ASSUME IInv, TakesEffect \/ Panel PROVE IInv'
    OBVIOUS
  <1>1. UNCHANGED <<env, s, unit, bound, base, truth, comparing, retained, expected, calls, plan>>
    BY DEF TakesEffect, Panel
  <1>2. Typed /\ Bound /\ Lock /\ Held /\ Planned
    BY DEF IInv
  <1>3. /\ native' \in Speeds /\ word' \in Speeds \cup {None, Contested}
        /\ wire' \in Seq([id : Requests, value : Speeds]) /\ Len(wire') <= InFlight
    <2>1. CASE TakesEffect
      <3>1. /\ wire # <<>> /\ native' = Head(wire).value /\ wire' = Tail(wire)
            /\ word' \in {Contested, word}
        BY <2>1 DEF TakesEffect
      <3>2. wire \in Seq([id : Requests, value : Speeds]) /\ Len(wire) <= InFlight
            /\ InFlight \in Nat
        BY <1>2, RuntimeAssumption DEF Typed, Lock
      <3>3. /\ wire' \in Seq([id : Requests, value : Speeds]) /\ Len(wire') = Len(wire) - 1
            /\ Len(wire) \in Nat /\ Head(wire) \in [id : Requests, value : Speeds]
        BY <3>1, <3>2, TailFacts
      <3> QED
        BY <1>2, <3>1, <3>2, <3>3 DEF Typed
    <2>2. CASE Panel
      BY <1>2, <2>2 DEF Panel, Typed, Lock
    <2> QED
      BY <2>1, <2>2
  <1>4. Typed'
    BY <1>1, <1>2, <1>3 DEF Typed
  <1> QED
    BY <1>1, <1>2, <1>3, <1>4 DEF IInv, Bound, BoundTo, Lock, Held, Planned

LEMMA TimePassesKeeps == IInv /\ TimePasses => IInv'
  <1> SUFFICES ASSUME IInv, TimePasses PROVE IInv'
    OBVIOUS
  <1>1. /\ s' = Passed(s)
        /\ expected' = {[e EXCEPT !.left = @ - 1] : e \in {x \in expected : x.left > 1}}
        /\ UNCHANGED <<env, unit, bound, base, truth, comparing, retained, calls, wire, native,
                       plan, word>>
    BY DEF TimePasses
  <1>2. Typed /\ Bound /\ Lock /\ Held /\ Planned
    BY DEF IInv
  <1>3. expected' \subseteq Expectation /\ Effects(expected', calls')
    <2>1. expected \in SUBSET Expectation /\ Effects(expected, calls)
      BY <1>2 DEF Typed, Lock
    <2> QED
      BY <1>1, <2>1, EffectsAge
  <1>4. s = None => s' = None
    BY <1>1 DEF Passed
  <1>5. s # None => /\ Keeps(s, s') /\ SameAnswer(s, s') /\ s'.spent = s.spent
                    /\ Fits(s') /\ s'.purpose = s.purpose
    BY <1>1, <1>2, PassedKeeps DEF Typed, Keeps
  <1>6. s # None => Belongs(s', calls')
    BY <1>1, <1>2, <1>5, BelongsKept DEF Held
  <1>7. Typed'
    BY <1>1, <1>2, <1>3, <1>4, <1>5 DEF Typed
  <1>8. Held'
    BY <1>1, <1>2, <1>4, <1>5, <1>6 DEF Held
  <1>9. BoundTo(s') = BoundTo(s)
    <2>1. CASE s = None
      BY <1>4, <2>1
    <2>2. CASE s # None
      <3>1. /\ Fits(s) /\ s'.usable = s.usable /\ s'.id = s.id /\ s'.purpose = s.purpose
            /\ s'.override.state = s.override.state
            /\ s.override.state # "none" => s'.override.value = s.override.value
        BY <1>1, <1>2, <2>2, PassedKeeps DEF Typed, Keeps
      <3>2. Effective(s') = Effective(s)
        BY <3>1 DEF Effective
      <3>3. s' # None
        BY <1>5, <2>2, SessionFields DEF Fits
      <3> QED
        BY <2>2, <3>1, <3>2, <3>3 DEF BoundTo
    <2> QED
      BY <2>1, <2>2
  <1> QED
    BY <1>1, <1>2, <1>3, <1>7, <1>8, <1>9 DEF IInv, Bound, Lock, Planned

LEMMA MaintainsKeeps == IInv /\ Maintains => IInv'
  <1> SUFFICES ASSUME IInv, Maintains PROVE IInv'
    OBVIOUS
  <1>1. /\ base' = [base EXCEPT !.maintenance = ~@]
        /\ expected' = {} /\ s' = None /\ bound' = None /\ word' = None
        /\ comparing' = (comparing /\ ~base.maintenance)
        /\ UNCHANGED <<env, unit, truth, retained, calls, wire, native, plan>>
    BY DEF Maintains
  <1>2. Typed /\ Lock /\ Planned
    BY DEF IInv
  <1>3. base' \in [maintenance : BOOLEAN, auto : BOOLEAN] /\ comparing' \in BOOLEAN
    BY <1>1, <1>2 DEF Typed
  <1>4. Typed'
    BY <1>1, <1>2, <1>3 DEF Typed
  <1>5. Effects(expected', calls')
    BY <1>1 DEF Effects
  <1> QED
    BY <1>1, <1>2, <1>4, <1>5 DEF IInv, Bound, BoundTo, Lock, Held, Planned

-----------------------------------------------------------------------------
(***************************************************************************)
(* What a frame does, in the order it does it.                             *)
(***************************************************************************)
BeginsIn(f) == SessionIn(f) # None /\ (s = None \/ SessionIn(f).id # s.id)

WaitingIn(f) == IF f.auto = base.auto THEN expected ELSE {}

ChangedIn(f) == comparing /\ ~f.again /\ truth # native

ExplainedIn(f) == IF ChangedIn(f) THEN Explaining(WaitingIn(f)) ELSE {}

ExternalIn(f) == ChangedIn(f) /\ ExplainedIn(f) = {}

FrameIs(f) ==
  /\ f.purpose \in Purposes \cup {None}
  /\ f.auto \in BOOLEAN /\ f.again \in BOOLEAN /\ f.positive \in BOOLEAN
  /\ unit' = UnitIn(f)
  /\ base' = [base EXCEPT !.auto = f.auto]
  /\ expected' = WaitingIn(f) \ ExplainedIn(f)
  /\ truth' = native /\ comparing' = TRUE
  /\ retained' = RetainedIn(f, BeginsIn(f), ExternalIn(f))
  /\ s' = Hears(f, SessionIn(f), BeginsIn(f), retained', ExplainedIn(f), ExternalIn(f))
  /\ bound' = BoundTo(s')
  /\ plan' = IF "thermal" \in env /\ bound' # None /\ s'.override = NoOverride
                /\ Effective(s') # native
             THEN Effective(s') ELSE None
  /\ word' = IF s' # None /\ ~BeginsIn(f) THEN word
             ELSE IF wire # <<>> THEN Contested
             ELSE IF BeginsIn(f) /\ ExternalIn(f) /\ f.positive THEN native
             ELSE None
  /\ UNCHANGED <<env, calls, wire, native>>

LEMMA FrameSteps == Frame => \E f : FrameIs(f)
  <1> SUFFICES ASSUME Frame PROVE \E f : FrameIs(f)
    OBVIOUS
  <1>1. PICK f \in [missing  : Missing,
                    purpose  : FramePurposes,
                    auto     : IF "mode" \in env THEN BOOLEAN ELSE {TRUE},
                    again    : IF "reconnect" \in env THEN BOOLEAN ELSE {FALSE},
                    positive : IF "lease" \in env THEN BOOLEAN ELSE {FALSE}] :
          /\ unit' = UnitIn(f)
          /\ base' = [base EXCEPT !.auto = f.auto]
          /\ expected' = WaitingIn(f) \ ExplainedIn(f)
          /\ truth' = native /\ comparing' = TRUE
          /\ retained' = RetainedIn(f, BeginsIn(f), ExternalIn(f))
          /\ s' = Hears(f, SessionIn(f), BeginsIn(f), retained', ExplainedIn(f), ExternalIn(f))
          /\ bound' = BoundTo(s')
          /\ plan' = IF "thermal" \in env /\ bound' # None /\ s'.override = NoOverride
                        /\ Effective(s') # native
                     THEN Effective(s') ELSE None
          /\ word' = IF s' # None /\ ~BeginsIn(f) THEN word
                     ELSE IF wire # <<>> THEN Contested
                     ELSE IF BeginsIn(f) /\ ExternalIn(f) /\ f.positive THEN native
                     ELSE None
          /\ UNCHANGED <<env, calls, wire, native>>
    BY DEF Frame, BeginsIn, WaitingIn, ChangedIn, ExplainedIn, ExternalIn
  <1>2. /\ f.purpose \in FramePurposes /\ f.auto \in BOOLEAN /\ f.again \in BOOLEAN
        /\ f.positive \in BOOLEAN
    OBVIOUS
  <1>3. FramePurposes \subseteq Purposes \cup {None}
    BY RuntimeAssumption DEF FramePurposes
  <1> QED
    BY <1>1, <1>2, <1>3 DEF FrameIs

\* The change that stays with a session: it is new, or the session has heard of it.
LEMMA RetainedFacts ==
  ASSUME Typed, NEW f, f.positive \in BOOLEAN, NEW begins \in BOOLEAN, NEW external \in BOOLEAN,
         NEW c, c = RetainedIn(f, begins, external)
  PROVE  /\ c \in Change \cup {None}
         /\ external => /\ c # None /\ c.value = native
                        /\ (Concerns(c) <=> (begins => f.positive))
         /\ ~external => (Concerns(c) => Concerns(retained) /\ ~begins /\ ~f.again)
  <1>1. CASE external
    <2>1. c = [value |-> native, positive |-> f.positive,
               when |-> IF begins THEN "at" ELSE "after"]
      BY <1>1 DEF RetainedIn
    <2>2. c \in Change
      BY <2>1 DEF Typed, Change
    <2>3. c # None
      BY <2>2, NoneAssumption
    <2>4. /\ c.value = native /\ c.positive = f.positive
          /\ c.when = IF begins THEN "at" ELSE "after"
      BY <2>1
    <2>5. Concerns(c) <=> (begins => f.positive)
      <3>1. CASE begins
        BY <2>3, <2>4, <3>1 DEF Concerns
      <3>2. CASE ~begins
        BY <2>3, <2>4, <3>2 DEF Concerns
      <3> QED
        BY <3>1, <3>2
    <2> QED
      BY <1>1, <2>2, <2>3, <2>4, <2>5
  <1>2. CASE ~external /\ (retained = None \/ f.again)
    BY <1>2 DEF RetainedIn, Concerns
  <1>3. CASE ~external /\ retained # None /\ ~f.again /\ begins
    <2>1. c = [retained EXCEPT !.when = "before"]
      BY <1>3 DEF RetainedIn
    <2>2. retained \in Change
      BY <1>3 DEF Typed
    <2>3. c \in Change /\ c.when = "before"
      BY <2>1, <2>2 DEF Change
    <2> QED
      BY <1>3, <2>3 DEF Concerns
  <1>4. CASE ~external /\ retained # None /\ ~f.again /\ ~begins
    BY <1>4 DEF RetainedIn, Typed
  <1> QED
    BY <1>1, <1>2, <1>3, <1>4

\* A frame begins a session, goes on with the present one, or ends it.
LEMMA SessionInFacts ==
  ASSUME Typed, Lock, NEW f, FrameIs(f)
  PROVE  \/ SessionIn(f) = None /\ ~BeginsIn(f)
         \/ /\ BeginsIn(f) /\ f.auto /\ \E p \in Purposes : SessionIn(f) = Started(FreshSession, p, native)
            /\ SessionIn(f).id = FreshSession
         \/ /\ s # None /\ ~BeginsIn(f) /\ f.auto /\ SessionIn(f) # None
            /\ Keeps(s, SessionIn(f)) /\ SameAnswer(s, SessionIn(f))
            /\ SessionIn(f).spent = s.spent /\ SessionIn(f).age = 0
            /\ ~SessionIn(f).moved => ~s.moved /\ ~f.again
            /\ SessionIn(f).override = Expire(s).override
            /\ SessionIn(f).cancelling = Expire(s).cancelling
  <1> DEFINE u == (f.purpose = None \/ f.missing \cap {"purpose", "speed"} = {})
             x == SessionIn(f)
  <1>1. CASE ~f.auto
    BY <1>1 DEF SessionIn, BeginsIn
  <1>2. CASE f.auto
    <2>1. x = Observed(s, u, f.purpose, native, f.again, FreshSession)
      BY <1>2 DEF SessionIn
    <2>2. u \in BOOLEAN /\ f.purpose \in Purposes \cup {None} /\ f.again \in BOOLEAN
          /\ native \in Speeds /\ FreshSession \in Sessions
          /\ (s # None => s.id # FreshSession)
          /\ (s = None \/ Fits(s))
      BY FreshSessionIsNew DEF FrameIs, Typed
    <2> HIDE DEF u, x
    <2> DEFINE y == Observed(s, u, f.purpose, native, f.again, FreshSession)
    <2>a. \/ y = None
          \/ f.purpose # None /\ y = Started(FreshSession, f.purpose, native)
          \/ /\ s # None /\ Keeps(s, y) /\ SameAnswer(s, y)
             /\ y.spent = s.spent /\ y.age = 0
             /\ ~y.moved => ~s.moved /\ ~f.again
             /\ y.override = Expire(s).override /\ y.cancelling = Expire(s).cancelling
      <3> DEFINE p == f.purpose
                 g == f.again
      <3>1. p \in Purposes \cup {None} /\ g \in BOOLEAN
        BY <2>2
      <3> HIDE DEF p, g
      <3>2. LET t == Observed(s, u, p, native, g, FreshSession)
            IN \/ t = None
               \/ p # None /\ t = Started(FreshSession, p, native)
               \/ /\ s # None /\ Keeps(s, t) /\ SameAnswer(s, t)
                  /\ t.spent = s.spent /\ t.age = 0
                  /\ ~t.moved => ~s.moved /\ ~g
                  /\ t.override = Expire(s).override /\ t.cancelling = Expire(s).cancelling
        <4> DEFINE n == native
                   i == FreshSession
                   w == s
        <4>1. /\ w = None \/ Fits(w)
              /\ u \in BOOLEAN /\ n \in Speeds /\ i \in Sessions
          BY <2>2
        <4> HIDE DEF n, i, w
        <4>2. LET t == Observed(w, u, p, n, g, i)
              IN \/ t = None
                 \/ p # None /\ t = Started(i, p, n)
                 \/ /\ w # None /\ Keeps(w, t) /\ SameAnswer(w, t)
                    /\ t.spent = w.spent /\ t.age = 0
                    /\ ~t.moved => ~w.moved /\ ~g
                    /\ t.override = Expire(w).override /\ t.cancelling = Expire(w).cancelling
          BY <3>1, <4>1, ObservedFacts
        <4> QED
          BY <4>2 DEF n, i, w
      <3> QED
        BY <3>2 DEF p, g
    <2>b. x = y
      BY <2>1
    <2> HIDE DEF y
    <2>3. \/ x = None
          \/ f.purpose # None /\ x = Started(FreshSession, f.purpose, native)
          \/ /\ s # None /\ Keeps(s, x) /\ SameAnswer(s, x)
             /\ x.spent = s.spent /\ x.age = 0
             /\ ~x.moved => ~s.moved /\ ~f.again
             /\ x.override = Expire(s).override /\ x.cancelling = Expire(s).cancelling
      BY <2>a, <2>b
    <2>4. CASE x = None
      BY <2>4 DEF x, BeginsIn
    <2>5. CASE f.purpose # None /\ x = Started(FreshSession, f.purpose, native)
      <3>1. Fits(x) /\ x.id = FreshSession /\ f.purpose \in Purposes
        BY <2>2, <2>5, StartedFacts
      <3>2. x # None
        BY <3>1, SessionFields DEF Fits
      <3> QED
        BY <1>2, <2>2, <2>5, <3>1, <3>2 DEF x, BeginsIn
    <2>6. CASE /\ s # None /\ Keeps(s, x) /\ SameAnswer(s, x)
               /\ x.spent = s.spent /\ x.age = 0
               /\ ~x.moved => ~s.moved /\ ~f.again
               /\ x.override = Expire(s).override /\ x.cancelling = Expire(s).cancelling
      <3>1. x # None /\ x.id = s.id
        BY <2>6, SessionFields DEF Keeps, Fits
      <3> QED
        BY <1>2, <2>6, <3>1 DEF x, BeginsIn
    <2> QED
      BY <2>3, <2>4, <2>5, <2>6
  <1> QED
    BY <1>1, <1>2 DEF FrameIs

LEMMA UnitInType ==
  ASSUME Typed, NEW f, FrameIs(f)
  PROVE  UnitIn(f) \in [purpose : Purposes, moved : BOOLEAN] \cup {None}
  <1>1. f.purpose \in Purposes \cup {None} /\ f.again \in BOOLEAN
        /\ unit \in [purpose : Purposes, moved : BOOLEAN] \cup {None}
    BY DEF FrameIs, Typed
  <1>2. CASE ~f.auto \/ f.purpose = None
    <2>1. UnitIn(f) = None
      BY <1>2 DEF UnitIn
    <2> QED
      BY <2>1
  <1>3. CASE f.auto /\ f.purpose # None /\ f.missing # {} /\ unit # None
    <2> DEFINE b == unit.moved \/ f.again
    <2>1. UnitIn(f) = [unit EXCEPT !.moved = b]
      BY <1>3 DEF UnitIn
    <2>2. b \in BOOLEAN /\ unit \in [purpose : Purposes, moved : BOOLEAN]
      BY <1>1, <1>3
    <2> HIDE DEF b
    <2>3. [unit EXCEPT !.moved = b] \in [purpose : Purposes, moved : BOOLEAN]
      BY <2>2
    <2> QED
      BY <2>1, <2>3
  <1>4. CASE f.auto /\ f.purpose # None /\ f.missing # {} /\ unit = None
    BY <1>4 DEF UnitIn
  <1>5. CASE f.auto /\ f.purpose # None /\ f.missing = {}
    <2> DEFINE y == [purpose |-> f.purpose, moved |-> FALSE]
               U == [purpose : Purposes, moved : BOOLEAN]
    <2>1. UnitIn(f) = y \/ UnitIn(f) = unit
      BY <1>5 DEF UnitIn
    <2>2. y \in U /\ unit \in U \cup {None}
      BY <1>1, <1>5
    <2> HIDE DEF y, U
    <2>3. UnitIn(f) \in U \cup {None}
      BY <2>1, <2>2
    <2> QED
      BY <2>3 DEF U
  <1> QED
    BY <1>2, <1>3, <1>4, <1>5

LEMMA FrameKeeps == IInv /\ Frame => IInv'
  <1> SUFFICES ASSUME IInv, NEW f, FrameIs(f) PROVE IInv'
    BY FrameSteps
  <1> DEFINE x == SessionIn(f)
  <1>1. Typed /\ Bound /\ Lock /\ Held /\ Planned
    BY DEF IInv
  <1>2. /\ base' = [base EXCEPT !.auto = f.auto]
        /\ expected' \subseteq expected /\ ExplainedIn(f) \subseteq expected
        /\ truth' = native /\ comparing' = TRUE
        /\ retained' = RetainedIn(f, BeginsIn(f), ExternalIn(f))
        /\ s' = Hears(f, x, BeginsIn(f), retained', ExplainedIn(f), ExternalIn(f))
        /\ bound' = BoundTo(s')
        /\ plan' = IF "thermal" \in env /\ bound' # None /\ s'.override = NoOverride
                      /\ Effective(s') # native
                   THEN Effective(s') ELSE None
        /\ word' \in {word, Contested, native, None}
        /\ UNCHANGED <<env, calls, wire, native>>
    BY DEF FrameIs, WaitingIn, ExplainedIn, Explaining
  <1>3. BeginsIn(f) \in BOOLEAN /\ ExternalIn(f) \in BOOLEAN /\ f.positive \in BOOLEAN
        /\ f.auto \in BOOLEAN
    BY DEF BeginsIn, ExternalIn, FrameIs, ChangedIn
  <1>4. /\ retained' \in Change \cup {None}
        /\ ExternalIn(f) => retained' # None
        /\ ~ExternalIn(f) => (Concerns(retained') => Concerns(retained) /\ ~BeginsIn(f))
    BY <1>1, <1>2, <1>3, RetainedFacts
  <1> HIDE DEF x
  <1>5. x = None => s' = None
    BY <1>2 DEF Hears
  <1>6. x # None => /\ Fits(x) /\ f.auto /\ Belongs(x, calls)
                    /\ ~BeginsIn(f) => s # None /\ x.spent = s.spent
    <2>1. CASE x = None
      BY <2>1
    <2>2. CASE BeginsIn(f) /\ f.auto /\ \E p \in Purposes : x = Started(FreshSession, p, native)
      <3>0. PICK p \in Purposes : x = Started(FreshSession, p, native)
        BY <2>2
      <3>1. /\ Fits(x) /\ x.id = FreshSession /\ x.override = NoOverride /\ x.cancelling = None
        <4>1. FreshSession \in Sessions /\ native \in Speeds
          BY <1>1, FreshSessionIsNew DEF Typed
        <4> DEFINE y == Started(FreshSession, p, native)
        <4>2. Fits(y) /\ y.id = FreshSession
          BY <4>1, StartedFacts
        <4>3. y.override = NoOverride /\ y.cancelling = None
          BY DEF Started
        <4> HIDE DEF y
        <4> QED
          BY <3>0, <4>2, <4>3 DEF y
      <3>2. Belongs(x, calls)
        BY <1>1, <3>1, FreshSessionIsNew, BelongsNew, OverrideKinds
      <3> QED
        BY <2>2, <3>1, <3>2
    <2>3. CASE /\ s # None /\ ~BeginsIn(f) /\ f.auto
               /\ Keeps(s, x) /\ SameAnswer(s, x) /\ x.spent = s.spent
      <3>1. Fits(x) /\ Belongs(x, calls)
        BY <1>1, <2>3, BelongsKept DEF Held, Keeps
      <3> QED
        BY <2>3, <3>1
    <2> QED
      BY <1>1, <2>1, <2>2, <2>3, SessionInFacts DEF x
  <1>7. x # None => /\ Keeps(x, s') /\ SameAnswer(x, s')
                    /\ Concerns(retained') => s'.spent
    <2> SUFFICES ASSUME x # None
                 PROVE  /\ Keeps(x, s') /\ SameAnswer(x, s')
                        /\ Concerns(retained') => s'.spent
      OBVIOUS
    <2>1. /\ Fits(x) /\ ExplainedIn(f) \subseteq Expectation /\ native \in Speeds
      BY <1>1, <1>2, <1>6 DEF Typed
    <2>2. /\ Keeps(x, s') /\ SameAnswer(x, s')
          /\ Concerns(retained') /\ (ExternalIn(f) \/ x.spent) => s'.spent
      BY <1>2, <1>3, <1>4, <2>1, HearsFacts DEF Expectation
    <2>3. ~ExternalIn(f) /\ Concerns(retained') => x.spent
      BY <1>1, <1>4, <1>6 DEF Held
    <2> QED
      BY <2>2, <2>3
  <1>8. s' # None => /\ Fits(s') /\ Belongs(s', calls) /\ f.auto
                     /\ Concerns(retained') => s'.spent
    BY <1>5, <1>6, <1>7, BelongsKept DEF Keeps
  <1>9. /\ plan' \in Speeds \cup {None}
        /\ plan' # None => plan' # native
        /\ s' # None => (plan' # None => plan' = Baseline[s'.purpose])
    <2>1. CASE plan' = None
      BY <2>1
    <2>2. CASE plan' # None
      <3>1. /\ plan' = Effective(s') /\ plan' # native /\ s'.override = NoOverride
            /\ bound' # None
        BY <1>2, <2>2
      <3>2. s' # None
        BY <1>2, <3>1 DEF BoundTo
      <3>3. plan' \in Speeds
        BY <1>8, <3>1, <3>2, EffectiveType DEF Fits
      <3>4. plan' = Baseline[s'.purpose]
        BY <3>1, OverrideKinds DEF Effective
      <3> QED
        BY <3>1, <3>3, <3>4
    <2> QED
      BY <2>1, <2>2
  <1>10. base' \in [maintenance : BOOLEAN, auto : BOOLEAN] /\ (f.auto => base'.auto)
    BY <1>1, <1>2, <1>3 DEF Typed
  <1>11. unit' \in [purpose : Purposes, moved : BOOLEAN] \cup {None}
    BY <1>1, UnitInType DEF FrameIs
  <1>12. s' = None \/ Fits(s')
    BY <1>8
  <1>13. Typed'
    BY <1>1, <1>2, <1>4, <1>9, <1>10, <1>11, <1>12 DEF Typed
  <1>14. Held'
    BY <1>2, <1>8, <1>9, <1>10 DEF Held
  <1>15. Effects(expected', calls')
    BY <1>1, <1>2, EffectsEnd DEF Lock
  <1> QED
    BY <1>1, <1>2, <1>9, <1>13, <1>14, <1>15 DEF IInv, Bound, Lock, Planned

LEMMA Inductive == IInv /\ [Next]_vars => IInv'
  <1> SUFFICES ASSUME IInv, [Next]_vars PROVE IInv'
    OBVIOUS
  <1>1. CASE UNCHANGED vars
    BY <1>1 DEF vars, IInv, Typed, Bound, BoundTo, Lock, Held, Planned
  <1> QED
    BY <1>1, ManualAsksKeeps, ThermalAsksKeeps, TakesLockKeeps, AnsweredKeeps, ControllerKeeps,
       TimePassesKeeps, FrameKeeps, MaintainsKeeps DEF Next

\* The inductive invariant holds in every reachable state.
THEOREM PumpInvariance == Spec => []IInv
  BY InitEstablishes, Inductive, PTL DEF Spec

LEMMA InvariantTypes == IInv => TypeOK
  <1> SUFFICES ASSUME IInv PROVE TypeOK
    OBVIOUS
  <1>1. Typed /\ Bound /\ Lock
    BY DEF IInv
  <1>2. s \in Session \cup {None}
    BY <1>1 DEF Typed, Fits
  <1>3. bound \in [id : Sessions, value : Speeds] \cup {None}
    <2>1. CASE s = None \/ ~s.usable
      BY <1>1, <2>1 DEF Bound, BoundTo
    <2>2. CASE s # None /\ s.usable
      BY <1>1, <1>2, <2>2, SessionFields, EffectiveType DEF Bound, BoundTo
    <2> QED
      BY <2>1, <2>2
  <1>4. Cardinality({e \in expected : e.started}) <= 1
    <2> DEFINE S == {e \in expected : e.started}
    <2>1. CASE S = {}
      <3>1. Cardinality({}) = 0
        BY FS_EmptySet
      <3> QED
        BY <2>1, <3>1
    <2>2. CASE S # {}
      <3>1. PICK e : e \in S
        BY <2>2
      <3>2. S = {e}
        BY <1>1, <3>1 DEF Lock, Effects
      <3>3. Cardinality({e}) = 1
        BY FS_Singleton
      <3> HIDE DEF S
      <3>4. Cardinality(S) <= 1
        BY <3>2, <3>3
      <3> QED
        BY <3>4 DEF S
    <2> QED
      BY <2>1, <2>2
  <1> QED
    BY <1>1, <1>2, <1>3, <1>4 DEF TypeOK, Typed, Expectation

\* Every state the runtime reaches has the types of PumpSessionRuntime.
THEOREM PumpTypeCorrect == Spec => []TypeOK
  BY PumpInvariance, InvariantTypes, PTL

-----------------------------------------------------------------------------
(***************************************************************************)
(* What thermal sends.                                                     *)
(***************************************************************************)
\* async_deliver checks the session of the moment when it takes the lock: a speed thermal
\* sends is the one in force in that session.
LEMMA ThermalYields ==
  ASSUME IInv, Next, NEW c \in Range(calls'), c.thermal, c.sent, c \notin Range(calls)
  PROVE  s # None /\ s.usable /\ c.session = s.id /\ c.value = Effective(s)
  <1>1. Typed /\ Bound /\ Lock /\ Held /\ Planned /\ calls \in Seq(Call)
    BY DEF IInv, Typed
  <1>2. IInv'
    BY Inductive
  <1>3. calls' \in Seq(Call)
    BY <1>2 DEF IInv, Typed
  <1>4. PICK i \in 1..Len(calls') : calls'[i] = c
    BY <1>3, RangeFacts
  <1>5. \A j \in 1..Len(calls) : calls[j] \in Range(calls)
    BY <1>1, RangeFacts
  <1>6. ASSUME NEW x, NEW y \in Call, Append(calls, y) = calls', x = y PROVE c = x
    <2>1. /\ Len(calls') = Len(calls) + 1 /\ Len(calls) \in Nat
          /\ \A j \in 1..Len(calls) : calls'[j] = calls[j]
          /\ calls'[Len(calls) + 1] = y
      BY <1>1, <1>6, AppendFacts
    <2>2. i \in 1..Len(calls) \/ i = Len(calls) + 1
      BY <2>1
    <2> QED
      BY <1>4, <1>5, <1>6, <2>1, <2>2
  <1>7. CASE ManualAsks
    <2>1. PICK v \in Speeds :
            \/ Enters([id |-> FreshRequest, session |-> s.id, value |-> v, thermal |-> FALSE,
                       expects |-> truth # v, sent |-> FALSE])
            \/ calls' = calls
      BY <1>7 DEF ManualAsks
    <2> DEFINE d == [[id |-> FreshRequest, session |-> s.id, value |-> v, thermal |-> FALSE,
                      expects |-> truth # v, sent |-> FALSE] EXCEPT !.sent = (calls = <<>>)]
    <2>2. calls' = Append(calls, d)
      BY <1>4, <1>5, <2>1 DEF Enters
    <2>3. ~d.thermal
      OBVIOUS
    <2> HIDE DEF d
    <2>4. Len(calls') = Len(calls) + 1 /\ Len(calls) \in Nat
      BY <1>1, <2>2
    <2>5. i \in 1..Len(calls) \/ i = Len(calls) + 1
      BY <2>4
    <2> QED
      BY <1>1, <1>4, <1>5, <2>2, <2>3, <2>5
  <1>8. CASE ThermalAsks
    <2> DEFINE d == [[id |-> FreshRequest, session |-> s.id, value |-> plan, thermal |-> TRUE,
                      expects |-> truth # plan, sent |-> FALSE] EXCEPT !.sent = (calls = <<>>)]
    <2>1. /\ s # None /\ bound = [id |-> s.id, value |-> plan]
          /\ calls' = Append(calls, d)
      BY <1>8 DEF ThermalAsks, Enters
    <2>2. d.session = s.id /\ d.value = plan
      OBVIOUS
    <2> HIDE DEF d
    <2>3. Len(calls') = Len(calls) + 1 /\ Len(calls) \in Nat
      BY <1>1, <2>1
    <2>4. i \in 1..Len(calls) \/ i = Len(calls) + 1
      BY <2>3
    <2>5. c = d
      BY <1>1, <1>4, <1>5, <2>1, <2>4
    <2>6. bound # None
      <3>1. bound \in [id : Sessions, value : Speeds]
        BY <1>1, <2>1, SessionFields, <1>8 DEF Typed, Fits, ThermalAsks
      <3> QED
        BY <3>1, NoneAssumption
    <2>7. s.usable /\ plan = Effective(s)
      BY <1>1, <2>1, <2>6 DEF Bound, BoundTo
    <2> QED
      BY <2>1, <2>2, <2>5, <2>7
  <1>9. CASE TakesLock
    <2> DEFINE h == Head(calls)
    <2>1. calls # <<>> /\ ((Entitled(h) /\ calls' = Sending(calls)) \/ calls' = Tail(calls))
      BY <1>9 DEF TakesLock, Sending
    <2>2. h \in Call /\ h = calls[1] /\ Len(calls) \in Nat \ {0} /\ 1 \in 1..Len(calls)
      BY <1>1, <2>1, TailFacts
    <2>3. CASE calls' = Tail(calls)
      <3>1. Len(calls') = Len(calls) - 1 /\ calls'[i] = calls[i + 1]
        BY <1>1, <1>4, <2>1, <2>3, TailFacts
      <3>2. i + 1 \in 1..Len(calls)
        BY <2>2, <3>1
      <3> QED
        BY <1>4, <1>5, <3>1, <3>2
    <2>4. CASE Entitled(h) /\ calls' = Sending(calls)
      <3>1. /\ Len(calls') = Len(calls)
            /\ \A j \in 2..Len(calls) : calls'[j] = calls[j]
            /\ calls'[1].session = calls[1].session /\ calls'[1].value = calls[1].value
        BY <1>1, <2>1, <2>2, <2>4, QueueSends DEF Lock
      <3>2. i = 1
        <4>1. i \in 2..Len(calls) \/ i = 1
          BY <2>2, <3>1
        <4>2. i \in 2..Len(calls) => i \in 1..Len(calls)
          BY <2>2
        <4> QED
          BY <1>4, <1>5, <3>1, <4>1, <4>2
      <3>3. bound = [id |-> c.session, value |-> c.value]
        BY <1>4, <2>2, <2>4, <3>1, <3>2 DEF Entitled
      <3>4. bound # None
        <4>1. calls'[i] \in Call
          BY <1>3, <1>4
        <4>2. c.session \in Sessions /\ c.value \in Speeds
          BY <1>4, <4>1 DEF Call
        <4> QED
          BY <3>3, <4>2, NoneAssumption
      <3> QED
        BY <1>1, <3>3, <3>4 DEF Bound, BoundTo
    <2> QED
      BY <2>1, <2>3, <2>4
  <1>10. CASE Answered
    <2>1. calls # <<>> /\ calls' = Tail(calls)
      BY <1>10 DEF Answered
    <2>2. /\ Len(calls') = Len(calls) - 1 /\ calls'[i] = calls[i + 1] /\ Len(calls) \in Nat
      BY <1>1, <1>4, <2>1, TailFacts
    <2>3. i + 1 \in 1..Len(calls)
      BY <2>2
    <2> QED
      BY <1>4, <1>5, <2>2, <2>3
  <1>11. CASE TakesEffect \/ Panel \/ TimePasses \/ Frame \/ Maintains
    <2>1. calls' = calls
      BY <1>11 DEF TakesEffect, Panel, TimePasses, Frame, Maintains
    <2> QED
      BY <1>4, <1>5, <2>1
  <1> QED
    BY <1>7, <1>8, <1>9, <1>10, <1>11 DEF Next

\* A speed thermal sends is the one in force in the session of that moment.
THEOREM ThermalYieldsToPersons == Spec => AutomaticYields
  <1>1. IInv /\ [Next]_vars =>
          [\A c \in Range(calls') :
             c.thermal /\ c.sent /\ c \notin Range(calls)
               => s # None /\ s.usable /\ c.session = s.id /\ c.value = Effective(s)]_vars
    BY ThermalYields
  <1> QED
    BY <1>1, PumpInvariance, PTL DEF Spec, AutomaticYields

-----------------------------------------------------------------------------
(***************************************************************************)
(* The word of a person, in the environments that lose nothing: no request *)
(* waits so long that it expires, and every command is answered when it    *)
(* has taken effect.                                                       *)
(***************************************************************************)
NoLoss == env \cap {"time", "unknown"} = {}

Unaged(x) ==
  /\ x.override.state = "pending" => x.override.left = Ttl
  /\ x.cancelling # None => x.cancelling.left = Ttl

\* One command is on its way, that of the call at the head.
Still ==
  /\ s # None => Unaged(s)
  /\ wire # <<>> => /\ calls # <<>> /\ Head(calls).sent
                    /\ wire = <<[id |-> Head(calls).id, value |-> Head(calls).value]>>

Counts == s # None /\ ~s.moved /\ word # Contested

Wanted == IF word = None THEN Baseline[s.purpose] ELSE word

Explains(v) == \E e \in expected : e.started /\ e.value = v

\* A call the session waits for.
Asked == \E i \in 1..Len(calls) : ~calls[i].thermal /\ IsCurrent(s, calls[i])

\* Somebody asked for the configured speed, and the session follows it.
Left == s.override = NoOverride /\ word = Baseline[s.purpose]

\* Somebody set the speed on the panel, and the next frame will show it as theirs.
Unseen == word = native /\ truth # native /\ ~Undecided(s) /\ ~Explains(native)

InForce == Effective(s) = Wanted \/ Unseen

\* What the next frame adopts is what was wanted.
Adopts ==
  ~Undecided(s) /\ truth # native
    => native = Wanted \/ (native = Baseline[s.purpose] /\ Explains(native))

\* An answer comes when the speed it is about is set.
Landed ==
  calls # <<>> /\ Head(calls).sent /\ ~Head(calls).thermal /\ IsCurrent(s, Head(calls))
    /\ ~OnWire(Head(calls).id)
    => native = Head(calls).value

\* Behind a request that was superseded stands the one that superseded it.
Newest ==
  \/ Left
  \/ \A i \in 1..Len(calls) : ~calls[i].thermal /\ calls[i].session = s.id =>
       \E j \in 1..Len(calls) : i <= j /\ ~calls[j].thermal /\ IsCurrent(s, calls[j])

\* A command nobody waits for sets the configured speed.
Harmless == wire # <<>> /\ ~Asked => Head(calls).value = Baseline[s.purpose]

\* And what it sets is not taken for a change on the panel.
Accounted ==
  wire # <<>> /\ ~Asked =>
    \/ \E e \in expected : e.started /\ e.id = Head(calls).id /\ e.value = Head(calls).value
    \/ truth = native /\ native = Head(calls).value
    \/ Left

Heard == InForce /\ Adopts /\ Landed /\ Newest /\ Harmless /\ Accounted

WordInv == NoLoss => Still /\ (Counts => Heard)

-----------------------------------------------------------------------------
(***************************************************************************)
(* Sessions that wait for the same requests and follow the same speed.     *)
(***************************************************************************)
Alike(x, t) ==
  /\ x # None /\ t # None
  /\ t.id = x.id /\ t.purpose = x.purpose /\ t.moved = x.moved
  /\ t.override = x.override /\ t.cancelling = x.cancelling

LEMMA AlikeFacts ==
  ASSUME NEW x, NEW t, Alike(x, t)
  PROVE  /\ \A c : IsCurrent(t, c) <=> IsCurrent(x, c)
         /\ Effective(t) = Effective(x)
         /\ Undecided(t) <=> Undecided(x)
         /\ Unaged(t) <=> Unaged(x)
  BY DEF Alike, IsCurrent, Cancelled, Effective, Undecided, IsPending, Unaged

LEMMA DecidedFacts ==
  ASSUME NEW x, Fits(x)
  PROVE  /\ ~Undecided(x) => /\ Unaged(x) /\ \A c : ~IsCurrent(x, c)
                             /\ x.override \in Settled /\ x.cancelling = None
         /\ x.override \in Settled /\ x.cancelling = None => ~Undecided(x)
  <1>1. x \in Session /\ x # None
    BY SessionFields DEF Fits
  <1>2. x.override \in Settled \/ x.override.state = "pending"
    BY <1>1, SessionFields, OverrideKinds
  <1>3. x.override \in Settled => x.override.state # "pending"
    BY OverrideKinds
  <1> QED
    BY <1>1, <1>2, <1>3 DEF Undecided, IsPending, Unaged, IsCurrent, Cancelled

LEMMA UnagedStays ==
  ASSUME NEW x, Fits(x), Unaged(x)
  PROVE  Expire(x) = x
  <1>1. x \in Session /\ x # None
    BY SessionFields DEF Fits
  <1>2. x.override.state = "pending" => x.override.left # 0
    BY SessionAssumption DEF Unaged
  <1>3. x.cancelling # None => x.cancelling.left # 0
    BY SessionAssumption DEF Unaged
  <1>4. Expire(x) = [x EXCEPT !.cancelling = x.cancelling, !.override = x.override]
    BY <1>1, <1>2, <1>3 DEF Expire
  <1> QED
    BY <1>1, <1>4 DEF Session

LEMMA CurrentCall ==
  ASSUME NEW x, Fits(x), NEW c, IsCurrent(x, c)
  PROVE  /\ Undecided(x) /\ c.session = x.id
         /\ Cancelled(x, c) => x.override = NoOverride /\ x.cancelling.request = c.id
                               /\ x.cancelling # None
         /\ ~Cancelled(x, c) => /\ x.override.state = "pending" /\ x.override.request = c.id
                                /\ x.cancelling = None
         /\ \A d : IsCurrent(x, d) => d.id = c.id
  <1>1. x.override = NoOverride => x.override.state # "pending"
    BY OverrideKinds
  <1> QED
    BY <1>1 DEF IsCurrent, Cancelled, Undecided, IsPending, Fits

LEMMA WantedFacts ==
  ASSUME Typed
  PROVE  /\ word = native => word # None /\ Wanted = native
         /\ Left => Wanted = Baseline[s.purpose] /\ Effective(s) = Baseline[s.purpose]
         /\ \A v \in Speeds : v # None /\ v # Contested
  <1>1. \A v \in Speeds : v # None /\ v # 0
    BY NoneAssumption, SessionAssumption
  <1>2. word = native => word # None
    BY <1>1 DEF Typed
  <1>3. Left => Effective(s) = Baseline[s.purpose]
    BY OverrideKinds DEF Left, Effective
  <1> QED
    BY <1>1, <1>2, <1>3 DEF Wanted, Left, Contested

\* What was started is either the call of a head that is sent, or of no call.
LEMMA StartedEffect ==
  ASSUME Typed, Lock, NEW e \in expected, e.started, NEW i \in 1..Len(calls), e.id = calls[i].id
  PROVE  calls[i].sent /\ i = 1 /\ e.value = calls[i].value
  BY DEF Lock, Effects, Queued

-----------------------------------------------------------------------------
(***************************************************************************)
(* Each action keeps what was asked for.                                   *)
(***************************************************************************)
LEMMA StillEnters ==
  ASSUME Typed, Still, NEW c, NEW d, d = [c EXCEPT !.sent = (calls = <<>>)],
         d \in Call, d.id = c.id, d.value = c.value, (d.sent <=> calls = <<>>),
         calls' = Append(calls, d),
         calls # <<>> => wire' = wire,
         calls = <<>> => wire' = Append(wire, [id |-> c.id, value |-> c.value])
  PROVE  /\ calls' # <<>> /\ Head(calls') = IF calls = <<>> THEN d ELSE Head(calls)
         /\ calls = <<>> => wire = <<>> /\ wire' = <<[id |-> d.id, value |-> d.value]>>
         /\ wire' # <<>> => /\ Head(calls').sent
                            /\ wire' = <<[id |-> Head(calls').id, value |-> Head(calls').value]>>
  <1>1. calls' # <<>> /\ Head(calls') = IF calls = <<>> THEN d ELSE Head(calls)
    BY AppendFacts DEF Typed
  <1>2. calls = <<>> => wire = <<>>
    BY DEF Still
  <1>3. CASE calls = <<>>
    <2> DEFINE w == [id |-> d.id, value |-> d.value]
    <2>1. wire' = Append(<<>>, w)
      BY <1>2, <1>3
    <2> HIDE DEF w
    <2>2. wire' = <<w>>
      BY <2>1
    <2> QED
      BY <1>1, <1>2, <1>3, <2>2 DEF w
  <1>4. CASE calls # <<>>
    BY <1>1, <1>4 DEF Still
  <1> QED
    BY <1>3, <1>4

\* What the session does not hear leaves everything as it was.
LEMMA NothingHappens ==
  ASSUME Counts => Heard, Alike(s, s'),
         UNCHANGED <<truth, expected, calls, wire, native, word>>
  PROVE  Counts' => Heard'
  <1> SUFFICES ASSUME Counts' PROVE Heard'
    OBVIOUS
  <1>1. Counts /\ Heard
    BY DEF Counts, Alike
  <1>2. /\ \A c : IsCurrent(s', c) <=> IsCurrent(s, c)
        /\ Effective(s') = Effective(s)
        /\ Undecided(s') <=> Undecided(s)
    BY AlikeFacts
  <1>3. s'.purpose = s.purpose /\ s'.id = s.id /\ s'.override = s.override
    BY DEF Alike
  <1>4. /\ Wanted' = Wanted /\ (Left' <=> Left) /\ (Asked' <=> Asked)
        /\ \A v : Explains(v)' <=> Explains(v)
    BY <1>2, <1>3 DEF Wanted, Left, Asked, Explains
  <1>5. InForce'
    BY <1>1, <1>2, <1>4 DEF Heard, InForce, Unseen
  <1>6. Adopts'
    BY <1>1, <1>2, <1>3, <1>4 DEF Heard, Adopts
  <1>7. Landed'
    BY <1>1, <1>2 DEF Heard, Landed, OnWire
  <1>8. Newest'
    BY <1>1, <1>2, <1>3, <1>4 DEF Heard, Newest
  <1>9. Harmless'
    BY <1>1, <1>3, <1>4 DEF Heard, Harmless
  <1>10. Accounted'
    BY <1>1, <1>4 DEF Heard, Accounted
  <1> QED
    BY <1>5, <1>6, <1>7, <1>8, <1>9, <1>10 DEF Heard

LEMMA ManualIsHeard ==
  ASSUME IInv, Still, Counts => Heard, ManualAsks
  PROVE  Still' /\ (Counts' => Heard')
  <1> DEFINE Q(v) == [id |-> FreshRequest, session |-> s.id, value |-> v]
             C(v) == [id |-> FreshRequest, session |-> s.id, value |-> v, thermal |-> FALSE,
                      expects |-> truth # v, sent |-> FALSE]
  <1>1. PICK v \in Speeds :
          /\ MayBegin(s)
          /\ Cardinality(Persons) < (IF "second" \in env THEN 2 ELSE 1)
          /\ \/ /\ s' = Failed(Begun(s, Q(v)), Q(v))
                /\ word' = IF v = Baseline[s.purpose] /\ truth = native /\ wire = <<>> THEN v
                           ELSE IF v = Baseline[s.purpose] \/ Undecided(s) THEN Contested
                           ELSE word
                /\ UNCHANGED <<calls, expected, wire>>
             \/ /\ s' = Begun(s, Q(v))
                /\ Enters(C(v))
                /\ word' = v
          /\ UNCHANGED <<truth, native>>
    BY DEF ManualAsks
  <1> DEFINE q == Q(v)
             c == C(v)
             begun == Begun(s, q)
             B == Baseline[s.purpose]
  <1>2. Typed /\ Lock
    BY DEF IInv
  <1>3. s # None /\ Fits(s) /\ s \in Session
    BY <1>1, <1>2 DEF MayBegin, Typed, Fits
  <1>4. q.id \in Requests /\ q.id = FreshRequest /\ q.value \in Speeds /\ q.value = v
        /\ q.session = s.id
    BY <1>2, FreshRequestIsNew
  <1>5. c \in Call /\ ~c.sent /\ c.id = FreshRequest /\ ~c.thermal /\ c.value = v
        /\ c.session = s.id
    BY <1>2, <1>3, FreshRequestIsNew, SessionFields DEF Call
  <1> HIDE DEF q, c
  <1>6. /\ Fits(begun)
        /\ begun.id = s.id /\ begun.purpose = s.purpose /\ begun.moved = s.moved
        /\ Effective(begun) = v
        /\ v = B => /\ begun.override = NoOverride
                    /\ begun.cancelling = [request |-> q.id, left |-> Ttl]
        /\ v # B => /\ begun.cancelling = None
                    /\ begun.override.state = "pending"
                    /\ begun.override.request = q.id
                    /\ begun.override.left = Ttl
                    /\ begun.override.prior
                         = IF s.override.state = "verified" THEN s.override ELSE NoOverride
    BY <1>3, <1>4, BegunFacts
  <1> HIDE DEF begun
  <1>7. begun # None
    BY <1>6, SessionFields DEF Fits
  <1>8. /\ IsCurrent(begun, q) /\ Undecided(begun) /\ Unaged(begun)
        /\ (Cancelled(begun, q) <=> v = B)
        /\ \A d : d.id = q.id /\ d.session = s.id <=> IsCurrent(begun, d)
    <2>1. CASE v = B
      <3> DEFINE r == [request |-> q.id, left |-> Ttl]
      <3>2. r \in [request : Requests, left : 0..Ttl] /\ r.request = q.id /\ r.left = Ttl
        BY <1>4, SessionAssumption
      <3>3. begun.override = NoOverride /\ begun.cancelling = r
        BY <1>6, <2>1
      <3> HIDE DEF r
      <3>1. /\ begun.override = NoOverride /\ begun.override.state = "none"
            /\ begun.cancelling # None /\ begun.cancelling.request = q.id
            /\ begun.cancelling.left = Ttl
        BY <3>2, <3>3, NoneAssumption, OverrideKinds
      <3> QED
        BY <1>4, <1>6, <1>7, <2>1, <3>1
           DEF IsCurrent, Cancelled, Undecided, IsPending, Unaged
    <2>2. CASE v # B
      BY <1>4, <1>6, <1>7, <2>2 DEF IsCurrent, Cancelled, Undecided, IsPending, Unaged
    <2> QED
      BY <2>1, <2>2
  <1>9. CASE /\ s' = Failed(begun, q)
             /\ word' = IF v = B /\ truth = native /\ wire = <<>> THEN v
                        ELSE IF v = B \/ Undecided(s) THEN Contested
                        ELSE word
             /\ UNCHANGED <<calls, expected, wire>>
    <2>1. /\ Keeps(begun, s') /\ s'.moved = begun.moved
          /\ v = B => s'.cancelling = None /\ s'.override = begun.override
          /\ v # B => s'.override = begun.override.prior /\ s'.cancelling = None
      BY <1>6, <1>8, <1>9, FailedKeeps
    <2>2. Fits(s') /\ s'.purpose = s.purpose /\ s'.id = s.id /\ s'.moved = s.moved
          /\ s' # None
      BY <1>6, <2>1, SessionFields DEF Keeps, Fits
    <2>3. s'.override \in Settled /\ s'.cancelling = None
      <3>1. NoOverride \in Settled
        BY OverrideKinds
      <3>2. s.override.state = "verified" => s.override \in Settled
        BY <1>3, SessionFields, OverrideKinds
      <3> QED
        BY <1>6, <2>1, <3>1, <3>2
    <2>4. ~Undecided(s') /\ Unaged(s') /\ \A d : ~IsCurrent(s', d)
      BY <2>2, <2>3, DecidedFacts
    <2>5. Still'
      BY <1>9, <2>2, <2>4 DEF Still
    <2>6. CASE v = B /\ truth = native /\ wire = <<>>
      <3>1. s'.override = NoOverride /\ word' = B
        BY <1>6, <1>9, <2>1, <2>6
      <3>2. Left'
        BY <2>2, <3>1 DEF Left
      <3>3. Effective(s') = Wanted'
        BY <2>2, <3>1, OverrideKinds DEF Effective, Wanted
      <3>4. truth' = native' /\ wire' = <<>>
        BY <1>1, <1>9, <2>6
      <3> QED
        BY <2>4, <2>5, <3>2, <3>3, <3>4
           DEF Heard, InForce, Adopts, Landed, Newest, Harmless, Accounted
    <2>7. CASE ~(v = B /\ truth = native /\ wire = <<>>) /\ (v = B \/ Undecided(s))
      BY <1>9, <2>5, <2>7 DEF Counts
    <2>8. CASE v # B /\ ~Undecided(s)
      <3>1. s.override \in Settled /\ s.cancelling = None
        BY <1>3, <2>8, DecidedFacts
      <3>2. s'.override = s.override
        BY <1>6, <2>1, <2>8, <3>1, OverrideKinds
      <3>3. Alike(s, s')
        BY <1>3, <2>2, <2>3, <3>1, <3>2 DEF Alike
      <3>4. UNCHANGED <<truth, expected, calls, wire, native, word>>
        BY <1>1, <1>9, <2>8
      <3> QED
        BY <2>5, <3>3, <3>4, NothingHappens
    <2> QED
      BY <2>6, <2>7, <2>8
  <1>10. CASE s' = begun /\ Enters(c) /\ word' = v
    <2> DEFINE d == [c EXCEPT !.sent = (calls = <<>>)]
    <2>1. Cardinality(Persons) < 2
      <3>1. Cardinality(Persons) \in Nat
        BY <1>2, CallsInRange, FS_CardinalityType DEF Lock, Queued
      <3> QED
        BY <1>1, <3>1
    <2>2. /\ d \in Call /\ d.id = c.id /\ d.session = c.session /\ d.value = c.value
          /\ d.thermal = c.thermal /\ (d.sent <=> calls = <<>>)
          /\ calls' = Append(calls, d)
          /\ calls # <<>> => wire' = wire
          /\ calls = <<>> => wire' = Append(wire, [id |-> c.id, value |-> c.value])
      BY <1>2, <1>5, <1>10, <2>1, EntersFacts
    <2>3. /\ calls' # <<>> /\ Head(calls') = IF calls = <<>> THEN d ELSE Head(calls)
          /\ calls = <<>> => wire' = <<[id |-> d.id, value |-> d.value]>>
          /\ wire' # <<>> => /\ Head(calls').sent
                             /\ wire' = <<[id |-> Head(calls').id,
                                           value |-> Head(calls').value]>>
      BY <1>2, <2>2, StillEnters
    <2> HIDE DEF d
    <2>4. Still'
      BY <1>8, <1>10, <2>3 DEF Still
    <2>5. Effective(s') = Wanted'
      <3>1. v # None
        BY NoneAssumption
      <3> QED
        BY <1>6, <1>10, <3>1 DEF Wanted
    <2>6. Undecided(s')
      BY <1>8, <1>10
    <2>7. /\ Len(calls') = Len(calls) + 1 /\ Len(calls) \in Nat
          /\ calls'[Len(calls) + 1] = d
      BY <1>2, <2>2, AppendFacts DEF Typed
    <2>8. ~d.thermal /\ IsCurrent(s', d)
      BY <1>4, <1>5, <1>8, <1>10, <2>2
    <2>9. Asked' /\ Newest'
      <3>1. Len(calls) + 1 \in 1..Len(calls')
        BY <2>7
      <3>2. Asked'
        BY <2>7, <2>8, <3>1 DEF Asked
      <3>3. \A i \in 1..Len(calls') : i <= Len(calls) + 1
        BY <2>7
      <3>4. Newest'
        BY <2>7, <2>8, <3>1, <3>3 DEF Newest
      <3> QED
        BY <3>2, <3>4
    <2>10. Landed'
      <3>1. CASE calls = <<>>
        <4>1. \E e \in Range(wire') : e.id = Head(calls').id
          <5> DEFINE w == [id |-> d.id, value |-> d.value]
          <5>1. wire' = <<w>> /\ w.id = Head(calls').id
            BY <2>3, <3>1
          <5> HIDE DEF w
          <5>2. w \in Range(wire')
            BY <5>1 DEF Range
          <5> QED
            BY <5>1, <5>2
        <4> QED
          BY <4>1 DEF Landed, OnWire
      <3>2. CASE calls # <<>>
        <4>1. Head(calls).id # q.id
          BY <1>2, <1>4, <3>2, CallsInRange, FreshRequestIsNew
        <4>2. ~IsCurrent(s', Head(calls'))
          BY <1>8, <1>10, <2>3, <3>2, <4>1
        <4> QED
          BY <4>2 DEF Landed
      <3> QED
        BY <3>1, <3>2
    <2> QED
      BY <2>4, <2>5, <2>6, <2>9, <2>10 DEF Heard, InForce, Adopts, Harmless, Accounted
  <1> QED
    BY <1>1, <1>9, <1>10 DEF q, c, begun

LEMMA ThermalIsHeard ==
  ASSUME IInv, Still, Counts => Heard, ThermalAsks
  PROVE  Still' /\ (Counts' => Heard')
  <1> DEFINE C == [id |-> FreshRequest, session |-> s.id, value |-> plan, thermal |-> TRUE,
                   expects |-> truth # plan, sent |-> FALSE]
             c == C
             d == [c EXCEPT !.sent = (calls = <<>>)]
             B == Baseline[s.purpose]
  <1>1. /\ \A x \in Range(calls) : ~x.thermal
        /\ plan # None /\ s # None /\ bound = [id |-> s.id, value |-> plan]
        /\ Enters(C)
        /\ UNCHANGED <<env, s, truth, native, word>>
    BY DEF ThermalAsks
  <1>2. Typed /\ Bound /\ Lock /\ Held /\ Planned
    BY DEF IInv
  <1>3. Fits(s) /\ s \in Session /\ s.id \in Sessions
    BY <1>1, <1>2, SessionFields DEF Typed, Fits
  <1>4. plan \in Speeds /\ plan # truth /\ plan = B
    BY <1>1, <1>2 DEF Typed, Planned, Held
  <1>5. plan = Effective(s)
    <2>1. bound # None
      <3> DEFINE r == [id |-> s.id, value |-> plan]
      <3>1. r \in [id : Sessions, value : Speeds]
        BY <1>3, <1>4
      <3> HIDE DEF r
      <3> QED
        BY <1>1, <3>1, NoneAssumption DEF r
    <2>2. bound = [id |-> s.id, value |-> Effective(s)]
      BY <1>2, <2>1 DEF Bound, BoundTo
    <2> QED
      BY <1>1, <2>2
  <1>6. FreshRequest \in Requests
    BY <1>2, FreshRequestIsNew
  <1>7. c \in Call /\ ~c.sent /\ c.id = FreshRequest /\ c.thermal /\ c.expects
        /\ c.value = plan
    BY <1>3, <1>4, <1>6 DEF Call
  <1> HIDE DEF c
  <1>a. Enters(c)
    BY <1>1 DEF c
  <1>8. /\ d \in Call /\ d.id = c.id /\ d.value = c.value /\ d.thermal = c.thermal
        /\ (d.sent <=> calls = <<>>)
        /\ calls' = Append(calls, d) /\ Effects(expected', calls')
        /\ calls # <<>> => wire' = wire /\ expected' = Reserved(c)
        /\ calls = <<>> => /\ wire' = Append(wire, [id |-> c.id, value |-> c.value])
                           /\ \A e \in expected' : e.started => e.id = c.id
                           /\ \E e \in expected' :
                                e.started /\ e.id = c.id /\ e.value = c.value
    BY <1>1, <1>2, <1>7, <1>a, EntersFacts
  <1>9. /\ calls' # <<>> /\ Head(calls') = IF calls = <<>> THEN d ELSE Head(calls)
        /\ calls = <<>> => wire = <<>> /\ wire' = <<[id |-> d.id, value |-> d.value]>>
        /\ wire' # <<>> => /\ Head(calls').sent
                           /\ wire' = <<[id |-> Head(calls').id,
                                         value |-> Head(calls').value]>>
    BY <1>2, <1>8, StillEnters
  <1> HIDE DEF d
  <1>10. Still'
    BY <1>1, <1>9 DEF Still
  <1> SUFFICES ASSUME Counts' PROVE Heard'
    BY <1>10
  <1>11. Counts /\ Heard
    BY <1>1 DEF Counts
  <1>12. /\ Wanted' = Wanted /\ (Left' <=> Left) /\ Effective(s') = Effective(s)
         /\ (Undecided(s') <=> Undecided(s)) /\ \A x : IsCurrent(s', x) <=> IsCurrent(s, x)
    BY <1>1 DEF Wanted, Left
  <1>13. /\ Len(calls') = Len(calls) + 1 /\ Len(calls) \in Nat
         /\ calls'[Len(calls) + 1] = d
         /\ \A i \in 1..Len(calls) : calls'[i] = calls[i]
         /\ 1 \in 1..Len(calls') /\ calls'[1] = Head(calls')
    <2>1. /\ Len(calls') = Len(calls) + 1 /\ Len(calls) \in Nat
          /\ calls'[Len(calls) + 1] = d
          /\ \A i \in 1..Len(calls) : calls'[i] = calls[i]
          /\ calls' \in Seq(Call)
      BY <1>2, <1>8, AppendFacts DEF Typed
    <2>2. calls'[1] = Head(calls')
      BY <1>9, <2>1, TailFacts
    <2> QED
      BY <2>1, <2>2
  <1>14. Asked => Asked'
    BY <1>12, <1>13 DEF Asked
  <1>15. \A e \in expected : calls # <<>> => e \in expected'
    BY <1>8 DEF Reserved
  <1>16. calls = <<>> => \A e \in expected' : e.started => e.value = plan
    <2> SUFFICES ASSUME calls = <<>>, NEW e \in expected', e.started PROVE e.value = plan
      OBVIOUS
    <2>1. e.id = calls'[1].id
      BY <1>8, <1>9, <1>13
    <2>2. e.value = calls'[1].value
      BY <1>8, <1>13, <2>1 DEF Effects
    <2> QED
      BY <1>7, <1>8, <1>9, <1>13, <2>2
  <1>17. InForce'
    <2>1. CASE Effective(s) = Wanted
      BY <1>12, <2>1 DEF InForce
    <2>2. CASE Unseen /\ native = plan
      BY <1>2, <1>5, <1>12, <2>2, WantedFacts DEF InForce, Unseen
    <2>3. CASE Unseen /\ native # plan
      <3>1. ~Explains(native)'
        <4>1. CASE calls = <<>>
          BY <1>1, <1>16, <2>3, <4>1 DEF Explains
        <4>2. CASE calls # <<>>
          <5>1. \A e \in expected' : e.started => e \in expected
            BY <1>8, <4>2 DEF Reserved
          <5> QED
            BY <1>1, <2>3, <5>1 DEF Unseen, Explains
        <4> QED
          BY <4>1, <4>2
      <3> QED
        BY <1>1, <1>12, <2>3, <3>1 DEF InForce, Unseen
    <2> QED
      BY <1>11, <2>1, <2>2, <2>3 DEF Heard, InForce
  <1>18. Adopts'
    <2>1. Explains(B) => Explains(B)'
      <3>1. CASE calls = <<>>
        BY <1>1, <1>4, <1>7, <1>8, <3>1 DEF Explains
      <3>2. CASE calls # <<>>
        BY <1>1, <1>15, <3>2 DEF Explains
      <3> QED
        BY <3>1, <3>2
    <2>2. ~Undecided(s) /\ truth # native => native = Wanted \/ (native = B /\ Explains(B))
      BY <1>11 DEF Heard, Adopts
    <2>3. ~Undecided(s') /\ truth' # native'
             => native' = Wanted' \/ (native' = Baseline[s'.purpose] /\ Explains(B)')
      BY <1>1, <1>12, <2>1, <2>2
    <2> QED
      BY <1>1, <2>3 DEF Adopts
  <1>19. Landed'
    <2>1. CASE calls = <<>>
      BY <1>7, <1>8, <1>9, <2>1 DEF Landed
    <2>2. CASE calls # <<>>
      BY <1>1, <1>8, <1>9, <1>11, <2>2 DEF Heard, Landed, OnWire
    <2> QED
      BY <2>1, <2>2
  <1>20. Newest'
    <2>1. CASE Left
      BY <1>12, <2>1 DEF Newest
    <2>2. CASE ~Left
      <3> SUFFICES ASSUME NEW i \in 1..Len(calls'), ~calls'[i].thermal,
                          calls'[i].session = s'.id
                   PROVE  \E j \in 1..Len(calls') :
                            i <= j /\ ~calls'[j].thermal /\ IsCurrent(s', calls'[j])
        BY DEF Newest
      <3>4. d.thermal
        BY <1>7, <1>8
      <3>5. i # Len(calls) + 1
        BY <1>13, <3>4
      <3>6. i \in 1..(Len(calls) + 1) /\ Len(calls) \in Nat
        BY <1>13
      <3>1. i \in 1..Len(calls)
        BY <3>5, <3>6
      <3>2. PICK j \in 1..Len(calls) : i <= j /\ ~calls[j].thermal /\ IsCurrent(s, calls[j])
        BY <1>1, <1>11, <1>13, <2>2, <3>1 DEF Heard, Newest
      <3>3. j \in 1..Len(calls') /\ calls'[j] = calls[j]
        BY <1>13
      <3> QED
        BY <1>12, <3>2, <3>3
    <2> QED
      BY <2>1, <2>2
  <1>21. Harmless'
    <2>1. CASE calls = <<>>
      BY <1>1, <1>4, <1>7, <1>8, <1>9, <2>1 DEF Harmless
    <2>2. CASE calls # <<>>
      BY <1>1, <1>8, <1>9, <1>11, <1>14, <2>2 DEF Heard, Harmless
    <2> QED
      BY <2>1, <2>2
  <1>22. Accounted'
    <2>1. CASE calls = <<>>
      BY <1>8, <1>9, <2>1 DEF Accounted
    <2>2. CASE calls # <<>>
      <3> SUFFICES ASSUME wire' # <<>>, ~Asked'
                   PROVE  \/ \E e \in expected' : /\ e.started /\ e.id = Head(calls').id
                                                  /\ e.value = Head(calls').value
                          \/ truth' = native' /\ native' = Head(calls').value
                          \/ Left'
        BY DEF Accounted
      <3>1. \/ \E e \in expected : /\ e.started /\ e.id = Head(calls).id
                                   /\ e.value = Head(calls).value
            \/ truth = native /\ native = Head(calls).value
            \/ Left
        BY <1>8, <1>11, <1>14, <2>2 DEF Heard, Accounted
      <3> QED
        BY <1>1, <1>9, <1>12, <1>15, <2>2, <3>1
    <2> QED
      BY <2>1, <2>2
  <1> QED
    BY <1>17, <1>18, <1>19, <1>20, <1>21, <1>22 DEF Heard

\* A request that failed or was refused before it was sent decides nothing any more.
LEMMA FailedDecides ==
  ASSUME NEW x, Fits(x), Unaged(x), NEW q
  PROVE  Failed(x, q) # None /\ Unaged(Failed(x, q))
  <1>1. Fits(Failed(x, q)) /\ Failed(x, q) # None
    BY FailedKeeps, SessionFields DEF Keeps, Fits
  <1>2. CASE ~IsCurrent(x, q)
    BY <1>1, <1>2, FailedKeeps
  <1>3. CASE IsCurrent(x, q) /\ Cancelled(x, q)
    <2>1. x.override = NoOverride
      BY <1>3, CurrentCall
    <2>2. Failed(x, q).override \in Settled /\ Failed(x, q).cancelling = None
      BY <1>3, <2>1, FailedKeeps, OverrideKinds
    <2> QED
      BY <1>1, <2>2, DecidedFacts
  <1>4. CASE IsCurrent(x, q) /\ ~Cancelled(x, q)
    <2>1. x.override.state = "pending" /\ x.override \in Settled \cup Pending
      BY <1>4, CurrentCall, SessionFields DEF Fits
    <2>2. x.override.prior \in Settled
      BY <2>1, OverrideKinds
    <2>3. Failed(x, q).override \in Settled /\ Failed(x, q).cancelling = None
      BY <1>4, <2>2, FailedKeeps
    <2> QED
      BY <1>1, <2>3, DecidedFacts
  <1> QED
    BY <1>2, <1>3, <1>4

\* The head of the queue leaves, with nothing on its way.
LEMMA NewestLeaves ==
  ASSUME Typed, calls # <<>>, calls' = Tail(calls), Newest, ~Left, s'.id = s.id,
         \A x : IsCurrent(s', x) <=> IsCurrent(s, x)
  PROVE  Newest'
  <1>1. /\ Len(calls') = Len(calls) - 1 /\ Len(calls) \in Nat
        /\ \A i \in 1..Len(calls') : calls'[i] = calls[i + 1]
    BY TailFacts DEF Typed
  <1> SUFFICES ASSUME NEW i \in 1..Len(calls'), ~calls'[i].thermal, calls'[i].session = s'.id
               PROVE  \E j \in 1..Len(calls') :
                        i <= j /\ ~calls'[j].thermal /\ IsCurrent(s', calls'[j])
    BY DEF Newest
  <1>2. i + 1 \in 1..Len(calls) /\ calls'[i] = calls[i + 1]
    BY <1>1
  <1>3. PICK j \in 1..Len(calls) : i + 1 <= j /\ ~calls[j].thermal /\ IsCurrent(s, calls[j])
    BY <1>2 DEF Newest
  <1>4. j - 1 \in 1..Len(calls') /\ i <= j - 1 /\ (j - 1) + 1 = j
    BY <1>1, <1>3
  <1>5. calls'[j - 1] = calls[j]
    BY <1>1, <1>4
  <1> QED
    BY <1>3, <1>4, <1>5

LEMMA HeadLeaves ==
  ASSUME IInv, Counts, Heard, calls # <<>>, calls' = Tail(calls), wire' = <<>>, Alike(s, s'),
         UNCHANGED <<truth, native, word>>, expected' \subseteq expected,
         \A e \in expected : e.started => e \in expected'
  PROVE  Heard'
  <1>1. /\ \A c : IsCurrent(s', c) <=> IsCurrent(s, c)
        /\ Effective(s') = Effective(s)
        /\ Undecided(s') <=> Undecided(s)
    BY AlikeFacts
  <1>2. s'.purpose = s.purpose /\ s'.id = s.id /\ s'.override = s.override
    BY DEF Alike
  <1>3. /\ Wanted' = Wanted /\ (Left' <=> Left) /\ Explains(native)' = Explains(native)
    BY <1>2 DEF Wanted, Left, Explains
  <1>4. InForce'
    BY <1>1, <1>3 DEF Heard, InForce, Unseen
  <1>5. Adopts'
    BY <1>1, <1>2, <1>3 DEF Heard, Adopts
  <1>6. Landed'
    <2>1. calls \in Seq(Call) /\ Queued(calls)
      BY DEF IInv, Typed, Lock
    <2>2. calls' # <<>> => ~Head(calls').sent
      <3>1. calls' \in Seq(Call) /\ \A i \in 1..Len(calls') : ~calls'[i].sent
        BY <2>1, TailFacts, QueueShrinks
      <3>2. calls' # <<>> => Head(calls') = calls'[1] /\ 1 \in 1..Len(calls')
        BY <3>1, TailFacts
      <3> QED
        BY <3>1, <3>2
    <2> QED
      BY <2>2 DEF Landed
  <1>7. Newest'
    <2>1. CASE Left
      BY <1>3, <2>1 DEF Newest
    <2>2. CASE ~Left
      BY <1>1, <1>2, <2>2, NewestLeaves DEF Heard, IInv
    <2> QED
      BY <2>1, <2>2
  <1> QED
    BY <1>4, <1>5, <1>6, <1>7 DEF Heard, Harmless, Accounted

\* The call at the head is sent.
LEMMA SendingIsHeard ==
  ASSUME IInv, Still, Counts => Heard, calls # <<>>, ~Head(calls).sent, Entitled(Head(calls)),
         Len(wire) < InFlight, calls' = Sending(calls),
         expected' = Dispatched(expected, Head(calls)),
         wire' = Append(wire, [id |-> Head(calls).id, value |-> Head(calls).value]),
         UNCHANGED <<s, truth, native, word>>
  PROVE  Still' /\ (Counts' => Heard')
  <1> DEFINE c == Head(calls)
             B == Baseline[s.purpose]
  <1>1. Typed /\ Bound /\ Lock /\ Held /\ wire = <<>>
    BY DEF IInv, Still
  <1>2. /\ calls \in Seq(Call) /\ Queued(calls) /\ Effects(expected, calls)
        /\ c = calls[1] /\ c \in Call /\ 1 \in 1..Len(calls)
    BY <1>1, CallsInRange DEF Typed, Lock
  <1>3. /\ calls' \in Seq(Call) /\ Len(calls') = Len(calls)
        /\ \A i \in 1..Len(calls) :
             /\ calls'[i].id = calls[i].id /\ calls'[i].session = calls[i].session
             /\ calls'[i].value = calls[i].value /\ calls'[i].thermal = calls[i].thermal
             /\ (calls'[i].sent <=> i = 1)
        /\ calls' # <<>> /\ Head(calls') = calls'[1]
    BY <1>2, QueueSends
  <1>4. /\ Effects(expected', calls')
        /\ \A e \in expected : e.id = c.id =>
             \E g \in expected' : g.started /\ g.id = c.id /\ g.value = e.value
        /\ \A g \in expected' : g.started => g.id = c.id
    BY <1>1, SendsFacts
  <1>5. /\ Head(calls').id = c.id /\ Head(calls').session = c.session
        /\ Head(calls').value = c.value /\ Head(calls').thermal = c.thermal
        /\ Head(calls').sent
    BY <1>2, <1>3
  <1>6. wire' = <<[id |-> c.id, value |-> c.value]>>
    BY <1>1
  <1>7. Still'
    BY <1>3, <1>5, <1>6 DEF Still
  <1> SUFFICES ASSUME Counts' PROVE Heard'
    BY <1>7
  <1>8. Counts /\ Heard /\ s # None /\ Fits(s)
    BY <1>1 DEF Counts, Typed
  <1>9. c.session = s.id /\ c.value = Effective(s)
    <2> DEFINE r == [id |-> c.session, value |-> c.value]
    <2>1. r \in [id : Sessions, value : Speeds]
      BY <1>2 DEF Call
    <2>2. bound = r
      BY DEF Entitled
    <2> HIDE DEF r
    <2>3. bound = [id |-> s.id, value |-> Effective(s)]
      BY <1>1, <2>1, <2>2, NoneAssumption DEF Bound, BoundTo
    <2> QED
      BY <2>2, <2>3 DEF r
  <1>10. /\ Wanted' = Wanted /\ (Left' <=> Left) /\ Effective(s') = Effective(s)
         /\ (Undecided(s') <=> Undecided(s))
         /\ \A i \in 1..Len(calls) : IsCurrent(s', calls'[i]) <=> IsCurrent(s, calls[i])
    BY <1>3 DEF Wanted, Left, IsCurrent, Cancelled
  <1>11. Asked' <=> Asked
    BY <1>3, <1>10 DEF Asked
  <1>12. Newest'
    <2>1. CASE Left
      BY <1>10, <2>1 DEF Newest
    <2>2. CASE ~Left
      BY <1>3, <1>8, <1>10, <2>2 DEF Heard, Newest
    <2> QED
      BY <2>1, <2>2
  <1>13. \A g \in expected' : g.started => g.value = c.value
    BY <1>2, <1>3, <1>4, <1>5 DEF Effects
  \* What thermal sends is the configured speed, and expected to show.
  <1>14. c.thermal => /\ c.value = B
                      /\ \E g \in expected' : g.started /\ g.id = c.id /\ g.value = c.value
    <2> SUFFICES ASSUME c.thermal
                 PROVE  /\ c.value = B
                        /\ \E g \in expected' : g.started /\ g.id = c.id /\ g.value = c.value
      OBVIOUS
    <2>1. c.value = B
      BY <1>1, <1>2, <1>8, <1>9 DEF Held, Belongs
    <2>2. c.expects
      BY <1>2 DEF Queued
    <2>3. PICK e \in expected : e.id = c.id
      BY <2>2 DEF Entitled
    <2>4. PICK g \in expected' : g.started /\ g.id = c.id /\ g.value = e.value
      BY <1>4, <2>3
    <2> QED
      BY <1>13, <2>1, <2>4
  \* A person's request that is superseded has the configured speed in force.
  <1>15. ~c.thermal => Asked \/ Left
    BY <1>2, <1>8, <1>9 DEF Heard, Newest, Asked
  <1>16. Left => Wanted = B /\ Effective(s) = B
    BY <1>1, WantedFacts
  <1>17. Asked => Undecided(s)
    BY <1>8, CurrentCall DEF Asked
  <1>18. InForce'
    <2>1. CASE Effective(s) = Wanted
      BY <1>10, <2>1 DEF InForce
    <2>2. CASE Unseen /\ Effective(s) = native
      BY <1>1, <1>10, <2>2, WantedFacts DEF InForce, Unseen
    <2>3. CASE Unseen /\ Effective(s) # native
      <3>1. ~Explains(native)'
        BY <1>9, <1>13, <2>3 DEF Explains
      <3> QED
        BY <1>10, <2>3, <3>1 DEF InForce, Unseen
    <2> QED
      BY <1>8, <2>1, <2>2, <2>3 DEF Heard, InForce
  <1>19. Adopts'
    <2> SUFFICES ASSUME ~Undecided(s), truth # native, native # Wanted
                 PROVE  native = B /\ Explains(native)'
      BY <1>10 DEF Adopts
    <2>1. native = B
      BY <1>8 DEF Heard, Adopts
    <2>2. c.thermal
      BY <1>15, <1>16, <1>17, <2>1
    <2> QED
      BY <1>14, <2>1, <2>2 DEF Explains
  <1>20. Landed'
    <2> DEFINE w == [id |-> c.id, value |-> c.value]
    <2>1. wire' = <<w>> /\ w.id = Head(calls').id
      BY <1>5, <1>6
    <2> HIDE DEF w
    <2>2. w \in Range(wire')
      BY <2>1 DEF Range
    <2> QED
      BY <2>1, <2>2 DEF Landed, OnWire
  <1>21. Harmless'
    BY <1>5, <1>9, <1>11, <1>14, <1>15, <1>16 DEF Harmless
  <1>22. Accounted'
    <2>1. CASE c.thermal
      BY <1>5, <1>14, <2>1 DEF Accounted
    <2>2. CASE ~c.thermal
      BY <1>10, <1>11, <1>15, <2>2 DEF Accounted
    <2> QED
      BY <2>1, <2>2
  <1> QED
    BY <1>12, <1>18, <1>19, <1>20, <1>21, <1>22 DEF Heard

LEMMA TakesLockIsHeard ==
  ASSUME IInv, Still, Counts => Heard, TakesLock
  PROVE  Still' /\ (Counts' => Heard')
  <1> DEFINE c == Head(calls)
  <1>1. /\ calls # <<>> /\ ~c.sent
        /\ UNCHANGED <<truth, native>>
    BY DEF TakesLock
  <1>2. CASE /\ Entitled(c) /\ Len(wire) < InFlight
             /\ calls' = Sending(calls)
             /\ expected' = Dispatched(expected, c)
             /\ wire' = Append(wire, [id |-> c.id, value |-> c.value])
             /\ UNCHANGED <<s, bound, word>>
    BY <1>1, <1>2, SendingIsHeard
  <1>3. CASE /\ calls' = Tail(calls)
             /\ expected' = Without(c.id)
             /\ s' = IF c.thermal THEN s ELSE Failed(s, c)
             /\ word' = IF ~c.thermal /\ IsCurrent(s, c) THEN Contested ELSE word
             /\ UNCHANGED wire
    <2>1. Typed /\ Lock /\ wire = <<>> /\ wire' = <<>>
      BY <1>1, <1>3 DEF IInv, Still
    <2>2. s = None => s' = None
      BY <1>3 DEF Failed, IsCurrent
    <2>3. s # None => Fits(s) /\ Unaged(s)
      BY <2>1 DEF Typed, Still
    <2>4. s # None => Unaged(s')
      BY <1>3, <2>3, FailedDecides
    <2>5. Still'
      BY <2>1, <2>2, <2>4 DEF Still
    <2> SUFFICES ASSUME Counts' PROVE Heard'
      BY <2>5
    <2>6. s # None /\ word' # Contested
      BY <2>2 DEF Counts
    <2>7. s' = s /\ word' = word
      <3>1. c.thermal \/ ~IsCurrent(s, c)
        BY <1>3, <2>6
      <3> QED
        BY <1>3, <2>3, <2>6, <3>1, FailedKeeps
    <2>8. Counts /\ Heard /\ Alike(s, s')
      BY <2>6, <2>7 DEF Counts, Alike
    <2>9. expected' \subseteq expected
      BY <1>3 DEF Without
    <2>10. \A e \in expected : e.started => e \in expected'
      <3> SUFFICES ASSUME NEW e \in expected, e.started PROVE e.id # c.id
        BY <1>3 DEF Without
      <3>1. c = calls[1] /\ 1 \in 1..Len(calls)
        BY <1>1, <2>1, CallsInRange
      <3> QED
        BY <1>1, <2>1, <3>1, StartedEffect
    <2> QED
      BY <1>1, <1>3, <2>1, <2>7, <2>8, <2>9, <2>10, HeadLeaves
  <1> QED
    BY <1>2, <1>3 DEF TakesLock, Sending

\* An answer that comes in time, to the session that asked.
LEMMA AcceptedFacts ==
  ASSUME NEW x, Fits(x), Unaged(x), NEW q, q.value \in Speeds,
         IsCurrent(x, q) /\ ~Cancelled(x, q) => x.override.value = q.value,
         NEW t, t = Accepted(x, q)
  PROVE  /\ ~IsCurrent(x, q) => t = x
         /\ t # None /\ t.id = x.id /\ t.purpose = x.purpose /\ (x.moved => t.moved)
         /\ Unaged(t) /\ Effective(t) = Effective(x)
         /\ x.override = NoOverride => t.override = NoOverride
  <1> DEFINE shown == x # None /\ x.configured = q.value /\ x.age <= Fresh
  <1>1. shown \in BOOLEAN /\ t = Answer(x, q, "accepted", shown)
    BY DEF Accepted
  <1> HIDE DEF shown
  <1>2. Expire(x) = x /\ x \in Session /\ x # None
    BY UnagedStays, SessionFields DEF Fits
  <1>3. Keeps(x, t)
    BY <1>1, AnswerKeeps
  <1>4. t # None /\ t.id = x.id /\ t.purpose = x.purpose /\ (x.moved => t.moved)
    BY <1>3, SessionFields DEF Keeps, Fits
  <1>5. CASE ~IsCurrent(x, q)
    BY <1>1, <1>2, <1>4, <1>5 DEF Answer
  <1>6. CASE IsCurrent(x, q) /\ Cancelled(x, q)
    <2>1. t = [x EXCEPT !.cancelling = None]
      BY <1>1, <1>2, <1>6 DEF Answer
    <2>2. t.cancelling = None /\ t.override = x.override
      BY <1>2, <2>1 DEF Session
    <2> QED
      BY <1>4, <1>6, <2>2 DEF Unaged, Effective
  <1>7. CASE IsCurrent(x, q) /\ ~Cancelled(x, q)
    <2>1. /\ x.override.state = "pending" /\ x.override.request = q.id
          /\ x.cancelling = None /\ x.override \in Pending
      BY <1>2, <1>7, CurrentCall, SessionFields, OverrideKinds
    <2>2. x.override # NoOverride /\ Effective(x) = q.value
      BY <1>7, <2>1, OverrideKinds DEF Effective
    <2>3. CASE shown \/ x.override.correlated
      <3>1. t = [x EXCEPT !.override = Verified(q.value), !.cancelling = None]
        BY <1>1, <1>2, <1>7, <2>3 DEF Answer, Settle
      <3>2. t.override = Verified(q.value) /\ t.cancelling = None
        BY <1>2, <3>1 DEF Session
      <3> QED
        BY <1>4, <1>7, <2>2, <3>2, OverrideKinds DEF Unaged, Effective
    <2>4. CASE ~(shown \/ x.override.correlated)
      <3> DEFINE o == [x.override EXCEPT !.answer = "accepted"]
      <3>1. t = [x EXCEPT !.override = o]
        BY <1>1, <1>2, <1>7, <2>4 DEF Answer
      <3>2. /\ o.state = "pending" /\ o.value = x.override.value /\ o.left = x.override.left
        BY <2>1 DEF Pending
      <3> HIDE DEF o
      <3>3. t.override = o /\ t.cancelling = None
        BY <1>2, <2>1, <3>1 DEF Session
      <3> QED
        BY <1>4, <1>7, <2>1, <2>2, <3>2, <3>3 DEF Unaged, Effective
    <2> QED
      BY <2>3, <2>4
  <1> QED
    BY <1>5, <1>6, <1>7

LEMMA AnsweredIsHeard ==
  ASSUME IInv, Still, NoLoss, Counts => Heard, Answered
  PROVE  Still' /\ (Counts' => Heard')
  <1> DEFINE c == Head(calls)
             B == Baseline[s.purpose]
  <1>1. /\ calls # <<>> /\ c.sent /\ calls' = Tail(calls) /\ ~OnWire(c.id)
        /\ s' = IF c.thermal THEN s ELSE Accepted(s, c)
        /\ UNCHANGED <<truth, native, expected, word, wire>>
    BY DEF Answered, NoLoss
  <1>2. Typed /\ Lock /\ Held
    BY DEF IInv
  <1>3. /\ calls \in Seq(Call) /\ Queued(calls) /\ c = calls[1] /\ c \in Call
        /\ 1 \in 1..Len(calls) /\ c.value \in Speeds
    BY <1>1, <1>2, CallsInRange DEF Typed, Lock, Call
  <1>4. wire = <<>> /\ wire' = <<>>
    <2> SUFFICES ASSUME wire # <<>> PROVE FALSE
      BY <1>1
    <2> DEFINE w == [id |-> c.id, value |-> c.value]
    <2>1. wire = <<w>> /\ w.id = c.id
      BY DEF Still
    <2> HIDE DEF w
    <2>2. w \in Range(wire)
      BY <2>1 DEF Range
    <2> QED
      BY <1>1, <2>1, <2>2 DEF OnWire
  <1>5. s # None => Fits(s) /\ Unaged(s)
    BY <1>2 DEF Typed, Still
  <1>6. s = None => s' = None
    BY <1>1 DEF Accepted, Answer, Expire, IsCurrent
  <1>7. ASSUME s # None, IsCurrent(s, c), ~Cancelled(s, c)
        PROVE  s.override.value = c.value
    <2>1. s.override.state = "pending" /\ s.override.request = c.id
      BY <1>5, <1>7, CurrentCall
    <2> QED
      BY <1>2, <1>3, <1>7, <2>1 DEF Held, Belongs
  <1>8. s # None /\ ~c.thermal =>
          /\ ~IsCurrent(s, c) => s' = s
          /\ s' # None /\ s'.id = s.id /\ s'.purpose = s.purpose /\ (s.moved => s'.moved)
          /\ Unaged(s') /\ Effective(s') = Effective(s)
          /\ s.override = NoOverride => s'.override = NoOverride
    BY <1>1, <1>3, <1>5, <1>7, AcceptedFacts
  <1>9. Still'
    BY <1>1, <1>4, <1>5, <1>6, <1>8 DEF Still
  <1> SUFFICES ASSUME Counts' PROVE Heard'
    BY <1>9
  <1>10. s # None /\ word # Contested
    BY <1>1, <1>6 DEF Counts
  <1>11. Counts /\ Heard
    BY <1>1, <1>8, <1>10 DEF Counts
  <1>12. CASE c.thermal \/ ~IsCurrent(s, c)
    <2>1. s' = s
      BY <1>1, <1>8, <1>10, <1>12
    <2>2. Alike(s, s')
      BY <1>10, <2>1 DEF Alike
    <2> QED
      BY <1>1, <1>4, <1>11, <2>2, HeadLeaves
  <1>13. CASE ~c.thermal /\ IsCurrent(s, c)
    <2>1. Undecided(s) /\ \A d : IsCurrent(s, d) => d.id = c.id
      BY <1>5, <1>10, <1>13, CurrentCall
    <2>2. Effective(s) = Wanted
      BY <1>11, <2>1 DEF Heard, InForce, Unseen
    <2>3. Effective(s) = c.value
      <3>1. CASE Cancelled(s, c)
        <4>1. s.override = NoOverride /\ s.cancelling # None /\ s.cancelling.request = c.id
          BY <1>5, <1>10, <1>13, <3>1, CurrentCall
        <4>2. c.value = B
          BY <1>2, <1>3, <1>10, <4>1 DEF Held, Belongs
        <4> QED
          BY <4>1, <4>2, OverrideKinds DEF Effective
      <3>2. CASE ~Cancelled(s, c)
        <4>1. s.override.state = "pending" /\ s.override.value = c.value
          BY <1>5, <1>7, <1>10, <1>13, <3>2, CurrentCall
        <4> QED
          BY <4>1 DEF Effective
      <3> QED
        BY <3>1, <3>2
    <2>4. native = c.value
      BY <1>1, <1>11, <1>13 DEF Heard, Landed
    <2>5. Wanted' = Wanted /\ Effective(s') = Effective(s) /\ s'.id = s.id
          /\ (Left => Left')
      BY <1>1, <1>8, <1>10, <1>13 DEF Wanted, Left
    <2>6. InForce' /\ Adopts'
      BY <1>1, <2>2, <2>3, <2>4, <2>5 DEF InForce, Adopts
    <2>7. Landed'
      <3>1. calls' \in Seq(Call) /\ \A i \in 1..Len(calls') : ~calls'[i].sent
        BY <1>1, <1>3, TailFacts, QueueShrinks
      <3>2. calls' # <<>> => Head(calls') = calls'[1] /\ 1 \in 1..Len(calls')
        BY <3>1, TailFacts
      <3>3. calls' # <<>> => ~Head(calls').sent
        BY <3>1, <3>2
      <3> QED
        BY <3>3 DEF Landed
    \* Only the request that is answered now was waited for.
    <2>8. Newest'
      <3>1. CASE Left
        BY <2>5, <3>1 DEF Newest
      <3>2. CASE ~Left
        <4> SUFFICES ASSUME NEW i \in 1..Len(calls'), ~calls'[i].thermal,
                            calls'[i].session = s'.id
                     PROVE  FALSE
          BY DEF Newest
        <4>1. /\ Len(calls') = Len(calls) - 1 /\ Len(calls) \in Nat
              /\ calls'[i] = calls[i + 1]
          BY <1>1, <1>3, TailFacts
        <4>2. i + 1 \in 1..Len(calls)
          BY <4>1
        <4>3. PICK j \in 1..Len(calls) : /\ i + 1 <= j /\ ~calls[j].thermal
                                         /\ IsCurrent(s, calls[j])
          BY <1>11, <2>5, <3>2, <4>1, <4>2 DEF Heard, Newest
        <4>4. calls[j].id = calls[1].id
          BY <1>3, <2>1, <4>3
        <4>5. j = 1
          BY <1>3, <4>4 DEF Queued
        <4> QED
          BY <4>3, <4>5
      <3> QED
        BY <3>1, <3>2
    <2> QED
      BY <1>4, <2>6, <2>7, <2>8 DEF Heard, Harmless, Accounted
  <1> QED
    BY <1>12, <1>13

LEMMA EffectIsHeard ==
  ASSUME IInv, Still, Counts => Heard, TakesEffect
  PROVE  Still' /\ (Counts' => Heard')
  <1> DEFINE h == Head(calls)
             w == [id |-> h.id, value |-> h.value]
  <1>1. /\ wire # <<>> /\ native' = Head(wire).value /\ wire' = Tail(wire)
        /\ word' = IF word = native /\ truth # native /\ native' # native THEN Contested
                   ELSE word
        /\ UNCHANGED <<s, truth, expected, calls>>
    BY DEF TakesEffect
  <1>2. calls # <<>> /\ h.sent /\ wire = <<w>> /\ w.value = h.value
    BY <1>1 DEF Still
  <1> HIDE DEF w
  <1>3. native' = h.value /\ wire' = <<>>
    BY <1>1, <1>2
  <1>4. Still'
    BY <1>1, <1>3 DEF Still
  <1> SUFFICES ASSUME Counts' PROVE Heard'
    BY <1>4
  <1>5. /\ word' = word /\ ~(word = native /\ truth # native /\ native' # native)
        /\ Counts /\ Heard
    BY <1>1 DEF Counts
  <1>6. Typed /\ Fits(s)
    BY <1>5 DEF IInv, Typed, Counts
  <1>7. Wanted' = Wanted /\ (Left' <=> Left) /\ (Newest' <=> Newest)
        /\ \A v : Explains(v)' <=> Explains(v)
    BY <1>1, <1>5 DEF Wanted, Left, Newest, Explains
  <1>8. InForce'
    BY <1>1, <1>5, <1>7 DEF Heard, InForce, Unseen
  <1>9. Adopts'
    <2> SUFFICES ASSUME ~Undecided(s), truth # native'
                 PROVE  \/ native' = Wanted
                        \/ /\ native' = Baseline[s.purpose]
                           /\ \E e \in expected : e.started /\ e.value = native'
      BY <1>1, <1>7 DEF Adopts, Explains
    <2>1. ~Asked
      BY <1>6, CurrentCall DEF Asked
    <2>2. h.value = Baseline[s.purpose]
      BY <1>1, <1>5, <2>1 DEF Heard, Harmless
    <2>3. \/ \E e \in expected : e.started /\ e.id = h.id /\ e.value = h.value
          \/ truth = native /\ native = h.value
          \/ Left
      BY <1>1, <1>5, <2>1 DEF Heard, Accounted
    <2>4. CASE \E e \in expected : e.started /\ e.id = h.id /\ e.value = h.value
      BY <1>3, <2>2, <2>4
    <2>5. CASE truth = native /\ native = h.value
      BY <1>3, <2>5
    <2>6. CASE Left
      BY <1>3, <1>6, <2>2, <2>6, WantedFacts
    <2> QED
      BY <2>3, <2>4, <2>5, <2>6
  <1>10. Landed'
    BY <1>1, <1>3 DEF Landed
  <1> QED
    BY <1>3, <1>5, <1>7, <1>8, <1>9, <1>10 DEF Heard, Harmless, Accounted

LEMMA PanelIsHeard ==
  ASSUME IInv, Still, Counts => Heard, Panel
  PROVE  Still' /\ (Counts' => Heard')
  <1>1. /\ native' \in Speeds \ {native}
        /\ word' = IF s = None THEN None
                   ELSE IF Quiet /\ \A e \in expected : e.value # native' THEN native'
                   ELSE Contested
        /\ UNCHANGED <<s, truth, expected, calls, wire>>
    BY DEF Panel
  <1>2. Still'
    BY <1>1 DEF Still
  <1> SUFFICES ASSUME Counts' PROVE Heard'
    BY <1>2
  <1>3. /\ Quiet /\ word' = native' /\ \A e \in expected : e.value # native'
        /\ s' # None
    BY <1>1 DEF Counts
  <1>4. calls' = <<>> /\ wire' = <<>> /\ ~Undecided(s') /\ truth' # native'
    BY <1>1, <1>3 DEF Quiet
  <1>5. word' # None
    BY <1>1, <1>3, NoneAssumption
  <1>6. InForce'
    BY <1>1, <1>3, <1>4 DEF InForce, Unseen, Explains
  <1>7. Adopts'
    BY <1>3, <1>5 DEF Adopts, Wanted
  <1>8. Newest'
    <2>1. Len(calls') = 0
      BY <1>4
    <2> QED
      BY <2>1 DEF Newest
  <1> QED
    BY <1>4, <1>6, <1>7, <1>8 DEF Heard, Landed, Harmless, Accounted

\* The consequence of a request decides none that is still to be sent or answered.
LEMMA CorrelatedKeepsCalls ==
  ASSUME NEW x, Fits(x), NEW q, NEW v \in Speeds, NEW t, t = Correlated(x, q, v),
         NEW cs, Belongs(x, cs)
  PROVE  /\ Unaged(x) => Unaged(t)
         /\ x.override = NoOverride => t.override = NoOverride
         /\ \A i \in 1..Len(cs) : IsCurrent(t, cs[i]) <=> IsCurrent(x, cs[i])
  <1> DEFINE meant == x.override.state = "pending" /\ x.override.request = q
                        /\ x.override.value = v
  <1>1. /\ Keeps(x, t)
        /\ ~meant => t.override = x.override /\ t.cancelling = x.cancelling
        /\ meant /\ x.override.answer = "none"
             => /\ t.override.state = "pending" /\ t.override.request = q
                /\ t.override.left = x.override.left /\ t.cancelling = x.cancelling
        /\ meant /\ x.override.answer # "none"
             => /\ t.override = IF v = Baseline[x.purpose] THEN NoOverride ELSE Verified(v)
                /\ t.cancelling = None
    BY CorrelatedFacts
  <1>2. Fits(t) /\ t # None /\ x # None /\ t.id = x.id
    BY <1>1, SessionFields DEF Keeps, Fits
  <1>3. CASE ~meant
    <2>1. t.override = x.override /\ t.cancelling = x.cancelling
      BY <1>1, <1>3
    <2> QED
      BY <1>2, <2>1 DEF Unaged, IsCurrent, Cancelled
  <1>4. CASE meant /\ x.override.answer = "none"
    <2>1. x.override # NoOverride
      BY <1>4, OverrideKinds
    <2>2. /\ x.override.state = "pending" /\ x.override.request = q
          /\ t.override.state = "pending" /\ t.override.request = q
          /\ t.override.left = x.override.left /\ t.cancelling = x.cancelling
      BY <1>1, <1>4
    <2> QED
      BY <1>2, <2>1, <2>2 DEF Unaged, IsCurrent, Cancelled
  <1>5. CASE meant /\ x.override.answer # "none"
    <2>1. t.override \in Settled /\ t.cancelling = None
      BY <1>1, <1>5, OverrideKinds
    <2>2. Unaged(t) /\ \A c : ~IsCurrent(t, c)
      BY <1>2, <2>1, DecidedFacts
    <2>3. x.override # NoOverride
      BY <1>5, OverrideKinds
    <2>4. ASSUME NEW i \in 1..Len(cs), IsCurrent(x, cs[i]) PROVE FALSE
      <3>1. x.override.request = cs[i].id
        BY <1>5, <2>3, <2>4, CurrentCall
      <3> QED
        BY <1>5, <3>1 DEF Belongs
    <2> QED
      BY <2>2, <2>3, <2>4
  <1> QED
    BY <1>3, <1>4, <1>5

\* A frame in which the session goes on.
LEMMA SessionGoesOn ==
  ASSUME Typed, Heard, s'.id = s.id, s'.purpose = s.purpose,
         UNCHANGED <<calls, wire, native, word>>, truth' = native,
         \A i \in 1..Len(calls) : IsCurrent(s', calls[i]) <=> IsCurrent(s, calls[i]),
         Left => s'.override = NoOverride, Effective(s') = Wanted,
         \A e \in expected : e.started => e \in expected' \/ e.value = native
  PROVE  Heard'
  <1>1. Wanted' = Wanted /\ (Left => Left') /\ (Asked' <=> Asked)
    BY DEF Wanted, Left, Asked
  <1>2. InForce' /\ Adopts'
    BY <1>1 DEF InForce, Adopts
  <1>3. Landed'
    <2>1. calls # <<>> => Head(calls) = calls[1] /\ 1 \in 1..Len(calls)
      BY CallsInRange
    <2> QED
      BY <2>1 DEF Heard, Landed, OnWire
  <1>4. Newest'
    <2>1. CASE Left
      BY <1>1, <2>1 DEF Newest
    <2>2. CASE ~Left
      BY <2>2 DEF Heard, Newest
    <2> QED
      BY <2>1, <2>2
  <1>5. Harmless'
    BY <1>1 DEF Heard, Harmless
  <1>6. Accounted'
    <2> SUFFICES ASSUME wire' # <<>>, ~Asked'
                 PROVE  \/ \E e \in expected' : /\ e.started /\ e.id = Head(calls').id
                                                /\ e.value = Head(calls').value
                        \/ truth' = native' /\ native' = Head(calls').value
                        \/ Left'
      BY DEF Accounted
    <2>1. \/ \E e \in expected : /\ e.started /\ e.id = Head(calls).id
                                 /\ e.value = Head(calls).value
          \/ truth = native /\ native = Head(calls).value
          \/ Left
      BY <1>1 DEF Heard, Accounted
    <2> QED
      BY <1>1, <2>1
  <1> QED
    BY <1>2, <1>3, <1>4, <1>5, <1>6 DEF Heard

\* What stays with the frames to come, and how the session of a frame hears of it.
LEMMA FrameRetains ==
  ASSUME Typed, NEW f, FrameIs(f)
  PROVE  /\ retained' \in Change \cup {None}
         /\ ExternalIn(f) => /\ retained' # None /\ retained'.value = native
                             /\ (Concerns(retained') <=> (BeginsIn(f) => f.positive))
         /\ ~ExternalIn(f) => (Concerns(retained') => Concerns(retained) /\ ~BeginsIn(f))
  <1>1. retained' = RetainedIn(f, BeginsIn(f), ExternalIn(f))
    BY DEF FrameIs
  <1>2. BeginsIn(f) \in BOOLEAN /\ ExternalIn(f) \in BOOLEAN /\ f.positive \in BOOLEAN
    BY DEF BeginsIn, ExternalIn, FrameIs, ChangedIn
  <1> QED
    BY <1>1, <1>2, RetainedFacts

LEMMA FrameIsTold ==
  ASSUME Typed, NEW f, FrameIs(f), NEW x, x = SessionIn(f), Fits(x)
  PROVE  /\ Keeps(x, s') /\ s'.moved = x.moved
         /\ ExplainedIn(f) = {} \/ BeginsIn(f) =>
              /\ ExternalIn(f) /\ Concerns(retained') /\ ~Undecided(x) =>
                   /\ s'.override = IF retained'.value = Baseline[x.purpose] THEN NoOverride
                                    ELSE Verified(retained'.value)
                   /\ s'.cancelling = None
                   /\ Effective(s') = retained'.value
              /\ ExternalIn(f) /\ Concerns(retained') /\ Undecided(x) =>
                   s'.override = x.override /\ s'.cancelling = x.cancelling
              /\ ~Concerns(retained') =>
                   s'.override = x.override /\ s'.cancelling = x.cancelling
         /\ ~ExternalIn(f) /\ (Concerns(retained') => x.spent) =>
              s' = x \/ \E e \in ExplainedIn(f) : s' = Correlated(x, e.id, native)
  <1>1. s' = Hears(f, x, BeginsIn(f), retained', ExplainedIn(f), ExternalIn(f))
    BY DEF FrameIs
  <1>2. BeginsIn(f) \in BOOLEAN /\ ExternalIn(f) \in BOOLEAN
    BY DEF BeginsIn, ExternalIn, ChangedIn
  <1>3. retained' \in Change \cup {None} /\ (ExternalIn(f) => retained' # None)
    BY FrameRetains
  <1>4. ExplainedIn(f) \subseteq Expectation /\ native \in Speeds
    BY DEF Typed, ExplainedIn, Explaining, WaitingIn
  <1> QED
    BY <1>1, <1>2, <1>3, <1>4, HearsFacts DEF Expectation

LEMMA BeginsIsHeard ==
  ASSUME IInv, Still, NEW f, FrameIs(f), SessionIn(f) # None, BeginsIn(f)
  PROVE  Still' /\ (Counts' => Heard')
  <1> DEFINE x == SessionIn(f)
  <1>1. Typed /\ Lock
    BY DEF IInv
  <1>2. /\ truth' = native
        /\ retained' = RetainedIn(f, BeginsIn(f), ExternalIn(f))
        /\ s' = Hears(f, x, BeginsIn(f), retained', ExplainedIn(f), ExternalIn(f))
        /\ word' = IF wire # <<>> THEN Contested
                   ELSE IF ExternalIn(f) /\ f.positive THEN native
                   ELSE None
        /\ UNCHANGED <<calls, wire, native>>
    BY DEF FrameIs
  <1>3. BeginsIn(f) \in BOOLEAN /\ ExternalIn(f) \in BOOLEAN /\ f.positive \in BOOLEAN
    BY DEF BeginsIn, ExternalIn, FrameIs, ChangedIn
  <1>4. /\ retained' \in Change \cup {None}
        /\ ExternalIn(f) => /\ retained' # None /\ retained'.value = native
                            /\ (Concerns(retained') <=> f.positive)
        /\ ~ExternalIn(f) => ~Concerns(retained')
    BY <1>1, FrameRetains
  <1>5. PICK p \in Purposes : x = Started(FreshSession, p, native)
    BY <1>1, SessionInFacts
  <1>5a. x = SessionIn(f)
    OBVIOUS
  <1> HIDE DEF x
  <1>6. /\ Fits(x) /\ x.id = FreshSession /\ x.override = NoOverride /\ x.cancelling = None
    <2>1. FreshSession \in Sessions /\ native \in Speeds
      BY <1>1, FreshSessionIsNew DEF Typed
    <2> DEFINE y == Started(FreshSession, p, native)
    <2>2. Fits(y) /\ y.id = FreshSession
      BY <2>1, StartedFacts
    <2>3. y.override = NoOverride /\ y.cancelling = None
      BY DEF Started
    <2> HIDE DEF y
    <2> QED
      BY <1>5, <2>2, <2>3 DEF y
  <1>7. ~Undecided(x)
    BY <1>6, DecidedFacts, OverrideKinds
  <1>8. native \in Speeds /\ ExplainedIn(f) \subseteq Expectation
    BY <1>1 DEF Typed, ExplainedIn, Explaining, WaitingIn
  <1>9. /\ Keeps(x, s')
        /\ ExternalIn(f) /\ f.positive =>
             /\ s'.override = IF native = Baseline[x.purpose] THEN NoOverride ELSE Verified(native)
             /\ s'.cancelling = None
             /\ Effective(s') = native
        /\ ~(ExternalIn(f) /\ f.positive) => s'.override = NoOverride /\ s'.cancelling = None
    <2>1. /\ Keeps(x, s')
          /\ ExternalIn(f) /\ Concerns(retained') /\ ~Undecided(x) =>
               /\ s'.override = IF retained'.value = Baseline[x.purpose] THEN NoOverride
                                ELSE Verified(retained'.value)
               /\ s'.cancelling = None
               /\ Effective(s') = retained'.value
          /\ ~Concerns(retained') => s'.override = x.override /\ s'.cancelling = x.cancelling
      BY <1>1, <1>5a, <1>6, FrameIsTold
    <2> QED
      BY <1>4, <1>6, <1>7, <2>1
  <1>10. /\ Fits(s') /\ s' # None /\ s'.id = FreshSession
         /\ s'.override \in Settled /\ s'.cancelling = None
    BY <1>6, <1>8, <1>9, SessionFields, OverrideKinds DEF Keeps, Fits
  <1>11. ~Undecided(s') /\ Unaged(s') /\ \A c : ~IsCurrent(s', c)
    BY <1>10, DecidedFacts
  <1>12. Still'
    BY <1>2, <1>11 DEF Still
  <1> SUFFICES ASSUME Counts' PROVE Heard'
    BY <1>12
  <1>13. wire' = <<>> /\ word' = IF ExternalIn(f) /\ f.positive THEN native ELSE None
    BY <1>2 DEF Counts
  <1>14. InForce'
    <2>1. native # None
      BY <1>8, NoneAssumption
    <2>2. s'.override = NoOverride => Effective(s') = Baseline[s'.purpose]
      BY OverrideKinds DEF Effective
    <2>3. Effective(s') = Wanted'
      BY <1>9, <1>13, <2>1, <2>2 DEF Wanted
    <2> QED
      BY <2>3 DEF InForce
  <1>15. Adopts' /\ Landed'
    BY <1>2, <1>11 DEF Adopts, Landed
  <1>16. Newest'
    BY <1>1, <1>2, <1>10, FreshSessionIsNew DEF Newest
  <1> QED
    BY <1>13, <1>14, <1>15, <1>16 DEF Heard, Harmless, Accounted

LEMMA FrameIsHeard ==
  ASSUME IInv, Still, Counts => Heard, NEW f, FrameIs(f)
  PROVE  Still' /\ (Counts' => Heard')
  <1> DEFINE x == SessionIn(f)
             X == ExplainedIn(f)
             external == ExternalIn(f)
  <1>1. Typed /\ Lock /\ Held
    BY DEF IInv
  <1>2. /\ truth' = native
        /\ expected' = WaitingIn(f) \ X
        /\ retained' = RetainedIn(f, BeginsIn(f), external)
        /\ s' = Hears(f, x, BeginsIn(f), retained', X, external)
        /\ s' # None /\ ~BeginsIn(f) => word' = word
        /\ UNCHANGED <<calls, wire, native>>
    BY DEF FrameIs
  <1>3. BeginsIn(f) \in BOOLEAN /\ external \in BOOLEAN /\ f.positive \in BOOLEAN
        /\ f.auto \in BOOLEAN /\ f.again \in BOOLEAN
    BY DEF BeginsIn, ExternalIn, FrameIs, ChangedIn
  <1>4. CASE x = None
    <2>1. s' = None
      BY <1>2, <1>4 DEF Hears
    <2> QED
      BY <1>2, <2>1 DEF Still, Counts
  <1>5. CASE x # None /\ BeginsIn(f)
    BY <1>5, BeginsIsHeard
  <1>6. CASE x # None /\ ~BeginsIn(f)
    <2>1. /\ s # None /\ f.auto /\ Keeps(s, x) /\ x.spent = s.spent
          /\ ~x.moved => ~s.moved /\ ~f.again
          /\ x.override = Expire(s).override /\ x.cancelling = Expire(s).cancelling
      BY <1>1, <1>6, SessionInFacts
    <2>2. Fits(s) /\ Unaged(s) /\ Belongs(s, calls) /\ comparing /\ base.auto = TRUE
      BY <1>1, <2>1 DEF Typed, Still, Held
    <2>3. x.override = s.override /\ x.cancelling = s.cancelling
      BY <2>1, <2>2, UnagedStays
    <2>4. Fits(x) /\ x.id = s.id /\ x.purpose = s.purpose
      BY <2>1 DEF Keeps
    <2>5. /\ \A c : IsCurrent(x, c) <=> IsCurrent(s, c)
          /\ Effective(x) = Effective(s) /\ (Undecided(x) <=> Undecided(s))
          /\ Unaged(x) /\ Belongs(x, calls)
      BY <1>6, <2>1, <2>2, <2>3, <2>4
         DEF IsCurrent, Cancelled, Effective, Undecided, IsPending, Unaged, Belongs
    <2>6. /\ WaitingIn(f) = expected /\ X \subseteq expected
          /\ X \subseteq Expectation /\ native \in Speeds
          /\ \A e \in X : e.value = native
      BY <1>1, <1>3, <2>1, <2>2 DEF WaitingIn, ExplainedIn, Explaining, Typed
    <2>7. /\ external => /\ X = {} /\ truth # native
                         /\ \A e \in expected : ~(e.started /\ e.value = native)
          /\ ~external /\ ~f.again /\ truth # native
               => \E e \in expected : e.started /\ e.value = native
      BY <2>2, <2>6 DEF ExternalIn, ExplainedIn, ChangedIn, Explaining
    <2>8. /\ external => retained'.value = native /\ Concerns(retained')
          /\ ~external => (Concerns(retained') => Concerns(retained))
      BY <1>1, <1>6, FrameRetains
    <2>9. ~external => (Concerns(retained') => x.spent)
      BY <1>1, <2>1, <2>8 DEF Held
    <2> HIDE DEF x, X, external
    <2>10. /\ Keeps(x, s') /\ s'.moved = x.moved
           /\ external /\ ~Undecided(x) =>
                /\ s'.override = IF native = Baseline[x.purpose] THEN NoOverride
                                 ELSE Verified(native)
                /\ s'.cancelling = None
                /\ Effective(s') = native
           /\ external /\ Undecided(x) =>
                s'.override = x.override /\ s'.cancelling = x.cancelling
           /\ ~external => s' = x \/ \E e \in X : s' = Correlated(x, e.id, native)
      <3>2. /\ Keeps(x, s') /\ s'.moved = x.moved
            /\ X = {} \/ BeginsIn(f) =>
                 /\ external /\ Concerns(retained') /\ ~Undecided(x) =>
                      /\ s'.override
                          = IF retained'.value = Baseline[x.purpose] THEN NoOverride
                            ELSE Verified(retained'.value)
                      /\ s'.cancelling = None
                      /\ Effective(s') = retained'.value
                 /\ external /\ Concerns(retained') /\ Undecided(x) =>
                      s'.override = x.override /\ s'.cancelling = x.cancelling
            /\ ~external /\ (Concerns(retained') => x.spent) =>
                 s' = x \/ \E e \in X : s' = Correlated(x, e.id, native)
        BY <1>1, <2>4, FrameIsTold DEF x, X, external
      <3> QED
        BY <2>7, <2>8, <2>9, <3>2
    <2>11. Fits(s') /\ s' # None /\ s'.id = s.id /\ s'.purpose = s.purpose
      BY <2>4, <2>10, SessionFields DEF Keeps, Fits
    \* What is still waited for stays, and what is adopted was asked for.
    <2>12. CASE ~external
      <3>1. /\ Unaged(s') /\ Effective(s') = Effective(s)
            /\ s.override = NoOverride => s'.override = NoOverride
            /\ \A i \in 1..Len(calls) : IsCurrent(s', calls[i]) <=> IsCurrent(s, calls[i])
        <4>1. CASE s' = x
          BY <2>3, <2>5, <4>1
        <4>2. CASE \E e \in X : s' = Correlated(x, e.id, native)
          <5>1. PICK e \in X : s' = Correlated(x, e.id, native)
            BY <4>2
          <5> DEFINE t == s'
          <5>2. t = Correlated(x, e.id, native)
            BY <5>1
          <5> HIDE DEF t
          <5>3. /\ Unaged(x) => Unaged(t)
                /\ x.override = NoOverride => t.override = NoOverride
                /\ \A i \in 1..Len(calls) : IsCurrent(t, calls[i]) <=> IsCurrent(x, calls[i])
            BY <2>4, <2>5, <2>6, <5>2, CorrelatedKeepsCalls
          <5>4. Effective(t) = Effective(x)
            BY <2>4, <2>6, <5>2, CorrelatedFacts
          <5> QED
            BY <2>3, <2>5, <5>3, <5>4 DEF t
        <4> QED
          BY <2>10, <2>12, <4>1, <4>2
      <3>2. Still'
        BY <1>2, <3>1 DEF Still
      <3> SUFFICES ASSUME Counts' PROVE Heard'
        BY <3>2
      <3>3. word' = word /\ ~f.again /\ Counts /\ Heard
        BY <1>2, <1>6, <2>1, <2>10, <2>11 DEF Counts
      <3>4. Effective(s) = Wanted
        BY <2>7, <2>12, <3>3 DEF Heard, InForce, Unseen, Explains
      <3>5. \A e \in expected : e.started => e \in expected' \/ e.value = native
        BY <1>2, <2>6
      <3> QED
        BY <1>1, <1>2, <2>11, <3>1, <3>3, <3>4, <3>5, SessionGoesOn DEF Left
    <2>13. CASE external /\ Undecided(s)
      <3>1. /\ s'.override = s.override /\ s'.cancelling = s.cancelling
        BY <2>3, <2>5, <2>10, <2>13
      <3>2. /\ Unaged(s') /\ Effective(s') = Effective(s)
            /\ \A c : IsCurrent(s', c) <=> IsCurrent(s, c)
        BY <2>1, <2>2, <2>11, <3>1 DEF Unaged, Effective, IsCurrent, Cancelled
      <3>3. Still'
        BY <1>2, <3>2 DEF Still
      <3> SUFFICES ASSUME Counts' PROVE Heard'
        BY <3>3
      <3>4. word' = word /\ Counts /\ Heard
        BY <1>2, <1>6, <2>1, <2>10, <2>11 DEF Counts
      <3>5. Effective(s) = Wanted
        BY <2>13, <3>4 DEF Heard, InForce, Unseen
      <3>6. expected' = expected
        BY <1>2, <2>6, <2>7, <2>13
      <3> QED
        BY <1>1, <1>2, <2>11, <3>1, <3>2, <3>4, <3>5, <3>6, SessionGoesOn DEF Left
    <2>14. CASE external /\ ~Undecided(s)
      <3>1. /\ s'.override = IF native = Baseline[s.purpose] THEN NoOverride ELSE Verified(native)
            /\ s'.cancelling = None /\ Effective(s') = native
        BY <2>4, <2>5, <2>10, <2>14
      <3>2. s'.override \in Settled
        BY <2>6, <3>1, OverrideKinds
      <3>3. Unaged(s') /\ (\A c : ~IsCurrent(s', c)) /\ (\A c : ~IsCurrent(s, c))
        BY <2>2, <2>11, <2>14, <3>1, <3>2, DecidedFacts
      <3>4. Still'
        BY <1>2, <3>3 DEF Still
      <3> SUFFICES ASSUME Counts' PROVE Heard'
        BY <3>4
      <3>5. word' = word /\ Counts /\ Heard
        BY <1>2, <1>6, <2>1, <2>10, <2>11 DEF Counts
      <3>6. native = Wanted
        BY <2>7, <2>14, <3>5 DEF Heard, Adopts, Explains
      <3>7. Left => s'.override = NoOverride
        BY <1>1, <3>1, <3>6, WantedFacts
      <3>8. expected' = expected
        BY <1>2, <2>6, <2>7, <2>14
      <3> QED
        BY <1>1, <1>2, <2>11, <3>1, <3>3, <3>5, <3>6, <3>7, <3>8, SessionGoesOn
    <2> QED
      BY <2>12, <2>13, <2>14
  <1> QED
    BY <1>4, <1>5, <1>6 DEF x

LEMMA MaintainsIsHeard == Still /\ Maintains => Still' /\ ~Counts'
  BY DEF Maintains, Still, Counts

LEMMA InitIsHeard == Init => WordInv
  BY DEF Init, WordInv, Still, Counts

LEMMA EnvironmentStays == [Next]_vars => env' = env
  BY DEF vars, Next, ManualAsks, ThermalAsks, TakesLock, Answered, TakesEffect, Panel,
         TimePasses, Frame, Maintains

LEMMA WordInductive == IInv /\ WordInv /\ [Next]_vars => WordInv'
  <1> SUFFICES ASSUME IInv, WordInv, [Next]_vars, NoLoss' PROVE Still' /\ (Counts' => Heard')
    BY DEF WordInv
  <1>1. NoLoss
    BY EnvironmentStays DEF NoLoss
  <1>2. Still /\ (Counts => Heard)
    BY <1>1 DEF WordInv
  <1>3. CASE UNCHANGED vars
    BY <1>2, <1>3 DEF vars, Still, Counts, Heard, InForce, Unseen, Explains, Wanted, Adopts,
       Landed, OnWire, Newest, Harmless, Accounted, Left, Asked
  <1>4. CASE ManualAsks
    BY <1>2, <1>4, ManualIsHeard
  <1>5. CASE ThermalAsks
    BY <1>2, <1>5, ThermalIsHeard
  <1>6. CASE TakesLock
    BY <1>2, <1>6, TakesLockIsHeard
  <1>7. CASE Answered
    BY <1>1, <1>2, <1>7, AnsweredIsHeard
  <1>8. CASE TakesEffect
    BY <1>2, <1>8, EffectIsHeard
  <1>9. CASE Panel
    BY <1>2, <1>9, PanelIsHeard
  <1>10. CASE TimePasses
    BY <1>1, <1>10 DEF TimePasses, NoLoss
  <1>11. CASE Frame
    BY <1>2, <1>11, FrameSteps, FrameIsHeard
  <1>12. CASE Maintains
    BY <1>2, <1>12, MaintainsIsHeard
  <1> QED
    BY <1>3, <1>4, <1>5, <1>6, <1>7, <1>8, <1>9, <1>10, <1>11, <1>12 DEF Next

\* Nothing is under way, and nothing done on the panel is still to be shown.
LEMMA WordImplies == IInv /\ WordInv => LastWordIsKept
  <1> SUFFICES ASSUME IInv, WordInv, Quiet, s # None, s.usable, word # Contested, NoLoss
               PROVE  Effective(s) = Wanted
    BY DEF LastWordIsKept, NoLoss, Wanted
  <1>1. Fits(s)
    BY DEF IInv, Typed
  <1>2. Counts /\ Heard
    BY <1>1 DEF Fits, Counts, WordInv
  <1> QED
    BY <1>2 DEF Heard, InForce, Unseen, Quiet

\* Once everything under way is decided, the speed in force is the one somebody asked for
\* last in this session, whatever was superseded, refused, replayed or seen late: for
\* every number of speeds, purposes and commands on their way.
THEOREM LastWordStands == Spec => []LastWordIsKept
  <1>1. Init => IInv /\ WordInv
    BY InitEstablishes, InitIsHeard
  <1>2. IInv /\ WordInv /\ [Next]_vars => IInv' /\ WordInv'
    BY Inductive, WordInductive
  <1>3. IInv /\ WordInv => LastWordIsKept
    BY WordImplies
  <1> QED
    BY <1>1, <1>2, <1>3, PTL DEF Spec
=============================================================================
