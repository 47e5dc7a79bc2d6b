---------------------------- MODULE MCSanitation ----------------------------
(***************************************************************************)
(* Instances of SanitationRuntime.                                         *)
(***************************************************************************)
EXTENDS SanitationRuntime

E(changes, on, turned) == [changes |-> changes, on |-> on, turned |-> turned]

SanitationEnvironments ==
  {E({"lost", "cancel"}, {"heat"}, {}),
   E({"lost", "off"}, {"target"}, {}),
   E({"lost", "grid"}, {}, {}),
   E({"grid", "unknown"}, {"target"}, {}),
   E({"pump", "stale"}, {"target"}, {}),
   E({"denied"}, {"target"}, {"target", "other"}),
   E({"crash", "cancel", "late"}, {"target"}, {}),
   E({"reload", "cancel"}, {"target"}, {}),
   E({"reload", "reset"}, {"target"}, {}),
   E({"reset", "late"}, {"target"}, {})}

\* Either way the entry starts anew: after a reload, and after a crash.
CancelEnvironments == {E({"reload", "off"}, {"target"}, {}), E({"crash", "off"}, {"target"}, {})}

(***************************************************************************)
(* There are two sessions, and which has which name does not matter; nor   *)
(* does the order of the saves under way, or which token a context is      *)
(* beyond whether it is the task's.  The View tells states apart by the    *)
(* rest: the session that is named first is TRUE, the other FALSE.         *)
(***************************************************************************)
View ==
  LET named == SelectSeq(<<session, stored, task>> \o [k \in DOMAIN writes |-> writes[k].held],
                         LAMBDA s : s # None)
      First(id) == named # <<>> /\ id = named[1].id
      Named(s)  == IF s = None THEN None ELSE [s EXCEPT !.id = First(@)]
      saves == [k \in DOMAIN writes |-> [writes[k] EXCEPT !.held = Named(@)]]
  IN <<env, up, off, wire, plant, steady, persisted, pending, Named(session), Named(stored),
       {<<w, Cardinality({k \in DOMAIN saves : saves[k] = w})>> : w \in Range(saves)},
       {First(id) : id \in ended}, {First(id) : id \in final}, Cardinality(ended), Cardinality(final),
       IF task = None THEN None
       ELSE [Named(task) EXCEPT !.context = @ = a.current["SANITATION"]],
       [a EXCEPT !.current["SANITATION"] = @ = None, !.sanitation = Named(@)]>>
=============================================================================
