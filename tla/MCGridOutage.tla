---------------------------- MODULE MCGridOutage ----------------------------
(***************************************************************************)
(* Instances of GridOutageRuntime.  The second and third environments are  *)
(* the benign ones in which everything is reduced in the end; each other   *)
(* one crosses two or three of the things that can go wrong.               *)
(***************************************************************************)
EXTENDS GridOutageRuntime

E(changes, on, owned) == [changes |-> changes, on |-> on, owned |-> owned]

OutageEnvironments ==
  {E({"unknown", "return", "late"}, {"light"}, FALSE),
   E({"lost", "lags"}, {"pool", "speed", "light", "waterfall"}, TRUE),
   E({"lost", "lags"}, {"spa", "spa_source", "slide"}, FALSE),
   E({"outsider", "lags", "late"}, {"light"}, FALSE),
   E({"outsider", "blind", "lingers"}, {"pool"}, TRUE),
   E({"immediate", "freeze", "lingers", "restraint"}, {"pool", "pool_source", "speed"}, TRUE),
   E({"gate", "return"}, {"light"}, FALSE),
   E({"ambiguous", "maintenance", "return", "late"}, {"light"}, FALSE),
   E({"handoff", "stale", "unknown"}, {"light"}, FALSE),
   E({"handoff", "ambiguous", "lost"}, {"light"}, FALSE),
   E({"failure", "unload", "late"}, {"spa", "spa_source"}, FALSE)}

\* PoolOS owns the Pool when the outage begins; somebody else may switch it.
UnownedPool == {E({"outsider"}, {"pool"}, TRUE)}
=============================================================================
