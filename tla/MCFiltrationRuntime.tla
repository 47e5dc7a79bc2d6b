------------------------- MODULE MCFiltrationRuntime -------------------------
(***************************************************************************)
(* Instances of FiltrationRuntime.  One filtration lease and, under        *)
(* "return", the one thermal gives back; one verification period of one    *)
(* tick.  Each configuration lets the environment be one of those its      *)
(* properties are exposed to.                                              *)
(***************************************************************************)
EXTENDS FiltrationRuntime

(***************************************************************************)
(* Epochs and sessions are names, new ones whichever nothing refers to, so *)
(* two states that differ in the names only are one.  The View has, where  *)
(* the state has a name, the first place that has the same name.  The      *)
(* sessions in the frozen signature are those of the lease with the        *)
(* generation in it.  States that are one by the View take the same steps  *)
(* up to names, and no property or fairness names one.                     *)
(***************************************************************************)
Pattern(names) ==
  [i \in DOMAIN names |->
     IF names[i] = None THEN 0 ELSE CHOOSE j \in 1..i : /\ names[j] = names[i]
                                                        /\ \A k \in 1..(j-1) : names[k] # names[i]]

EpochNames ==
  <<reg.epoch, reg.reserved, auth.epoch, drv.after,
    IF drv.last = None THEN None ELSE drv.last.epoch,
    IF task = None THEN None ELSE task.frame.epoch,
    IF latest = None THEN None ELSE latest.frame.epoch>>

SessionNames ==
  <<drv.session,
    IF auth.context = None THEN None ELSE auth.context.session,
    IF reg.lease = None THEN None ELSE reg.lease.session,
    IF reg.lease = None THEN None ELSE reg.lease.body_session.id,
    IF reg.handoff = None THEN None ELSE reg.handoff.body_session.id>>

View ==
  <<disturbances, now, plant, suppressed, Pattern(EpochNames), Pattern(SessionNames),
    [reg EXCEPT !.epoch = None, !.reserved = None,
                !.lease = IF @ = None THEN @
                          ELSE [@ EXCEPT !.session = None, !.body_session.id = None],
                !.handoff = IF @ = None THEN @ ELSE [@ EXCEPT !.body_session.id = None]],
    [drv EXCEPT !.session = None, !.after = None,
                !.last = IF @ = None THEN @ ELSE [@ EXCEPT !.epoch = None]],
    [auth EXCEPT !.epoch = None,
                 !.context = IF @ = None THEN @ ELSE [@ EXCEPT !.session = None]],
    IF task = None THEN None ELSE [task EXCEPT !.frame.epoch = None],
    IF latest = None THEN None
    ELSE [latest EXCEPT !.frame.epoch = None,
            !.signature = IF @ = None \/ @[11] = None THEN @
                          ELSE [@ EXCEPT ![11][2] = None, ![11][9].id = None]]>>
=============================================================================
