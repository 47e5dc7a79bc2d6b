-------------------------- MODULE MCCommandGateway --------------------------
(***************************************************************************)
(* Instances of CommandGateway.  Each environment lets two or three        *)
(* sources compete for the lock while the changes happen that can withdraw *)
(* what they ask.  The names of contexts are numbers: CHOOSE picks the     *)
(* first unused one, so they are not symmetric.                            *)
(***************************************************************************)
EXTENDS CommandGateway

On(source, target)  == [source |-> source, target |-> target, on |-> TRUE]
Off(source, target) == [source |-> source, target |-> target, on |-> FALSE]

GatewayEnvironments ==
  {\* a restraint, Maintenance and a restart against automatic work
   [asked   |-> {On("FILTRATION", "pool"), On("MANUAL", "light")},
    changes |-> {"suppress", "maintenance", "restart"}],
   \* the gates and sanitation
   [asked   |-> {On("THERMAL", "spa_source"), Off("FILTRATION", "pool")},
    changes |-> {"thermal", "filtration", "sanitation"}],
   [asked   |-> {On("MANUAL", "spa"), On("SANITATION", "pool")},
    changes |-> {"sanitation", "mode", "reconnect"}],
   \* an outage begins, reduces and ends
   [asked   |-> {Off("OUTAGE", "light"), On("MANUAL", "light")},
    changes |-> {"outage", "gate", "suppress"}],
   [asked   |-> {On("THERMAL", "pool_source"), On("MANUAL", "pool")},
    changes |-> {"outage", "gate", "blind"}],
   \* a Spa that goes off by itself restrains thermal, also over a restart
   [asked   |-> {On("MANUAL", "spa"), On("THERMAL", "spa_source")},
    changes |-> {"outsider", "blind", "restart"}],
   \* Reset, with commands whose effect is late or lost
   [asked   |-> {Off("RESET", "pool"), On("FILTRATION", "pool"), On("MANUAL", "pool")},
    changes |-> {"reset", "outsider", "lost", "time"}]}
=============================================================================
