----------------------- MODULE MCDomainReconciliation -----------------------
(***************************************************************************)
(* One domain, five instants, episodes of two, a budget of two and three   *)
(* request identities, so that the budget and the deadline can both run    *)
(* out, a second episode can follow a verified one, and a retry can reuse  *)
(* an identity.                                                            *)
(***************************************************************************)
EXTENDS DomainReconciliation
=============================================================================
