------------------------------ MODULE NoValue ------------------------------
(* The None of the code: the modules that are composed share one. *)
CONSTANT None
=============================================================================
