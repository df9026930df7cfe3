------------------------------- MODULE MCKcall -------------------------------
(* One request of each kind; a handler returns a value of its own request. *)
EXTENDS Kcall, TLC

MCHandler(r) == <<"ret", r>>
=============================================================================
