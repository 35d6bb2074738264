------------------------------ MODULE MCAppCloud ------------------------------
(* Ticks of fifteen seconds: the backoff of 30 s and 90 s. *)
EXTENDS AppCloud

MCBackoff == <<2, 6>>
=============================================================================
