------------------------------ MODULE MCService -----------------------------
(* Service on small instances: the configurations give the events and the  *)
(* bounds, each for one question.                                          *)
EXTENDS Service
=============================================================================
