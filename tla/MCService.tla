------------------------------ MODULE MCService ------------------------------
(* Two requests with one heavy slot and one pool thread, through startup,  *)
(* serving and shutdown.                                                   *)
EXTENDS Service
=============================================================================
