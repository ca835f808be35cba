----------------------------- MODULE MCSessions -----------------------------
(***************************************************************************)
(* Sessions with a pool of one connection.  Two requests suffice for one   *)
(* that holds it and one that queues, times out or sleeps meanwhile; with  *)
(* six errors degraded mode can be entered, left and entered again.        *)
(***************************************************************************)
EXTENDS Sessions
=============================================================================
