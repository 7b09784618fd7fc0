---------------------------- MODULE MCClientTable ----------------------------
(***************************************************************************)
(* The clients table on a small instance.  A day is six units, so that two *)
(* grants a cooldown apart fit well inside one window and the window still *)
(* slides past several of them before the clock stops.                     *)
(***************************************************************************)
EXTENDS ClientTable

MCQuota == {1, 2}
=============================================================================
