------------------------------ MODULE MCListener ------------------------------
(***************************************************************************)
(* Listeners of every kind, two clients, and waits of two ticks, of none   *)
(* and without a limit.                                                    *)
(***************************************************************************)
EXTENDS Listener, TLC

CONSTANTS anna, bob

AllServers == Server
Waits == {-1, 0, 2}
=============================================================================
