--------------------------- MODULE MCDialDeadline ---------------------------
(***************************************************************************)
(* Dials that start at several points of a second, with and without a      *)
(* total timeout, directly and through a proxy, with and without TLS and a *)
(* lookup of the target, over peers and name servers that take their time. *)
(***************************************************************************)
EXTENDS DialDeadline

Some ==
    [start : {0, 250, 999}, total : {0, 1000, 1500}, connect : {1000, 2500},
     steps : {0, 2}, lookup : {0, 1}, rounds : {0, 2}, bytes : {1, 3}]
=============================================================================
