---- MODULE MCAsyncConnection ----
(* An answer of three bytes read in pieces of two, two calls of start, two sends under way. *)
EXTENDS AsyncConnection
====
