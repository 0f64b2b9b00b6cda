----------------------------- MODULE MCBaseSock -----------------------------
(***************************************************************************)
(* A peer of a few bytes and callers that make a few calls: reads of one   *)
(* or more bytes at a time and writes of one and two.                      *)
(***************************************************************************)
EXTENDS BaseSock, TLC

Args == {[len |-> 2, min |-> 1], [len |-> 3, min |-> 1], [len |-> 3, min |-> 2]}

\* receive() of a Lua connection.
PlainReceive == {[len |-> 2, min |-> 1]}
=============================================================================
