---- MODULE MCPing ----
(* A Lua thread and a worker; three objects or pings and three handles; pings of up to two echoes. *)
EXTENDS Ping, TLC

Symmetry == Permutations(Threads) \cup Permutations(Ids) \cup Permutations(Handles)
====
