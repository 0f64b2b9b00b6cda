-------------------------- MODULE MCListenerContext --------------------------
(***************************************************************************)
(* Connections for TLC: a request with a body and a few bytes or a second  *)
(* request behind it, and ones without a body, with too little of one,     *)
(* without an end of the header, or that make no sense.                    *)
(***************************************************************************)
EXTENDS ListenerContext, TLC

\* A header of h cells that ends in an empty line, then n more.
Kind(h, i) == IF i \in {h - 3, h - 1} THEN "cr" ELSE IF i \in {h - 2, h} THEN "lf" ELSE "text"
Wire(h, n) == [i \in 1 .. h + n |-> [b |-> Kind(h, i), v |-> i]]

Base ==
    [wire |-> Wire(5, 3), line |-> TRUE, length |-> 2, badLength |-> FALSE,
     calls |-> {"request"}, wants |-> {}, ends |-> {"fin", "rst"}, blocking |-> FALSE]

With(extra) == extra @@ Base

\* Handlers that only ask for the request, and ones that do everything else too.
Several ==
    {Base, With([length |-> 0]), With([length |-> 4]), With([line |-> FALSE]),
     With([badLength |-> TRUE]), With([wire |-> [i \in 1 .. 7 |-> [b |-> "text", v |-> i]]]),
     With([wire |-> [i \in 1 .. 10 |-> [b |-> Kind(4, IF i > 5 THEN i - 5 ELSE i), v |-> i]], length |-> 1]),
     With([calls |-> {"request", "send", "close"}, wire |-> Wire(4, 1), length |-> 1]),
     With([calls |-> {"request", "receive"}, wants |-> {0, 2}, wire |-> Wire(4, 1), length |-> 1])}
=============================================================================
