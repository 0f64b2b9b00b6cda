-------------------------- MODULE ResponseDelivery --------------------------
(***************************************************************************)
(* What an HTTP request of the network module promises its Lua caller,     *)
(* without sockets, fragments or framing: the body reaches the caller as a *)
(* growing prefix of what the server sent, the call returns normally only  *)
(* with the whole body, and otherwise it raises an error.                  *)
(***************************************************************************)
EXTENDS Naturals, Sequences, SequencesExt

CONSTANTS
    Cells           \* the values a byte of the response can take

VARIABLES
    payload,        \* the body the server meant to send
    ending,         \* "marked": the answer says where its body ends, "close": only
                    \* the end of the connection does, "broken": it is malformed
    delivered,      \* the part of the body the caller holds
    status          \* "none" while running, "ok" (returned) or "error" (raised)

rvars == <<payload, ending, delivered, status>>

RInit ==
    /\ payload \in Seq(Cells) /\ ending \in {"marked", "close", "broken"}
    /\ delivered = <<>> /\ status = "none"

\* More of the body arrives: the delivered prefix grows, by any amount.
Deliver ==
    /\ status = "none"
    /\ \E n \in Len(delivered) + 1 .. Len(payload) :
          delivered' = SubSeq(payload, 1, n)
    /\ UNCHANGED <<payload, ending, status>>

\* The call returns, never on a malformed answer. When only the end of the
\* connection ends the body, what arrived before it is by definition the body.
Return ==
    /\ status = "none" /\ ending # "broken"
    /\ ending = "marked" => delivered = payload
    /\ status' = "ok" /\ UNCHANGED <<payload, ending, delivered>>

\* The call raises an error, perhaps after one last piece was delivered.
Raise ==
    /\ status = "none"
    /\ \E n \in Len(delivered) .. Len(payload) :
          delivered' = SubSeq(payload, 1, n)
    /\ status' = "error" /\ UNCHANGED <<payload, ending>>

RNext == Deliver \/ Return \/ Raise

RSpec == RInit /\ [][RNext]_rvars

=============================================================================
