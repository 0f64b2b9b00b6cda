-------------------------------- MODULE Bytes --------------------------------
(***************************************************************************)
(* Bytes on the wire and the searches made in them. A cell is a byte the   *)
(* code can tell from others: "cr" and "lf" are the ones the searches look *)
(* for, "hex" is the text of a chunk-size line (v is the size), "junk" is  *)
(* size text that is no number, and "text" is any other byte.              *)
(***************************************************************************)
EXTENDS Integers, Sequences

Cells == [b : {"text", "cr", "lf", "hex", "junk"}, v : Nat]

\* The first position from which the kinds of s spell pat, or 0: std::string::find.
Matches(s, pat, i) ==
    /\ i + Len(pat) - 1 <= Len(s)
    /\ \A j \in 1 .. Len(pat) : s[i + j - 1].b = pat[j]

Find(s, pat) ==
    LET hits == {i \in 1 .. Len(s) : Matches(s, pat, i)}
    IN  IF hits = {} THEN 0
        ELSE CHOOSE i \in hits : \A j \in hits : i <= j

CRLF == <<"cr", "lf">>
CRLFCRLF == <<"cr", "lf", "cr", "lf">>

\* s without its first n elements.
Drop(s, n) == SubSeq(s, n + 1, Len(s))

=============================================================================
