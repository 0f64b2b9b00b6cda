------------------------------ MODULE DerNames ------------------------------
(***************************************************************************)
(* The names a certificate presents, read out of its DER encoding, and the *)
(* comparison of such a name with a host name (socket/TlsVerify.cpp).      *)
(*                                                                         *)
(* mem is the memory from the certificate's first byte on, a sequence of   *)
(* bytes; only the first `total` of them are the certificate's. A name is  *)
(* a sequence of character codes, an IP address the sequence of its bytes, *)
(* which stands for its canonical text (inet_ntop).                        *)
(***************************************************************************)
EXTENDS Integers, Sequences, Functions

Dot == 46
Star == 42
Comma == 44

-----------------------------------------------------------------------------
(* One tag-length-value. *)

Unreadable == [ok |-> FALSE, tag |-> 0, content |-> 0, size |-> 0]

\* The number that count length bytes behind position at spell, high byte first.
LengthBytes(mem, at, count) ==
    LET Value[n \in 0 .. count] ==
            IF n = 0 THEN 0 ELSE 256 * Value[n - 1] + mem[at + n]
    IN  Value[count]

\* Mutated form of FitsIn: off by one, as if the length counted from the last header byte.
FitsInByOne(available, header, length) == available >= header - 1 + length

FitsIn(available, header, length) == available >= header + length

ReadTlv(mem, at, available) ==
    LET first == mem[at + 1]
        long == first >= 128
        count == first - 128
        header == IF long THEN 2 + count ELSE 2
        length == IF long THEN LengthBytes(mem, at + 1, count) ELSE first
        readable == /\ available >= 2
                    /\ long => count \in 1 .. 4 /\ available >= header
                    /\ FitsIn(available, header, length)
    IN  IF readable
        THEN [ok |-> TRUE, tag |-> mem[at], content |-> at + header, size |-> length]
        ELSE Unreadable

\* The values in `left` bytes from position at on, up to and with the first unreadable one:
\* the loops of ReadGeneralNames, ReadSanExtension and ReadAltNames.
Entries(mem, at, left) ==
    LET From[n \in 0 .. left] ==
            LET here == at + left - n
                entry == ReadTlv(mem, here, n)
            IN  IF n = 0 THEN <<>>
                ELSE IF ~entry.ok THEN <<entry>>
                ELSE <<entry>> \o From[n - (entry.content + entry.size - here)]
    IN  From[left]

\* The first of entries that is one of hits, or an unreadable one.
FirstOf(entries, hits) ==
    LET at == {i \in DOMAIN entries : entries[i] \in hits}
    IN  IF at = {} THEN Unreadable
        ELSE entries[CHOOSE i \in at : \A j \in at : i <= j]

-----------------------------------------------------------------------------
(* From the certificate to its names. *)

NoNames == [san |-> FALSE, dns |-> {}, ip |-> {}]

Content(mem, tlv) == SubSeq(mem, tlv.content, tlv.content + tlv.size - 1)

\* Only 4 and 16 bytes have a text; any other length is listed as the empty text.
IpText(bytes) == IF Len(bytes) \in {4, 16} THEN bytes ELSE <<>>

IsSanOid(mem, oid) ==
    oid.size >= 3 /\ SubSeq(mem, oid.content, oid.content + 2) = <<85, 29, 17>>

\* An unreadable entry ends the list; the names before it are kept.
ReadGeneralNames(mem, at, available) ==
    LET sequence == ReadTlv(mem, at, available)
        entries == Entries(mem, sequence.content, sequence.size)
        tagged(tag) == {Content(mem, entries[i]) :
                          i \in {j \in DOMAIN entries : entries[j].ok /\ entries[j].tag = tag}}
    IN  IF sequence.ok /\ sequence.tag = 48
        THEN [san |-> TRUE, dns |-> tagged(130), ip |-> {IpText(b) : b \in tagged(135)}]
        ELSE [NoNames EXCEPT !.san = TRUE]

\* The extnValue behind the OID of the extension e. The code means to skip the optional BOOLEAN
\* `critical`, but looks at the first byte of its content instead of its tag; the content may be
\* empty, and that byte then belongs to what follows.
SanValue(mem, e, oid) ==
    LET end == e.content + e.size
        behind == oid.content + oid.size
        first == ReadTlv(mem, behind, end - behind)
        next == IF mem[first.content] = 1 THEN first.content + first.size ELSE behind
        value == ReadTlv(mem, next, end - next)
    IN  IF first.ok /\ value.ok /\ value.tag = 4
        THEN ReadGeneralNames(mem, value.content, value.size)
        ELSE NoNames

\* The value of the extension e whose OID is that of a subjectAltName.
SanOf(mem, e, oid) == IF e.ok /\ oid.ok THEN SanValue(mem, e, oid) ELSE NoNames

Oid(mem, e) == ReadTlv(mem, e.content, e.size)

\* The walk ends at the subjectAltName, or at what cannot be read.
SanAmong(mem, entries) ==
    FirstOf(entries, {e \in Range(entries) : ~e.ok \/ (LET oid == Oid(mem, e) IN ~oid.ok \/ IsSanOid(mem, oid))})

ReadSanExtension(mem, at, available) ==
    LET e == SanAmong(mem, Entries(mem, at, available))
    IN  SanOf(mem, e, Oid(mem, e))

\* The field [3] of the body, or what cannot be read in front of it.
ExtensionsAmong(fields) == FirstOf(fields, {x \in Range(fields) : ~x.ok \/ x.tag = 163})

\* The value inside the value x.
Inside(mem, x) == IF x.ok THEN ReadTlv(mem, x.content, x.size) ELSE Unreadable

ReadAltNames(mem, total) ==
    LET tbs == Inside(mem, ReadTlv(mem, 1, total))
        extensions == Inside(mem, ExtensionsAmong(Entries(mem, tbs.content, tbs.size)))
    IN  IF tbs.ok /\ extensions.ok
        THEN ReadSanExtension(mem, extensions.content, extensions.size)
        ELSE NoNames

-----------------------------------------------------------------------------
(* Names and hosts. *)

\* A wide character is cut to a byte before it is compared.
LowerAscii(c) == IF c % 256 \in 65 .. 90 THEN (c % 256) + 32 ELSE c % 256

AsciiEqualsInsensitive(left, right) ==
    /\ Len(left) = Len(right)
    /\ \A i \in DOMAIN left : LowerAscii(left[i]) = LowerAscii(right[i])

Has(s, c) == \E i \in DOMAIN s : s[i] = c

\* Mutated form of MatchesWildcard: the star stands for any number of labels.
MatchesWildcardDeep(host, pattern) ==
    LET suffix == SubSeq(pattern, 2, Len(pattern))
        cut == Len(host) - Len(suffix)
    IN  /\ Len(pattern) >= 3 /\ pattern[1] = Star /\ pattern[2] = Dot
        /\ cut > 0 /\ Has(host, Dot)
        /\ AsciiEqualsInsensitive(SubSeq(host, cut + 1, Len(host)), suffix)
        /\ ~Has(SubSeq(host, 1, cut), Star)

MatchesWildcard(host, pattern) ==
    LET suffix == SubSeq(pattern, 2, Len(pattern))
        cut == Len(host) - Len(suffix)
        label == SubSeq(host, 1, cut)
    IN  /\ Len(pattern) >= 3 /\ pattern[1] = Star /\ pattern[2] = Dot
        /\ cut > 0 /\ Has(host, Dot)
        /\ AsciiEqualsInsensitive(SubSeq(host, cut + 1, Len(host)), suffix)
        /\ ~Has(label, Star) /\ ~Has(label, Dot)

\* The common name as VerifyName compares it: up to its first comma.
BeforeComma(name) ==
    LET commas == {i \in DOMAIN name : name[i] = Comma}
    IN  IF commas = {} THEN name
        ELSE SubSeq(name, 1, (CHOOSE i \in commas : \A j \in commas : i <= j) - 1)
=============================================================================
