---- MODULE MCCertVerify ----
(* Dials whose peers present certificates of four families: chains and policies, names and hosts,   *)
(* encodings (length forms, places, cut short), and pairs of certificates.                          *)
EXTENDS CertVerify, TLC

\* DER by its own rules: the length in the short form, or in `form` bytes.
EncodeLength(k, form) ==
    CASE form = 0 /\ k < 128 -> <<k>>
      [] form = 0 /\ k >= 128 -> <<129, k>>
      [] form > 0 -> <<128 + form>> \o [i \in 1 .. form |-> IF i = form THEN k ELSE 0]

\* A value to be encoded, and the record of it once it stands at position at.
Node(tag, body, form) ==
    [tag |-> tag, size |-> Len(body), head |-> 1 + Len(EncodeLength(Len(body), form)),
     bytes |-> <<tag>> \o EncodeLength(Len(body), form) \o body]
Placed(node, at) == [ok |-> TRUE, tag |-> node.tag, content |-> at + node.head, size |-> node.size]

Flat(row) ==
    LET Upto[i \in 0 .. Len(row)] == IF i = 0 THEN <<>> ELSE Upto[i - 1] \o row[i].bytes
    IN  Upto[Len(row)]
PlacedRow(row, at) == [i \in 1 .. Len(row) |-> Placed(row[i], at + Len(Flat(SubSeq(row, 1, i - 1))))]

Flag(critical) == IF critical THEN <<1, 1, 255>> ELSE <<>>
Extension(number, critical, value, form) ==
    LET oid == Node(6, <<85, 29, number>>, form)
    IN  [oid |-> oid] @@ Node(48, oid.bytes \o Flag(critical) \o Node(4, value, form).bytes, form)

\* The names, a sequence of <<tag, bytes>>, and the extension that lists them.
Listed(names, critical, form) ==
    LET entries == [i \in 1 .. Len(names) |-> Node(names[i][1], names[i][2], form)]
        sequence == Node(48, Flat(entries), form)
    IN  [entries |-> entries, sequence |-> sequence, value |-> Node(4, sequence.bytes, form),
         flag |-> Len(Flag(critical)), san |-> Extension(17, critical, sequence.bytes, form)]

\* The certificate with the extensions of row. seal is the signature behind the body (none: the
\* extensions may be the last bytes there are).
Whole(row, seal, form) ==
    LET list == Node(48, Flat(row), form)
        fields == <<Node(2, <<7>>, form)>> \o IF row = <<>> THEN <<>> ELSE <<Node(163, list.bytes, form)>>
        tbs == Node(48, Flat(fields), form)
    IN  [list |-> list, fields |-> fields, tbs |-> tbs, outer |-> Node(48, tbs.bytes \o seal, form)]

\* Where its values stand: outside, down to the extensions, and in the one that lists names.
FieldsAt(whole) ==
    LET outer == Placed(whole.outer, 1)
        tbs == Placed(whole.tbs, outer.content)
    IN  [outer |-> outer, tbs |-> tbs, fields |-> PlacedRow(whole.fields, tbs.content)]
ExtensionsAt(row, list) ==
    LET extensions == PlacedRow(row, list.content)
    IN  [list |-> list, extensions |-> extensions, box |-> IF row = <<>> THEN 0 ELSE 2,
         oids |-> [i \in 1 .. Len(row) |-> Placed(row[i].oid, extensions[i].content)]]
NamesAt(listed, at) ==
    LET value == Placed(listed.value, at)
        names == Placed(listed.sequence, value.content)
    IN  [value |-> value, names |-> names, entries |-> PlacedRow(listed.entries, names.content)]

Laid(row, whole, frame, listed, san) ==
    LET list == Placed(whole.list, frame.fields[Len(frame.fields)].content)
        base == frame @@ ExtensionsAt(row, list) @@ [san |-> san]
    IN  [bytes |-> whole.outer.bytes,
         plan |-> IF san = 0 THEN base ELSE base @@ NamesAt(listed, Past(base.oids[san]) + listed.flag)]
Join(row, whole, listed, san) == Laid(row, whole, FieldsAt(whole), listed, san)

\* `before` and `after` are the other extensions.
With(names, listed, before, after, seal, form) ==
    LET row == before \o (IF names = <<>> THEN <<>> ELSE <<listed.san>>) \o after
    IN  Join(row, Whole(row, seal, form), listed, IF names = <<>> THEN 0 ELSE Len(before) + 1)
Encode(names, critical, before, after, seal, form) ==
    With(names, Listed(names, critical, form), before, after, seal, form)

Seal == Node(3, <<0>>, 0).bytes
Good == <<[end |-> "ours", errors |-> {}]>>

Certificate(names, critical, encoding, total, cn, chains, policy) ==
    [there |-> TRUE, built |-> TRUE, mem |-> encoding.bytes \o [i \in 1 .. 8 |-> 1], total |-> total,
     plan |-> encoding.plan, critical |-> critical, cn |-> cn, chains |-> chains, policy |-> policy,
     dns |-> {names[i][2] : i \in {j \in DOMAIN names : names[j][1] = 130}},
     ip |-> {names[i][2] : i \in {j \in DOMAIN names : names[j][1] = 135}}]

Plain(names, cn) ==
    LET encoding == Encode(names, FALSE, <<>>, <<>>, Seal, 0)
    IN  Certificate(names, FALSE, encoding, Len(encoding.bytes), cn, Good, "ok")

Strings(alphabet, k) == UNION {[1 .. m -> alphabet] : m \in 1 .. k}
a == 97
AB == <<a, Dot, a>>
Addr == <<127, 0, 0, 1>>
Host(text) == [text |-> text, ip |-> <<>>]
Literal == [text |-> AB, ip |-> Addr]
NoFile == [given |-> FALSE, roots |-> {}]
Ours == [given |-> TRUE, roots |-> {"ours"}]
Files == {NoFile, Ours, [given |-> TRUE, roots |-> {}]}

Alone(S) == {<<c>> : c \in S}

\* Names against hosts: every pattern and host of a few labels.
Patterns == Alone({Plain(<<<<130, p>>>>, <<a>>) : p \in Strings({a, Dot, Star}, 4)})
NamedCerts ==
    Alone({Plain(names, cn) :
            names \in {<<>>, <<<<130, AB>>>>, <<<<135, Addr>>>>, <<<<130, <<65, Dot, 65>>>>>>,
                       <<<<130, AB>>, <<135, Addr>>>>, <<<<135, <<10, 0, 0, 1>>>>, <<135, Addr>>>>,
                       <<<<130, <<a>>>>, <<130, <<Star, Dot, 65>>>>>>},
            cn \in {AB, <<65, Dot, a>>, <<a>>, <<a, Comma, a>>, <<Star, Dot, a>>,
                   <<353, Dot, a>>, <<a, 44 + 256, a>>, <<65 + 256>>}})

\* Encodings, whole and cut at every byte.
Long == [i \in 1 .. 130 |-> a]
Other(critical, form) == Extension(15, critical, <<3, 2, 1>>, form)
Encodings ==
    {<<names, critical, Encode(names, critical, before, after, seal, form)>> :
        names \in {<<>>, <<<<130, AB>>>>, <<<<135, Addr>>, <<129, <<1>>>>, <<130, AB>>>>},
        critical \in BOOLEAN, form \in 0 .. 4, seal \in {<<>>, Seal},
        before \in {<<>>, <<Other(TRUE, 0)>>}, after \in {<<>>, <<Other(FALSE, 1)>>}}
    \cup {<<<<<<130, Long>>>>, FALSE,
             Encode(<<<<130, Long>>>>, FALSE, <<>>, <<>>, Seal, f)>> : f \in 0 .. 2}
CutCerts ==
    Alone({Certificate(x[1][1], x[1][2], x[1][3], x[2], AB, Good, "ok") :
             x \in {y \in Encodings \X (2 .. 200) : y[2] <= Len(y[1][3].bytes)}})

\* Chains, statuses and policies; one or two chains.
Chains ==
    LET one == [end : {"ours", "machine", "nohash"},
                errors : {{}, {"untrusted_root"}, {"expired", "revoked"}, {"signature"},
                          {"revoked", "revocation_offline"}, {"revocation_unknown"}}]
    IN  {<<x>> : x \in one} \cup {<<x, y>> : x \in one, y \in one}
WithChains(chains, policy) == [Plain(<<<<130, AB>>>>, AB) EXCEPT !.chains = chains, !.policy = policy]
ChainCerts ==
    Alone({WithChains(chains, policy) : chains \in Chains, policy \in {"ok", "untrusted_root", "name"}})

\* One verifier asked twice.
Few == {[there |-> FALSE, built |-> FALSE], Plain(<<<<130, AB>>>>, AB), Plain(<<<<130, <<a>>>>>>, AB),
        WithChains(<<[end |-> "machine", errors |-> {"expired"}]>>, "ok"),
        WithChains(Good, "name"), [Plain(<<>>, AB) EXCEPT !.built = FALSE]}

MCDials ==
    [host : {Host(h) : h \in Strings({a, Dot, Star}, 4)}, file : {NoFile}, verify : {TRUE},
     certs : Patterns]
    \cup [host : {Literal} \cup {Host(h) : h \in {AB, <<65, Dot, a>>, <<353, Dot, a>>, <<a>>}},
          file : {NoFile}, verify : {TRUE}, certs : NamedCerts]
    \cup [host : {Host(AB), Literal}, file : {NoFile}, verify : {TRUE}, certs : CutCerts]
    \cup [host : {Host(AB)}, file : Files, verify : {TRUE}, certs : ChainCerts]
    \cup [host : {Host(AB)}, file : Files, verify : BOOLEAN, certs : Few \X Few]
====
