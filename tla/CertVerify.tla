----------------------------- MODULE CertVerify -----------------------------
(***************************************************************************)
(* CertificateVerifier (socket/TlsVerify.cpp): whether the peer's          *)
(* certificate is accepted. A verifier is made once per dial and asked on  *)
(* every round of the TLS handshake, about any certificate.                *)
(*                                                                         *)
(* Windows is external. Its chain engine gives one or more chains, each    *)
(* with the certificate it ends at and what is wrong with it; the status   *)
(* of the whole is the union. The SSL policy's answer is any: nothing the  *)
(* verifier promises may rest on it.                                       *)
(***************************************************************************)
EXTENDS DerNames

CONSTANT Dials   \* the dials that may happen, see DialsAssumption

(* A certificate by the rules of DER (reference). A value is recorded as ReadTlv returns it; a      *)
(* certificate's plan lists the values its encoding consists of.                                    *)
Values == [ok : {TRUE}, tag : 0 .. 255, content : Nat, size : Nat]
Past(x) == x.content + x.size
Weight == <<256 * 256 * 256, 256 * 256, 256, 1>>

\* The byte at position at and the n behind it spell the length: alone, or by its digits to the base 256.
Spells(mem, at, size, n) ==
    IF n = 0 THEN mem[at] = size /\ size < 128
    ELSE /\ mem[at] = 128 + n /\ size \div Weight[5 - n] < 256
         /\ \A k \in 1 .. n : mem[at + k] = (size \div Weight[4 - n + k]) % 256

\* The value x stands at position at.
Stands(mem, at, x) ==
    /\ x \in Values /\ x.tag = mem[at]
    /\ \E n \in 0 .. 4 : x.content = at + 2 + n /\ Spells(mem, at + 1, x.size, n)

\* The values of row stand one behind the other and fill the content of x.
Fills(mem, row, x) ==
    /\ row \in Seq(Values)
    /\ \A i \in 1 .. Len(row) : Stands(mem, IF i = 1 THEN x.content ELSE Past(row[i - 1]), row[i])
    /\ Past(x) = IF row = <<>> THEN x.content ELSE Past(row[Len(row)])

Within(mem, x, outer) == Stands(mem, outer.content, x) /\ Past(x) <= Past(outer)

\* The extension e is the subjectAltName and lists names: behind the OID the BOOLEAN TRUE if it is
\* critical, then the OCTET STRING that holds the names, of which an address has 4 or 16 bytes.
Lists(mem, e, oid, critical, p) ==
    LET at == IF critical THEN Past(oid) + 3 ELSE Past(oid)
    IN  /\ critical => SubSeq(mem, Past(oid), Past(oid) + 2) = <<1, 1, 255>>
        /\ Stands(mem, at, p.value) /\ p.value.tag = 4 /\ Past(p.value) <= Past(e)
        /\ Within(mem, p.names, p.value) /\ p.names.tag = 48
        /\ Fills(mem, p.entries, p.names)
        /\ \A i \in 1 .. Len(p.entries) : p.entries[i].tag = 135 => p.entries[i].size \in {4, 16}

Tagged(mem, row, tag) == {Content(mem, row[i]) : i \in {j \in 1 .. Len(row) : row[j].tag = tag}}

\* mem begins with the encoding of the certificate c. Its body has at most one field [3], p.box, and
\* among the extensions there at most one OID that begins as that of a subjectAltName, p.san.
Encodes(c) ==
    LET p == c.plan
    IN  /\ Stands(c.mem, 1, p.outer) /\ Within(c.mem, p.tbs, p.outer)
        /\ Fills(c.mem, p.fields, p.tbs) /\ p.box \in 0 .. Len(p.fields)
        /\ \A i \in 1 .. Len(p.fields) : p.fields[i].tag = 163 <=> i = p.box
        /\ p.box > 0 => Within(c.mem, p.list, p.fields[p.box]) /\ Fills(c.mem, p.extensions, p.list)
        /\ p.san \in 0 .. IF p.box > 0 THEN Len(p.extensions) ELSE 0
        /\ p.box > 0 => \A i \in 1 .. Len(p.extensions) :
              /\ Within(c.mem, p.oids[i], p.extensions[i])
              /\ IsSanOid(c.mem, p.oids[i]) <=> i = p.san
        /\ p.san > 0 => Lists(c.mem, p.extensions[p.san], p.oids[p.san], c.critical, p)
        /\ c.dns = IF p.san > 0 THEN Tagged(c.mem, p.entries, 130) ELSE {}
        /\ c.ip = IF p.san > 0 THEN Tagged(c.mem, p.entries, 135) ELSE {}
        /\ Past(p.outer) <= Len(c.mem) + 1 /\ c.total \in 0 .. Past(p.outer) - 1

(* host is [text, ip]: ip is the address a literal spells, or <<>>. file is the ca_file option: its *)
(* roots by their hashes, none if it cannot be read. certs are the certificates Check is asked about. *)
ASSUME DialsAssumption ==
    \A x \in Dials :
        /\ x.verify \in BOOLEAN /\ x.file.given \in BOOLEAN
        /\ x.host.text \in Seq(Nat) /\ "nohash" \notin x.file.roots
        /\ x.certs = [i \in 1 .. Len(x.certs) |-> x.certs[i]] /\ Len(x.certs) \in Nat
        /\ \A i \in 1 .. Len(x.certs) : x.certs[i].built => 1 \in DOMAIN x.certs[i].chains

\* What is there of a certificate is the beginning of its encoding, in bytes. cn is the common name as
\* CertGetNameStringW gives it, in UTF-16.
ASSUME EncodingsAssumption ==
    \A x \in Dials : \A i \in 1 .. Len(x.certs) : x.certs[i].there =>
        LET c == x.certs[i]
        IN  /\ c.mem \in Seq(0 .. 255) /\ c.cn \in Seq(Nat) /\ c.dns \subseteq Seq(0 .. 255)
            /\ c.critical \in BOOLEAN /\ Encodes(c)

VARIABLES dial,     \* the dial
          asked,    \* how many certificates were asked about
          v,        \* the verifier's fields
          verdict,  \* what Check answered last: "none" before the first call
          refused   \* history: the number of the first certificate refused, or 0

verifierVars == <<dial, asked, v, verdict, refused>>

Errors == {"expired", "revoked", "signature", "usage", "untrusted_root",
           "revocation_unknown", "revocation_offline"}
Soft == {"revocation_unknown", "revocation_offline"}
Codes == {"none", "tls_ca_unreadable", "tls_no_certificate", "tls_chain_failed",
          "tls_untrusted_root", "tls_expired", "tls_revoked", "tls_policy_failed",
          "tls_name_mismatch"}

-----------------------------------------------------------------------------
(* The verifier's parts. "none" means that the part found nothing wrong. *)

\* What the chain engine says of the whole, as CERT_TRUST_STATUS does.
EngineStatus(c) == UNION {c.chains[i].errors : i \in DOMAIN c.chains}

\* Mutated form of RootedInFile: the engine's own roots will do.
RootedInFileAny(c, roots) == c.chains # <<>>

\* Some chain ends at a certificate of ca_file. An end whose hash fails is "nohash".
RootedInFile(c, roots) ==
    \E i \in DOMAIN c.chains : c.chains[i].end # "nohash" /\ c.chains[i].end \in roots

\* Mutated form of HardStatus: revocation that could not be looked up counts as revoked.
HardStatusStrict(c, exclusive) ==
    EngineStatus(c) \ IF exclusive THEN {"untrusted_root"} ELSE {}

HardStatus(c, exclusive) ==
    EngineStatus(c) \ (Soft \cup IF exclusive THEN {"untrusted_root"} ELSE {})

StatusCode(status) ==
    IF "expired" \in status THEN "tls_expired"
    ELSE IF "revoked" \in status THEN "tls_revoked"
    ELSE "tls_untrusted_root"

VerifyChain(f, c) ==
    LET status == HardStatus(c, f.exclusive)
        tolerated == f.exclusive /\ c.policy = "untrusted_root"
    IN  IF ~c.built THEN "tls_chain_failed"
        ELSE IF f.exclusive /\ ~RootedInFile(c, f.roots) THEN "tls_untrusted_root"
        ELSE IF status # {} THEN StatusCode(status)
        ELSE IF c.policy # "ok" /\ ~tolerated THEN "tls_policy_failed"
        ELSE "none"

\* An IP literal is compared with the addresses only; the common name counts for a name when no
\* DNS name was read.
VerifyName(f, c) ==
    LET names == ReadAltNames(c.mem, c.total)
        host == f.host.text
    IN  IF f.host.ip # <<>>
        THEN IF f.host.ip \in names.ip THEN "none" ELSE "tls_name_mismatch"
        ELSE IF \E n \in names.dns : AsciiEqualsInsensitive(n, host) \/ MatchesWildcard(host, n)
             THEN "none"
        ELSE IF names.dns = {} /\ AsciiEqualsInsensitive(BeforeComma(c.cn), host) THEN "none"
        ELSE "tls_name_mismatch"

\* What Check finds wrong with c, in the order it looks.
Trouble(f, c) ==
    IF ~c.there THEN "tls_no_certificate"
    ELSE IF VerifyChain(f, c) # "none" THEN VerifyChain(f, c)
    ELSE VerifyName(f, c)

\* The first reason is kept.
Fail(f, code) == IF f.failed THEN f ELSE [f EXCEPT !.failed = TRUE, !.code = code]

\* The constructor's last line and LoadRoots.
LoadRoots(f, file) ==
    LET g == [f EXCEPT !.exclusive = TRUE, !.roots = file.roots]
    IN  IF file.roots = {} THEN Fail(g, "tls_ca_unreadable") ELSE g

-----------------------------------------------------------------------------
VerifierInit ==
    /\ dial \in Dials
    /\ LET f == [host |-> dial.host, verify |-> dial.verify, exclusive |-> FALSE, roots |-> {},
                 checked |-> FALSE, failed |-> FALSE, code |-> "none"]
       IN  v = IF dial.verify /\ dial.file.given THEN LoadRoots(f, dial.file) ELSE f
    /\ asked = 0 /\ refused = 0 /\ verdict = "none"

\* Check is called with the next certificate.
Asked ==
    /\ asked < Len(dial.certs) /\ asked' = asked + 1 /\ UNCHANGED dial

\* Verification is off: anything goes.
CheckOff ==
    /\ Asked /\ ~v.verify
    /\ v' = [v EXCEPT !.checked = TRUE] /\ verdict' = "yes"
    /\ UNCHANGED refused

\* Check of a verifier that has refused before, or has no roots.
CheckFailed ==
    /\ Asked /\ v.verify /\ v.failed /\ v' = [v EXCEPT !.checked = TRUE]
    /\ verdict' = "no" /\ UNCHANGED refused

\* Check that judges: the chain first, then the name.
Judge ==
    /\ Asked /\ v.verify /\ ~v.failed
    /\ LET code == Trouble(v, dial.certs[asked + 1])
           f == [v EXCEPT !.checked = TRUE]
       IN  /\ v' = IF code = "none" THEN f ELSE Fail(f, code)
           /\ verdict' = IF code = "none" THEN "yes" ELSE "no"
           /\ refused' = IF code # "none" /\ refused = 0 THEN asked + 1 ELSE refused

VerifierNext == CheckOff \/ CheckFailed \/ Judge

VerifierSpec == VerifierInit /\ [][VerifierNext]_verifierVars

-----------------------------------------------------------------------------
(* Reference definitions: what the certificate says and whom it names. A   *)
(* certificate carries the names its maker put in (dns, ip) and whether    *)
(* its subjectAltName is critical.                                         *)

Fold(c) == IF c \in 65 .. 90 THEN c + 32 ELSE c

SameName(a, b) ==
    Len(a) = Len(b) /\ \A i \in DOMAIN a : Fold(a[i]) = Fold(b[i])

\* A wildcard names the hosts that become the pattern when their first label is replaced by a star.
Covers(pattern, host) ==
    \/ SameName(pattern, host)
    \/ \E i \in 2 .. Len(host) - 1 :
         /\ host[i] = Dot
         /\ \A j \in 1 .. i - 1 : host[j] \notin {Dot, Star}
         /\ SameName(pattern, <<Star>> \o SubSeq(host, i, Len(host)))

Names(c, host) ==
    IF host.ip # <<>> THEN host.ip \in c.ip
    ELSE \/ \E n \in c.dns : Covers(n, host.text)
         \/ c.dns = {} /\ SameName(BeforeComma(c.cn), host.text)

\* A name whose characters were cut to bytes.
CutToBytes(name) == [i \in DOMAIN name |-> name[i] % 256]

\* The hole in the comparison: LowerAscii is given the low byte of a UTF-16 character, so a common
\* name that does not name the host, but whose low bytes spell it, matches (U+0161 and "a").
NamesWhenCut(c, host) ==
    host.ip = <<>> /\ c.dns = {} /\ SameName(CutToBytes(BeforeComma(c.cn)), host.text)

AsciiHost(host) == \A i \in DOMAIN host.text : host.text[i] < 128

\* The names read are those of x.
Shows(read, x) == read.dns = x.dns /\ read.ip = x.ip

\* All of the encoding is there, and not only its first bytes.
Uncut(c) == c.total = Past(c.plan.outer) - 1

\* The code's reader is up to the certificate: it is whole and its SAN is not critical.
Readable(c) == c.there /\ Uncut(c) /\ ~c.critical

\* One chain that may be trusted: no error but the tolerated ones and, with a ca_file, an end in it.
Trusts(f, chain) ==
    IF f.exclusive THEN chain.errors \subseteq Soft \cup {"untrusted_root"} /\ chain.end \in f.roots
    ELSE chain.errors \subseteq Soft

-----------------------------------------------------------------------------
VerifierTypeOK ==
    /\ dial \in Dials /\ asked \in 0 .. Len(dial.certs) /\ refused \in 0 .. asked
    /\ v.host = dial.host /\ v.verify = dial.verify
    /\ v.exclusive = (dial.verify /\ dial.file.given)
    /\ v.roots = IF v.exclusive THEN dial.file.roots ELSE {}
    /\ v.checked = (asked > 0) /\ v.failed \in BOOLEAN /\ v.code \in Codes
    /\ verdict \in {"none", "yes", "no"}

\* An accepted certificate has a chain without hard errors and, when ca_file is given, it is one
\* that ends at a certificate of that file, although the engine also knows the machine's roots and
\* both the untrusted-root bit and the policy's complaint about it are dropped (VerifyChain).
AcceptedTrusted ==
    verdict = "yes" /\ v.verify => \E i \in DOMAIN dial.certs[asked].chains : Trusts(v, dial.certs[asked].chains[i])

\* An accepted certificate names the host by the reference definition: a literal by its addresses
\* only, a name by a DNS name with at most the first label a star, or by the common name when the
\* certificate has no DNS name (VerifyName, MatchesWildcard). The common name is not matched exactly,
\* as the comment at TlsVerify.cpp:562 has it, but by the low bytes of its characters; that is the
\* one way in for a certificate that does not name the host.
AcceptedNamed ==
    verdict = "yes" /\ v.verify /\ Readable(dial.certs[asked]) /\ AsciiHost(v.host)
    => Names(dial.certs[asked], v.host) \/ NamesWhenCut(dial.certs[asked], v.host)

\* A certificate with clean chains that names the host is not the one a verifier refuses: the DER
\* walk, the matching and the treatment of ca_file lose nothing (Check).
GoodAccepted ==
    refused > 0 /\ AsciiHost(v.host) =>
        LET c == dial.certs[refused]
        IN  ~(/\ Readable(c) /\ c.built /\ Names(c, v.host)
              /\ \A i \in DOMAIN c.chains : Trusts(v, c.chains[i])
              /\ c.policy = "ok" \/ (v.exclusive /\ c.policy = "untrusted_root"))

\* The names read are those of the encoding. A certificate that is cut short gives no name that it
\* does not have, and what lies in memory behind it has no influence (ReadTlv and the three loops).
NamesReadBack ==
    asked > 0 /\ dial.certs[asked].there =>
        LET c == dial.certs[asked]
            Behind(x) == [i \in DOMAIN c.mem |-> IF i > c.total THEN x ELSE c.mem[i]]
            reads == {ReadAltNames(mem, c.total) : mem \in {c.mem, Behind(0), Behind(1), Behind(130)}}
        IN  \A read \in reads :
               /\ Readable(c) => Shows(read, c)
               /\ read.dns \subseteq c.dns /\ read.ip \subseteq c.ip
               /\ \A other \in reads : Shows(read, other)

\* The reason reported is that of the first refusal and true of that certificate, whatever was
\* asked afterwards; a verifier that refused once accepts nothing any more (Fail, Check).
FirstReasonStands ==
    /\ refused > 0 => v.failed /\ v.code = Trouble(v, dial.certs[refused])
    /\ v.failed => verdict # "yes"

\* What the comment at TlsVerify.cpp:269-271 says of the BOOLEAN `critical`: it "is skipped only
\* when it is really there", so the names of a critical subjectAltName are read like any other.
CriticalSkipped ==
    asked > 0 /\ dial.certs[asked].there /\ Uncut(dial.certs[asked]) =>
        Shows(ReadAltNames(dial.certs[asked].mem, dial.certs[asked].total), dial.certs[asked])
=============================================================================
