----------------------------- MODULE ProtoUtils -----------------------------
(***************************************************************************)
(* The quick DNS parsers of proto_utils.rs.  parse_quick reads the header  *)
(* and the first question of a request into a lowercased qname, following *)
(* compression pointers with a budget of five; parse_response_quick reads *)
(* the RCODE and the minimum answer TTL of a reply without decoding it.    *)
(* A packet is a sequence of byte values; the Rust offset i is the TLA+    *)
(* index i + 1.  A result is a record whose field ok is FALSE for None.   *)
(***************************************************************************)
EXTENDS Integers, Sequences
LOCAL INSTANCE Bitwise

\* The length of the qname_buf the callers pass (engine.rs 127, 256).
BufLen == 256
\* max_jumps: the pointer budget of parse_quick.
MaxJumps == 5
\* A u32 is the pair of its big-endian u16 halves (TLC integers are 32-bit
\* signed), ordered lexicographically.
U32Max == <<65535, 65535>>
U32Zero == <<0, 0>>
LessU32(a, b) == a[1] < b[1] \/ (a[1] = b[1] /\ a[2] < b[2])

None == [ok |-> FALSE]

\* packet[i] for a Rust offset i.
At(p, i) == p[i + 1]
\* u16::from_be_bytes and u32::from_be_bytes at offset i.
U16At(p, i) == At(p, i) * 256 + At(p, i + 1)
U32At(p, i) == <<U16At(p, i), U16At(p, i + 2)>>

\* u8::to_ascii_lowercase.
ToAsciiLowercase(b) == IF b \in 65..90 THEN b + 32 ELSE b

\* str::from_utf8 succeeds: the well-formed byte sequences of RFC 3629.
\* The check skips to the first non-ASCII byte and steps over one sequence.
RECURSIVE Utf8Ok(_)
Utf8Ok(s) ==
    LET n    == Len(s)
        k    == CHOOSE i \in 1..n : s[i] >= 128 /\ \A j \in 1..(i - 1) : s[j] < 128
        b    == s[k]
        C(i, lo, hi) == n >= k + i - 1 /\ s[k + i - 1] \in lo..hi
        Cont(m) == \A i \in 2..m : C(i, 128, 191)
        need == CASE b \in 194..223        -> IF Cont(2) THEN 2 ELSE 0
                  [] b = 224               -> IF C(2, 160, 191) /\ Cont(3) THEN 3 ELSE 0
                  [] b = 237               -> IF C(2, 128, 159) /\ C(3, 128, 191) THEN 3 ELSE 0
                  [] b \in 225..239        -> IF Cont(3) THEN 3 ELSE 0
                  [] b = 240               -> IF C(2, 144, 191) /\ C(3, 128, 191) /\ C(4, 128, 191) THEN 4 ELSE 0
                  [] b = 244               -> IF C(2, 128, 143) /\ C(3, 128, 191) /\ C(4, 128, 191) THEN 4 ELSE 0
                  [] b \in 241..243        -> IF Cont(4) THEN 4 ELSE 0
                  [] OTHER                 -> 0
    IN  (\A i \in 1..n : s[i] < 128) \/ (need > 0 /\ Utf8Ok(SubSeq(s, k + need, n)))

(***************************************************************************)
(* The qname loop of parse_quick from current_pos, with the saved pos,    *)
(* jumped, max_jumps and the bytes written to buf so far.  It yields the  *)
(* position of QTYPE and the name, or None.                                *)
(***************************************************************************)
\* A pointer saves the position after it only if no pointer came before.
SavedPosEveryPointer(jumped, pos, cur) == cur + 2
SavedPos(jumped, pos, cur) == IF jumped THEN pos ELSE cur + 2

RECURSIVE QNameLoop(_, _, _, _, _, _)
QNameLoop(p, cur, pos, jumped, jumps, buf) ==
    IF cur >= Len(p) THEN None
    ELSE LET len == At(p, cur) IN
      IF len = 0
      THEN [ok |-> TRUE, pos |-> IF jumped THEN pos ELSE cur + 1, buf |-> buf]
      ELSE IF (len & 192) = 192
      THEN IF Len(p) < cur + 2 THEN None
           ELSE LET offset == (len & 63) * 256 + At(p, cur + 1) IN
                IF jumps - 1 = 0 THEN None
                ELSE QNameLoop(p, offset, SavedPos(jumped, pos, cur),
                               TRUE, jumps - 1, buf)
      ELSE LET start == cur + 1
               dot   == IF buf = <<>> THEN <<>> ELSE <<46>>
               label == [i \in 1..len |-> ToAsciiLowercase(At(p, start + i - 1))]
           IN  IF Len(p) < start + len THEN None
               ELSE IF Len(buf) + Len(dot) + len > BufLen THEN None
               ELSE QNameLoop(p, start + len, pos, jumped, jumps, buf \o dot \o label)

\* parse_quick: the header, the first question's name, QTYPE and QCLASS.
ParseQuick(p) ==
    IF Len(p) < 12 \/ U16At(p, 4) = 0 THEN None
    ELSE LET r == QNameLoop(p, 12, 12, FALSE, MaxJumps, <<>>) IN
         IF ~r.ok \/ Len(p) < r.pos + 4 \/ ~Utf8Ok(r.buf) THEN None
         ELSE [ok |-> TRUE, tx_id |-> U16At(p, 0), qname |-> r.buf,
               qtype |-> U16At(p, r.pos), qclass |-> U16At(p, r.pos + 2)]

(***************************************************************************)
(* The name-skipping loop of parse_response_quick: a pointer ends the     *)
(* name two bytes on, a label is skipped without a bounds check.           *)
(***************************************************************************)
RECURSIVE SkipName(_, _)
SkipName(p, pos) ==
    IF pos >= Len(p) THEN -1
    ELSE LET len == At(p, pos) IN
         CASE len = 0                -> pos + 1
           [] (len & 192) = 192      -> pos + 2
           [] OTHER                  -> SkipName(p, pos + 1 + len)

\* The question loop: each name is followed by TYPE and CLASS.
RECURSIVE SkipQuestions(_, _, _)
SkipQuestions(p, pos, n) ==
    IF n = 0 THEN pos
    ELSE LET e == SkipName(p, pos) IN
         IF e < 0 THEN -1 ELSE SkipQuestions(p, e + 4, n - 1)

\* The running minimum of the answer TTLs.
KeepMinSwapped(ttl, minTtl) == IF LessU32(minTtl, ttl) THEN ttl ELSE minTtl
KeepMin(ttl, minTtl) == IF LessU32(ttl, minTtl) THEN ttl ELSE minTtl

\* The answer loop, carrying min_ttl.
RECURSIVE ScanAnswers(_, _, _, _)
ScanAnswers(p, pos, n, minTtl) ==
    IF n = 0 THEN [ok |-> TRUE, min |-> minTtl]
    ELSE LET e == SkipName(p, pos) IN
         IF e < 0 \/ e + 10 > Len(p) THEN None
         ELSE LET ttl == U32At(p, e + 4) IN
              ScanAnswers(p, e + 10 + U16At(p, e + 8), n - 1,
                          KeepMin(ttl, minTtl))

\* parse_response_quick: RCODE from the low nibble of byte 3 and the
\* minimum answer TTL, u32::MAX read back as 0.
ParseResponseQuick(p) ==
    IF Len(p) < 12 THEN None
    ELSE LET rcode == At(p, 3) & 15
             an    == U16At(p, 6)
             qEnd  == SkipQuestions(p, 12, U16At(p, 4))
             r     == IF qEnd < 0 THEN None ELSE ScanAnswers(p, qEnd, an, U32Max)
         IN  IF an = 0 THEN [ok |-> TRUE, rcode |-> rcode, min_ttl |-> U32Zero]
             ELSE IF ~r.ok THEN None
             ELSE [ok |-> TRUE, rcode |-> rcode,
                   min_ttl |-> IF r.min = U32Max THEN U32Zero ELSE r.min]

\* extract_ttl (engine.rs): the minimum answer TTL of the full decode, or 0.
ExtractTtl(ttls) ==
    IF ttls = {} THEN U32Zero ELSE CHOOSE t \in ttls : \A u \in ttls : ~LessU32(u, t)

(***************************************************************************)
(* Reference encodings.  A name is a sequence of labels, a label a        *)
(* sequence of bytes; the text of a name is its labels joined by '.'      *)
(* and case-folded (RFC 4343).                                             *)
(***************************************************************************)
LOCAL SE == INSTANCE SequencesExt
Be16(v) == <<v \div 256, v % 256>>
Be32(v) == Be16(v[1]) \o Be16(v[2])
Header(id, b2, b3, qd, an) == Be16(id) \o <<b2, b3>> \o Be16(qd) \o Be16(an) \o <<0, 0, 0, 0>>
WireLabels(ls) == SE!FlattenSeq([i \in DOMAIN ls |-> <<Len(ls[i])>> \o ls[i]])
WireName(ls) == WireLabels(ls) \o <<0>>
TextOf(ls) ==
    SE!FlattenSeq([i \in DOMAIN ls |->
        (IF i = 1 THEN <<>> ELSE <<46>>) \o [j \in DOMAIN ls[i] |-> ToAsciiLowercase(ls[i][j])]])
Answered(q, ls) ==
    [ok |-> TRUE, tx_id |-> q.id, qname |-> TextOf(ls), qtype |-> q.qtype, qclass |-> q.qclass]

\* Names: mixed case, the ASCII letters' neighbours '@', 'Z', '[', a
\* two-byte UTF-8 character, and a 253-octet name of four labels.
Lbl(n, b) == [i \in 1..n |-> b]
ShortNames == {<<<<65>>>>, <<<<98>>>>, <<<<65, 98>>>>, <<<<97>>, <<66>>>>,
               <<<<66, 65>>, <<98>>>>, <<<<64, 90, 91>>>>, <<<<195, 169>>>>}
LongName == <<Lbl(63, 97), Lbl(63, 66), Lbl(63, 97), Lbl(61, 98)>>
Questions == [id : {4660, 65535}, labels : ShortNames \cup {LongName},
              qtype : {1, 28, 65535}, qclass : {1}]
EncodeRequest(q) == Header(q.id, 1, 0, 1, 0) \o WireName(q.labels) \o Be16(q.qtype) \o Be16(q.qclass)

\* A question whose name is labels l1 and then a chain of k pointers; the
\* chain lies after QTYPE/QCLASS, each pointer naming the next, the last
\* naming labels l2.
ChainRequest(q, l1, k, l2) ==
    LET x == 12 + Len(WireLabels(l1)) + 6
        ptr(o) == <<192 + o \div 256, o % 256>>
    IN  Header(q.id, 1, 0, 1, 0) \o WireLabels(l1) \o ptr(x) \o Be16(q.qtype) \o Be16(q.qclass)
        \o SE!FlattenSeq([i \in 1..(k - 1) |-> ptr(x + 2 * i)]) \o WireName(l2)

\* The request cases and what decoding them must give.
Plain == {[packet |-> EncodeRequest(q), expect |-> Answered(q, q.labels)] : q \in Questions}
Truncated ==
    UNION {{[packet |-> SubSeq(EncodeRequest(q), 1, n), expect |-> None] :
                n \in 0..(Len(EncodeRequest(q)) - 1)} :
           q \in {[id |-> 4660, labels |-> l, qtype |-> 1, qclass |-> 1] : l \in {<<<<97>>, <<66>>>>, LongName}}}
Chains ==
    LET q == [id |-> 4660, qtype |-> 28, qclass |-> 1] IN
    {[packet |-> ChainRequest(q, l1, k, <<<<98>>>>),
      expect |-> IF k < MaxJumps THEN Answered(q, l1 \o <<<<98>>>>) ELSE None] :
        l1 \in {<<>>, <<<<65>>>>}, k \in 1..(MaxJumps + 1)}
Malformed ==
    {[packet |-> p, expect |-> None] :
        p \in {Header(1, 1, 0, 0, 0) \o WireName(<<<<97>>>>) \o <<0, 1, 0, 1>>,   \* QDCOUNT 0
               Header(1, 1, 0, 1, 0) \o <<192, 12, 0, 1, 0, 1>>,                  \* self-pointer
               Header(1, 1, 0, 1, 0) \o <<192, 18, 0, 1, 0, 1, 192, 12>>,         \* two-pointer loop
               Header(1, 1, 0, 1, 0) \o <<1, 97, 192, 12, 0, 1, 0, 1>>,           \* label then loop
               Header(1, 1, 0, 1, 0) \o WireName(<<<<255>>>>) \o <<0, 1, 0, 1>>}} \* not UTF-8
RequestCases == Plain \cup Truncated \cup Chains \cup Malformed

\* Quick request parsing agrees with the DNS wire format (parse_quick,
\* used by handle_packet_fast and handle_packet): a well-formed question of
\* up to 253 octets decodes to its id, case-folded name, QTYPE and QCLASS,
\* through chains of fewer than max_jumps compression pointers; a truncated
\* question, a QDCOUNT of 0, a longer chain, a pointer loop and a name that
\* is not UTF-8 are rejected.
QuickParseAgrees == \A c \in RequestCases : ParseQuick(c.packet) = c.expect

\* Replies: RCODE with the RA bit set, one or two questions (the second
\* compressed), and up to two answers whose owner is a pointer or a name.
ReplyAnswers == [ttl : {<<0, 0>>, <<0, 1>>, <<0, 300>>, <<32768, 0>>}, compressed : BOOLEAN]
EncodeAnswer(a) ==
    (IF a.compressed THEN <<192, 12>> ELSE WireName(<<<<97>>>>))
    \o <<0, 1, 0, 1>> \o Be32(a.ttl) \o Be16(4) \o <<10, 0, 0, 1>>
EncodeReply(rcode, qd, ans) ==
    Header(7, 129, 128 + rcode, qd, Len(ans)) \o WireName(<<<<97>>, <<66>>>>) \o <<0, 1, 0, 1>>
    \o (IF qd = 2 THEN <<192, 12, 0, 28, 0, 1>> ELSE <<>>)
    \o SE!FlattenSeq([i \in DOMAIN ans |-> EncodeAnswer(ans[i])])
ReplyCases ==
    {[packet |-> EncodeReply(rc, qd, ans),
      expect |-> [ok |-> TRUE, rcode |-> rc,
                  min_ttl |-> ExtractTtl({ans[i].ttl : i \in DOMAIN ans})]] :
        rc \in {0, 2, 3}, qd \in {1, 2},
        ans \in {<<>>} \cup {<<a>> : a \in ReplyAnswers} \cup {<<a, b>> : a, b \in ReplyAnswers}}

\* Quick response parsing agrees with the full decode (parse_response_quick
\* at engine.rs 532 against Message::from_bytes and extract_ttl): on a
\* well-formed reply it gives the same RCODE and the minimum answer TTL,
\* or 0 with no answers.  TTLs below u32::MAX only: see the README.
QuickResponseAgrees == \A c \in ReplyCases : ParseResponseQuick(c.packet) = c.expect
=============================================================================
