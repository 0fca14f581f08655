---------------------------- MODULE ResponseMatch ----------------------------
(***************************************************************************)
(* The selector and response matchers of matcher.rs and the pipeline      *)
(* selection of engine.rs:                                                 *)
(*  - RuntimePipelineSelectorMatcher::from_config / matches and the        *)
(*    legacy operator folding of RuntimePipelineConfig::from_config for    *)
(*    pipeline_select; select_pipeline;                                    *)
(*  - RuntimeResponseMatcher::from_config (CIDR lists split on ',',        *)
(*    trimmed, empty parts skipped; values upper- or lowercased) and       *)
(*    RuntimeResponseMatcher::matches; parse_dns_class.                    *)
(* Data is abstracted to what the matchers tell apart: a qname and a       *)
(* DomainSuffix value are sequences of characters with their case, a word  *)
(* (label, type, rcode, class) is its letters and its case, an address is  *)
(* a model value and a CIDR the set of addresses it contains.  Regex       *)
(* matchers are left out (the regex engine is not modelled).               *)
(***************************************************************************)
EXTENDS Naturals, Sequences, SequencesExt, FiniteSets, Functions

Ops == {"and", "or", "andnot", "ornot"}

\* A word: its letters (lowercase) and its case, "lower", "upper" or "mixed".
Word(w, c) == [w |-> w, c |-> c]
\* str::to_ascii_uppercase.
ToUpper(x) == [x EXCEPT !.c = "upper"]
\* str::eq_ignore_ascii_case.
EqIgnoreCase(x, y) == x.w = y.w

\* A character of a qname and str::to_ascii_lowercase over a sequence.
LowerOf == [c \in {"a", "A", "b", "B", "."} |-> CASE c = "A" -> "a" [] c = "B" -> "b" [] OTHER -> c]
ToLower(s) == [i \in DOMAIN s |-> LowerOf[s[i]]]

\* Addresses: two IPv4 and one IPv6; a CIDR text names the set it contains.
V4 == {"ip1", "ip2"}
V6 == {"ip6"}
CidrNets == [n1 |-> {"ip1"}, n12 |-> {"ip1", "ip2"}, n6 |-> {"ip6"}]

Err == [ok |-> FALSE]

\* `cidr.parse::<IpNet>()`: a CIDR text, or an error.
ParseNet(t) == IF t \in DOMAIN CidrNets THEN [ok |-> TRUE, v |-> CidrNets[t]] ELSE Err

\* parse_dns_class: uppercase, then IN, CH or CHAOS, HS; any other is an error.
ParseDnsClass(x) ==
    CASE x.w = "in" -> [ok |-> TRUE, v |-> "IN"]
      [] x.w \in {"ch", "chaos"} -> [ok |-> TRUE, v |-> "CH"]
      [] x.w = "hs" -> [ok |-> TRUE, v |-> "HS"]
      [] OTHER -> Err

-----------------------------------------------------------------------------
(* Pipeline selection.                                                    *)

\* A config matcher: one record shape for every `type`, unused fields at
\* their defaults.
NoWord == Word("", "lower")
CfgSel(t, word, sfx, cidr, flag) == [type |-> t, word |-> word, sfx |-> sfx, cidr |-> cidr, flag |-> flag]

\* RuntimePipelineSelectorMatcher::from_config: labels kept as written,
\* suffixes lowercased, the CIDR and the class parsed (an error fails the
\* whole config load).
SelFromConfig(m) ==
    LET net == ParseNet(m.cidr)
        cls == ParseDnsClass(m.word)
        rt(nets, c) == [ok |-> TRUE, v |-> [type |-> m.type, word |-> m.word, sfx |-> ToLower(m.sfx),
                                             nets |-> nets, cls |-> c, flag |-> m.flag]]
    IN CASE m.type = "client_ip" -> IF net.ok THEN rt(net.v, "IN") ELSE Err
         [] m.type = "qclass"    -> IF cls.ok THEN rt({}, cls.v) ELSE Err
         [] OTHER                -> rt({}, "IN")

\* RuntimePipelineSelectorMatcher::matches.
SelMatches(m, ctx) ==
    CASE m.type = "listener_label" -> EqIgnoreCase(m.word, ctx.label)
      [] m.type = "client_ip"      -> ctx.client \in m.nets
      [] m.type = "domain_suffix"  -> IsSuffix(m.sfx, ctx.qname)
      [] m.type = "any"            -> TRUE
      [] m.type = "qclass"         -> m.cls = ctx.qclass
      [] m.type = "edns_present"   -> m.flag = ctx.edns

\* The legacy matcher_operator of a rule applies to every item only when
\* each item has the default And (from_config, for rules, response
\* matchers and pipeline_select alike).
FoldLegacyOp(items, ruleOp) ==
    IF /\ items # <<>>
       /\ \A i \in DOMAIN items : items[i].op = "and"
       /\ ruleOp # "and"
    THEN [i \in DOMAIN items |-> [items[i] EXCEPT !.op = ruleOp]]
    ELSE items

\* The pipeline_select part of RuntimePipelineConfig::from_config: each
\* selector rule's matchers compiled and folded, or an error.
SelectRulesFromConfig(sel) ==
    LET comp(r) == [i \in DOMAIN r.matchers |-> SelFromConfig(r.matchers[i].m)]
    IN IF \E r \in Range(sel) : \E i \in DOMAIN r.matchers : ~comp(r)[i].ok THEN Err
       ELSE [ok |-> TRUE,
             v  |-> [k \in DOMAIN sel |->
                       [pipeline |-> sel[k].pipeline,
                        matchers |-> FoldLegacyOp([i \in DOMAIN sel[k].matchers |->
                                        [op |-> sel[k].matchers[i].op, m |-> comp(sel[k])[i].v]],
                                      sel[k].op)]]]

\* eval_match_chain's `continue` guards and the update of acc.
Skips(op, acc) == IF op \in {"or", "ornot"} THEN acc ELSE ~acc
ApplyOp(op, v) == IF op \in {"and", "or"} THEN v ELSE ~v

\* eval_match_chain over selector matchers, the first item seeding acc.
RECURSIVE SelChainFrom(_, _, _, _)
SelChainFrom(chain, ctx, i, acc) ==
    IF i > Len(chain) THEN acc
    ELSE SelChainFrom(chain, ctx, i + 1,
                      IF Skips(chain[i].op, acc) THEN acc
                      ELSE ApplyOp(chain[i].op, SelMatches(chain[i].m, ctx)))

SelChain(chain, ctx) ==
    IF chain = <<>> THEN TRUE ELSE SelChainFrom(chain, ctx, 2, SelMatches(chain[1].m, ctx))

\* (mutant) a matching selector is taken without looking its pipeline up.
SelectPipelineUnchecked(rules, pipes, ctx) ==
    LET hits == {k \in DOMAIN rules : SelChain(rules[k].matchers, ctx)}
    IN IF hits # {} THEN rules[Min(hits)].pipeline
       ELSE IF pipes # <<>> THEN pipes[1] ELSE "default"

\* select_pipeline: the first selector whose chain matches AND whose
\* pipeline id is configured; else the first pipeline; else "default".
\* The result is the pipeline id (the pipeline is the first with that id).
SelectPipeline(rules, pipes, ctx) ==
    LET hits == {k \in DOMAIN rules : SelChain(rules[k].matchers, ctx) /\ rules[k].pipeline \in Range(pipes)}
    IN IF hits # {} THEN rules[Min(hits)].pipeline
       ELSE IF pipes # <<>> THEN pipes[1] ELSE "default"
-----------------------------------------------------------------------------
(* Response matchers.                                                     *)

\* An upstream string: an address (or a host name) with or without a port.
Upstream(h, port) == [host |-> h, port |-> port]

\* try_parse_upstream_ip: as a SocketAddr, else as an IpAddr; a host name
\* parses as neither.
TryParseUpstreamIp(u) == IF u.host \in V4 \cup V6 THEN [ok |-> TRUE, v |-> u.host] ELSE Err

\* The CIDR list of response_upstream_ip and response_answer_ip: parts
\* split on ',', each [pad, text]: trim() drops the blanks pad stands for.
RECURSIVE ParseCidrList(_)
ParseCidrList(parts) ==
    IF parts = <<>> THEN [ok |-> TRUE, v |-> {}]
    ELSE LET rest == ParseCidrList(Tail(parts))
             s    == Head(parts).text          \* part.trim()
             net  == ParseNet(s)
         IN IF s = "" THEN rest                \* empty parts are skipped
            ELSE IF ~net.ok \/ ~rest.ok THEN Err
            ELSE [ok |-> TRUE, v |-> {net.v} \cup rest.v]

CfgResp(t, word, sfx, up, parts, flag) ==
    [type |-> t, word |-> word, sfx |-> sfx, up |-> up, parts |-> parts, flag |-> flag]

\* RuntimeResponseMatcher::from_config: the upstream kept as written, the
\* suffix lowercased, type and rcode uppercased, CIDR lists and the class
\* parsed (an error fails the config load).
RespFromConfig(m) ==
    LET nets == ParseCidrList(m.parts)
        cls  == ParseDnsClass(m.word)
        rt(word, ns, c) == [ok |-> TRUE, v |-> [type |-> m.type, word |-> word, sfx |-> ToLower(m.sfx),
                                                up |-> m.up, nets |-> ns, cls |-> c, flag |-> m.flag]]
    IN CASE m.type \in {"response_upstream_ip", "response_answer_ip"} ->
                IF nets.ok THEN rt(m.word, nets.v, "IN") ELSE Err
         [] m.type \in {"response_type", "response_rcode"} -> rt(ToUpper(m.word), {}, "IN")
         [] m.type = "response_qclass" -> IF cls.ok THEN rt(m.word, {}, cls.v) ELSE Err
         [] OTHER -> rt(m.word, {}, "IN")

\* The rcode strings of ResponseRcode: six named codes, every other "OTHER".
RcodeStr(rc) ==
    IF rc \in {"noerror", "formerr", "servfail", "nxdomain", "notimp", "refused"}
    THEN Word(rc, "upper") ELSE Word("other", "upper")

\* Some A or AAAA record of `recs` has an address in one of `nets`.
AddrIn(recs, nets) ==
    \E k \in DOMAIN recs : recs[k].rtype \in {"a", "aaaa"} /\ \E n \in nets : recs[k].ip \in n

\* (mutant) response_answer_ip reads the Answer section only.
RespMatchesAnswersOnly(m, ctx) ==
    CASE m.type = "upstream_equals"       -> m.up = ctx.upstream
      [] m.type = "request_domain_suffix" -> IsSuffix(m.sfx, ctx.qname)
      [] m.type = "response_upstream_ip"  ->
            LET ip == TryParseUpstreamIp(ctx.upstream) IN ip.ok /\ \E n \in m.nets : ip.v \in n
      [] m.type = "response_answer_ip"    ->
            AddrIn(ctx.msg.answers, m.nets)
      [] m.type = "response_type"         ->
            m.word = Word(IF ctx.msg.answers = <<>> THEN ctx.qtype ELSE ctx.msg.answers[1].rtype, "upper")
      [] m.type = "response_rcode"        -> m.word = RcodeStr(ctx.msg.rcode)
      [] m.type = "response_qclass"       -> m.cls = ctx.qclass
      [] m.type = "response_edns_present" -> m.flag = ctx.msg.edns

\* RuntimeResponseMatcher::matches.  ResponseType compares the Display of
\* the first answer's type (else the query's) with the uppercased value.
RespMatches(m, ctx) ==
    CASE m.type = "upstream_equals"       -> m.up = ctx.upstream
      [] m.type = "request_domain_suffix" -> IsSuffix(m.sfx, ctx.qname)
      [] m.type = "response_upstream_ip"  ->
            LET ip == TryParseUpstreamIp(ctx.upstream) IN ip.ok /\ \E n \in m.nets : ip.v \in n
      [] m.type = "response_answer_ip"    ->
            AddrIn(ctx.msg.answers, m.nets) \/ AddrIn(ctx.msg.additionals, m.nets)
      [] m.type = "response_type"         ->
            m.word = Word(IF ctx.msg.answers = <<>> THEN ctx.qtype ELSE ctx.msg.answers[1].rtype, "upper")
      [] m.type = "response_rcode"        -> m.word = RcodeStr(ctx.msg.rcode)
      [] m.type = "response_qclass"       -> m.cls = ctx.qclass
      [] m.type = "response_edns_present" -> m.flag = ctx.msg.edns

-----------------------------------------------------------------------------
(* The reading of spec §4.2, §4.4 and §2 these are checked against, on    *)
(* the config values themselves.                                          *)

\* The §4.2 chain: acc := pred_0, then And, Or, AndNot, OrNot in turn.
Combine(acc, op, p) ==
    CASE op = "and" -> acc /\ p [] op = "or" -> acc \/ p
      [] op = "andnot" -> acc /\ ~p [] op = "ornot" -> acc \/ ~p

\* A rule's chain with the legacy operator of §4.2: a non-default rule
\* operator applies to items that all have the default.
SpecChain(items, ruleOp, Pred(_)) ==
    LET allAnd == \A i \in DOMAIN items : items[i].op = "and"
        op(i)  == IF allAnd THEN ruleOp ELSE items[i].op
    IN IF items = <<>> THEN TRUE
       ELSE FoldLeft(LAMBDA acc, i : Combine(acc, op(i), Pred(items[i].m)),
                     Pred(items[1].m), [i \in 1..(Len(items) - 1) |-> i + 1])

\* The class a config value names, for a value the config accepts.
ClassNamed(x) == CASE x.w = "in" -> "IN" [] x.w \in {"ch", "chaos"} -> "CH" [] OTHER -> "HS"

\* A selector predicate as §2 states it: labels compared ignoring case,
\* suffixes and qnames compared in lowercase.
SpecSel(m, ctx) ==
    CASE m.type = "listener_label" -> m.word.w = ctx.label.w
      [] m.type = "client_ip"      -> ctx.client \in CidrNets[m.cidr]
      [] m.type = "domain_suffix"  -> IsSuffix(ToLower(m.sfx), ToLower(ctx.qname))
      [] m.type = "any"            -> TRUE
      [] m.type = "qclass"         -> ClassNamed(m.word) = ctx.qclass
      [] m.type = "edns_present"   -> m.flag = ctx.edns

\* §2 pipeline selection: the first selector that matches names the
\* pipeline; a selector naming no configured pipeline is passed over (the
\* spec is silent; see the hazard at engine.rs:1744); else the first
\* pipeline, else "default".
SpecSelect(sel, pipes, ctx) ==
    LET hit(k) == sel[k].pipeline \in Range(pipes) /\ SpecChain(sel[k].matchers, sel[k].op, LAMBDA m : SpecSel(m, ctx))
    IN IF \E k \in DOMAIN sel : hit(k)
       THEN sel[CHOOSE k \in DOMAIN sel : hit(k) /\ \A j \in 1..(k - 1) : ~hit(j)].pipeline
       ELSE IF pipes # <<>> THEN pipes[1] ELSE "default"

\* A response predicate as §2 lists it: ResponseUpstreamIp over the listed
\* CIDRs, ResponseAnswerIp over the A/AAAA records of Answer and
\* Additional, ResponseType and ResponseRcode compared in uppercase.
SpecResp(m, ctx) ==
    LET listed == {CidrNets[m.parts[i].text] : i \in {j \in DOMAIN m.parts : m.parts[j].text # ""}}
        recs   == ctx.msg.answers \o ctx.msg.additionals
    IN CASE m.type = "upstream_equals"       -> m.up = ctx.upstream
         [] m.type = "request_domain_suffix" -> IsSuffix(ToLower(m.sfx), ToLower(ctx.qname))
         [] m.type = "response_upstream_ip"  -> \E n \in listed : ctx.upstream.host \in n
         [] m.type = "response_answer_ip"    ->
               \E k \in DOMAIN recs : recs[k].rtype \in {"a", "aaaa"} /\ \E n \in listed : recs[k].ip \in n
         [] m.type = "response_type"         ->
               m.word.w = IF ctx.msg.answers = <<>> THEN ctx.qtype ELSE ctx.msg.answers[1].rtype
         [] m.type = "response_rcode"        -> m.word.w = ctx.msg.rcode
         [] m.type = "response_qclass"       -> ClassNamed(m.word) = ctx.qclass
         [] m.type = "response_edns_present" -> m.flag = ctx.msg.edns

\* A config value the loader accepts: every CIDR text and class parses.
SpecValid(m) ==
    /\ "cidr" \in DOMAIN m /\ m.type = "client_ip" => m.cidr \in DOMAIN CidrNets
    /\ "parts" \in DOMAIN m => \A i \in DOMAIN m.parts : m.parts[i].text \in DOMAIN CidrNets \cup {""}
    /\ m.type \in {"qclass", "response_qclass"} => m.word.w \in {"in", "ch", "chaos", "hs"}

-----------------------------------------------------------------------------
(* The cases checked.                                                     *)

SelL == CfgSel("listener_label", Word("udp", "mixed"), <<>>, "", FALSE)
SelC == CfgSel("client_ip", NoWord, <<>>, "n1", FALSE)
SelD == CfgSel("domain_suffix", NoWord, <<"B">>, "", FALSE)
SelY == CfgSel("any", NoWord, <<>>, "", FALSE)
SelQ == CfgSel("qclass", Word("chaos", "lower"), <<>>, "", FALSE)
SelE == CfgSel("edns_present", NoWord, <<>>, "", TRUE)
SelValid == {SelL, SelC, SelD, SelY, SelQ, SelE}
SelBad == {CfgSel("client_ip", NoWord, <<>>, "bad", FALSE), CfgSel("qclass", Word("xx", "lower"), <<>>, "", FALSE)}

Item(o, m) == [op |-> o, m |-> m]
SelChains == {<<Item("and", m)>> : m \in SelValid \cup SelBad}
             \cup {<<Item("and", m1), Item(o, m2)>> : m1, m2 \in SelValid \cup SelBad, o \in Ops}

\* One selector rule (to p2) with every chain of one or two items and its legacy
\* operator; two selector rules of one item naming p1, p2 or no pipeline.
SelConfigs ==
    {<<[pipeline |-> "p2", op |-> o, matchers |-> ch]>> : ch \in SelChains, o \in {"and", "or", "andnot"}}
    \cup {<<[pipeline |-> p, op |-> "and", matchers |-> <<Item("and", m)>>],
            [pipeline |-> q, op |-> "and", matchers |-> <<Item("and", n)>>]>> :
             p, q \in {"p1", "p2", "gone"}, m, n \in SelValid}

PipeLists == {<<"p1", "p2">>, <<"p2">>, <<>>}

\* What select_pipeline is given; qnames are parse_quick's, lowercased.
SelContexts == [label : {Word("udp", "lower"), Word("udp", "upper"), Word("tcp", "lower")},
                client : V4, qname : {<<"a", ".", "b">>, <<"a">>}, qclass : {"IN", "CH"}, edns : BOOLEAN]

\* RuntimePipelineConfig::from_config accepts a pipeline_select exactly
\* when every CIDR and class in it parses, and select_pipeline over the
\* compiled selectors (case folding, legacy operator folding, the chain,
\* the pipeline lookup and both fallbacks) picks the pipeline §2 picks
\* from the config as written.
SelectPipelineAgrees ==
    \A sel \in SelConfigs, pipes \in PipeLists :
        LET c == SelectRulesFromConfig(sel)
        IN /\ c.ok <=> \A k \in DOMAIN sel : \A i \in DOMAIN sel[k].matchers : SpecValid(sel[k].matchers[i].m)
           /\ c.ok => \A ctx \in SelContexts : SelectPipeline(c.v, pipes, ctx) = SpecSelect(sel, pipes, ctx)

Part(pad, t) == [pad |-> pad, text |-> t]
Up1 == Upstream("ip1", TRUE)
RespCfgs ==
    {CfgResp("upstream_equals", NoWord, <<>>, Up1, <<>>, FALSE),
     CfgResp("request_domain_suffix", NoWord, <<"A">>, Up1, <<>>, FALSE),
     CfgResp("response_upstream_ip", NoWord, <<>>, Up1, <<Part(TRUE, "n1"), Part(FALSE, "")>>, FALSE),
     CfgResp("response_answer_ip", NoWord, <<>>, Up1, <<Part(FALSE, "n1"), Part(TRUE, "n6")>>, FALSE),
     CfgResp("response_answer_ip", NoWord, <<>>, Up1, <<Part(TRUE, ""), Part(FALSE, "bad")>>, FALSE),
     CfgResp("response_type", Word("aaaa", "mixed"), <<>>, Up1, <<>>, FALSE),
     CfgResp("response_rcode", Word("nxdomain", "lower"), <<>>, Up1, <<>>, FALSE),
     CfgResp("response_qclass", Word("ch", "upper"), <<>>, Up1, <<>>, FALSE),
     CfgResp("response_qclass", Word("xx", "upper"), <<>>, Up1, <<>>, FALSE),
     CfgResp("response_edns_present", NoWord, <<>>, Up1, <<>>, TRUE)}

\* Records of a reply: A, AAAA (ip6) or CNAME; a section holds at most one.
Recs == {[rtype |-> "a", ip |-> i] : i \in V4} \cup {[rtype |-> "aaaa", ip |-> "ip6"], [rtype |-> "cname", ip |-> "none"]}
Sections == {<<>>} \cup {<<r>> : r \in Recs}

RespContexts ==
    [upstream : {Up1, Upstream("ip2", FALSE), Upstream("name", TRUE)},
     qname : {<<"a">>, <<"b", ".", "a">>}, qtype : {"a", "aaaa"}, qclass : {"IN", "CH"},
     msg : [answers : Sections, additionals : Sections, rcode : {"noerror", "nxdomain", "yxdomain"}, edns : BOOLEAN]]

\* RuntimeResponseMatcher::from_config accepts a response matcher exactly
\* when its CIDR list (trimmed, empty parts skipped) and class parse, and
\* the compiled matcher holds of a reply exactly when §2 says it does.
ResponseMatchAgrees ==
    \A m \in RespCfgs :
        LET c == RespFromConfig(m)
        IN /\ c.ok <=> SpecValid(m)
           /\ c.ok => \A ctx \in RespContexts : RespMatches(c.v, ctx) = SpecResp(m, ctx)
=============================================================================
