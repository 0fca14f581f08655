---------------------------- MODULE MCRuleIndex ----------------------------
(* Instances of RuleIndex: every two-rule pipeline over a small universe   *)
(* of matcher chains, and qnames built from the characters a, b and '.'.   *)
EXTENDS RuleIndex

CONSTANTS c1, c2

MCClients == {c1, c2}

\* Strings as character sequences.
B   == <<"b">>
AB  == <<"a", "b">>
ADB == <<"a", ".", "b">>       \* "a.b"
BADB == <<"b", "a", ".", "b">> \* "ba.b"
A   == <<"a">>

AnyM       == [kind |-> "any",    suffix |-> <<>>, net |-> {}]
Sfx(s)     == [kind |-> "suffix", suffix |-> s,    net |-> {}]
Net(S)     == [kind |-> "client", suffix |-> <<>>, net |-> S]

MatcherSet == {AnyM, Sfx(B), Sfx(ADB), Net({c1})}

\* Chains of one or two items; the first item's operator is the serde default.
Chains == {<<[op |-> "and", m |-> m]>> : m \in MatcherSet}
          \cup {<<[op |-> "and", m |-> m1], [op |-> o, m |-> m2]>> :
                   m1 \in MatcherSet, m2 \in MatcherSet, o \in Ops}

\* A rule as the config file gives it, with its rule-level operator.
MkRules(name, Acts) ==
    {[name |-> name, op |-> ro, matchers |-> ch, actions |-> a] :
        ch \in Chains, a \in Acts, ro \in {"and", "or"}}

\* Two rules: the first with any chain, the second with a one-item chain.
TwoRulePipelines(Acts1, Acts2) ==
    {<<[id |-> "p1", rules |-> <<r1, r2>>]>> :
        r1 \in MkRules("r1", Acts1),
        r2 \in MkRules("r2", Acts2)}

\* ri_main: a first rule that falls through or forwards, a second that is static.
MainConfigs == TwoRulePipelines({<<"continue">>, <<"forward">>}, {<<"static">>})

\* ri_fast: first actions the fast path has no precomputed answer for.
FastConfigs == TwoRulePipelines({<<"forward">>, <<"badstatic">>, <<"log", "deny">>}, {<<"deny">>})

(***************************************************************************)
(* The qnames handle_packet gives the rule engine are parse_quick's      *)
(* output: the questions "A", "b", "Ab", "a.B" and "BA.b" are encoded as  *)
(* request packets and parsed, giving A, B, AB, ADB and BADB.             *)
(***************************************************************************)
PU == INSTANCE ProtoUtils
Glyph == [b \in {46, 97, 98} |-> CASE b = 46 -> "." [] b = 97 -> "a" [] b = 98 -> "b"]
QueryNames == {<<<<65>>>>, <<<<98>>>>, <<<<65, 98>>>>, <<<<97>>, <<66>>>>, <<<<66, 65>>, <<98>>>>}
ParsedQNames ==
    {[i \in DOMAIN r.qname |-> Glyph[r.qname[i]]] :
        r \in {PU!ParseQuick(PU!EncodeRequest([id |-> 1, labels |-> l, qtype |-> 1, qclass |-> 1])) :
                 l \in QueryNames}}

MCQueries == [pipe : {"p1"}, qname : ParsedQNames, client : MCClients,
              skip : {{}, {"r1"}}]

\* Whenever a query is being answered, the parse_quick that produced its
\* qname (engine.rs 127 and 256) agrees with the DNS wire format: it
\* decodes well-formed questions, case-folded, through fewer than max_jumps
\* pointers, and rejects truncated questions, pointer loops and names that
\* are not UTF-8 (ProtoUtils).
QuickParseAgrees == query # NoQuery => PU!QuickParseAgrees

RM == INSTANCE ResponseMatch

\* Whenever a query is being answered, the pipeline select_pipeline
\* (engine.rs 147 and 274) picks from the compiled pipeline_select is the
\* one spec §2 picks from the config as written (ResponseMatch).
SelectPipelineAgrees == query # NoQuery => RM!SelectPipelineAgrees

\* Whenever a query is being answered, the response matchers its rules
\* carry into the response phase (engine.rs 552, 1265, 1612) hold of a
\* reply exactly as spec §2 states them (ResponseMatch).
ResponseMatchAgrees == query # NoQuery => RM!ResponseMatchAgrees

\* ri_reload: one- and two-rule pipelines p1 or p2 with one-item chains;
\* a static rule comes first, so the fast path agrees with apply_rules.
OneItem(name, Acts) == {r \in MkRules(name, Acts) : Len(r.matchers) = 1 /\ r.op = "and"}
ReloadConfigs ==
    {<<[id |-> pid, rules |-> rs]>> :
        pid \in {"p1", "p2"},
        rs \in {<<r>> : r \in OneItem("r1", {<<"deny">>, <<"forward">>})}
              \cup {<<r, s>> : r \in OneItem("r1", {<<"deny">>}), s \in OneItem("r2", {<<"forward">>})}}

ReloadQueries == [pipe : {"p1", "p2"}, qname : {A, B, ADB}, client : MCClients, skip : {{}}]
=============================================================================
