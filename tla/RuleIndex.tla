----------------------------- MODULE RuleIndex -----------------------------
(***************************************************************************)
(* The request-phase rule machinery of kixdns:                            *)
(*  - RuntimePipelineConfig::from_config (matcher.rs): legacy operator     *)
(*    folding and the runtime domain_suffix_index / always_check_rules;   *)
(*  - eval_match_chain and RuntimeMatcher::matches (matcher.rs);           *)
(*  - compile_pipeline, RuleIndex::add_rule / get_candidates,              *)
(*    precompute_action and fast_static_match (advanced_rule.rs);          *)
(*  - candidate selection and the rule walk of Engine::apply_rules, the    *)
(*    compiled fast path of handle_packet_fast and compiled_for           *)
(*    (engine.rs);                                                         *)
(*  - the config watcher's reload (watcher.rs).                            *)
(* A QNAME and a DomainSuffix value are sequences of characters, so that   *)
(* `ends_with` and the label stripping of get_candidates are modelled by   *)
(* what they do.  The L1/L2 caches in front of apply_rules are modelled in *)
(* SingleFlight.                                                           *)
(***************************************************************************)
EXTENDS Naturals, Sequences, SequencesExt, FiniteSets, Functions

CONSTANTS
    Clients,     \* client addresses, as model values
    Configs,     \* config snapshots a (re)load can produce: Seq([id, rules])
    Queries      \* [pipe, qname, client, skip]: skip is skip_rules

VARIABLES
    cfg,         \* the ArcSwap<RuntimePipelineConfig> `pipeline`
    compiled,    \* the ArcSwap<Vec<CompiledPipeline>> `compiled_pipelines`
    query        \* the query being answered

vars == <<cfg, compiled, query>>

Ops == {"and", "or", "andnot", "ornot"}   \* MatchOperator as serde builds it

(* Decisions, abstracted to what tells them apart. *)
Static(rc)   == [kind |-> "static", arg |-> rc]
Forward(n)   == [kind |-> "forward", arg |-> n]
JumpD        == [kind |-> "jump", arg |-> "target"]
Panic        == [kind |-> "panic", arg |-> "index"]   \* rules[idx] out of bounds
NoDecision   == [kind |-> "none", arg |-> "none"]
NextRule     == [kind |-> "next", arg |-> "none"]      \* fall through to the next candidate
NoQuery      == [pipe |-> "none", qname |-> <<>>, client |-> "none", skip |-> {}]

-----------------------------------------------------------------------------
(* matcher.rs: matching a request.                                        *)

\* RuntimeMatcher::matches; DomainSuffix is `qname.ends_with(value)`.
MatcherMatches(m, q) ==
    CASE m.kind = "any"    -> TRUE
      [] m.kind = "suffix" -> IsSuffix(m.suffix, q.qname)
      [] m.kind = "client" -> q.client \in m.net

\* Mutant: OrNot grouped with the And family in the `continue` guards.
SkipsOrNotOnFalse(op, acc) == IF op = "or" THEN acc ELSE ~acc

\* eval_match_chain's `continue` guards: an item is skipped when its
\* operator cannot change acc (And, AndNot, Not on false; Or, OrNot on true).
Skips(op, acc) == IF op \in {"or", "ornot"} THEN acc ELSE ~acc

\* acc && pred / acc || pred with acc known, and their negated forms.
ApplyOp(op, v) == IF op \in {"and", "or"} THEN v ELSE ~v

\* compiled_matcher_matches for the kinds compile_matcher produces.
CompiledMatcherMatches(m, q) ==
    CASE m.kind = "suffix" -> m.suffix = <<>> \/ IsSuffix(m.suffix, q.qname)
      [] m.kind = "client" -> q.client \in m.net

\* The predicate of a chain item: RuntimeMatcher::matches in apply_rules,
\* compiled_matcher_matches in fast_static_match.
ItemMatches(e, q, side) == IF side = "compiled" THEN CompiledMatcherMatches(e.m, q)
                           ELSE MatcherMatches(e.m, q)

\* eval_match_chain: the first item seeds acc.  TLA+ evaluates ItemMatches
\* lazily, so a skipped predicate is never evaluated, as in the code.
RECURSIVE ChainFrom(_, _, _, _, _)
ChainFrom(chain, q, side, i, acc) ==
    IF i > Len(chain) THEN acc
    ELSE ChainFrom(chain, q, side, i + 1,
                   IF Skips(chain[i].op, acc) THEN acc
                   ELSE ApplyOp(chain[i].op, ItemMatches(chain[i], q, side)))

EvalMatchChain(chain, q, side) ==
    IF chain = <<>> THEN TRUE ELSE ChainFrom(chain, q, side, 2, ItemMatches(chain[1], q, side))

RuleMatches(rule, q) == EvalMatchChain(rule.matchers, q, "runtime")

\* from_config: a non-default rule-level operator replaces the per-item
\* operators only when every one of them is the default And.
FromConfigRule(r) ==
    IF /\ \A i \in DOMAIN r.matchers : r.matchers[i].op = "and"
       /\ r.matchers # <<>>
       /\ r.op # "and"
    THEN [r EXCEPT !.matchers = [i \in DOMAIN r.matchers |->
                                    [r.matchers[i] EXCEPT !.op = r.op]]]
    ELSE r

FromConfig(c) == [i \in DOMAIN c |-> [c[i] EXCEPT !.rules =
                      [j \in DOMAIN c[i].rules |-> FromConfigRule(c[i].rules[j])]]]

\* from_config's runtime index: a rule whose rule-level operator is And is
\* indexed under its first DomainSuffix matcher, whatever the per-item
\* operators; every other rule is always checked.
SuffixItems(r) == {i \in DOMAIN r.matchers : r.matchers[i].m.kind = "suffix"}
RuntimeIndexed(r) == r.op = "and" /\ SuffixItems(r) # {}
RuntimeKey(r) == r.matchers[Min(SuffixItems(r))].m.suffix

-----------------------------------------------------------------------------
(* advanced_rule.rs: compilation, the index and the static fast path.     *)

\* compile_matcher: Any becomes DomainSuffix("").
CompileMatcher(m) == IF m.kind = "any" THEN [m EXCEPT !.kind = "suffix", !.suffix = <<>>]
                     ELSE m

\* Mutant: the configured rcode string kept instead of the parsed code.
PrecomputeActionRaw(rule) ==
    IF rule.actions # <<>> /\ Head(rule.actions) \in {"static", "deny"}
    THEN Head(rule.actions) ELSE "none"

\* parse_rcode succeeds for "static" and fails for "badstatic".
\* precompute_action: only the FIRST action is looked at.
PrecomputeAction(rule) ==
    IF rule.actions = <<>> THEN "none"
    ELSE CASE Head(rule.actions) = "static" -> "NOERROR"
           [] Head(rule.actions) = "deny"   -> "REFUSED"
           [] OTHER                         -> "none"

CompileRule(rule) ==
    [matchers |-> [i \in DOMAIN rule.matchers |->
                     [op |-> rule.matchers[i].op, m |-> CompileMatcher(rule.matchers[i].m)]],
     pre      |-> PrecomputeAction(rule)]

\* RuleIndex::add_rule: an And chain (operators after the first) goes into
\* the bucket of its first non-empty DomainSuffix; DomainExact and QueryType
\* are never produced by compile_matcher, so their buckets stay empty.
\* Mutant: AndNot items taken as part of an And chain.
AndChainWithNegation(cr) == \A i \in 2..Len(cr.matchers) : cr.matchers[i].op \in {"and", "andnot"}
AndChain(cr) == \A i \in 2..Len(cr.matchers) : cr.matchers[i].op = "and"
IndexItems(cr) == {i \in DOMAIN cr.matchers :
                     cr.matchers[i].m.kind = "suffix" /\ cr.matchers[i].m.suffix # <<>>}
CompiledIndexed(cr) == AndChain(cr) /\ IndexItems(cr) # {}
CompiledKey(cr) == cr.matchers[Min(IndexItems(cr))].m.suffix

\* compile_pipeline: compile each rule and add it to the index.
CompilePipeline(p) ==
    LET crs == [i \in DOMAIN p.rules |-> CompileRule(p.rules[i])]
        idx == {i \in DOMAIN crs : CompiledIndexed(crs[i])}
    IN [id     |-> p.id,
        rules  |-> crs,
        always |-> (DOMAIN crs) \ idx,
        suffix |-> {<<CompiledKey(crs[i]), i>> : i \in idx}]

CompilePipelines(c) == [i \in DOMAIN c |-> CompilePipeline(c[i])]

\* The search names of get_candidates: qname, then what follows each '.'.
RECURSIVE LabelSuffixes(_)
LabelSuffixes(name) ==
    LET dots == {i \in DOMAIN name : name[i] = "."}
    IN IF dots = {} THEN {name}
       ELSE {name} \cup LabelSuffixes(SubSeq(name, Min(dots) + 1, Len(name)))

\* Mutant: always_check, then the bucket hits, without the sort.
GetCandidatesUnsorted(cp, qname) ==
    LET hits == {e[2] : e \in {x \in cp.suffix : x[1] \in LabelSuffixes(qname)}}
    IN SetToSortSeq(cp.always, LAMBDA a, b : a < b) \o SetToSortSeq(hits \ cp.always, LAMBDA a, b : a < b)

\* RuleIndex::get_candidates: always_check plus the suffix buckets of every
\* search name, sorted and deduplicated.
GetCandidates(cp, qname) ==
    SetToSortSeq(cp.always \cup {e[2] : e \in {x \in cp.suffix : x[1] \in LabelSuffixes(qname)}},
                 LAMBDA a, b : a < b)

\* fast_static_match: the first matching candidate WITH a precomputed
\* action answers; a matching candidate without one is passed over.
RECURSIVE FastFrom(_, _, _)
FastFrom(cp, q, cands) ==
    IF cands = <<>> THEN NoDecision
    ELSE LET idx == Head(cands) IN
         IF idx > Len(cp.rules) THEN NoDecision
         ELSE IF /\ EvalMatchChain(cp.rules[idx].matchers, q, "compiled")
                 /\ cp.rules[idx].pre # "none"
              THEN Static(cp.rules[idx].pre)
              ELSE FastFrom(cp, q, Tail(cands))

FastStaticMatch(cp, q) == FastFrom(cp, q, GetCandidates(cp, q.qname))

-----------------------------------------------------------------------------
(* engine.rs: candidate selection, the rule walk and the fast path.       *)

\* compiled_for: the first compiled pipeline with that id, if any.
CompiledFor(cps, pid) == SelectSeq(cps, LAMBDA cp : cp.id = pid)

PipelineOf(pid) == Head(SelectSeq(cfg, LAMBDA p : p.id = pid))

\* apply_rules step 2: the compiled index's candidates; when there are none,
\* the runtime always_check_rules and domain_suffix_index lookups.
CandidateIndices(cps, pipe, q) ==
    LET cp    == CompiledFor(cps, pipe.id)
        fromC == IF cp = <<>> THEN <<>> ELSE GetCandidates(Head(cp), q.qname)
        rs    == pipe.rules
    IN IF fromC # <<>> THEN fromC
       ELSE SetToSortSeq({i \in DOMAIN rs : ~RuntimeIndexed(rs[i])}
                          \cup {i \in DOMAIN rs : RuntimeIndexed(rs[i])
                                                  /\ RuntimeKey(rs[i]) \in LabelSuffixes(q.qname)},
                         LAMBDA a, b : a < b)

\* The action walk of a matched rule: NextRule when it falls through
\* (Continue, or actions exhausted) to the next candidate.
RECURSIVE RuleActions(_, _)
RuleActions(rule, i) ==
    IF i > Len(rule.actions) THEN NextRule
    ELSE CASE rule.actions[i] = "static"    -> Static("NOERROR")
           [] rule.actions[i] = "badstatic" -> Static("NXDOMAIN")   \* unwrap_or(NXDomain)
           [] rule.actions[i] = "deny"      -> Static("REFUSED")
           [] rule.actions[i] = "forward"   -> Forward(rule.name)
           [] rule.actions[i] = "jump"      -> JumpD
           [] rule.actions[i] = "log"       -> RuleActions(rule, i + 1)
           [] rule.actions[i] = "continue"  -> NextRule

\* apply_rules step 3: `pipeline.rules[idx]` for each candidate, skipping
\* rules in skip_rules; no terminal action gives the default Forward.
RECURSIVE Walk(_, _, _)
Walk(pipe, q, cands) ==
    IF cands = <<>> THEN Forward("default")
    ELSE LET idx == Head(cands) IN
         IF idx > Len(pipe.rules) THEN Panic
         ELSE LET rule == pipe.rules[idx]
                  d    == IF rule.name \notin q.skip /\ RuleMatches(rule, q)
                          THEN RuleActions(rule, 1) ELSE NextRule
              IN IF d = NextRule THEN Walk(pipe, q, Tail(cands)) ELSE d

ApplyRules(cps, q) == LET pipe == PipelineOf(q.pipe) IN Walk(pipe, q, CandidateIndices(cps, pipe, q))

\* handle_packet_fast step 2: fast_static_match on compiled_for(pipeline).
FastPath(cps, q) == LET cp == CompiledFor(cps, q.pipe)
               IN IF cp = <<>> THEN NoDecision ELSE FastStaticMatch(Head(cp), q)

\* The engine's answer: the fast path's, else apply_rules'.
Answer(cps, q) == IF FastPath(cps, q) # NoDecision THEN FastPath(cps, q) ELSE ApplyRules(cps, q)

FastVerdict == FastPath(compiled, query)
SlowVerdict == ApplyRules(compiled, query)

-----------------------------------------------------------------------------
(* The state machine.                                                     *)

Init ==
    /\ \E c \in Configs : cfg = FromConfig(c) /\ compiled = CompilePipelines(cfg)
    /\ query = NoQuery

\* A query of a configured pipeline reaches handle_packet_fast and, when the
\* fast path does not answer, apply_rules with its L1 lookup missing.  Both
\* are functions of the state: FastVerdict and SlowVerdict below.
Query ==
    \E q \in Queries :
        /\ q.pipe \in {p.id : p \in Range(cfg)}
        /\ query' = q
        /\ UNCHANGED <<cfg, compiled>>

\* run_watcher: a successful reload stores the new RuntimePipelineConfig;
\* compiled_pipelines is written only by Engine::new and is left as it is.
Reload ==
    \E c \in Configs :
        /\ cfg' = FromConfig(c)
        /\ UNCHANGED <<compiled, query>>

Next == Query

\* Between reloads.
Spec == Init /\ [][Next]_vars

\* With the config watcher running.
SpecReload == Init /\ [][Next \/ Reload]_vars

-----------------------------------------------------------------------------
(* Properties.                                                            *)

ActionKinds == {"static", "badstatic", "deny", "forward", "jump", "log", "continue"}
MatcherT == [kind : {"any", "suffix", "client"}, suffix : Seq(STRING), net : SUBSET Clients]
ItemT    == [op : Ops, m : MatcherT]
RuleT    == [name : STRING, op : Ops, matchers : Seq(ItemT), actions : Seq(ActionKinds)]
CompiledT == [id : STRING, always : SUBSET Nat, suffix : SUBSET (Seq(STRING) \X Nat),
              rules : Seq([matchers : Seq(ItemT), pre : {"NOERROR", "REFUSED", "none"}])]

TypeOK ==
    /\ cfg \in Seq([id : STRING, rules : Seq(RuleT)])
    /\ compiled \in Seq(CompiledT)
    /\ query \in Queries \cup {NoQuery}

(* The spec's reading of a matcher chain, used as the reference:          *)
(* DomainSuffix(s) matches at a label boundary (s empty, the whole name,  *)
(* or the name ends with "." \o s), and the chain is the left fold        *)
(* ((p1 op2 p2) op3 p3) ... with AND-NOT as "/\ ~" and OR-NOT as "\/ ~".  *)
LabelSuffixMatch(s, name) == s = <<>> \/ s = name \/ IsSuffix(<<".">> \o s, name)

Combine(acc, op, v) == CASE op = "and"    -> acc /\ v
                         [] op = "or"     -> acc \/ v
                         [] op = "andnot" -> acc /\ ~v
                         [] op = "ornot"  -> acc \/ ~v

FoldChain(chain, Pred(_)) ==
    IF chain = <<>> THEN TRUE
    ELSE FoldLeft(LAMBDA acc, e : Combine(acc, e.op, Pred(e)), Pred(chain[1]), Tail(chain))

RefMatcher(m, q) == IF m.kind = "suffix" THEN LabelSuffixMatch(m.suffix, q.qname)
                    ELSE MatcherMatches(m, q)

\* A DomainSuffix of the pipeline that `ends_with` the qname inside a label.
MidLabelSuffix(pipe, q) ==
    \E r \in Range(pipe.rules) :
        \E k \in DOMAIN r.matchers :
            /\ r.matchers[k].m.kind = "suffix"
            /\ IsSuffix(r.matchers[k].m.suffix, q.qname)
            /\ ~LabelSuffixMatch(r.matchers[k].m.suffix, q.qname)

AllRules(pipe) == [i \in DOMAIN pipe.rules |-> i]

(* eval_match_chain's short-circuit loop (matcher.rs) computes the left    *)
(* fold of the chain of spec §4.2: skipping a predicate never changes the  *)
(* result, for every rule of the queried pipeline.                        *)
ChainIsLeftFold ==
    query # NoQuery =>
        \A r \in Range(PipelineOf(query.pipe).rules) :
            EvalMatchChain(r.matchers, query, "runtime")
                = FoldChain(r.matchers, LAMBDA e : MatcherMatches(e.m, query))

(* Spec §8 on candidate sets: the candidates apply_rules walks (compiled   *)
(* get_candidates, else the runtime fallback of engine.rs) are sorted      *)
(* without duplicates and hold every rule whose chain matches the query    *)
(* with DomainSuffix read at label boundaries: add_rule never indexes a    *)
(* rule under a key the lookup of a matching qname does not reach.         *)
CandidatesComplete ==
    query # NoQuery =>
        LET q    == query
            pipe == PipelineOf(q.pipe)
            c    == CandidateIndices(compiled, pipe, q)
        IN /\ \A i, j \in DOMAIN c : i < j => c[i] < c[j]
           /\ \A i \in DOMAIN pipe.rules :
                 FoldChain(pipe.rules[i].matchers, LAMBDA e : RefMatcher(e.m, q))
                 => i \in Range(c)

(* The index only saves work: unless a DomainSuffix of the pipeline ends   *)
(* the qname in the middle of a label, apply_rules over the candidates     *)
(* decides as the walk over every rule in declaration order, with its     *)
(* skip_rules, Log, Continue and exhausted action lists.                   *)
CandidatesPreserveDecision ==
    query # NoQuery /\ ~MidLabelSuffix(PipelineOf(query.pipe), query)
        => SlowVerdict = Walk(PipelineOf(query.pipe), query, AllRules(PipelineOf(query.pipe)))

(* handle_packet_fast answers from fast_static_match before apply_rules;  *)
(* spec §6 has it answer only what the full path would: a static answer    *)
(* of the fast path is apply_rules' decision for the same query.           *)
FastPathAgrees == query # NoQuery /\ FastVerdict # NoDecision => FastVerdict = SlowVerdict

(* Spec §2/§5: compiled pipelines are rebuilt from each new snapshot, so   *)
(* a query is answered as the current snapshot's compiled pipelines        *)
(* answer it.                                                              *)
CompiledFollowsReload ==
    query # NoQuery /\ query.pipe \in {p.id : p \in Range(cfg)}
        => Answer(compiled, query) = Answer(CompilePipelines(cfg), query)
=============================================================================
