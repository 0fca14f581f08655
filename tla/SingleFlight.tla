---------------------------- MODULE SingleFlight ----------------------------
(***************************************************************************)
(* The request path of kixdns's Engine (src/engine.rs) for concurrent      *)
(* queries of one (qname, qtype): the UDP fast path (handle_packet_fast),   *)
(* the decision loop of handle_packet with its jump resolution, Continue   *)
(* and response actions, the single-flight map `inflight` with its         *)
(* InflightCleanupGuard, the response cache (L2, `cache`) and the rule     *)
(* cache (L1, `rule_cache`).                                               *)
(*                                                                         *)
(* Every query runs as its own tokio task on a multi-thread runtime, so a  *)
(* step of one task may fall between any two map operations of another.   *)
(* A step here ends at an await or at a DashMap/moka operation another     *)
(* task can observe.  The query name and type are fixed, so the L2 and     *)
(* in-flight key calculate_cache_hash_for_dedupe(p, qname, qtype) is the   *)
(* pipeline id p, and the L1 key calculate_rule_hash(p, qname, ip) is the  *)
(* pair <<p, client>>.                                                     *)
(***************************************************************************)
EXTENDS Integers, Sequences, FiniteSets, Functions

CONSTANTS
    Req,           \* the concurrent queries (one tokio task each)
    Clients,       \* client addresses; ClientIp matchers tell them apart
    PipelineList,  \* cfg.pipelines, in declaration order (ids)
    SelectRules,   \* cfg.pipeline_select: <<[clients, pipeline]>>
    Rules,         \* [pipeline id -> <<rule>>], rule =
                   \*   [name, clients, actions, onMatch, onMiss]
    MinTtl,        \* settings.min_ttl, in seconds
    JumpLimit,     \* settings.response_jump_limit
    Malformed,     \* whether an upstream reply can fail to parse
    Expiry,        \* whether moka expiry/eviction is explored
    NoReq          \* model value: no owner

Pipelines == Range(PipelineList)

\* A request-phase action of a rule: k is "log", "static" (StaticResponse,
\* StaticIpResponse and Deny all give a Static decision), "jump", "allow",
\* "forward" or "continue"; `to` is the jump target.
ReqActions == {"log", "static", "jump", "allow", "forward", "continue"}
\* Response-phase actions ("static" again stands for StaticResponse,
\* StaticIpResponse and Deny); a pipeline id in an on_match/on_miss list
\* stands for JumpToPipeline to that pipeline.
RespActions == {"log", "static", "allow", "forward", "continue"}

AllRules == UNION {Range(Rules[p]) : p \in Pipelines}
RuleNames == {rl.name : rl \in AllRules}

ASSUME /\ PipelineList # <<>>
       /\ NoReq \notin Req
       /\ MinTtl \in Nat /\ JumpLimit \in Nat /\ Malformed \in BOOLEAN /\ Expiry \in BOOLEAN
       /\ \A p \in Pipelines : \A i \in DOMAIN Rules[p] :
             /\ \A j \in DOMAIN Rules[p][i].actions :
                   Rules[p][i].actions[j].k \in ReqActions
             /\ Range(Rules[p][i].onMatch) \cup Range(Rules[p][i].onMiss)
                   \subseteq RespActions \cup Pipelines

\* MAX_RESPONSE_FORWARDS in apply_response_actions.
MaxRespForwards == 4
\* A reply's minimum answer TTL (extract_ttl): zero or positive.
Ttls == {0, 1}


(***************************************************************************)
(* Decisions (enum Decision) and answers.  A record with every field keeps *)
(* the values comparable.                                                  *)
(***************************************************************************)
MkDecision(kind, rule, target, reuse, onMatch, onMiss) ==
    [kind |-> kind, rule |-> rule, target |-> target, reuse |-> reuse,
     onMatch |-> onMatch, onMiss |-> onMiss]
StaticD(rule) == MkDecision("static", rule, "none", FALSE, <<>>, <<>>)
ServFailD == StaticD("servfail")
NoDecision == MkDecision("none", "none", "none", FALSE, <<>>, <<>>)
\* The fallback Forward to the default upstream (engine.rs 1110-1131).
DefaultD == MkDecision("forward", "default", "none", FALSE, <<>>, <<>>)

\* The bytes a query is answered with, abstracted to where they came from.
Answer(src, rule) == [src |-> src, rule |-> rule]
NoAnswer == Answer("none", "none")
NoEntry == [pid |-> "none", ans |-> NoAnswer]
NoSlot == [owner |-> NoReq, waiters |-> {}]

(***************************************************************************)
(* apply_rules (engine.rs 879-1132).  The walk visits every rule in order; *)
(* the candidate index that narrows it is the subject of RuleIndex.        *)
(***************************************************************************)
\* Mutant: the Forward arm built like the Allow arm (allow_reuse: true).
RuleDecisionReuseForward(rule, a) ==
    CASE a.k = "static"  -> StaticD(rule.name)
      [] a.k = "jump"    -> MkDecision("jump", rule.name, a.to, FALSE, <<>>, <<>>)
      [] a.k = "allow"   -> MkDecision("forward", rule.name, "none", TRUE, <<>>, <<>>)
      [] a.k = "forward" -> MkDecision("forward", rule.name, "none", TRUE,
                                       rule.onMatch, rule.onMiss)

\* The Decision a matching rule's first non-Log action gives.
RuleDecision(rule, a) ==
    CASE a.k = "static"  -> StaticD(rule.name)
      [] a.k = "jump"    -> MkDecision("jump", rule.name, a.to, FALSE, <<>>, <<>>)
      [] a.k = "allow"   -> MkDecision("forward", rule.name, "none", TRUE, <<>>, <<>>)
      [] a.k = "forward" -> MkDecision("forward", rule.name, "none", FALSE,
                                       rule.onMatch, rule.onMiss)

RECURSIVE WalkRules(_, _, _, _)
WalkRules(rs, i, c, skip) ==
    IF i > Len(rs) THEN DefaultD
    ELSE LET acts == SelectSeq(rs[i].actions, LAMBDA a : a.k # "log")
         IN  IF \/ rs[i].name \in skip
                \/ c \notin rs[i].clients
                \/ acts = <<>>
                \/ Head(acts).k = "continue"
             THEN WalkRules(rs, i + 1, c, skip)
             ELSE RuleDecision(rs[i], Head(acts))

\* contains_continue on either list: such a Forward is not put in L1.
ContinuesOn(d) == "continue" \in Range(d.onMatch) \cup Range(d.onMiss)

\* The walk depends on the configuration only: TLC tabulates it once.
RuleWalk == [p \in Pipelines, c \in Clients, skip \in SUBSET RuleNames |->
                WalkRules(Rules[p], 1, c, skip)]

\* The decision and the rule cache after apply_rules(p, client, skip).
ApplyRules(p, c, skip, rc) ==
    IF skip = {} /\ rc[p, c] # NoDecision
    THEN [d |-> rc[p, c], rc |-> rc]
    ELSE LET d == RuleWalk[p, c, skip]
         IN  [d |-> d,
              rc |-> IF d.kind = "forward" /\ ContinuesOn(d) THEN rc
                     ELSE [rc EXCEPT ![p, c] = d]]

\* The jump loop at the top of 'decision_loop (engine.rs 358-398); n is
\* jump_count, st the loop's locals [d, cur, skip, reg, rc].
RECURSIVE Resolve(_, _, _)
Resolve(st, n, c) ==
    IF st.d.kind # "jump" THEN st
    ELSE IF n + 1 > JumpLimit \/ st.d.target \notin Pipelines
    THEN [st EXCEPT !.d = ServFailD]
    ELSE LET ar == ApplyRules(st.d.target, c, {}, st.rc)
         IN  Resolve([d |-> ar.d, cur |-> st.d.target, skip |-> {},
                      reg |-> FALSE, rc |-> ar.rc], n + 1, c)

\* fast_static_match (advanced_rule.rs 218-253) over the compiled rules:
\* the first rule that matches and whose FIRST action precomputes a static
\* answer (precompute_action, 204-216); a matching rule without one is
\* passed over.
FastStatic(p, c) ==
    LET hits == SelectSeq(Rules[p], LAMBDA rl : /\ c \in rl.clients
                                               /\ rl.actions # <<>>
                                               /\ Head(rl.actions).k = "static")
    IN  IF hits = <<>> THEN NoDecision ELSE StaticD(Head(hits).name)

\* select_pipeline (engine.rs 1729-1754): the first selector that matches
\* the client and names an existing pipeline, else the first pipeline.
SelectPipeline(c) ==
    LET hits == SelectSeq(SelectRules,
                          LAMBDA s : c \in s.clients /\ s.pipeline \in Pipelines)
    IN  IF hits # <<>> THEN Head(hits).pipeline ELSE Head(PipelineList)

(***************************************************************************)
(* apply_response_actions (engine.rs 1203-1368).  ctx: a ResponseContext   *)
(* is present; n: forward_attempts; f: the outcome of each response-phase  *)
(* Forward ("ok", "err" = timeout or I/O error, "bad" = unparsable reply); *)
(* m2: resp_match of the final context; rj: remaining_jumps.  The result   *)
(* is [res |-> "upstream" | "static" | "continue" | "jump" | "error", ctx, *)
(* match, to, rem]: a Jump carries its target and the jumps left.         *)
(***************************************************************************)
ActResult(res, ctx, match) == [res |-> res, ctx |-> ctx, match |-> match, to |-> "none", rem |-> 0]
JumpResult(p, n) == [res |-> "jump", ctx |-> FALSE, match |-> FALSE, to |-> p, rem |-> n]

RECURSIVE RunActions(_, _, _, _, _, _, _)
RunActions(acts, i, ctx, n, f, m2, rj) ==
    IF i > Len(acts)
    THEN IF ctx THEN ActResult("upstream", TRUE, m2) ELSE ActResult("static", FALSE, FALSE)
    ELSE CASE acts[i] = "log"      -> RunActions(acts, i + 1, ctx, n, f, m2, rj)
           [] acts[i] = "static"   -> ActResult("static", FALSE, FALSE)
           [] acts[i] = "allow"    -> IF ctx THEN ActResult("upstream", TRUE, m2)
                                      ELSE ActResult("static", FALSE, FALSE)
           [] acts[i] = "continue" -> ActResult("continue", ctx, FALSE)
           [] acts[i] \in Pipelines ->
                IF rj = 0 THEN ActResult("static", FALSE, FALSE) ELSE JumpResult(acts[i], rj - 1)
           [] acts[i] = "forward"  ->
                IF n + 1 > MaxRespForwards THEN ActResult("static", FALSE, FALSE)
                ELSE CASE f[n + 1] = "ok"  -> RunActions(acts, i + 1, TRUE, n + 1, f, m2, rj)
                       [] f[n + 1] = "err" -> ActResult("static", FALSE, FALSE)
                       [] f[n + 1] = "bad" -> ActResult("error", FALSE, FALSE)

\* The outcomes the response-phase forwards of decision d can have.
ForwardCount(acts) == Len(SelectSeq(acts, LAMBDA a : a = "forward"))
FwdOutcomes(d) ==
    LET k == ForwardCount(d.onMatch) + ForwardCount(d.onMiss)
        n == IF k > MaxRespForwards THEN MaxRespForwards ELSE k
    IN  [1..n -> IF Malformed THEN {"ok", "err", "bad"} ELSE {"ok", "err"}]

EffectiveTtl(ttl) == IF ttl > MinTtl THEN ttl ELSE MinTtl

(***************************************************************************)
(* State.                                                                  *)
(*  task[r]: the locals of query r's task: pc, its client, the selected    *)
(*    pipeline_id `sel`, current_pipeline_id `cur`, `decision` dec,        *)
(*    skip_rules, dedupe_registered `reg`, whether its cleanup_guard is    *)
(*    armed `guard`, whether reused_response holds a context `reused`,     *)
(*    and the bytes it returned `ans`.  Inside process_response_jump, dec, *)
(*    skip, reused and reg are that function's decision, skip_rules,       *)
(*    reused_response and whether this round inserted the entry; rp is its *)
(*    pipeline_id, dh its dedupe_hash (computed from pipeline_id at the    *)
(*    top of the loop, before the nested jumps move pipeline_id), rem its  *)
(*    remaining_jumps, hashes its inflight_hashes                          *)
(*    (each with a cleanup guard) and outer the arm of handle_packet that  *)
(*    called it ("ok" or "err").                                           *)
(*  inflight[h]: the DashMap entry under dedupe hash h: the oneshot         *)
(*    senders of its waiters, and (history only, the map does not store   *)
(*    it) the query that inserted it.                                      *)
(*  chan[r]: r's oneshot receiver: "idle", "pending", "sent" with bytes,   *)
(*    or "dropped" (RecvError).                                            *)
(*  cache[h]: the L2 CacheEntry under h (pid: its pipeline_id field).       *)
(*  ruleCache[p, c]: the L1 RuleCacheEntry's decision.                     *)
(***************************************************************************)
VARIABLES task, inflight, chan, cache, ruleCache
vars == <<task, inflight, chan, cache, ruleCache>>

Decisions == {NoDecision, DefaultD, ServFailD}
    \cup {StaticD(n) : n \in RuleNames}
    \cup UNION {{MkDecision("jump", rl.name, a.to, FALSE, <<>>, <<>>) :
                    a \in Range(rl.actions)} : rl \in AllRules}
    \cup {MkDecision("forward", rl.name, "none", b,
                     IF b THEN <<>> ELSE rl.onMatch, IF b THEN <<>> ELSE rl.onMiss) :
             rl \in AllRules, b \in BOOLEAN}
Answers == {NoAnswer} \cup {Answer(s, n) : s \in {"upstream", "static"},
                                            n \in RuleNames \cup {"default", "servfail"}}
PCs == {"idle", "decide", "forward", "wait", "upstream", "drop", "done",
        "rloop", "rforward", "rwait", "rupstream", "rreply"}

TypeOK ==
    /\ task \in [Req -> [pc : PCs, client : Clients, sel : Pipelines \cup {"none"},
                         cur : Pipelines \cup {"none"}, dec : Decisions,
                         skip : SUBSET RuleNames, reg : BOOLEAN, guard : BOOLEAN,
                         reused : BOOLEAN, ans : Answers, rp : Pipelines \cup {"none"},
                         dh : Pipelines \cup {"none"}, rem : 0..JumpLimit,
                         hashes : SUBSET Pipelines,
                         outer : {"none", "ok", "err"}]]
    /\ inflight \in [Pipelines -> [owner : Req \cup {NoReq}, waiters : SUBSET Req]]
    /\ chan \in [Req -> [st : {"idle", "pending", "sent", "dropped"}, ans : Answers]]
    /\ cache \in [Pipelines -> [pid : Pipelines \cup {"none"}, ans : Answers]]
    /\ ruleCache \in [Pipelines \X Clients -> Decisions]

\* A task's locals before handle_packet_fast runs, and once it has returned
\* (its frame is gone; only the bytes it returned remain).
Locals(pc, c, a) ==
    [pc |-> pc, client |-> c, sel |-> "none", cur |-> "none", dec |-> NoDecision,
     skip |-> {}, reg |-> FALSE, guard |-> FALSE, reused |-> FALSE, ans |-> a,
     rp |-> "none", dh |-> "none", rem |-> 0, hashes |-> {}, outer |-> "none"]

Init ==
    /\ \E cl \in [Req -> Clients] : task = [r \in Req |-> Locals("idle", cl[r], NoAnswer)]
    /\ inflight = [h \in Pipelines |-> NoSlot]
    /\ chan = [r \in Req |-> [st |-> "idle", ans |-> NoAnswer]]
    /\ cache = [h \in Pipelines |-> NoEntry]
    /\ ruleCache = [k \in Pipelines \X Clients |-> NoDecision]

Present(h) == inflight[h].owner # NoReq

\* The L2 probe: an entry under h whose pipeline_id field is h.
CacheHit(h) == cache[h].pid = h

UpstreamAnswer(d) == Answer("upstream", d.rule)
StaticAnswer(d) == Answer("static", d.rule)

\* notify_inflight_waiters (engine.rs 1196-1201): remove the entry under h
\* and send `a` to each waiter.
NotifyWaiters(h, a) ==
    /\ inflight' = [inflight EXCEPT ![h] = NoSlot]
    /\ chan' = [q \in Req |-> IF q \in inflight[h].waiters
                              THEN [st |-> "sent", ans |-> a] ELSE chan[q]]

\* Mutant: a guard defused before an early return leaves the entry and
\* its senders in place.
GuardKeepsSlot(h) == UNCHANGED <<inflight, chan>>

\* InflightCleanupGuard::drop while armed: remove the entry under h; the
\* dropped senders wake each waiter with RecvError.
GuardRemove(h) ==
    /\ inflight' = [inflight EXCEPT ![h] = NoSlot]
    /\ chan' = [q \in Req |-> IF q \in inflight[h].waiters
                              THEN [st |-> "dropped", ans |-> NoAnswer] ELSE chan[q]]

Finish(r, a) == task' = [task EXCEPT ![r] = Locals("done", task[r].client, a)]

\* Enter the `match decision` of 'decision_loop with the locals st after
\* jump resolution: a Static decision is answered at once (engine.rs
\* 404-433, cached only if min_ttl > 0, no waiter is notified); a Forward
\* decision goes on to the single-flight registration.
EnterDecision(r, st, ctx) ==
    /\ ruleCache' = st.rc
    /\ IF st.d.kind = "static"
       THEN /\ cache' = IF MinTtl > 0
                        THEN [cache EXCEPT ![st.cur] = [pid |-> st.cur, ans |-> StaticAnswer(st.d)]]
                        ELSE cache
            /\ Finish(r, StaticAnswer(st.d))
       ELSE /\ task' = [task EXCEPT ![r] = [@ EXCEPT !.pc = "forward", !.cur = st.cur,
                            !.dec = st.d, !.skip = st.skip, !.reg = st.reg,
                            !.guard = FALSE, !.reused = ctx]]
            /\ UNCHANGED cache

\* The L2 insert of a forwarded reply: keyed by dedupe_hash (the current
\* pipeline) but stamped with the selected pipeline_id.
CacheUpstream(t, a, ok) ==
    IF ok THEN [cache EXCEPT ![t.cur] = [pid |-> t.sel, ans |-> a]] ELSE cache
\* The L2 insert of a response-action Static result (only if min_ttl > 0).
CacheStatic(t, a) ==
    IF MinTtl > 0 THEN [cache EXCEPT ![t.cur] = [pid |-> t.cur, ans |-> a]] ELSE cache

\* Defuse the guard, notify_inflight_waiters, return Ok(bytes).
Reply(r, a, c2) ==
    /\ NotifyWaiters(task[r].cur, a)
    /\ cache' = c2
    /\ Finish(r, a)
    /\ UNCHANGED ruleCache

\* notify_inflight_waiters and return Ok(bytes) without defusing: the
\* still-armed guard runs its remove when the task's frame is dropped
\* (engine.rs 815-821).
ReplyArmed(r, a, c2) ==
    /\ NotifyWaiters(task[r].cur, a)
    /\ cache' = c2
    /\ task' = [task EXCEPT ![r].pc = IF task[r].guard THEN "drop" ELSE "done",
                            ![r].ans = a]
    /\ UNCHANGED ruleCache

\* A `?` returns Err (the reply does not parse): no bytes; an armed guard
\* removes the entry as the frame unwinds.
ErrorExit(r) ==
    /\ IF task[r].guard THEN GuardRemove(task[r].cur) ELSE UNCHANGED <<inflight, chan>>
    /\ Finish(r, NoAnswer)
    /\ UNCHANGED <<cache, ruleCache>>

\* Mutant: Continue without pushing the rule into skip_rules.
ContinueWithNoSkip(r, ctx) ==
    LET t == task[r]
    IN  /\ \E ar \in {ApplyRules(t.cur, t.client, t.skip, ruleCache)} :
           \E st \in {Resolve([d |-> ar.d, cur |-> t.cur, skip |-> t.skip,
                                 reg |-> t.reg, rc |-> ar.rc], 0, t.client)} :
             EnterDecision(r, st, ctx)
        /\ UNCHANGED <<inflight, chan>>

\* ResponseActionResult::Continue (engine.rs 728-756, 843-868): defuse the
\* guard without notifying, keep the context, skip the rule, re-run
\* apply_rules and go round 'decision_loop.
ContinueWith(r, ctx) ==
    LET t == task[r]
        skip2 == t.skip \cup {t.dec.rule}
    IN  /\ \E ar \in {ApplyRules(t.cur, t.client, skip2, ruleCache)} :
           \E st \in {Resolve([d |-> ar.d, cur |-> t.cur, skip |-> skip2,
                                 reg |-> t.reg, rc |-> ar.rc], 0, t.client)} :
             EnterDecision(r, st, ctx)
        /\ UNCHANGED <<inflight, chan>>

(***************************************************************************)
(* process_response_jump (engine.rs 1371-1727), awaited by handle_packet  *)
(* on a response-phase Jump while handle_packet keeps its own entry and   *)
(* guard.  Its own Forward registers with no dedupe_registered check.     *)
(***************************************************************************)
ServFailAnswer == Answer("static", "servfail")

\* handle_packet's Jump arm (engine.rs 706-727, 822-842) calls it with the
\* target and the remaining jumps.
EnterResponseJump(r, res, outer) ==
    /\ task' = [task EXCEPT ![r] = [@ EXCEPT !.pc = "rloop", !.rp = res.to, !.rem = res.rem,
                                   !.skip = {}, !.reused = FALSE, !.reg = FALSE,
                                   !.hashes = {}, !.outer = outer]]
    /\ UNCHANGED <<inflight, chan, cache, ruleCache>>

\* Return Ok(bytes): defuse every guard, notify every hash in
\* inflight_hashes; then handle_packet notifies its own hash, having
\* defused its guard in the Ok arm but not in the Err arm, whose armed guard
\* removes the entry when the frame drops.  notify_inflight_waiters does not
\* yield, so no other task steps in between.
JumpReturn(r, a, c2) ==
    LET t  == task[r]
        hs == t.hashes \cup {t.cur}
    IN  /\ inflight' = [h \in Pipelines |-> IF h \in hs THEN NoSlot ELSE inflight[h]]
        /\ chan' = [q \in Req |-> IF \E h \in hs : q \in inflight[h].waiters
                                  THEN [st |-> "sent", ans |-> a]
                                  ELSE IF q = r THEN [st |-> "idle", ans |-> NoAnswer] ELSE chan[q]]
        /\ cache' = c2
        /\ task' = [task EXCEPT ![r] = IF t.outer = "err" /\ t.guard
                                        THEN [@ EXCEPT !.pc = "drop", !.ans = a]
                                        ELSE Locals("done", t.client, a)]

\* Return Err (a reply that does not parse): the armed guards of
\* process_response_jump and then handle_packet's remove their entries.
JumpError(r) ==
    LET t  == task[r]
        hs == t.hashes \cup (IF t.guard THEN {t.cur} ELSE {})
    IN  /\ inflight' = [h \in Pipelines |-> IF h \in hs THEN NoSlot ELSE inflight[h]]
        /\ chan' = [q \in Req |-> IF \E h \in hs : q \in inflight[h].waiters
                                  THEN [st |-> "dropped", ans |-> NoAnswer] ELSE chan[q]]
        /\ Finish(r, NoAnswer)
        /\ UNCHANGED <<cache, ruleCache>>

\* The nested rule-level jump loop (engine.rs 1447-1482): local_jumps
\* counts down from remaining_jumps; out of jumps or an unknown target
\* fails with SERVFAIL.  Only pipeline_id (rp) moves: dedupe_hash is not
\* recomputed.
RECURSIVE RespResolve(_, _, _)
RespResolve(st, local, c) ==
    IF st.d.kind # "jump" THEN [st EXCEPT !.rem = local]
    ELSE IF local = 0 \/ st.d.target \notin Pipelines THEN [st EXCEPT !.fail = TRUE]
    ELSE LET ar == ApplyRules(st.d.target, c, {}, st.rc)
         IN  RespResolve([st EXCEPT !.d = ar.d, !.rp = st.d.target, !.skip = {}, !.rc = ar.rc],
                         local - 1, c)

\* The top of the loop (engine.rs 1416-1503): out of jumps or an unknown
\* pipeline gives SERVFAIL; otherwise dedupe_hash of pipeline_id (dh),
\* apply_rules with skip_rules and the nested jump loop.  A Static decision
\* is put in L2 whatever min_ttl is, under dh with the pipeline_id the
\* jumps reached, and answered; a Forward goes on to registration on dh.
RLoop(r) ==
    /\ task[r].pc = "rloop"
    /\ LET t == task[r] IN
       IF t.rem = 0 \/ t.rp \notin Pipelines
       THEN JumpReturn(r, ServFailAnswer, cache) /\ UNCHANGED ruleCache
       ELSE LET ar == ApplyRules(t.rp, t.client, t.skip, ruleCache)
                st == RespResolve([d |-> ar.d, rp |-> t.rp, skip |-> t.skip, rc |-> ar.rc,
                                   fail |-> FALSE, rem |-> 0], t.rem, t.client)
            IN  /\ ruleCache' = st.rc
                /\ CASE st.fail -> JumpReturn(r, ServFailAnswer, cache)
                     [] st.d.kind = "static" ->
                          JumpReturn(r, StaticAnswer(st.d),
                                     [cache EXCEPT ![t.rp] = [pid |-> st.rp, ans |-> StaticAnswer(st.d)]])
                     [] OTHER ->
                          /\ task' = [task EXCEPT ![r] = [@ EXCEPT !.pc = "rforward", !.dec = st.d,
                                          !.rp = st.rp, !.dh = t.rp, !.skip = st.skip, !.rem = st.rem,
                                          !.reg = FALSE]]
                          /\ UNCHANGED <<inflight, chan, cache>>

(***************************************************************************)
(* Actions of a query's task.                                              *)
(***************************************************************************)
\* handle_packet_fast (engine.rs 124-235): an L2 hit, a compiled static
\* rule or an L1 Static entry answers at once; otherwise the UDP worker
\* spawns handle_packet (main.rs 199-257).
Arrive(r) ==
    /\ task[r].pc = "idle"
    /\ LET c == task[r].client
           p == SelectPipeline(c)
       IN  CASE CacheHit(p) -> Finish(r, cache[p].ans)
             [] FastStatic(p, c) # NoDecision -> Finish(r, StaticAnswer(FastStatic(p, c)))
             [] ruleCache[p, c].kind = "static" -> Finish(r, StaticAnswer(ruleCache[p, c]))
             [] OTHER -> task' = [task EXCEPT ![r].pc = "decide", ![r].sel = p]
    /\ UNCHANGED <<inflight, chan, cache, ruleCache>>

\* handle_packet up to `match decision` (engine.rs 238-398): the L2 probe,
\* apply_rules on the selected pipeline, the jump loop, a Static answer.
Decide(r) ==
    /\ task[r].pc = "decide"
    /\ LET c == task[r].client
           p == task[r].sel
           ar == ApplyRules(p, c, {}, ruleCache)
       IN  IF CacheHit(p)
           THEN Finish(r, cache[p].ans) /\ UNCHANGED <<cache, ruleCache>>
           ELSE \E st \in {Resolve([d |-> ar.d, cur |-> p, skip |-> {},
                                    reg |-> FALSE, rc |-> ar.rc], 0, c)} :
                  EnterDecision(r, st, FALSE)
    /\ UNCHANGED <<inflight, chan>>

\* Forward with allow_reuse and a reused_response: Ok(ctx.raw), no new
\* query; then the empty-actions arm (engine.rs 572-602).
Reuse(r) ==
    /\ task[r].pc = "forward" /\ task[r].dec.reuse /\ task[r].reused
    /\ \E ttl \in Ttls :
          Reply(r, UpstreamAnswer(task[r].dec),
                CacheUpstream(task[r], UpstreamAnswer(task[r].dec), EffectiveTtl(ttl) > 0))

\* Not yet registered, inflight.entry(dedupe_hash) is Occupied: push a
\* sender and await the receiver.
Join(r) ==
    /\ task[r].pc = "forward" /\ ~(task[r].dec.reuse /\ task[r].reused)
    /\ ~task[r].reg /\ Present(task[r].cur)
    /\ inflight' = [inflight EXCEPT ![task[r].cur].waiters = @ \cup {r}]
    /\ chan' = [chan EXCEPT ![r] = [st |-> "pending", ans |-> NoAnswer]]
    /\ task' = [task EXCEPT ![r].pc = "wait"]
    /\ UNCHANGED <<cache, ruleCache>>

\* Mutant: insert without looking at the entry (a check-then-insert race).
LeadUnchecked(r) ==
    /\ task[r].pc = "forward" /\ ~(task[r].dec.reuse /\ task[r].reused)
    /\ ~task[r].reg
    /\ inflight' = [inflight EXCEPT ![task[r].cur] = [owner |-> r, waiters |-> {}]]
    /\ task' = [task EXCEPT ![r].pc = "upstream", ![r].reg = TRUE, ![r].guard = TRUE]
    /\ UNCHANGED <<chan, cache, ruleCache>>

\* Not yet registered, Vacant: insert an empty waiter list, become the
\* leader with an armed InflightCleanupGuard, call forward_upstream.
Lead(r) ==
    /\ task[r].pc = "forward" /\ ~(task[r].dec.reuse /\ task[r].reused)
    /\ ~task[r].reg /\ ~Present(task[r].cur)
    /\ inflight' = [inflight EXCEPT ![task[r].cur] = [owner |-> r, waiters |-> {}]]
    /\ task' = [task EXCEPT ![r].pc = "upstream", ![r].reg = TRUE, ![r].guard = TRUE]
    /\ UNCHANGED <<chan, cache, ruleCache>>

\* Registered in an earlier round of 'decision_loop: forward_upstream with
\* no guard of this round.
Proceed(r) ==
    /\ task[r].pc = "forward" /\ ~(task[r].dec.reuse /\ task[r].reused)
    /\ task[r].reg
    /\ task' = [task EXCEPT ![r].pc = "upstream"]
    /\ UNCHANGED <<inflight, chan, cache, ruleCache>>

\* rx.await returns: Ok(bytes) answers the query; RecvError (senders
\* dropped) falls through to forward_upstream, unregistered.
Wake(r) ==
    /\ task[r].pc = "wait" /\ chan[r].st \in {"sent", "dropped"}
    /\ IF chan[r].st = "sent" THEN Finish(r, chan[r].ans)
       ELSE task' = [task EXCEPT ![r].pc = "upstream"]
    /\ chan' = [chan EXCEPT ![r] = [st |-> "idle", ans |-> NoAnswer]]
    /\ UNCHANGED <<inflight, cache, ruleCache>>

\* forward_upstream returns Ok(raw) (engine.rs 528-757).
UpstreamOk(r) ==
    /\ task[r].pc = "upstream"
    /\ LET t == task[r]
           d == t.dec
       IN  \E parsed \in IF Malformed THEN BOOLEAN ELSE {TRUE},
              m \in IF d.onMatch = <<>> /\ d.onMiss = <<>> THEN {FALSE} ELSE BOOLEAN,
              ttl \in Ttls, f \in FwdOutcomes(d) :
             LET acts == IF d.onMatch = <<>> /\ d.onMiss = <<>> THEN <<>>
                         ELSE IF m THEN d.onMatch ELSE d.onMiss
             IN  \E res \in {RunActions(acts, 1, TRUE, 0, f, FALSE, JumpLimit)} :
                 CASE ~parsed -> ErrorExit(r)
                   [] acts = <<>> ->
                        Reply(r, UpstreamAnswer(d),
                              CacheUpstream(t, UpstreamAnswer(d), EffectiveTtl(ttl) > 0))
                   [] res.res = "error" -> ErrorExit(r)
                   [] res.res = "upstream" ->
                        Reply(r, UpstreamAnswer(d),
                              CacheUpstream(t, UpstreamAnswer(d), EffectiveTtl(ttl) > 0))
                   [] res.res = "static" -> Reply(r, StaticAnswer(d), CacheStatic(t, StaticAnswer(d)))
                   [] res.res = "continue" -> ContinueWith(r, res.ctx)
                   [] res.res = "jump" -> EnterResponseJump(r, res, "ok")

\* forward_upstream returns Err (timeout, I/O) (engine.rs 758-870).
UpstreamErr(r) ==
    /\ task[r].pc = "upstream"
    /\ LET t == task[r]
           d == t.dec
       IN  \E f \in FwdOutcomes(d),
              ttl \in IF ForwardCount(d.onMiss) > 0 THEN Ttls ELSE {0},
              m2 \in IF ForwardCount(d.onMiss) > 0 THEN BOOLEAN ELSE {FALSE} :
             \E res \in {RunActions(d.onMiss, 1, FALSE, 0, f, m2, JumpLimit)} :
                 CASE d.onMiss = <<>> -> Reply(r, Answer("static", "servfail"), cache)
                   [] res.res = "error" -> ErrorExit(r)
                   [] res.res = "upstream" ->
                        ReplyArmed(r, UpstreamAnswer(d),
                                   CacheUpstream(t, UpstreamAnswer(d),
                                                 res.match /\ EffectiveTtl(ttl) > 0))
                   [] res.res = "static" -> ReplyArmed(r, StaticAnswer(d), cache)
                   [] res.res = "continue" -> ContinueWith(r, res.ctx)
                   [] res.res = "jump" -> EnterResponseJump(r, res, "err")

\* The frame of a task that returned with an armed guard is dropped.
GuardDrop(r) ==
    /\ task[r].pc = "drop"
    /\ GuardRemove(task[r].cur)
    /\ Finish(r, task[r].ans)
    /\ UNCHANGED <<cache, ruleCache>>

\* A registration that inserts without looking at the entry (insert in
\* place of entry()): the task leads even when another task holds the hash.
RForwardAlwaysLead(r) ==
    /\ task[r].pc = "rforward"
    /\ LET t == task[r] IN
       \/ /\ t.dec.reuse /\ t.reused
          /\ task' = [task EXCEPT ![r].pc = "rreply", ![r].reused = FALSE]
          /\ UNCHANGED <<inflight, chan>>
       \/ /\ ~(t.dec.reuse /\ t.reused)
          /\ inflight' = [inflight EXCEPT ![t.dh] = [owner |-> r, waiters |-> {}]]
          /\ task' = [task EXCEPT ![r].pc = "rupstream", ![r].reg = TRUE,
                                  ![r].hashes = @ \cup {t.dh}]
          /\ UNCHANGED chan
    /\ UNCHANGED <<cache, ruleCache>>

\* The Forward arm of process_response_jump (engine.rs 1506-1597): with
\* allow_reuse a held context is taken; otherwise inflight.entry with no
\* dedupe_registered check: Occupied pushes a sender and awaits it (even
\* an entry this task inserted itself, or one of another pipeline's
\* forward), Vacant inserts, pushes a guard and the hash.  The key is dh,
\* the hash from before the nested jumps.  reused_response is not cleared
\* when reuse is not allowed.
RForward(r) ==
    /\ task[r].pc = "rforward"
    /\ LET t == task[r] IN
       \/ /\ t.dec.reuse /\ t.reused
          /\ task' = [task EXCEPT ![r].pc = "rreply", ![r].reused = FALSE]
          /\ UNCHANGED <<inflight, chan>>
       \/ /\ ~(t.dec.reuse /\ t.reused) /\ Present(t.dh)
          /\ inflight' = [inflight EXCEPT ![t.dh].waiters = @ \cup {r}]
          /\ chan' = [chan EXCEPT ![r] = [st |-> "pending", ans |-> NoAnswer]]
          /\ task' = [task EXCEPT ![r].pc = "rwait"]
       \/ /\ ~(t.dec.reuse /\ t.reused) /\ ~Present(t.dh)
          /\ inflight' = [inflight EXCEPT ![t.dh] = [owner |-> r, waiters |-> {}]]
          /\ task' = [task EXCEPT ![r].pc = "rupstream", ![r].reg = TRUE,
                                  ![r].hashes = @ \cup {t.dh}]
          /\ UNCHANGED chan
    /\ UNCHANGED <<cache, ruleCache>>

\* rx.await: Ok(bytes) returns them (engine.rs 1527-1540); RecvError
\* falls through to forward_upstream, unregistered.
RWake(r) ==
    /\ task[r].pc = "rwait" /\ chan[r].st \in {"sent", "dropped"}
    /\ IF chan[r].st = "sent"
       THEN JumpReturn(r, chan[r].ans, cache)
       ELSE /\ task' = [task EXCEPT ![r].pc = "rupstream", ![r].reg = FALSE]
            /\ chan' = [chan EXCEPT ![r] = [st |-> "idle", ans |-> NoAnswer]]
            /\ UNCHANGED <<inflight, cache>>
    /\ UNCHANGED ruleCache

\* Ok(raw) from forward_upstream or a taken context (engine.rs 1599-1707):
\* the parse, the empty-actions arm (cached, if the reply matches, under
\* dh with the current pipeline_id), or
\* apply_response_actions with remaining_jumps: Upstream (cached if it
\* matches), Static, Jump (round the loop at the target), Continue (keep
\* the context, skip the rule, round the loop).
RReply(r) ==
    /\ task[r].pc \in {"rupstream", "rreply"}
    /\ LET t == task[r]
           d == t.dec
       IN  \E parsed \in IF Malformed /\ t.pc = "rupstream" THEN BOOLEAN ELSE {TRUE},
              m \in BOOLEAN, m2 \in BOOLEAN, ttl \in Ttls, f \in FwdOutcomes(d) :
             LET acts == IF d.onMatch = <<>> /\ d.onMiss = <<>> THEN <<>>
                         ELSE IF m THEN d.onMatch ELSE d.onMiss
                 res  == RunActions(acts, 1, TRUE, 0, f, IF ForwardCount(acts) > 0 THEN m2 ELSE m, t.rem)
                 Store(ok) == IF ok /\ EffectiveTtl(ttl) > 0
                              THEN [cache EXCEPT ![t.dh] = [pid |-> t.rp, ans |-> UpstreamAnswer(d)]]
                              ELSE cache
             IN  /\ UNCHANGED ruleCache
                 /\ CASE ~parsed -> JumpError(r)
                      [] acts = <<>> -> JumpReturn(r, UpstreamAnswer(d), Store(m))
                      [] res.res = "error" -> JumpError(r)
                      [] res.res = "upstream" -> JumpReturn(r, UpstreamAnswer(d), Store(res.match))
                      [] res.res = "static" -> JumpReturn(r, StaticAnswer(d), cache)
                      [] res.res = "jump" ->
                           /\ task' = [task EXCEPT ![r].pc = "rloop", ![r].rp = res.to, ![r].rem = res.rem]
                           /\ UNCHANGED <<inflight, chan, cache>>
                      [] res.res = "continue" ->
                           /\ task' = [task EXCEPT ![r].pc = "rloop", ![r].reused = res.ctx,
                                                   ![r].skip = @ \cup {d.rule}]
                           /\ UNCHANGED <<inflight, chan, cache>>

\* forward_upstream returns Err: SERVFAIL (engine.rs 1709-1714).
RUpstreamErr(r) ==
    /\ task[r].pc = "rupstream"
    /\ JumpReturn(r, ServFailAnswer, cache)
    /\ UNCHANGED ruleCache

(***************************************************************************)
(* moka expires (or evicts) entries: L2 after 300 s, L1 after 60 s.        *)
(***************************************************************************)
CacheExpire(h) ==
    /\ Expiry /\ cache[h] # NoEntry
    /\ cache' = [cache EXCEPT ![h] = NoEntry]
    /\ UNCHANGED <<task, inflight, chan, ruleCache>>

RuleCacheExpire(k) ==
    /\ Expiry /\ ruleCache[k] # NoDecision
    /\ ruleCache' = [ruleCache EXCEPT ![k] = NoDecision]
    /\ UNCHANGED <<task, inflight, chan, cache>>

\* Every query has been answered or dropped.
Terminated ==
    /\ \A r \in Req : task[r].pc = "done"
    /\ UNCHANGED vars

Step(r) ==
    \/ Arrive(r) \/ Decide(r) \/ Reuse(r) \/ Join(r) \/ Lead(r) \/ Proceed(r)
    \/ Wake(r) \/ UpstreamOk(r) \/ UpstreamErr(r) \/ GuardDrop(r)
    \/ RLoop(r) \/ RForward(r) \/ RWake(r) \/ RReply(r) \/ RUpstreamErr(r)

Next ==
    \/ \E r \in Req : Step(r)
    \/ \E h \in Pipelines : CacheExpire(h)
    \/ \E k \in Pipelines \X Clients : RuleCacheExpire(k)
    \/ Terminated

\* A ready tokio task is eventually polled, and every upstream call ends
\* (forward_upstream is bounded by upstream_timeout).
Spec == Init /\ [][Next]_vars /\ \A r \in Req : WF_vars(Step(r))

(***************************************************************************)
(* Properties.                                                             *)
(***************************************************************************)
\* The hash a task calling the upstream holds its registration under.
CallHash(r) == IF task[r].pc = "upstream" THEN task[r].cur ELSE task[r].dh

\* Single-flight (spec section 8): for one dedupe hash at most one task
\* that holds a registration (dedupe_registered in handle_packet, a Vacant
\* insert in process_response_jump) is calling the upstream.
SingleFlightExclusive ==
    \A h \in Pipelines :
        Cardinality({r \in Req : /\ task[r].pc \in {"upstream", "rupstream"}
                                 /\ task[r].reg /\ CallHash(r) = h}) =< 1

\* An in-flight entry always belongs to a task that has not yet returned,
\* so some task will still notify or remove it (the leader notifies every
\* waiter and removes the slot; the guard removes it on an early exit).
NoOrphanSlot ==
    \A h \in Pipelines :
        Present(h) => task[inflight[h].owner].pc # "done"

\* Every query is eventually answered (or dropped on an error): no task
\* waits forever on a oneshot receiver nobody will complete.
EveryRequestAnswered ==
    \A r \in Req : (task[r].pc # "idle") ~> (task[r].pc = "done")

\* An L1 entry holds the decision apply_rules gives the query afresh, with
\* no rule skipped: the rule cache never answers with a decision that only
\* a Continue made.
RuleCacheSound ==
    \A p \in Pipelines, c \in Clients :
        ruleCache[p, c] # NoDecision => ruleCache[p, c] = RuleWalk[p, c, {}]

\* An L2 entry stored under the hash of pipeline h carries pipeline_id h,
\* so the collision check of a later probe of h accepts it.
CacheEntryKeyed ==
    \A h \in Pipelines : cache[h] # NoEntry => cache[h].pid = h

=============================================================================
