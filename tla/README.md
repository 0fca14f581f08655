# TLA+ models of kixdns

kixdns is a programmable DNS forwarder (src/: `engine.rs`, `advanced_rule.rs`,
`matcher.rs`, `cache.rs`, `config.rs`, `proto_utils.rs`, `watcher.rs`, `main.rs`).
This directory holds TLA+ models of its request path, with TLC configurations that
check them. `PROJECT.json` lists the components, the runs, a mutant for every checked
property, the map from each definition to the source lines it translates, the findings
and the hazards.

## 1. The system: parts and how they interact

| Part | Source | State | Operations |
|---|---|---|---|
| UDP listener workers | main.rs `run_udp_worker` | sockets | `handle_packet_fast` inline, else spawn a tokio task running `handle_packet` per query |
| Fast path | engine.rs `handle_packet_fast` 124-235 | reads L2, compiled pipelines, L1 | L2 hit, compiled static rule (`fast_static_match`), L1 Static entry |
| Decision loop | engine.rs `handle_packet` 238-875 | per-query locals: `current_pipeline_id`, `decision`, `skip_rules`, `dedupe_registered`, `reused_response`, `cleanup_guard` | jump resolution, Static, Forward, response actions, Continue |
| Single-flight | engine.rs `inflight: DashMap<u64, Vec<oneshot::Sender>>`, `InflightCleanupGuard` | one entry per dedupe hash, with its waiters' senders | `entry()` Occupied (push a sender, await) or Vacant (insert, lead), `notify_inflight_waiters` (remove and send), guard drop (remove) |
| L2 response cache | cache.rs, moka, 300 s | `CacheEntry` keyed by hash(pipeline, qname, qtype) and checked by `pipeline_id` | probe, insert, expiry |
| L1 rule cache | engine.rs `rule_cache`, moka, 60 s | `RuleCacheEntry` keyed by hash(pipeline, qname, client) | lookup (only with no skipped rule), insert by every `apply_rules` arm |
| Rule evaluation | engine.rs `apply_rules` 879-1132 | none (reads config, L1) | candidate rules, matcher chain, first terminal action |
| Response actions | engine.rs `apply_response_actions` 1203-1368 | `forward_attempts` | Log, Static/Deny, Allow, Forward (at most 4), Continue, JumpToPipeline |
| Response jump | engine.rs `process_response_jump` 1371-1728 | a second decision loop with its own guards | jumps, forwards, registrations |
| Upstream clients | engine.rs `UdpClient`, `forward_udp_smart`, `TcpMuxClient` | id maps, connections | send, reader tasks, timeouts, fail_all |
| Matchers and selection | matcher.rs, advanced_rule.rs, engine.rs `select_pipeline` | none | `eval_match_chain`, request, selector and response matchers, compiled matchers, pipeline selection |
| Config and reload | config.rs, watcher.rs | `ArcSwap` of the config | reload on file change |

Concurrency is tokio's multi-thread runtime: every spawned query is its own task and
runs in parallel with the others. The tasks share the DashMap, both moka caches and
the upstream clients. A task's state is read before an await and used after it.
Several of the hazards below come from that.

## 2. Modules

### SingleFlight (core; MCSingleFlight instantiates it)

`SingleFlight.tla` models the request path of the Engine for concurrent queries of
one (qname, qtype). The dedupe/L2 hash is therefore the pipeline id, and the L1 key
is the pair (pipeline, client). CONSTANTS are the configuration:

- `PipelineList`, `SelectRules`, `Rules`: a rule is its name, the set of clients its
  matchers accept, its actions and its response actions;
- `MinTtl` and `JumpLimit`;
- the queries `Req` and the `Clients`;
- `Malformed` (replies may fail to parse) and `Expiry` (moka may expire or evict).

| Variable | Code |
|---|---|
| `task[r]` | the locals of query r's task: pc, `current_pipeline_id`, `decision`, `skip_rules`, `dedupe_registered`, whether `cleanup_guard` is armed, whether `reused_response` holds a context, the bytes returned |
| `inflight[h]` | the DashMap entry: its waiters, and, as history, the query that inserted it |
| `chan[r]` | r's oneshot receiver: idle, pending, sent, or dropped (RecvError) |
| `cache[h]` | the L2 entry and its `pipeline_id` field |
| `ruleCache[p, c]` | the L1 entry's decision |

One action per step of a task. A step ends at an await or at a map operation that
another task can observe.

| Action | Code |
|---|---|
| `Arrive` | `handle_packet_fast`; the worker's spawn |
| `Decide` | `handle_packet` up to `match decision`: L2 probe, `apply_rules`, jump loop, Static answer |
| `Reuse` | allow with a `reused_response` |
| `Join` / `Lead` | the Occupied / Vacant arms of `inflight.entry` |
| `Proceed` | registered in an earlier round |
| `Wake` | `rx.await` returns |
| `UpstreamOk` | the whole `Ok(raw)` arm: parse, matchers, response actions, L2 insert, defuse, notify, or Continue |
| `UpstreamErr` | the whole `Err` arm |
| `GuardDrop` | an armed guard's drop after the function returned |
| `RLoop` | the top of `process_response_jump`'s loop: the budget check, `dedupe_hash` of `pipeline_id` (`dh`), `apply_rules`, the nested jump loop (`RespResolve`, which moves `pipeline_id` only), the Static arm (L2 insert under `dh`) |
| `RForward` | its Forward arm: take the held context, or `inflight.entry(dh)` Occupied / Vacant, with no `dedupe_registered` check |
| `RWake` | its `rx.await`: return the bytes, or fall through to `forward_upstream` unregistered |
| `RReply` | its `Ok(raw)` arm: parse, matchers, response actions, L2 insert under `dh`, return, or Jump / Continue round the loop |
| `RUpstreamErr` | its `Err` arm: SERVFAIL |
| `CacheExpire`, `RuleCacheExpire` | moka expiry |

Pure parts are operators:

- `WalkRules` (RECURSIVE) and `RuleDecision` are the rule walk of `apply_rules`;
- `ApplyRules` adds the L1 lookup and insert;
- `Resolve` (RECURSIVE) is the jump loop;
- `RunActions` (RECURSIVE) is `apply_response_actions`, `JumpResult` its JumpToPipeline arm;
- `JumpReturn` and `JumpError` are the returns of `process_response_jump`
  (defuse every guard and notify every hash in `inflight_hashes`, or drop the armed
  guards), followed by what `handle_packet` does with the result;
- `FastStatic` is `fast_static_match`;
- `SelectPipeline` is `select_pipeline`.

A matcher chain is abstracted to the set of clients it accepts; the order of rules
and actions is kept exactly. An upstream reply is abstracted to its outcome:

- parsed or not;
- whether the response matchers match;
- TTL 0 or positive;
- the outcome of each response-phase forward.

A `handle_packet` task whose response actions give Jump becomes a
`process_response_jump` task (`EnterResponseJump`): pc values `rloop`, `rforward`,
`rwait`, `rupstream`, `rreply`, with `rp` its `pipeline_id`, `dh` its
`dedupe_hash`, `rem` its `remaining_jumps`, and `hashes` its `inflight_hashes`.
The code computes `dedupe_hash` at the top of each round (engine.rs 1430) and the
nested rule jumps that follow change only `pipeline_id`. So `dh` is kept apart
from `rp`: a round that enters p3 and jumps on to p4 registers, joins and caches
p4's forward under p3's hash, with `pipeline_id` p4 in its L2 entries. `notify_inflight_waiters` does
not yield, so a chain of notifies is one step. A response action list may name a
pipeline, which stands for `JumpToPipeline`.

**Fairness.** Each task's `Step(r)` is weakly fair. A spawned tokio task that is
ready is eventually polled. Every upstream call ends, because `forward_upstream` is
bounded by `upstream_timeout`. A follower's `rx.await` has no timeout, so it is not
given one: it ends only if some sender is used or dropped. Expiry has no fairness.

### RuleIndex (MCRuleIndex instantiates it)

`RuleIndex.tla` models the request-phase rule machinery, from the config to the
engine's decision. QNAMEs and DomainSuffix values are character sequences, so
`ends_with` and the label stripping of `get_candidates` are modelled by what they do.
CONSTANTS: `Configs` (candidate pipeline configs), `Queries` (pipeline, qname,
client, skip set) and `Clients`.

| Variable | Code |
|---|---|
| `cfg` | the `RuntimePipelineConfig` in the engine's `ArcSwap` (after `from_config`) |
| `compiled` | `Engine.compiled_pipelines` |
| `query` | the query being decided (the decisions are operators of the state) |

| Definition | Code |
|---|---|
| `FromConfigRule`, `FromConfig`, `RuntimeIndexed`, `RuntimeKey` | matcher.rs `from_config`: legacy operator folding, `domain_suffix_index` / `always_check_rules` |
| `MatcherMatches`, `Skips`, `ApplyOp`, `ChainFrom` (RECURSIVE), `EvalMatchChain` | matcher.rs `RuntimeMatcher::matches`, `eval_match_chain` |
| `CompileMatcher`, `PrecomputeAction`, `CompileRule`, `AndChain`, `IndexItems`, `CompilePipeline(s)` | advanced_rule.rs compilation and `RuleIndex::add_rule` |
| `LabelSuffixes` (RECURSIVE), `GetCandidates` | `RuleIndex::get_candidates` |
| `FastFrom` (RECURSIVE), `FastStaticMatch` | `fast_static_match` |
| `CandidateIndices`, `RuleActions`, `Walk` (RECURSIVE), `ApplyRules` | engine.rs `apply_rules`: candidate selection and the rule walk |
| `FastPath`, `Answer` | `handle_packet_fast` step 2, and the listener's fast-then-slow order |
| `Init` / `Query` / `Reload` | `Engine::new` / a query / watcher.rs `run_watcher` storing a new config |

`Spec` runs queries between reloads. `SpecReload` adds the watcher's reload, which
leaves `compiled_pipelines` as `Engine::new` built it. The reference operators
(`FoldChain` over `FoldLeft`, `RefMatcher` with label-boundary suffix matching) are
what the spec says the code computes. There is no fairness: the properties are safety.

### Upstream and ForwardSpec (MCUpstream instantiates Upstream)

`Upstream.tla` models the clients behind `forward_upstream`:

- `forward_udp_smart`: two UDP attempts, then `tcp_mux.send`;
- both branches of `UdpClient::send`: with `udp_pool_size` 0 a fresh connected socket
  per attempt, otherwise the pool branch on one socket, with its id map and reader task;
- one `TcpMuxClient`, with its pending map, a reader task per connection,
  `fail_all_async` and `reset_conn`.

The request tasks of concurrent forwards share both clients. CONSTANTS are:

- `Req`, and `Transport[r]`;
- `IdSpace` (the u16 id space);
- `MaxProbe` (the 101 probes before "udp pool exhausted");
- the fault bounds `MaxLoss`, `MaxStray` and `MaxCloses`.

| Variable | Code |
|---|---|
| `fwd[r]` | the locals of r's forward: the await it is at, the UDP attempt, the ids it holds, its result |
| `chan[r]` | the oneshot receiver of r's current send |
| `udpMap`, `udpNext` | `UdpSocketState.inflight`, `next_id` |
| `tcpPending`, `tcpNext` | `TcpMuxClient.pending`, `next_id` (starts at 1) |
| `conn` | `TcpMuxClient.conn`: which connection's write half is held, or none |
| `gen[g]` | connection g: unused, open, closed by the peer, failing (after `fail_all`), dead |
| `udpNet`, `tcpNet` | datagrams in flight (`sock` 0 is the pool socket, `sock` a the fresh socket of attempt a); segments in flight per connection |
| `udpPool` | `UdpClient.pool.len()`: chosen in Init from {0, 1}, as `udp_pool_size` gives it |

| Action | Code |
|---|---|
| `UdpFreshSend` | empty pool: create, bind, connect, `send` (any of them may fail: `AttemptFailed`) |
| `UdpFreshAwait` | `timeout(recv loop)`: the reply on its own socket, or a recv error or timeout; the socket is dropped with what later reaches it |
| `UdpSend` | id probe, insert, rewrite, `send_to` (and its error arm) |
| `UdpAwait` | `timeout(rx)`: reply, "channel closed", timeout with remove; `AttemptFailed` is `forward_udp_smart`'s retry/fallback |
| `UdpRecv` | the pool reader: `remove(id)`, then the source check |
| `TcpBegin` | `send` up to the pending insert, with `rewrite_id` |
| `TcpEnsure` / `TcpWrite` | `ensure_conn` (connect, store writer, spawn reader) / the locked write; `TcpAbort` is `write_res`'s error arms |
| `TcpAwait` | the response wait: reply, `r?` error, timeout with reset, budget spent |
| `TcpRecv`, `TcpReadFail`, `TcpReadReset` | a connection's reader: a response, `fail_all_async`'s loop, its `reset_conn` |

The network and the upstream are actions without fairness:

- `UpstreamUdp`, `UdpLose`, `UdpStray`;
- `UpstreamTcp`;
- `UpstreamClose`: the upstream closes a connection, either after its writer was
  dropped or on its own (bounded).

Time is abstract: a timeout may fire while its future is pending.

`ForwardSpec.tla` is the contract of `forward_upstream`: each call returns once, with
its own query's answer or an error, and every call returns. Upstream implements it
under the mapping `result <- [r |-> fwd[r].res]` (`Abstract == INSTANCE ForwardSpec
WITH ...`), checked as the PROPERTY `ImplementsForwardSpec`.

**Fairness.** `Step(r)` is weakly fair: the task is polled when it can proceed. Every
await of a forward is under a tokio timeout, and a timeout's action is enabled while
it waits. The upstream, the network and the reader tasks get no fairness. This
matches SingleFlight's assumption that every upstream call ends.

### ResponseMatch (pure; MCRuleIndex instantiates it)

`ResponseMatch.tla` translates the matchers that RuleIndex does not:

- `SelFromConfig`, `SelMatches`, `SelectRulesFromConfig` (with `FoldLegacyOp`) and
  `SelChain`: the `pipeline_select` part of `from_config`, the selector matchers
  and `eval_match_chain` over them;
- `SelectPipeline`: `select_pipeline`, with the pipeline lookup and both fallbacks;
- `RespFromConfig` (`ParseCidrList`: split on ',', trim, skip empty parts, parse)
  and `RespMatches`: every response matcher kind except the regex, with
  `TryParseUpstreamIp`, `RcodeStr` (six named rcodes, the rest "OTHER") and
  `AddrIn` (Answer, then Additional);
- `ParseDnsClass`.

Data is abstracted to what the matchers tell apart:

- a word (a label, type, rcode or class) is its letters and its case, so
  `to_ascii_uppercase` and `eq_ignore_ascii_case` do what they do;
- a qname is a sequence of cased characters;
- an address is a string and a CIDR text names the set of addresses it contains
  (an unknown text does not parse);
- an upstream is a host (address or name) with or without a port.

The reference half (`SpecSel`, `SpecSelect`, `SpecResp`, `SpecValid`) states spec §2
and §4.2 directly on the config values. `SelectPipelineAgrees` and
`ResponseMatchAgrees` compare the code with it. They are checked in ri_main.

### ProtoUtils (pure; MCRuleIndex and MCSingleFlight instantiate it)

`ProtoUtils.tla` translates `parse_quick` and `parse_response_quick` byte by byte. A
packet is a sequence of bytes, 0..255.

- `QNameLoop` (RECURSIVE) is the qname loop. It keeps the pointer budget
  `max_jumps = 5`, `SavedPos` (where QTYPE starts: after the first pointer only), the
  256-byte buffer bound checked before each dot and byte, and ASCII lowercasing.
  `ParseQuick` adds the header checks, the QTYPE/QCLASS bound and the UTF-8 check
  (`Utf8Ok`, RFC 3629).
- `SkipQuestions`, `SkipName` and `ScanAnswers` are the response walk, and
  `ParseResponseQuick` returns the RCODE and minimum TTL.
- TLC integers are 32-bit signed, so a u32 TTL is a pair <<hi16, lo16>> compared by
  `LessU32`.

The reference half of the module encodes requests and replies as the spec describes
them (`EncodeRequest`, `EncodeReply`, with compression pointers, pointer chains and
names up to 253 octets). `QuickParseAgrees` and `QuickResponseAgrees` compare the
parsers with the encoded values. They are checked as invariants of ri_main and
sf_main, whose qnames and replies they are: MCRuleIndex's queries are the qnames
`ParseQuick` returns for encoded requests.

## 3. Runs

**Passing runs.** Between them they fire every action. The properties are:

- `TypeOK`;
- `SingleFlightExclusive`: for one hash, at most one registered task calls the
  upstream;
- `EveryRequestAnswered`: every query that arrives eventually returns;
- `ChainIsLeftFold`: `eval_match_chain` with its skip guards equals the left fold of
  the operators;
- `CandidatesComplete`: the candidate list is sorted, and contains every rule whose
  chain matches with label-boundary suffix matching (spec §4.3/§8);
- `CandidatesPreserveDecision`: walking only the candidates decides as walking every
  rule, when no suffix matches mid-label;
- `NoOrphanEntry`: every UDP in-flight and TCP pending entry belongs to a send still
  waiting on that id;
- `ImplementsForwardSpec`: the refinement above; ForwardSpec's weakly fair `Return`
  makes it also say that every forward returns;
- `QuickParseAgrees`: `parse_quick` returns the encoded qname (lowercased), qtype and
  qclass for every plain, compressed and chained request the spec accepts, up to 253
  octets, and None for the truncated and malformed ones and for chains of 5 pointers;
- `QuickResponseAgrees`: `parse_response_quick` returns the RCODE and the minimum
  answer TTL (0 for no answers) of every well-formed reply of up to two answers.

| Run | Checks | Configuration | Result |
|---|---|---|---|
| sf_main | TypeOK, SingleFlightExclusive, EveryRequestAnswered, QuickResponseAgrees | 3 queries, 3 clients; fast-path deny, forward-then-continue, allow (reuse), logged static in p2; expiry on | about 13k states, 20 s |
| sf_live | SingleFlightExclusive, EveryRequestAnswered | 2 queries, 2 clients, 5 pipelines: c1 forwards on p1 and jumps to p3 on a miss (`process_response_jump`), where its rule jumps on to p4, so it forwards p4's rule under p3's hash; c2 hops p2→p3 and forwards p3's rule in `handle_packet` on the same hash, so each may wait on the other's forward; p4's forward jumps to p5 (static, or budget out) on a match and continues to an allow with reuse on a miss, which re-enters the loop at p4 and hashes p4; malformed replies; `JumpLimit = 3`, `MinTtl = 1` | about 1.9k states, 35 s |
| ri_main | TypeOK, ChainIsLeftFold, CandidatesComplete, CandidatesPreserveDecision, QuickParseAgrees, SelectPipelineAgrees, ResponseMatchAgrees | every two-rule pipeline over 4 matchers (Any, suffix "b", suffix "a.b", client c1) and 4 operators, rule op And/Or; qnames a, b, ab, a.b, ba.b; 2 clients; skip {} or {r1}. Selectors: one rule (to p2) with every chain of one or two of 8 selector matchers (2 that fail to parse), or two one-item rules to p1, p2 or a missing id; 3 pipeline lists; 48 contexts. Response matchers: 10 configs (2 that fail to parse) over 3600 replies and contexts | about 777k states, 2 min |
| up_main | TypeOK, NoOrphanEntry, ImplementsForwardSpec | r1 over UDP (retry, TCP fallback), r2 over TCP; a UDP pool of 0 (fresh sockets) or 1 socket; one lost datagram, one stray datagram, one upstream close | about 279k states, 80 s |

**Violation runs.** Each finds a real disagreement with the spec. The findings in
PROJECT.json give the trace.

| Run | Violates | What happens |
|---|---|---|
| sf_guard_race | SingleFlightExclusive | The Err-arm Upstream/Static results (and its Jump result, after `process_response_jump`) notify without defusing; the stale guard removes a newer leader's entry |
| sf_orphan | SingleFlightExclusive | A follower woken by RecvError notifies by hash and removes a newer leader's entry |
| sf_leak | NoOrphanSlot | A Continue into a Static decision returns without notifying; the entry outlives its owner and its waiters wait forever |
| sf_self_wait | EveryRequestAnswered | Continue, jump away, Continue, jump back: the query joins its own entry |
| sf_rule_cache | RuleCacheSound | `apply_rules` with skipped rules still writes L1 |
| sf_cache_key | CacheEntryKeyed | After a jump, L2 entries are stamped with the selected pipeline under the current pipeline's hash |
| ri_fast | FastPathAgrees | `fast_static_match` passes over a matching rule without a precomputed action (r1 suffix b → Forward) and answers with a later rule (suffix a.b → Deny); `apply_rules` forwards |
| ri_reload | CompiledFollowsReload | After a reload, `compiled_pipelines` still holds the old config. Either the fast path answers with the old precomputed REFUSED where the new config forwards, or the old candidate positions pick the wrong rules of the new config; TLC's search order decides which it reports |

**Mutants.** Each property of a passing run is broken by a plausible bug of the code
it is about:

- Lead without the Vacant check;
- Continue without the skip insert;
- a guard that never removes;
- a Forward built with `allow_reuse` (for `TypeOK` of sf_main);
- the configured rcode kept unparsed;
- OrNot skipped like And;
- AndNot items indexed as And;
- candidates left unsorted;
- the UDP reader without the source check;
- a TCP query that keeps its client id;
- the UDP timeout arm without the remove;
- `pos` saved at every compression pointer;
- the minimum TTL kept with the comparison swapped;
- a `process_response_jump` registration that inserts without looking at the entry.

**Bounds.**

- **SingleFlight.** Three queries are the fewest for the guard and orphan races: a
  leader, a query whose stale step removes the entry, and a third that becomes a
  second leader. Two pipelines allow a jump and a pipeline-keyed cache mismatch.
  Replies are reduced to TTL {0, 1} and a match bit, which is what the code branches
  on. `Expiry` is off in sf_live, because moka expiry multiplies the state space about
  sevenfold without adding a branch the liveness question needs; sf_main keeps it on.
  sf_live has two queries: with three, liveness checking took 18 minutes. Two are
  enough for a `process_response_jump` task to wait on a `handle_packet` leader
  and be woken or dropped. The guard races need three, and sf_main and the violation
  runs have them. A response-jump target whose rule jumps on (p3 to p4) is what
  exposes the stale `dedupe_hash`, and `JumpLimit = 3` leaves budget for it, for a
  response jump out of p4 and for the Static arm at p5. The configuration has no
  Continue in `handle_packet` and no response jump to a hash its task holds. Those are the sf_leak and sf_self_wait defects, and the run would
  only repeat them.
- **ProtoUtils.** The request cases cover every header and label shape the code
  branches on: qdcount 0, truncation at every byte, chains of 1 to 6 pointers, a
  self-pointer, a two-pointer loop, a 0xFF byte, and a name of 253 octets made of
  63-octet labels, and non-ASCII bytes. The replies have 0 to 2 answers with TTLs 0, 1, 300 and 2^31, with and
  without a compressed name.
- **RuleIndex.** Two rules are what an ordering or skipping disagreement needs. The
  suffixes "b" and "a.b" against "ab", "a.b" and "ba.b" give label-boundary,
  mid-label and multi-label hits.
- **Upstream.**
  - Two forwards share the TCP client and its connections, so a reader of an old
    connection can fail a request on a newer one.
  - One UDP forward meets the stray and the lost datagram on both of its attempts.
    Two UDP forwards interact only through `next_id` while ids do not wrap, and would
    multiply the state space by the stale datagrams.
  - With `IdSpace = 4` a behaviour never reuses an id. The u16 wrap needs 65536 sends
    in flight within one timeout and is not reached (hazard engine.rs:1910).

## 4. Not modelled

- Response building (`build_response`) and full hickory decoding: in SingleFlight a
  reply is its outcome. proto_utils is modelled, but only in ProtoUtils.
- Logging and metrics.
- Socket I/O and the TCP listener framing.
- JSON parsing of the config (from_config after it is modelled: RuleIndex, ResponseMatch).
- `process_response_jump`'s arm for `Decision::Jump` after the nested jump loop
  (engine.rs 1714-1724): the loop resolves every Jump first, so no state reaches it.
- Divergences found but without a run (the edns_present TODO at engine.rs:257, the
  trailing-dot qname of the full-parse fallback at engine.rs:264, the L1 key without
  qclass at engine.rs:212): see the hazards.
- Divergences modelled but without a run of their own (every run slot is taken, see
  the hazards):
  - a TTL of u32::MAX is returned as 0 (spec §8 says the minimum);
  - a Static decision in `process_response_jump` is cached even with `min_ttl = 0`;
  - a response jump gets the full `response_jump_limit` after the request-phase
    jumps (spec §8 bounds the total).
- Matchers:
  - regex matchers are not modelled; the request matchers Qclass and EdnsPresent
    are abstracted away in RuleIndex (selector and response matchers of these kinds
    are modelled in ResponseMatch);
  - ResponseMatchAgrees leaves out rcode config values other than the six named
    ones: "other" matching YXDOMAIN would be a violation (hazard matcher.rs:536);
  - the StaticIp action is not modelled;
  - `apply_match_operator`, which nothing calls, is not modelled;
  - in SingleFlight, a chain is the set of clients it accepts.
- UdpClient:
  - round robin over several pool sockets: each socket has its own map and reader,
    so one socket shows every interaction;
  - a datagram shorter than 2 bytes, which the fresh socket's loop returns as the
    answer: the upstream in the model sends well-formed replies.
- TcpMultiplexer:
  - per-upstream pools;
  - the 128-permit semaphore, never short with two forwards.
- Spec line 246 says empty action lists after a match behave as the default Forward.
  The code falls through to the next candidate, and RuleIndex models the code.
