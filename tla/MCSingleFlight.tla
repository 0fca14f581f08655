--------------------------- MODULE MCSingleFlight ---------------------------
(***************************************************************************)
(* Pipeline configurations for checking SingleFlight.  Each is a small     *)
(* kixdns config (pipelines, pipeline_select, rules) chosen so that        *)
(* queries of different clients meet on one dedupe hash.                   *)
(***************************************************************************)
EXTENDS SingleFlight

MCClients == {"c1", "c2", "c3"}
TwoClients == {"c1", "c2"}

Act(k) == [k |-> k, to |-> "none"]
JumpTo(p) == [k |-> "jump", to |-> p]
MkRule(name, clients, actions, onMatch, onMiss) ==
    [name |-> name, clients |-> clients, actions |-> actions,
     onMatch |-> onMatch, onMiss |-> onMiss]

MCPipelines == <<"p1", "p2">>

\* Continue config: rule "fwd" forwards and, when the reply's matchers
\* fail (or the upstream fails), continues to rule "alw", which reuses the
\* reply.  Client c2 is denied by a rule whose first action is static (the
\* compiled fast path answers it); c3 is selected into p2, whose rule logs
\* before it answers statically (only apply_rules answers it).
ContinueSelect == <<[clients |-> {"c3"}, pipeline |-> "p2"]>>
ContinueRules ==
    [p \in {"p1", "p2"} |->
        IF p = "p1"
        THEN << MkRule("dny", {"c2"}, <<Act("static")>>, <<>>, <<>>),
                MkRule("fwd", MCClients, <<Act("forward")>>, <<>>, <<"continue">>),
                MkRule("alw", MCClients, <<Act("allow")>>, <<>>, <<>>) >>
        ELSE << MkRule("blk", {"c3"}, <<Act("log"), Act("static")>>, <<>>, <<>>) >>]

\* The Continue config with a Continue that ends in a Static decision of a
\* rule that logs first (so the compiled fast path does not answer it).
LeakRules ==
    [p \in {"p1", "p2"} |->
        IF p = "p1"
        THEN << MkRule("fwd", MCClients, <<Act("forward")>>, <<"continue">>, <<"continue">>),
                MkRule("blk", MCClients, <<Act("log"), Act("static")>>, <<>>, <<>>) >>
        ELSE << >>]

\* Response-action config: rule "fwd" re-forwards a matching reply and
\* answers a failing one statically; c2 and c3 are selected into p2, where
\* c3 is blocked and c2 jumps back into p1.
ActionSelect == <<[clients |-> {"c2", "c3"}, pipeline |-> "p2"]>>
ActionRules ==
    [p \in {"p1", "p2"} |->
        IF p = "p1"
        THEN << MkRule("fwd", MCClients, <<Act("forward")>>,
                       <<"log", "forward">>, <<"static">>) >>
        ELSE << MkRule("blk", {"c3"}, <<Act("log"), Act("static")>>, <<>>, <<>>),
                MkRule("hop", MCClients, <<JumpTo("p1")>>, <<>>, <<>>) >>]

\* Plain forwarding: no response actions, so a failed upstream gives
\* SERVFAIL and every exit of a leader defuses its guard.
PlainRules ==
    [p \in {"p1", "p2"} |->
        IF p = "p1" THEN << MkRule("fwd", MCClients, <<Act("forward")>>, <<>>, <<>>) >>
        ELSE << >>]

\* Ping-pong: each pipeline forwards, continues past its forward rule and
\* jumps to the other pipeline.
PingPongRules ==
    [p \in {"p1", "p2"} |->
        IF p = "p1"
        THEN << MkRule("fwd", MCClients, <<Act("forward")>>, <<"continue">>, <<"continue">>),
                MkRule("hop", MCClients, <<JumpTo("p2")>>, <<>>, <<>>) >>
        ELSE << MkRule("fwd2", MCClients, <<Act("forward")>>, <<"continue">>, <<"continue">>),
                MkRule("back", MCClients, <<JumpTo("p1")>>, <<>>, <<>>) >>]


\* Response-jump config: p1's rule "fwd" re-forwards a matching reply and
\* jumps to p3 on a miss.  c2 is selected into p2, whose rule "hop" jumps to
\* p3, where c2 forwards (rule "fwd3") inside handle_packet.  c1 enters p3
\* inside process_response_jump, where rule "alt" jumps on to p4: c1
\* forwards p4's rule "fwd4" under p3's dedupe hash, so the two queries
\* meet on that hash with forwards of different pipelines.  "fwd4" jumps
\* to p5 (every client blocked) on a match and continues to "bk4", which
\* reuses the reply, on a miss; a Continue re-enters the loop at p4 and
\* hashes p4.  handle_packet never takes Continue here, so the orphaned
\* entry of sf_leak is out of this run, and no response jump targets a
\* hash its own task holds, so the self-wait of sf_self_wait is too.
LivePipelines == <<"p1", "p2", "p3", "p4", "p5">>
LiveSelect == <<[clients |-> {"c2"}, pipeline |-> "p2"]>>
LiveRules ==
    [p \in {"p1", "p2", "p3", "p4", "p5"} |->
        CASE p = "p1" -> << MkRule("fwd", TwoClients, <<Act("forward")>>,
                                   <<"log", "forward">>, <<"p3">>) >>
          [] p = "p2" -> << MkRule("hop", TwoClients, <<JumpTo("p3")>>, <<>>, <<>>) >>
          [] p = "p3" -> << MkRule("alt", {"c1"}, <<JumpTo("p4")>>, <<>>, <<>>),
                            MkRule("fwd3", {"c2"}, <<Act("forward")>>, <<"p4">>, <<>>) >>
          [] p = "p4" -> << MkRule("fwd4", TwoClients, <<Act("forward")>>, <<"p5">>, <<"continue">>),
                            MkRule("bk4", TwoClients, <<Act("allow")>>, <<>>, <<>>) >>
          [] p = "p5" -> << MkRule("blk5", TwoClients, <<Act("log"), Act("static")>>, <<>>, <<>>) >>]

PU == INSTANCE ProtoUtils

\* Whenever a forward awaits its upstream reply, the parse_response_quick
\* that reads the reply of a rule without response matchers or actions
\* (engine.rs 532) agrees with the full decode: on well-formed replies it
\* gives the RCODE and minimum answer TTL that Message::from_bytes and
\* extract_ttl give (ProtoUtils).
QuickResponseAgrees == (\E r \in Req : task[r].pc = "upstream") => PU!QuickResponseAgrees

=============================================================================
