------------------------------ MODULE Upstream ------------------------------
(***************************************************************************)
(* The upstream clients of engine.rs: forward_upstream, forward_udp_smart  *)
(* (two UDP attempts, then TCP), the pooled UdpClient with its id map and  *)
(* reader task, and a TcpMuxClient with its pending map, one reader task   *)
(* per connection, fail_all_async and reset_conn.  Concurrent forwards of  *)
(* the request tasks share both clients.  The network may lose datagrams,  *)
(* deliver a datagram from another address, answer late or never, and the *)
(* upstream may close a TCP connection.  Time is abstract: a timeout may   *)
(* fire whenever its future is still pending.                              *)
(***************************************************************************)
EXTENDS Naturals, FiniteSets, Functions

CONSTANTS
    Req,          \* concurrent forward_upstream calls (model values)
    Transport,    \* Transport[r]: the transport r's Forward action names, "udp" or "tcp"
    IdSpace,      \* size of a u16 id space (UdpSocketState/TcpMuxClient next_id)
    MaxProbe,     \* the free-id probes of UdpClient::send before "pool exhausted"
    MaxLoss,      \* datagrams the network may drop
    MaxStray,     \* datagrams from another source address
    MaxCloses     \* TCP connections the upstream may close

Ids  == 0..(IdSpace - 1)
Gens == 1..Cardinality(Req)        \* a TCP send connects at most once

NoEntry == "none"

VARIABLES
    fwd,        \* fwd[r]: pc, UDP attempt, ids held, result of the forward
    chan,       \* chan[r]: the oneshot receiver of r's current send
    udpMap,     \* UdpSocketState.inflight: id -> owner (original_id, addr, tx)
    udpNext,    \* UdpSocketState.next_id
    udpNet,     \* datagrams in flight, both directions
    tcpPending, \* TcpMuxClient.pending: id -> owner
    tcpNext,    \* TcpMuxClient.next_id
    conn,       \* TcpMuxClient.conn: the generation of the writer held, or 0
    gen,        \* gen[g]: TCP connection g: unused, open, closed by peer, dead
    tcpNet,     \* TCP segments in flight on each connection
    faults,     \* losses, strays and closes so far (bounded)
    udpPool     \* UdpClient.pool.len(): udp_pool_size, 0 or 1 socket

vars == <<fwd, chan, udpMap, udpNext, udpNet, tcpPending, tcpNext, conn, gen, tcpNet, faults, udpPool>>

Ok(q)  == [st |-> "ok", req |-> q]
Chan(s) == [st |-> s, req |-> "none"]

Init ==
    /\ fwd = [r \in Req |-> [pc |-> Transport[r], att |-> 1, uid |-> 0, tid |-> 0, res |-> "none"]]
    /\ chan = [r \in Req |-> Chan("idle")]
    /\ udpMap = [i \in Ids |-> NoEntry]
    /\ udpNext = 0
    /\ udpNet = {}
    /\ tcpPending = [i \in Ids |-> NoEntry]
    /\ tcpNext = 1 % IdSpace
    /\ conn = 0
    /\ gen = [g \in Gens |-> "unused"]
    /\ tcpNet = {}
    /\ faults = [loss |-> 0, stray |-> 0, close |-> 0]
    /\ udpPool \in {0, 1}

-----------------------------------------------------------------------------
(* forward_udp_smart and the UDP pool.                                    *)

\* An attempt's Err: the first one goes to the second attempt (full
\* timeout), the second to tcp_mux.send.
AttemptFailed(r) ==
    IF fwd[r].att = 1 THEN [fwd[r] EXCEPT !.att = 2, !.pc = "udp"]
    ELSE [fwd[r] EXCEPT !.pc = "tcp"]

Finish(r, res) == [fwd[r] EXCEPT !.pc = "done", !.res = res]

\* The ids fetch_add hands out from `from`, in order, at most n of them.
Probes(from, n) == [k \in 0..(n - 1) |-> (from + k) % IdSpace]

\* The first free id of the probe sequence, or -1 when every probe is in use.
FirstFree(map, from, n) ==
    LET free == {k \in DOMAIN Probes(from, n) : map[Probes(from, n)[k]] = NoEntry}
    IN IF free = {} THEN -1 ELSE Probes(from, n)[CHOOSE k \in free : \A j \in free : k <= j]

\* UdpClient::send (pool branch) up to the await: probe for a free id,
\* insert (original_id, addr, tx), rewrite the id and send_to.  send_to may
\* fail, and then the entry is removed again.
UdpSend(r) ==
    /\ fwd[r].pc = "udp"
    /\ udpPool = 1
    /\ LET id == FirstFree(udpMap, udpNext, MaxProbe) IN
       IF id = -1
       THEN /\ fwd' = [fwd EXCEPT ![r] = AttemptFailed(r)]      \* "udp pool exhausted"
            /\ udpNext' = (udpNext + MaxProbe) % IdSpace
            /\ UNCHANGED <<chan, udpMap, udpNet>>
       ELSE /\ udpNext' = (id + 1) % IdSpace
            /\ \/ /\ udpMap' = [udpMap EXCEPT ![id] = r]
                  /\ udpNet' = udpNet \cup {[kind |-> "query", id |-> id, req |-> r, src |-> "kix", sock |-> 0]}
                  /\ chan' = [chan EXCEPT ![r] = Chan("wait")]
                  /\ fwd' = [fwd EXCEPT ![r].pc = "udp_wait", ![r].uid = id]
               \/ /\ fwd' = [fwd EXCEPT ![r] = AttemptFailed(r)]  \* send_to error
                  /\ UNCHANGED <<chan, udpMap, udpNet>>
    /\ UNCHANGED <<tcpPending, tcpNext, conn, gen, tcpNet, faults, udpPool>>

\* (mutant) the timeout arm returns without removing its id.
UdpAwaitNoRemove(r) ==
    /\ fwd[r].pc = "udp_wait"
    /\ \/ /\ chan[r].st = "ok"
          /\ fwd' = [fwd EXCEPT ![r] = Finish(r, chan[r].req)]
       \/ /\ chan[r].st \in {"closed", "wait"}
          /\ fwd' = [fwd EXCEPT ![r] = AttemptFailed(r)]
    /\ chan' = [chan EXCEPT ![r] = Chan("idle")]
    /\ UNCHANGED <<udpMap, udpNext, udpNet, tcpPending, tcpNext, conn, gen, tcpNet, faults, udpPool>>

\* timeout(timeout_dur, rx): Ok(Ok(res)) returns the reply, Ok(Err(_)) is
\* "channel closed" (the sender was dropped), Err(_) removes the id.
UdpAwait(r) ==
    /\ fwd[r].pc = "udp_wait"
    /\ \/ /\ chan[r].st = "ok"
          /\ fwd' = [fwd EXCEPT ![r] = Finish(r, chan[r].req)]
          /\ UNCHANGED udpMap
       \/ /\ chan[r].st = "closed"
          /\ fwd' = [fwd EXCEPT ![r] = AttemptFailed(r)]
          /\ UNCHANGED udpMap
       \/ /\ chan[r].st = "wait"
          /\ udpMap' = [udpMap EXCEPT ![fwd[r].uid] = NoEntry]
          /\ fwd' = [fwd EXCEPT ![r] = AttemptFailed(r)]
    /\ chan' = [chan EXCEPT ![r] = Chan("idle")]
    /\ UNCHANGED <<udpNext, udpNet, tcpPending, tcpNext, conn, gen, tcpNet, faults, udpPool>>

\* (mutant) the reader hands any datagram with a known id to its waiter.
UdpRecvNoSrcCheck ==
    \E d \in udpNet :
        /\ d.kind = "reply" /\ d.sock = 0
        /\ udpNet' = udpNet \ {d}
        /\ IF udpMap[d.id] = NoEntry
           THEN UNCHANGED <<udpMap, chan>>
           ELSE /\ udpMap' = [udpMap EXCEPT ![d.id] = NoEntry]
                /\ chan' = [chan EXCEPT ![udpMap[d.id]] = Ok(d.req)]
        /\ UNCHANGED <<fwd, udpNext, tcpPending, tcpNext, conn, gen, tcpNet, faults, udpPool>>

\* The pool socket's reader task: remove the entry of the datagram's id,
\* THEN compare the source with the expected address; on a mismatch the
\* removed sender is dropped.
UdpRecv ==
    \E d \in udpNet :
        /\ d.kind = "reply" /\ d.sock = 0
        /\ udpNet' = udpNet \ {d}
        /\ IF udpMap[d.id] = NoEntry
           THEN UNCHANGED <<udpMap, chan>>
           ELSE /\ udpMap' = [udpMap EXCEPT ![d.id] = NoEntry]
                /\ chan' = [chan EXCEPT ![udpMap[d.id]] =
                              IF d.src = "upstream" THEN Ok(d.req) ELSE Chan("closed")]
        /\ UNCHANGED <<fwd, udpNext, tcpPending, tcpNext, conn, gen, tcpNet, faults, udpPool>>

\* The datagrams of r's fresh socket of attempt a (sock 0 is the pool's).
OnSocket(r, a) == {d \in udpNet : d.sock = a /\ d.req = r}

\* UdpClient::send with an empty pool, up to the recv loop: a new socket,
\* bound, connected to the upstream and sent the packet unchanged.  Each
\* step may fail (create, bind, connect, send), and the attempt is an Err.
UdpFreshSend(r) ==
    /\ fwd[r].pc = "udp"
    /\ udpPool = 0
    /\ \/ /\ udpNet' = udpNet \cup {[kind |-> "query", id |-> 0, req |-> r, src |-> "kix", sock |-> fwd[r].att]}
          /\ fwd' = [fwd EXCEPT ![r].pc = "udp_fresh_wait"]
       \/ /\ fwd' = [fwd EXCEPT ![r] = AttemptFailed(r)]
          /\ UNCHANGED udpNet
    /\ UNCHANGED <<chan, udpMap, udpNext, tcpPending, tcpNext, conn, gen, tcpNet, faults, udpPool>>

\* timeout(timeout_dur, recv loop): the connected socket receives only the
\* upstream's datagrams, and the loop returns the first whose id is the
\* packet's.  A recv error (ICMP refused) or the timeout is an Err, and the
\* socket is dropped with whatever later reaches it.
UdpFreshAwait(r) ==
    /\ fwd[r].pc = "udp_fresh_wait"
    /\ \/ \E d \in OnSocket(r, fwd[r].att) :
             /\ d.kind = "reply"
             /\ fwd' = [fwd EXCEPT ![r] = Finish(r, d.req)]
       \/ fwd' = [fwd EXCEPT ![r] = AttemptFailed(r)]
    /\ udpNet' = udpNet \ OnSocket(r, fwd[r].att)
    /\ UNCHANGED <<chan, udpMap, udpNext, tcpPending, tcpNext, conn, gen, tcpNet, faults, udpPool>>

-----------------------------------------------------------------------------
(* TcpMuxClient (one client: pool size 1, one upstream).                  *)

\* remove_pending(new_id) followed by reset_conn: the error arms of write_res.
TcpAbort(r) ==
    /\ tcpPending' = [tcpPending EXCEPT ![fwd[r].tid] = NoEntry]
    /\ conn' = 0
    /\ fwd' = [fwd EXCEPT ![r] = Finish(r, "err")]
    /\ chan' = [chan EXCEPT ![r] = Chan("idle")]

\* (mutant) the query keeps the client's id (every client here uses id 1).
TcpBeginKeepId(r) ==
    /\ fwd[r].pc = "tcp"
    /\ tcpPending' = [tcpPending EXCEPT ![1] = r]
    /\ chan' = [chan EXCEPT ![r] = Chan("wait")]
    /\ fwd' = [fwd EXCEPT ![r].pc = "tcp_conn", ![r].tid = 1]
    /\ UNCHANGED <<udpMap, udpNext, udpNet, tcpNext, conn, gen, tcpNet, faults, udpPool>>

\* send up to the pending insert: the semaphore (128 permits, never short
\* here), rewrite_id (fetch_add, skipping ids in use) and the insert.
TcpBegin(r) ==
    /\ fwd[r].pc = "tcp"
    /\ LET id == FirstFree(tcpPending, tcpNext, IdSpace) IN
       IF id = -1
       THEN /\ fwd' = [fwd EXCEPT ![r] = Finish(r, "err")]   \* "no available dns ids"
            /\ UNCHANGED <<tcpPending, tcpNext, chan>>
       ELSE /\ tcpNext' = (id + 1) % IdSpace
            /\ tcpPending' = [tcpPending EXCEPT ![id] = r]
            /\ chan' = [chan EXCEPT ![r] = Chan("wait")]
            /\ fwd' = [fwd EXCEPT ![r].pc = "tcp_conn", ![r].tid = id]
    /\ UNCHANGED <<udpMap, udpNext, udpNet, conn, gen, tcpNet, faults, udpPool>>

\* ensure_conn under the conn lock: keep the writer held, or connect, store
\* the write half and spawn the reader of the new connection.  The connect
\* may fail or outlive write_res's timeout.
TcpEnsure(r) ==
    /\ fwd[r].pc = "tcp_conn"
    /\ \/ /\ conn # 0
          /\ fwd' = [fwd EXCEPT ![r].pc = "tcp_write"]
          /\ UNCHANGED <<conn, gen, tcpPending, chan>>
       \/ /\ conn = 0
          /\ LET g == CHOOSE g \in Gens : gen[g] = "unused" IN
                /\ conn' = g
                /\ gen' = [gen EXCEPT ![g] = "open"]
          /\ fwd' = [fwd EXCEPT ![r].pc = "tcp_write"]
          /\ UNCHANGED <<tcpPending, chan>>
       \/ /\ TcpAbort(r)
          /\ UNCHANGED gen
    /\ UNCHANGED <<udpMap, udpNext, udpNet, tcpNext, tcpNet, faults, udpPool>>

\* Under write_lock and the conn lock: the writer may be gone ("tcp write
\* half missing"), the write may fail or time out; on a connection the peer
\* closed it may also be accepted by the socket and never answered.
TcpWrite(r) ==
    /\ fwd[r].pc = "tcp_write"
    /\ \/ /\ conn # 0
          /\ gen[conn] = "open"
          /\ tcpNet' = tcpNet \cup {[g |-> conn, kind |-> "query", id |-> fwd[r].tid, req |-> r]}
          /\ fwd' = [fwd EXCEPT ![r].pc = "tcp_wait"]
          /\ UNCHANGED <<conn, tcpPending, chan>>
       \/ /\ conn # 0
          /\ gen[conn] # "open"
          /\ fwd' = [fwd EXCEPT ![r].pc = "tcp_wait"]
          /\ UNCHANGED <<conn, tcpPending, chan, tcpNet>>
       \/ /\ TcpAbort(r)
          /\ UNCHANGED tcpNet
    /\ UNCHANGED <<udpMap, udpNext, udpNet, tcpNext, gen, faults, udpPool>>

\* The response wait: a reply, the reader's fail_all error (`r?`), the
\* response timeout (remove_pending and reset_conn), or the budget already
\* spent after the write (remove_pending only).
TcpAwait(r) ==
    /\ fwd[r].pc = "tcp_wait"
    /\ \/ /\ chan[r].st = "ok"
          /\ fwd' = [fwd EXCEPT ![r] = Finish(r, chan[r].req)]
          /\ chan' = [chan EXCEPT ![r] = Chan("idle")]
          /\ UNCHANGED <<tcpPending, conn>>
       \/ /\ chan[r].st = "err"
          /\ fwd' = [fwd EXCEPT ![r] = Finish(r, "err")]
          /\ chan' = [chan EXCEPT ![r] = Chan("idle")]
          /\ UNCHANGED <<tcpPending, conn>>
       \/ /\ chan[r].st = "wait"
          /\ TcpAbort(r)
       \/ /\ tcpPending' = [tcpPending EXCEPT ![fwd[r].tid] = NoEntry]
          /\ fwd' = [fwd EXCEPT ![r] = Finish(r, "err")]
          /\ chan' = [chan EXCEPT ![r] = Chan("idle")]
          /\ UNCHANGED conn
    /\ UNCHANGED <<udpMap, udpNext, udpNet, tcpNext, gen, tcpNet, faults, udpPool>>

\* The reader task of connection g: a response completes the pending entry
\* of its id, if there still is one.
TcpRecv(g) ==
    /\ gen[g] \in {"open", "closed"}
    /\ \E m \in tcpNet :
          /\ m.g = g /\ m.kind = "reply"
          /\ tcpNet' = tcpNet \ {m}
          /\ IF tcpPending[m.id] = NoEntry
             THEN UNCHANGED <<tcpPending, chan>>
             ELSE /\ tcpPending' = [tcpPending EXCEPT ![m.id] = NoEntry]
                  /\ chan' = [chan EXCEPT ![tcpPending[m.id]] = Ok(m.req)]
    /\ UNCHANGED <<fwd, udpMap, udpNext, udpNet, tcpNext, conn, gen, faults, udpPool>>

\* read_exact fails once g is closed and drained: fail_all_async removes and
\* fails EVERY pending entry, whichever connection it was written on.
TcpReadFail(g) ==
    /\ gen[g] = "closed"
    /\ ~\E m \in tcpNet : m.g = g
    /\ tcpPending' = [i \in Ids |-> NoEntry]
    /\ chan' = [r \in Req |-> IF \E i \in Ids : tcpPending[i] = r THEN Chan("err") ELSE chan[r]]
    /\ gen' = [gen EXCEPT ![g] = "failing"]
    /\ UNCHANGED <<fwd, udpMap, udpNext, udpNet, tcpNext, conn, tcpNet, faults, udpPool>>

\* ... then reset_conn drops the writer held, whichever connection it is.
TcpReadReset(g) ==
    /\ gen[g] = "failing"
    /\ conn' = 0
    /\ gen' = [gen EXCEPT ![g] = "dead"]
    /\ UNCHANGED <<fwd, chan, udpMap, udpNext, udpNet, tcpPending, tcpNext, tcpNet, faults, udpPool>>

-----------------------------------------------------------------------------
(* The network and the upstream server.                                   *)

\* The upstream answers a query datagram from its own address.
UpstreamUdp ==
    \E d \in udpNet :
        /\ d.kind = "query"
        /\ udpNet' = (udpNet \ {d}) \cup {[d EXCEPT !.kind = "reply", !.src = "upstream"]}
        /\ UNCHANGED <<fwd, chan, udpMap, udpNext, tcpPending, tcpNext, conn, gen, tcpNet, faults, udpPool>>

\* A datagram is lost in either direction.
UdpLose ==
    /\ faults.loss < MaxLoss
    /\ \E d \in udpNet : udpNet' = udpNet \ {d}
    /\ faults' = [faults EXCEPT !.loss = @ + 1]
    /\ UNCHANGED <<fwd, chan, udpMap, udpNext, tcpPending, tcpNext, conn, gen, tcpNet, udpPool>>

\* A datagram carrying some id reaches the pool socket from another address
\* (a fresh socket is connected: the kernel drops those).
UdpStray ==
    /\ udpPool = 1
    /\ faults.stray < MaxStray
    /\ \E i \in Ids : udpNet' = udpNet \cup {[kind |-> "reply", id |-> i, req |-> "stray", src |-> "other", sock |-> 0]}
    /\ faults' = [faults EXCEPT !.stray = @ + 1]
    /\ UNCHANGED <<fwd, chan, udpMap, udpNext, tcpPending, tcpNext, conn, gen, tcpNet, udpPool>>

\* The upstream answers a request on an open connection.
UpstreamTcp(g) ==
    /\ gen[g] = "open"
    /\ \E m \in tcpNet :
          /\ m.g = g /\ m.kind = "query"
          /\ tcpNet' = (tcpNet \ {m}) \cup {[m EXCEPT !.kind = "reply"]}
    /\ UNCHANGED <<fwd, chan, udpMap, udpNext, udpNet, tcpPending, tcpNext, conn, gen, faults, udpPool>>

\* The upstream closes connection g, dropping the requests it has not
\* answered: in reply to the FIN of a dropped writer, or on its own (idle
\* timeout, restart) at most MaxCloses times.
UpstreamClose(g) ==
    /\ gen[g] = "open"
    /\ conn # g \/ faults.close < MaxCloses
    /\ gen' = [gen EXCEPT ![g] = "closed"]
    /\ tcpNet' = {m \in tcpNet : m.g # g \/ m.kind = "reply"}
    /\ faults' = IF conn = g THEN [faults EXCEPT !.close = @ + 1] ELSE faults
    /\ UNCHANGED <<fwd, chan, udpMap, udpNext, udpNet, tcpPending, tcpNext, conn, udpPool>>

-----------------------------------------------------------------------------

\* The steps of one forward_upstream call.
Step(r) ==
    \/ UdpSend(r) \/ UdpAwait(r) \/ UdpFreshSend(r) \/ UdpFreshAwait(r)
    \/ TcpBegin(r) \/ TcpEnsure(r) \/ TcpWrite(r) \/ TcpAwait(r)

\* Every forward has returned; the network may still hold late packets.
Terminated ==
    /\ \A r \in Req : fwd[r].pc = "done"
    /\ UNCHANGED vars

Next ==
    \/ \E r \in Req : Step(r)
    \/ UdpRecv \/ UpstreamUdp \/ UdpLose \/ UdpStray
    \/ \E g \in Gens : TcpRecv(g) \/ TcpReadFail(g) \/ TcpReadReset(g)
                       \/ UpstreamTcp(g) \/ UpstreamClose(g)
    \/ Terminated

\* Each request task is polled whenever it can make progress, and every
\* await it makes is under a tokio timeout; the upstream and the network
\* get no fairness: a query may stay unanswered forever.
Spec == Init /\ [][Next]_vars /\ \A r \in Req : WF_vars(Step(r))

-----------------------------------------------------------------------------

Results == Req \cup {"none", "err"}
PCs == {"udp", "udp_wait", "udp_fresh_wait", "tcp", "tcp_conn", "tcp_write", "tcp_wait", "done"}

TypeOK ==
    /\ fwd \in [Req -> [pc : PCs, att : {1, 2}, uid : Ids, tid : Ids, res : Results]]
    /\ chan \in [Req -> [st : {"idle", "wait", "ok", "closed", "err"}, req : Req \cup {"none", "stray"}]]
    /\ udpMap \in [Ids -> Req \cup {NoEntry}]
    /\ tcpPending \in [Ids -> Req \cup {NoEntry}]
    /\ udpNext \in Ids /\ tcpNext \in Ids
    /\ conn \in Gens \cup {0}
    /\ gen \in [Gens -> {"unused", "open", "closed", "failing", "dead"}]
    /\ faults \in [loss : 0..MaxLoss, stray : 0..MaxStray, close : 0..MaxCloses]
    /\ udpPool \in {0, 1}

\* forward_upstream implements its contract: each call returns exactly once
\* and never hands back another task's answer nor a datagram from another
\* address (the UDP reader keys replies by a rewritten id and checks the
\* source; the TCP reader keys them by id across reconnections), and every
\* call returns whatever the upstream and the network do.
Abstract == INSTANCE ForwardSpec WITH result <- [r \in Req |-> fwd[r].res]

ImplementsForwardSpec == Abstract!Spec

\* Every entry of the UDP in-flight map and of the TCP pending map belongs
\* to a send that is still waiting on that id: no timeout, send error,
\* stray datagram or connection failure leaves an id taken for good.
NoOrphanEntry ==
    /\ \A i \in Ids : udpMap[i] # NoEntry =>
          fwd[udpMap[i]].pc = "udp_wait" /\ fwd[udpMap[i]].uid = i
    /\ \A i \in Ids : tcpPending[i] # NoEntry =>
          fwd[tcpPending[i]].pc \in {"tcp_conn", "tcp_write", "tcp_wait"} /\ fwd[tcpPending[i]].tid = i

=============================================================================
