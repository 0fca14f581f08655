---------------------------- MODULE MCUpstream -----------------------------
(* Two concurrent forwards sharing one TCP mux client: r1 forwards over    *)
(* UDP (two attempts on the pool socket, then the TCP fallback), r2 over   *)
(* TCP.  Ids are a space of four: a behaviour takes at most two UDP ids    *)
(* and two TCP ids, so no id is reused within a behaviour.                 *)
EXTENDS Upstream

CONSTANTS r1, r2

MCReq == {r1, r2}

MCTransport == [r \in MCReq |-> IF r = r1 THEN "udp" ELSE "tcp"]
=============================================================================
