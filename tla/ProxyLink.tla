----------------------------- MODULE ProxyLink -----------------------------
(***************************************************************************)
(* Handover of the satellite-facing UDP port between Hannah Core and the   *)
(* satellite proxies (core/hannah/grpc_server.py RegisterProxy and         *)
(* _revert_proxy_state, proxy/internal/hannah/client.go RunProxy).         *)
(*                                                                         *)
(* A proxy opens a RegisterProxy stream; the Core stops its own UDP server *)
(* and ACKs, and the proxy then binds.  When the last stream is gone the   *)
(* Core waits a grace period and takes UDP and discovery back.             *)
(*                                                                         *)
(* A Handler is a slot for one server-side RegisterProxy call, a Reverter  *)
(* one threading.Timer of the Core.  Both are reused once idle, so their   *)
(* number only bounds how many may overlap.                                *)
(***************************************************************************)
EXTENDS Naturals, FiniteSets

CONSTANTS
    Proxies,      \* proxy processes
    Advertising,  \* those with udp.advertise_host set
    SameHost,     \* those on the Core's own host: they compete for its port
    Handlers,     \* overlapping RegisterProxy calls (bound)
    Reverters,    \* overlapping revert timers (bound)
    MaxAcks,      \* `go onReady()` goroutines not yet run, per proxy (bound)
    CoreAddr,     \* the Core's own UDP address, as announced
    NoHandler, NoTimer

ASSUME ProxyLinkAssumption ==
    /\ Proxies # {}
    /\ Advertising \subseteq Proxies
    /\ SameHost \subseteq Proxies
    /\ CoreAddr \notin Proxies
    /\ NoHandler \notin Handlers
    /\ NoTimer \notin Reverters
    /\ MaxAcks \in Nat \ {0}

VARIABLES
    up,               \* the Core process runs
    proxy_queues,     \* handlers whose queue is in _proxy_queues
    revert_timer,     \* _proxy_revert_timer
    udp,              \* the Core's UDP server is bound
    discovery,        \* the address retained on the discovery topic
    proxy_satellites, \* proxies whose satellites the Core lists as connected
    hpc,              \* where each handler is
    live,             \* context.is_active() of each handler
    owner,            \* the proxy each handler serves
    drain,            \* the drain thread of each handler
    rpc,              \* where each revert timer is
    link,             \* where each proxy's RunProxy loop is
    stream,           \* the call each proxy holds
    acks,             \* `go onReady()` goroutines not yet run
    conn              \* the proxy's UDP socket is bound

coreVars  == <<proxy_queues, revert_timer, udp, discovery, proxy_satellites,
               hpc, live, owner, drain, rpc>>
proxyVars == <<link, stream, acks, conn>>
vars == <<up, coreVars, proxyVars>>

TypeOK ==
    /\ up \in BOOLEAN
    /\ proxy_queues \subseteq Handlers
    /\ revert_timer \in Reverters \cup {NoTimer}
    /\ udp \in BOOLEAN
    /\ discovery \in Proxies \cup {CoreAddr}
    /\ proxy_satellites \subseteq Proxies
    /\ hpc \in [Handlers -> {"idle", "disable", "ack", "open", "closing", "leaked"}]
    /\ live \in [Handlers -> BOOLEAN]
    /\ owner \in [Handlers -> Proxies]
    /\ drain \in [Handlers -> {"off", "reading", "publishing", "published"}]
    /\ rpc \in [Reverters -> {"idle", "armed", "fired", "decided", "enabled", "published"}]
    /\ link \in [Proxies -> {"backoff", "open", "lost"}]
    /\ stream \in [Proxies -> Handlers \cup {NoHandler}]
    /\ acks \in [Proxies -> 0..MaxAcks]
    /\ conn \in [Proxies -> BOOLEAN]

\* The Core can bind its port unless a proxy on its host holds it.
CorePortFree == \A p \in SameHost : ~conn[p]

Init ==
    /\ up = TRUE
    /\ proxy_queues = {}
    /\ revert_timer = NoTimer
    /\ udp = TRUE
    /\ discovery = CoreAddr
    /\ proxy_satellites = {}
    /\ hpc = [h \in Handlers |-> "idle"]
    /\ live = [h \in Handlers |-> FALSE]
    /\ owner \in [Handlers -> {CHOOSE p \in Proxies : TRUE}]
    /\ drain = [h \in Handlers |-> "off"]
    /\ rpc = [r \in Reverters |-> "idle"]
    /\ link = [p \in Proxies |-> "backoff"]
    /\ stream = [p \in Proxies |-> NoHandler]
    /\ acks = [p \in Proxies |-> 0]
    /\ conn = [p \in Proxies |-> FALSE]

-----------------------------------------------------------------------------
(* The Core's side of a stream.                                            *)

\* Fault: a returning proxy does not cancel the pending revert.
KeepRevert == UNCHANGED <<revert_timer, rpc>>

\* Timer.cancel(): a timer that has fired already is not stopped by it.
CancelRevert ==
    /\ revert_timer' = NoTimer
    /\ rpc' = IF revert_timer # NoTimer /\ rpc[revert_timer] = "armed"
                THEN [rpc EXCEPT ![revert_timer] = "idle"]
                ELSE rpc

\* A proxy opens a stream and its handler runs its locked prologue.
RegisterProxy(p, h) ==
    /\ up
    /\ link[p] = "backoff"
    /\ hpc[h] = "idle" /\ drain[h] = "off"
    /\ link' = [link EXCEPT ![p] = "open"]
    /\ stream' = [stream EXCEPT ![p] = h]
    /\ proxy_queues' = proxy_queues \cup {h}
    /\ CancelRevert
    /\ hpc' = [hpc EXCEPT ![h] = IF proxy_queues = {} THEN "disable" ELSE "ack"]
    /\ live' = [live EXCEPT ![h] = TRUE]
    /\ owner' = [owner EXCEPT ![h] = p]
    /\ UNCHANGED <<up, udp, discovery, proxy_satellites, drain, acks, conn>>

\* _disable_udp(), called by the first stream outside the lock.
DisableUdp(h) ==
    /\ hpc[h] = "disable"
    /\ udp' = FALSE
    /\ hpc' = [hpc EXCEPT ![h] = "ack"]
    /\ UNCHANGED <<up, proxy_queues, revert_timer, discovery, proxy_satellites,
                   live, owner, drain, rpc, proxyVars>>

\* The ACK is sent and reaches the proxy, which spawns `go onReady()`; the
\* handler starts its drain thread and enters the command loop.
SendAck(h) ==
    /\ hpc[h] = "ack"
    /\ live[h]
    /\ IF stream[owner[h]] = h
         THEN /\ acks[owner[h]] < MaxAcks
              /\ acks' = [acks EXCEPT ![owner[h]] = @ + 1]
         ELSE UNCHANGED acks
    /\ hpc' = [hpc EXCEPT ![h] = "open"]
    /\ drain' = [drain EXCEPT ![h] = "reading"]
    /\ UNCHANGED <<up, proxy_queues, revert_timer, udp, discovery, proxy_satellites,
                   live, owner, rpc, link, stream, conn>>

\* The call ended before the ACK was sent: the generator is dropped at a yield
\* that stands before the try block, so its finally clause never runs.
AckUndeliverable(h) ==
    /\ hpc[h] = "ack"
    /\ ~live[h]
    /\ hpc' = [hpc EXCEPT ![h] = "leaked"]
    /\ UNCHANGED <<up, proxy_queues, revert_timer, udp, discovery, proxy_satellites,
                   live, owner, drain, rpc, proxyVars>>

\* The drain thread reads the first heartbeat that advertises an address ...
DrainHeartbeat(h) ==
    /\ drain[h] = "reading"
    /\ live[h]
    /\ owner[h] \in Advertising
    /\ drain' = [drain EXCEPT ![h] = "publishing"]
    /\ UNCHANGED <<up, proxy_queues, revert_timer, udp, discovery, proxy_satellites,
                   hpc, live, owner, rpc, proxyVars>>

\* ... and publishes that address, once per stream, be it after the handler gave
\* up waiting for it.
PublishProxyAddr(h) ==
    /\ drain[h] = "publishing"
    /\ discovery' = owner[h]
    /\ drain' = [drain EXCEPT ![h] = IF hpc[h] = "idle" THEN "off" ELSE "published"]
    /\ UNCHANGED <<up, proxy_queues, revert_timer, udp, proxy_satellites,
                   hpc, live, owner, rpc, proxyVars>>

\* The command loop notices the end of the call (is_active or the drain's EOF).
StreamEnded(h) ==
    /\ hpc[h] = "open"
    /\ ~live[h]
    /\ hpc' = [hpc EXCEPT ![h] = "closing"]
    /\ UNCHANGED <<up, proxy_queues, revert_timer, udp, discovery, proxy_satellites,
                   live, owner, drain, rpc, proxyVars>>

\* Fault: "no proxy left" is evaluated before the queue is removed.
ArmRevertTooEarly(left) ==
    IF proxy_queues = {}
      THEN revert_timer' \in Reverters /\ UNCHANGED rpc
      ELSE UNCHANGED <<rpc, revert_timer>>

\* Start the revert timer if no stream is left.
ArmRevert(left) ==
    IF left = {}
      THEN \E r \in Reverters :
             /\ rpc[r] = "idle"
             /\ rpc' = [rpc EXCEPT ![r] = "armed"]
             /\ revert_timer' = r
      ELSE UNCHANGED <<rpc, revert_timer>>

\* The finally clause: join the drain for two seconds, which a thread that is
\* about to publish may outlast, drop the queue, and arm the revert timer if this
\* was the last stream.
Unregister(h) ==
    /\ hpc[h] = "closing"
    /\ proxy_queues' = proxy_queues \ {h}
    /\ ArmRevert(proxy_queues \ {h})
    /\ hpc' = [hpc EXCEPT ![h] = "idle"]
    /\ drain' = [drain EXCEPT ![h] = IF @ = "publishing" THEN @ ELSE "off"]
    /\ UNCHANGED <<up, udp, discovery, proxy_satellites, live, owner, proxyVars>>

\* The transport tells the server that the proxy is gone (reset or keepalive).
CallCancelled(h) ==
    /\ live[h]
    /\ stream[owner[h]] # h
    /\ live' = [live EXCEPT ![h] = FALSE]
    /\ UNCHANGED <<up, proxy_queues, revert_timer, udp, discovery, proxy_satellites,
                   hpc, owner, drain, rpc, proxyVars>>

-----------------------------------------------------------------------------
(* The revert timer.                                                       *)

\* Bound: no thread is at its publication for longer than the grace period.
PublishedInTime == \A h \in Handlers : drain[h] = "publishing" => h \in proxy_queues

\* The grace period is over: the timer thread runs and wants the lock.
RevertFires(r) ==
    /\ rpc[r] = "armed"
    /\ PublishedInTime
    /\ rpc' = [rpc EXCEPT ![r] = "fired"]
    /\ UNCHANGED <<up, proxy_queues, revert_timer, udp, discovery, proxy_satellites,
                   hpc, live, owner, drain, proxyVars>>

\* The locked part of _revert_proxy_state.
RevertDecide(r) ==
    /\ rpc[r] = "fired"
    /\ revert_timer' = NoTimer
    /\ rpc' = [rpc EXCEPT ![r] = IF proxy_queues = {} THEN "decided" ELSE "idle"]
    /\ UNCHANGED <<up, proxy_queues, udp, discovery, proxy_satellites,
                   hpc, live, owner, drain, proxyVars>>

\* _enable_udp(), after the lock was released; a bind failure is only logged.
RevertEnableUdp(r) ==
    /\ rpc[r] = "decided"
    /\ udp' = (udp \/ CorePortFree)
    /\ rpc' = [rpc EXCEPT ![r] = "enabled"]
    /\ UNCHANGED <<up, proxy_queues, revert_timer, discovery, proxy_satellites,
                   hpc, live, owner, drain, proxyVars>>

RevertDiscovery(r) ==
    /\ rpc[r] = "enabled"
    /\ discovery' = CoreAddr
    /\ rpc' = [rpc EXCEPT ![r] = "published"]
    /\ UNCHANGED <<up, proxy_queues, revert_timer, udp, proxy_satellites,
                   hpc, live, owner, drain, proxyVars>>

RevertSatellites(r) ==
    /\ rpc[r] = "published"
    /\ proxy_satellites' = {}
    /\ rpc' = [rpc EXCEPT ![r] = "idle"]
    /\ UNCHANGED <<up, proxy_queues, revert_timer, udp, discovery,
                   hpc, live, owner, drain, proxyVars>>

-----------------------------------------------------------------------------
(* The proxy's RunProxy loop.                                              *)

\* Fault: onLost is only called for a session that had been set up.
OpenFailsSilently(p) == link[p] = "backoff" /\ UNCHANGED vars

\* The dial, the first heartbeat or the call fails before anything was set up.
OpenFails(p) ==
    /\ link[p] = "backoff"
    /\ link' = [link EXCEPT ![p] = "lost"]
    /\ UNCHANGED <<up, coreVars, stream, acks, conn>>

\* runProxyOnce returns: Recv or Send failed, or the Core is gone.
StreamLost(p) ==
    /\ link[p] = "open"
    /\ link' = [link EXCEPT ![p] = "lost"]
    /\ stream' = [stream EXCEPT ![p] = NoHandler]
    /\ UNCHANGED <<up, coreVars, acks, conn>>

\* onLost: close the socket, then wait out the backoff.
OnLost(p) ==
    /\ link[p] = "lost"
    /\ conn' = [conn EXCEPT ![p] = FALSE]
    /\ link' = [link EXCEPT ![p] = "backoff"]
    /\ UNCHANGED <<up, coreVars, stream, acks>>

\* Fault: onReady runs without an ACK.
TakeAckUnasked(p) == acks' = [acks EXCEPT ![p] = @ - 1]

\* The `go onReady()` goroutine of one ACK gets to run.
TakeAck(p) ==
    /\ acks[p] > 0
    /\ acks' = [acks EXCEPT ![p] = @ - 1]

\* onReady: Start, which fails if the port is taken, and re-notify the
\* satellites the proxy still knows; either may come to nothing.
OnReady(p) ==
    /\ TakeAck(p)
    /\ conn' = [conn EXCEPT ![p] = @ \/ ~(p \in SameHost /\ udp)]
    /\ \/ up /\ proxy_satellites' = proxy_satellites \cup {p}
       \/ UNCHANGED proxy_satellites
    /\ UNCHANGED <<up, proxy_queues, revert_timer, udp, discovery, hpc, live, owner,
                   drain, rpc, link, stream>>

-----------------------------------------------------------------------------
(* The Core process.                                                       *)

CoreStops ==
    /\ up
    /\ up' = FALSE
    /\ proxy_queues' = {}
    /\ revert_timer' = NoTimer
    /\ udp' = FALSE
    /\ proxy_satellites' = {}
    /\ hpc' = [h \in Handlers |-> "idle"]
    /\ live' = [h \in Handlers |-> FALSE]
    /\ drain' = [h \in Handlers |-> "off"]
    /\ rpc' = [r \in Reverters |-> "idle"]
    /\ link' = [p \in Proxies |-> IF link[p] = "open" THEN "lost" ELSE link[p]]
    /\ stream' = [p \in Proxies |-> NoHandler]
    /\ UNCHANGED <<discovery, owner, acks, conn>>

\* udp_server.start() and publish_discovery() at startup.
CoreStarts ==
    /\ ~up
    /\ up' = TRUE
    /\ udp' = CorePortFree
    /\ discovery' = CoreAddr
    /\ UNCHANGED <<proxy_queues, revert_timer, proxy_satellites, hpc, live, owner,
                   drain, rpc, proxyVars>>

-----------------------------------------------------------------------------
HandlerStep(h) ==
    \/ DisableUdp(h) \/ SendAck(h) \/ AckUndeliverable(h)
    \/ DrainHeartbeat(h) \/ PublishProxyAddr(h)
    \/ StreamEnded(h) \/ Unregister(h) \/ CallCancelled(h)

RevertStep(r) ==
    \/ RevertFires(r) \/ RevertDecide(r) \/ RevertEnableUdp(r)
    \/ RevertDiscovery(r) \/ RevertSatellites(r)

Next ==
    \/ \E p \in Proxies, h \in Handlers : RegisterProxy(p, h)
    \/ \E h \in Handlers : HandlerStep(h)
    \/ \E r \in Reverters : RevertStep(r)
    \/ \E p \in Proxies : OpenFails(p) \/ StreamLost(p) \/ OnLost(p) \/ OnReady(p)
    \/ CoreStops \/ CoreStarts

\* Threads and timers of a running process get to run, the transport notices a
\* vanished peer, and the proxy retries every 5 s.  Nothing obliges a proxy to
\* connect, a stream to break, or the Core to stop or start.
Fairness ==
    /\ \A h \in Handlers : WF_vars(HandlerStep(h))
    /\ \A r \in Reverters : WF_vars(RevertStep(r))
    /\ \A p \in Proxies :
        /\ WF_vars(OnLost(p))
        /\ WF_vars(OnReady(p))
        /\ WF_vars(OpenFails(p) \/ \E h \in Handlers : RegisterProxy(p, h))

Spec == Init /\ [][Next]_vars /\ Fairness

-----------------------------------------------------------------------------
(* Properties.                                                             *)

\* A revert that can still be cancelled is pending only while no proxy stream
\* is registered: RegisterProxy cancels it (grpc_server.py:1303-1307) under the
\* lock under which the last stream armed it, whatever fired in between.
RevertOnlyWhenNoProxy == revert_timer # NoTimer => proxy_queues = {}

\* No handover is left half done: while no stream is registered, what the Core
\* has not taken back yet, some revert timer is still about to take back, even
\* when cancelled reverts, streams that end and a restart interleave
\* (grpc_server.py:1361-1378, 1418-1434).  A proxy on the Core's own host may
\* make the bind fail, which is not tried again.
RevertIsPending ==
    up /\ proxy_queues = {} =>
        /\ discovery # CoreAddr =>
             \E r \in Reverters : rpc[r] \in {"armed", "fired", "decided", "enabled"}
        /\ ~udp /\ SameHost = {} =>
             \E r \in Reverters : rpc[r] \in {"armed", "fired", "decided"}

\* What the handover keeps whatever streams, timers and crashes do: its types,
\* no pending revert beside a registered proxy, and none missing without one.
HandoverIsSound == TypeOK /\ RevertOnlyWhenNoProxy /\ RevertIsPending

\* The Core takes satellites back: with no stream registered, its UDP server
\* runs and its own address is announced eventually, unless a proxy registers
\* or the Core stops (grpc_server.py:1367-1372, 1418-1428).
UdpComesBack ==
    (up /\ proxy_queues = {})
        ~> (~up \/ proxy_queues # {} \/ (udp /\ discovery = CoreAddr))

\* A proxy that has lost the Core for good stops accepting satellites for good,
\* even when a late onReady goroutine binds the socket after onLost closed it:
\* the failing retries close it again (client.go:97-100, #140).
SocketClosedWhenLost ==
    \A p \in Proxies : <>[](link[p] # "open") => <>[](~conn[p])

\* Claimed at proxy/cmd/proxy/main.go:5: "While connected, Hannah Core disables
\* its own UDP server."  Handlers still on their way to stop it are excused.
DisabledWhileConnected ==
    (\E h \in Handlers : hpc[h] = "open" /\ live[h])
        /\ (\A h \in Handlers : hpc[h] # "disable")
        => ~udp

\* Claimed at proxy/internal/hannah/client.go:93-94: the ACK confirms that UDP
\* is disabled, "by then Hannah has freed the port."
AckAfterUdpStopped ==
    [][\A h \in Handlers : hpc[h] = "ack" /\ hpc'[h] = "open" => ~udp]_vars

\* Claimed at proxy/cmd/proxy/main.go:6: "If the proxy disconnects, Hannah Core
\* re-enables UDP automatically."
ReenabledAfterDisconnect ==
    (up /\ \A p \in Proxies : stream[p] = NoHandler)
        ~> (~up \/ udp \/ \E p \in Proxies : stream[p] # NoHandler)
=============================================================================
