-------------------------- MODULE ProxyLinkProofs --------------------------
(***************************************************************************)
(* Safety of the handover, for every number of proxies, of streams and of  *)
(* revert timers that overlap, and every set of proxies on the Core's host.*)
(***************************************************************************)
EXTENDS ProxyLink, TLAPS

-----------------------------------------------------------------------------
(* Type correctness: one lemma per side, then the theorem.                 *)

LEMMA HandlerType ==
    ASSUME TypeOK, NEW h \in Handlers, HandlerStep(h)
    PROVE  TypeOK'
<1> USE ProxyLinkAssumption
<1>1. CASE DisableUdp(h)
    BY <1>1 DEF DisableUdp, TypeOK, proxyVars
<1>2. CASE SendAck(h)
    <2>1. owner[h] \in Proxies /\ acks[owner[h]] \in 0..MaxAcks
        BY DEF TypeOK
    <2>2. acks' \in [Proxies -> 0..MaxAcks]
        BY <1>2, <2>1 DEF SendAck, TypeOK
    <2>3. QED BY <1>2, <2>2 DEF SendAck, TypeOK
<1>3. CASE AckUndeliverable(h)
    BY <1>3 DEF AckUndeliverable, TypeOK, proxyVars
<1>4. CASE DrainHeartbeat(h)
    BY <1>4 DEF DrainHeartbeat, TypeOK, proxyVars
<1>5. CASE PublishProxyAddr(h)
    BY <1>5 DEF PublishProxyAddr, TypeOK, proxyVars
<1>6. CASE StreamEnded(h)
    BY <1>6 DEF StreamEnded, TypeOK, proxyVars
<1>7. CASE Unregister(h)
    <2>1. rpc' \in [Reverters -> {"idle", "armed", "fired", "decided", "enabled", "published"}]
          /\ revert_timer' \in Reverters \cup {NoTimer}
        BY <1>7 DEF Unregister, ArmRevert, TypeOK
    <2>2. QED BY <1>7, <2>1 DEF Unregister, TypeOK, proxyVars
<1>8. CASE CallCancelled(h)
    BY <1>8 DEF CallCancelled, TypeOK, proxyVars
<1>9. QED BY <1>1, <1>2, <1>3, <1>4, <1>5, <1>6, <1>7, <1>8 DEF HandlerStep

LEMMA RevertType ==
    ASSUME TypeOK, NEW r \in Reverters, RevertStep(r)
    PROVE  TypeOK'
<1>1. CASE RevertFires(r)
    BY <1>1 DEF RevertFires, TypeOK, proxyVars
<1>2. CASE RevertDecide(r)
    BY <1>2 DEF RevertDecide, TypeOK, proxyVars
<1>3. CASE RevertEnableUdp(r)
    BY <1>3 DEF RevertEnableUdp, CorePortFree, TypeOK, proxyVars
<1>4. CASE RevertDiscovery(r)
    BY <1>4 DEF RevertDiscovery, TypeOK, proxyVars
<1>5. CASE RevertSatellites(r)
    BY <1>5 DEF RevertSatellites, TypeOK, proxyVars
<1>6. QED BY <1>1, <1>2, <1>3, <1>4, <1>5 DEF RevertStep

LEMMA ProxyType ==
    ASSUME TypeOK, NEW p \in Proxies, OpenFails(p) \/ StreamLost(p) \/ OnLost(p) \/ OnReady(p)
    PROVE  TypeOK'
<1> USE ProxyLinkAssumption
<1>1. CASE OpenFails(p)
    BY <1>1 DEF OpenFails, TypeOK, coreVars
<1>2. CASE StreamLost(p)
    BY <1>2 DEF StreamLost, TypeOK, coreVars
<1>3. CASE OnLost(p)
    BY <1>3 DEF OnLost, TypeOK, coreVars
<1>4. CASE OnReady(p)
    <2>1. acks' \in [Proxies -> 0..MaxAcks]
        BY <1>4 DEF OnReady, TakeAck, TypeOK
    <2>2. conn' \in [Proxies -> BOOLEAN]
        BY <1>4 DEF OnReady, TypeOK
    <2>3. QED BY <1>4, <2>1, <2>2 DEF OnReady, TypeOK
<1>5. QED BY <1>1, <1>2, <1>3, <1>4

LEMMA RegisterType ==
    ASSUME TypeOK, NEW p \in Proxies, NEW h \in Handlers, RegisterProxy(p, h)
    PROVE  TypeOK'
<1>1. rpc' \in [Reverters -> {"idle", "armed", "fired", "decided", "enabled", "published"}]
      /\ revert_timer' \in Reverters \cup {NoTimer}
    BY DEF RegisterProxy, CancelRevert, TypeOK
<1>2. QED BY <1>1 DEF RegisterProxy, TypeOK

\* Every reachable state of the handover is well typed; in particular there
\* are never more onReady goroutines than MaxAcks (grpc_server.py:1292-1434,
\* client.go:103-209).
THEOREM TypeCorrect == Spec => []TypeOK
<1>1. Init => TypeOK
    BY ProxyLinkAssumption DEF Init, TypeOK
<1>2. TypeOK /\ [Next]_vars => TypeOK'
    <2> SUFFICES ASSUME TypeOK, [Next]_vars PROVE TypeOK'
        OBVIOUS
    <2>1. CASE CoreStops
        BY <2>1 DEF CoreStops, TypeOK
    <2>2. CASE CoreStarts
        BY <2>2 DEF CoreStarts, CorePortFree, TypeOK, proxyVars
    <2>3. CASE UNCHANGED vars
        BY <2>3 DEF vars, coreVars, proxyVars, TypeOK
    <2>4. QED BY <2>1, <2>2, <2>3, HandlerType, RevertType, ProxyType, RegisterType DEF Next
<1>3. QED BY <1>1, <1>2, PTL DEF Spec

-----------------------------------------------------------------------------
(* No pending revert while a proxy is registered.                          *)

\* However registrations, disconnects, timers and restarts interleave, a
\* revert timer that is still stored in _proxy_revert_timer finds no proxy
\* registered: _revert_proxy_state's own check and RegisterProxy's cancel run
\* under the same lock as the arming (grpc_server.py:1299-1307, 1361-1378).
\* The invariant is inductive by itself: Unregister can only leave a timer
\* next to a queue if there was one before, and registering clears it.
THEOREM NoRevertWhileRegistered == Spec => []RevertOnlyWhenNoProxy
<1>1. Init => RevertOnlyWhenNoProxy
    BY DEF Init, RevertOnlyWhenNoProxy
<1>2. RevertOnlyWhenNoProxy /\ [Next]_vars => RevertOnlyWhenNoProxy'
    <2> SUFFICES ASSUME RevertOnlyWhenNoProxy, [Next]_vars PROVE RevertOnlyWhenNoProxy'
        OBVIOUS
    <2> USE DEF RevertOnlyWhenNoProxy
    <2>1. ASSUME NEW p \in Proxies, NEW h \in Handlers, RegisterProxy(p, h)
          PROVE  RevertOnlyWhenNoProxy'
        BY <2>1 DEF RegisterProxy, CancelRevert
    <2>2. ASSUME NEW h \in Handlers, Unregister(h) PROVE RevertOnlyWhenNoProxy'
        <3>1. CASE proxy_queues \ {h} = {}
            BY <2>2, <3>1 DEF Unregister
        <3>2. CASE proxy_queues \ {h} # {}
            BY <2>2, <3>2 DEF Unregister, ArmRevert
        <3>3. QED BY <3>1, <3>2
    <2>3. ASSUME NEW h \in Handlers, HandlerStep(h), ~Unregister(h)
          PROVE  RevertOnlyWhenNoProxy'
        BY <2>3 DEF HandlerStep, DisableUdp, SendAck, AckUndeliverable, DrainHeartbeat,
                    PublishProxyAddr, StreamEnded, CallCancelled
    <2>4. ASSUME NEW r \in Reverters, RevertStep(r) PROVE RevertOnlyWhenNoProxy'
        BY <2>4 DEF RevertStep, RevertFires, RevertDecide, RevertEnableUdp,
                    RevertDiscovery, RevertSatellites
    <2>5. ASSUME NEW p \in Proxies, OpenFails(p) \/ StreamLost(p) \/ OnLost(p) \/ OnReady(p)
          PROVE  RevertOnlyWhenNoProxy'
        BY <2>5 DEF OpenFails, StreamLost, OnLost, OnReady, coreVars
    <2>6. CASE CoreStops
        BY <2>6 DEF CoreStops
    <2>7. CASE CoreStarts
        BY <2>7 DEF CoreStarts
    <2>8. CASE UNCHANGED vars
        BY <2>8 DEF vars, coreVars
    <2>9. QED BY <2>1, <2>2, <2>3, <2>4, <2>5, <2>6, <2>7, <2>8 DEF Next
<1>3. QED BY <1>1, <1>2, PTL DEF Spec
-----------------------------------------------------------------------------
(* The Core's side of the handover is never left half done.                *)

\* What a handler or its drain thread still has to do, it does with its queue
\* registered; but a publication that outlasts the handler does so before the
\* grace period is over.
ActiveIsRegistered ==
    /\ \A h \in Handlers : hpc[h] # "idle" \/ drain[h] \in {"reading", "published"} => h \in proxy_queues
    /\ \A h \in Handlers : drain[h] = "publishing" /\ proxy_queues = {} => \E r \in Reverters : rpc[r] = "armed"

IInv == TypeOK /\ ActiveIsRegistered /\ RevertIsPending

LEMMA ActiveStep ==
    ASSUME TypeOK, ActiveIsRegistered, [Next]_vars
    PROVE  ActiveIsRegistered'
<1> USE DEF ActiveIsRegistered
<1>1. ASSUME NEW p \in Proxies, NEW h \in Handlers, RegisterProxy(p, h)
      PROVE  ActiveIsRegistered'
    BY <1>1 DEF RegisterProxy, TypeOK
<1>2. ASSUME NEW h \in Handlers, HandlerStep(h)
      PROVE  ActiveIsRegistered'
    <2>1. CASE Unregister(h)
        <3>1. /\ hpc'[h] = "idle" /\ drain'[h] \in {"publishing", "off"}
              /\ \A g \in Handlers : g # h => hpc'[g] = hpc[g] /\ drain'[g] = drain[g]
              /\ proxy_queues' = proxy_queues \ {h}
            BY <2>1 DEF Unregister, TypeOK
        <3>2. \A g \in Handlers : hpc'[g] # "idle" \/ drain'[g] \in {"reading", "published"} => g \in proxy_queues'
            BY <3>1
        <3>3. proxy_queues' = {} => \E r \in Reverters : rpc'[r] = "armed"
            BY <2>1 DEF Unregister, ArmRevert, TypeOK
        <3>4. QED BY <3>2, <3>3
    <2>2. CASE SendAck(h)
        BY <2>2 DEF SendAck, TypeOK
    <2>3. CASE DisableUdp(h) \/ AckUndeliverable(h) \/ StreamEnded(h) \/ CallCancelled(h)
        BY <2>3 DEF DisableUdp, AckUndeliverable, StreamEnded, CallCancelled, TypeOK
    <2>4. CASE DrainHeartbeat(h) \/ PublishProxyAddr(h)
        BY <2>4 DEF DrainHeartbeat, PublishProxyAddr, TypeOK
    <2>5. QED BY <1>2, <2>1, <2>2, <2>3, <2>4 DEF HandlerStep
<1>3. ASSUME NEW r \in Reverters, RevertStep(r)
      PROVE  ActiveIsRegistered'
    <2>1. CASE RevertFires(r)
        BY <2>1 DEF RevertFires, PublishedInTime
    <2>2. ASSUME ~RevertFires(r), NEW q \in Reverters, rpc[q] = "armed" PROVE rpc'[q] = "armed"
        BY <1>3, <2>2 DEF RevertStep, RevertDecide, RevertEnableUdp, RevertDiscovery, RevertSatellites, TypeOK
    <2>3. CASE ~RevertFires(r)
        BY <1>3, <2>2, <2>3 DEF RevertStep, RevertDecide, RevertEnableUdp, RevertDiscovery, RevertSatellites
    <2>4. QED BY <2>1, <2>3
<1>4. ASSUME NEW p \in Proxies, OpenFails(p) \/ StreamLost(p) \/ OnLost(p) \/ OnReady(p)
      PROVE  ActiveIsRegistered'
    BY <1>4 DEF OpenFails, StreamLost, OnLost, OnReady, coreVars
<1>5. CASE CoreStops
    BY <1>5 DEF CoreStops
<1>6. CASE CoreStarts
    BY <1>6 DEF CoreStarts
<1>7. CASE UNCHANGED vars
    BY <1>7 DEF vars, coreVars
<1>8. QED BY <1>1, <1>2, <1>3, <1>4, <1>5, <1>6, <1>7 DEF Next

LEMMA PendingHandlerStep ==
    ASSUME IInv, NEW h \in Handlers, HandlerStep(h)
    PROVE  RevertIsPending'
<1> USE DEF IInv, RevertIsPending
<1>1. CASE Unregister(h)
    <2>1. CASE proxy_queues \ {h} = {}
        BY <1>1, <2>1 DEF Unregister, ArmRevert, TypeOK
    <2>2. CASE proxy_queues \ {h} # {}
        BY <1>1, <2>2 DEF Unregister
    <2>3. QED BY <2>1, <2>2
<1>2. CASE DisableUdp(h) \/ PublishProxyAddr(h)
    BY <1>2 DEF DisableUdp, PublishProxyAddr, ActiveIsRegistered
<1>3. CASE SendAck(h) \/ AckUndeliverable(h) \/ DrainHeartbeat(h)
    BY <1>3 DEF SendAck, AckUndeliverable, DrainHeartbeat
<1>4. CASE StreamEnded(h) \/ CallCancelled(h)
    BY <1>4 DEF StreamEnded, CallCancelled
<1>5. QED BY <1>1, <1>2, <1>3, <1>4 DEF HandlerStep

LEMMA PendingRevertStep ==
    ASSUME IInv, NEW r \in Reverters, RevertStep(r)
    PROVE  RevertIsPending'
<1> USE DEF IInv, RevertIsPending, TypeOK
<1>1. CASE RevertFires(r)
    BY <1>1 DEF RevertFires
<1>2. CASE RevertDecide(r)
    BY <1>2 DEF RevertDecide
<1>3. CASE RevertEnableUdp(r)
    BY <1>3 DEF RevertEnableUdp, CorePortFree
<1>4. CASE RevertDiscovery(r)
    BY <1>4 DEF RevertDiscovery
<1>5. CASE RevertSatellites(r)
    BY <1>5 DEF RevertSatellites
<1>6. QED BY <1>1, <1>2, <1>3, <1>4, <1>5 DEF RevertStep

\* No interleaving of proxies, streams, timers and restarts leaves the Core
\* without its UDP server or with a dead proxy's address announced, unless a
\* stream is registered or a revert is under way, as long as no publication takes
\* longer than the grace period (PublishedInTime).  RevertIsPending is not
\* inductive alone: a handler that is still to stop UDP, or a drain thread that
\* is still to publish, must be known to have its queue registered, or the grace
\* period running, which is
\* what ActiveIsRegistered adds.
THEOREM NeverHalfHandedOver == Spec => []RevertIsPending
<1>1. Init => ActiveIsRegistered /\ RevertIsPending
    BY DEF Init, ActiveIsRegistered, RevertIsPending
<1>2. IInv /\ [Next]_vars => RevertIsPending'
    <2> SUFFICES ASSUME IInv, [Next]_vars PROVE RevertIsPending'
        OBVIOUS
    <2>1. ASSUME NEW p \in Proxies, NEW h \in Handlers, RegisterProxy(p, h)
          PROVE  RevertIsPending'
        BY <2>1 DEF RegisterProxy, RevertIsPending
    <2>2. ASSUME NEW p \in Proxies, OpenFails(p) \/ StreamLost(p) \/ OnLost(p) \/ OnReady(p)
          PROVE  RevertIsPending'
        BY <2>2 DEF OpenFails, StreamLost, OnLost, OnReady, coreVars, IInv, RevertIsPending
    <2>3. CASE CoreStops
        BY <2>3 DEF CoreStops, RevertIsPending
    <2>4. CASE CoreStarts
        BY <2>4 DEF CoreStarts, CorePortFree, RevertIsPending
    <2>5. CASE UNCHANGED vars
        BY <2>5 DEF vars, coreVars, IInv, RevertIsPending
    <2>6. QED BY <2>1, <2>2, <2>3, <2>4, <2>5, PendingHandlerStep, PendingRevertStep DEF Next
<1>3. TypeOK /\ ActiveIsRegistered /\ [Next]_vars => ActiveIsRegistered'
    BY ActiveStep
<1>4. TypeOK /\ ActiveIsRegistered /\ RevertIsPending /\ [Next]_vars => RevertIsPending'
    BY <1>2 DEF IInv
<1>5. QED BY <1>1, <1>3, <1>4, TypeCorrect, PTL DEF Spec

\* The whole of what the run of the handover checks in a state, for any number
\* of proxies, streams and timers (grpc_server.py:1292-1434).
THEOREM HandoverStaysSound == Spec => []HandoverIsSound
BY TypeCorrect, NoRevertWhileRegistered, NeverHalfHandedOver, PTL DEF HandoverIsSound
=============================================================================
