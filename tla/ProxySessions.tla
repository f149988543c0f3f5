--------------------------- MODULE ProxySessions ---------------------------
(***************************************************************************)
(* The satellite-facing UDP server of the proxy                            *)
(* (proxy/internal/udp/server.go): one receive loop, a worker with a queue *)
(* of its own for each device, a goroutine for every packet that belongs   *)
(* to no known device, and the watchdog.                                   *)
(*                                                                         *)
(* Packets are lost and doubled at will before they arrive: any packet may *)
(* arrive at any time.  They are numbered in the order of their arrival.   *)
(***************************************************************************)
EXTENDS Naturals, Sequences, FiniteSets

CONSTANTS
    Devices,
    Addrs, From, Ip,   \* the addresses a device sends from, and the IP of each
    NoAddr, NoPacket,
    QueueCapacity,     \* workerQueueCapacity (64)
    MaxPackets         \* packets that arrive (bound)

ProxySessionsAssumption ==
    /\ From \in [Devices -> SUBSET Addrs]
    /\ DOMAIN Ip = Addrs
    /\ NoAddr \notin Addrs
    /\ QueueCapacity \in Nat \ {0}
    /\ MaxPackets \in Nat

Types == {"register", "heartbeat", "audio", "audio_end"}
Packet == [type: Types, from: Devices, addr: Addrs, n: 1..MaxPackets, queued: BOOLEAN]
NoPacketAssumption == NoPacket \notin Packet

VARIABLES
    bound,        \* conn # nil: the receive loop and the watchdog run
    arrived,      \* packets so far
    hand,         \* the packet the loop is about to queue, with its device
    queue,        \* workers: the queue of each device
    goroutines,   \* packets that are handled in a goroutine of their own
    satellites,   \* the address of each registered device
    sessions,     \* the audio packets of each device's session
    registered,   \* the number of each device's latest handled registration
    complete      \* the recordings handed to onAudio

vars == <<bound, arrived, hand, queue, goroutines, satellites, sessions,
          registered, complete>>

NoHand == [packet |-> NoPacket]
TypeOK ==
    /\ bound \in BOOLEAN
    /\ arrived \in 0..MaxPackets
    /\ hand = NoHand \/ hand \in [packet: Packet, device: Devices]
    /\ \A d \in Devices :
        /\ queue[d] \in Seq(Packet) /\ Len(queue[d]) <= QueueCapacity
        /\ sessions[d] \in Seq(Packet)
        /\ registered[d] \in 0..arrived
    /\ goroutines \subseteq Packet
    /\ satellites \in [Devices -> Addrs \cup {NoAddr}]
    /\ \A r \in complete :
        r.device \in Devices /\ r.chunks \in Seq(Packet) /\ r.end \in 1..arrived

Init ==
    /\ bound = TRUE
    /\ arrived = 0
    /\ hand = NoHand
    /\ queue = [d \in Devices |-> <<>>]
    /\ goroutines = {}
    /\ satellites = [d \in Devices |-> NoAddr]
    /\ sessions = [d \in Devices |-> <<>>]
    /\ registered = [d \in Devices |-> 0]
    /\ complete = {}

-----------------------------------------------------------------------------
(* The receive loop.                                                       *)

\* findDeviceByAddr: the device registered at this very address, or the only
\* one at its IP.
AtAddr(a) == {d \in Devices : satellites[d] = a}
AtIp(a) == {d \in Devices : satellites[d] # NoAddr /\ Ip[satellites[d]] = Ip[a]}
FindDeviceByAddr(a) ==
    IF AtAddr(a) # {} THEN AtAddr(a)
    ELSE IF Cardinality(AtIp(a)) = 1 THEN AtIp(a) ELSE {}

\* routingDevice: control packets name their device.
RoutingDevice(p) == IF p.type = "audio" THEN FindDeviceByAddr(p.addr) ELSE {p.from}

Receive(type, d, a) ==
    LET p == [type |-> type, from |-> d, addr |-> a, n |-> arrived + 1, queued |-> TRUE] IN
    /\ bound /\ hand = NoHand
    /\ arrived < MaxPackets
    /\ arrived' = arrived + 1
    /\ IF RoutingDevice(p) = {}
         THEN /\ goroutines' = goroutines \cup {[p EXCEPT !.queued = FALSE]}
              /\ UNCHANGED hand
         ELSE /\ \E device \in RoutingDevice(p) : hand' = [packet |-> p, device |-> device]
              /\ UNCHANGED goroutines
    /\ UNCHANGED <<bound, queue, satellites, sessions, registered, complete>>

\* Fault: the queue is taken to be unbounded.
NeverFull(d) == TRUE
HasRoom(d) == Len(queue[d]) < QueueCapacity

\* The send to the worker's channel, which waits while the queue is full.
Enqueue ==
    /\ hand # NoHand
    /\ HasRoom(hand.device)
    /\ queue' = [queue EXCEPT ![hand.device] = Append(@, hand.packet)]
    /\ hand' = NoHand
    /\ UNCHANGED <<bound, arrived, goroutines, satellites, sessions, registered, complete>>

-----------------------------------------------------------------------------
(* handle, by the type of the packet.                                      *)

\* Fault: a session survives the restart of its satellite.
KeepOrphan(d) == sessions
\* A new registration drops a session that was never ended.
WithoutOrphan(d) == [sessions EXCEPT ![d] = <<>>]

HandleRegister(p) ==
    /\ satellites' = [satellites EXCEPT ![p.from] = p.addr]
    /\ sessions' = WithoutOrphan(p.from)
    /\ registered' = [registered EXCEPT ![p.from] = p.n]
    /\ UNCHANGED complete

HandleHeartbeat(p) ==
    /\ satellites' = IF satellites[p.from] = NoAddr THEN satellites
                     ELSE [satellites EXCEPT ![p.from] = p.addr]
    /\ UNCHANGED <<sessions, registered, complete>>

\* Fault: the session stays where it is when it is handed over.
StillOpen(d) == sessions
Closed(d) == [sessions EXCEPT ![d] = <<>>]

HandleAudioEnd(p) ==
    /\ IF sessions[p.from] = <<>> THEN UNCHANGED <<sessions, complete>>
       ELSE /\ complete' = complete \cup
                  {[device |-> p.from, chunks |-> sessions[p.from], end |-> p.n]}
            /\ sessions' = Closed(p.from)
    /\ UNCHANGED <<satellites, registered>>

\* The device is looked up once more; audio of no device is dropped.
HandleAudio(p) ==
    /\ IF FindDeviceByAddr(p.addr) = {} THEN UNCHANGED sessions
       ELSE \E d \in FindDeviceByAddr(p.addr) : sessions' = [sessions EXCEPT ![d] = Append(@, p)]
    /\ UNCHANGED <<satellites, registered, complete>>

Handle(p) ==
    \/ p.type = "register" /\ HandleRegister(p)
    \/ p.type = "heartbeat" /\ HandleHeartbeat(p)
    \/ p.type = "audio" /\ HandleAudio(p)
    \/ p.type = "audio_end" /\ HandleAudioEnd(p)

\* Fault: every packet in a goroutine of its own, as before.
InAnyOrder(d) == 1..Len(queue[d])
InOrder(d) == {1} \cap DOMAIN queue[d]

Taken(d, i) ==
    [queue EXCEPT ![d] = SubSeq(@, 1, i - 1) \o SubSeq(@, i + 1, Len(@))]
\* Fault: what an unregistered satellite sends waits for its registration.
KeptTillRegistered(d, i) == IF satellites[d] = NoAddr THEN queue ELSE Taken(d, i)
Removed(d, i) == Taken(d, i)

\* runWorker
Work(d) ==
    \E i \in InOrder(d) :
        /\ Handle(queue[d][i])
        /\ queue' = Removed(d, i)
        /\ UNCHANGED <<bound, arrived, hand, goroutines>>

\* go s.handle(pkt, addr)
RunGoroutine(p) ==
    /\ p \in goroutines
    /\ Handle(p)
    /\ goroutines' = goroutines \ {p}
    /\ UNCHANGED <<bound, arrived, hand, queue>>

-----------------------------------------------------------------------------
\* checkTimeouts: the watchdog drops silent satellites, not their sessions.
CheckTimeouts(d) ==
    /\ bound
    /\ satellites[d] # NoAddr
    /\ satellites' = [satellites EXCEPT ![d] = NoAddr]
    /\ UNCHANGED <<bound, arrived, hand, queue, goroutines, sessions, registered, complete>>

\* The stream to the Core is lost.
Close ==
    /\ bound
    /\ bound' = FALSE
    /\ UNCHANGED <<arrived, hand, queue, goroutines, satellites, sessions, registered, complete>>

\* It comes back 5 s later at the earliest (client.go:126): the loop of the
\* closed socket has long delivered its last packet and returned.
Start ==
    /\ ~bound /\ hand = NoHand
    /\ bound' = TRUE
    /\ UNCHANGED <<arrived, hand, queue, goroutines, satellites, sessions, registered, complete>>

Next ==
    \/ \E type \in Types, d \in Devices : \E a \in From[d] : Receive(type, d, a)
    \/ Enqueue
    \/ \E d \in Devices : Work(d) \/ CheckTimeouts(d)
    \/ \E p \in goroutines : RunGoroutine(p)
    \/ Close \/ Start

\* The loop, the workers and the goroutines run; nothing obliges a packet to
\* arrive, a satellite to fall silent or the Core to come or go.
Fairness ==
    /\ WF_vars(Enqueue)
    /\ \A d \in Devices : WF_vars(Work(d))

Spec == Init /\ [][Next]_vars /\ Fairness

-----------------------------------------------------------------------------
(* Properties.                                                             *)

Recordings(d) == {r \in complete : r.device = d}
Chunks(s) == {s[i] : i \in DOMAIN s}
\* Of the chunks that were routed to a worker: their order, and where they all stand.
Increasing(s) == \A i, j \in DOMAIN s : i < j /\ s[i].queued /\ s[j].queued => s[i].n < s[j].n
After(n, s) == \A p \in Chunks(s) : p.queued => p.n > n
Before(n, s) == \A p \in Chunks(s) : p.queued => p.n < n

\* "audio chunks must not be reordered, and audio_end must never race ahead of
\* the last audio chunk it follows" (server.go:299-301), for the chunks that
\* were routed to a worker: a recording has those of before its audio_end in
\* the order of their arrival, and the next one begins after it.
WorkersKeepOrder ==
    \A d \in Devices :
        /\ Increasing(sessions[d])
        /\ \A r \in Recordings(d) :
            /\ Increasing(r.chunks) /\ Before(r.end, r.chunks) /\ After(r.end, sessions[d])
            /\ \A s \in Recordings(d) : r.end < s.end => After(r.end, s.chunks)

\* No chunk gets into two recordings, and none that was handed over is kept,
\* whatever repeats of audio_end and registrations arrive.
HandedOverOnce ==
    \A d, e \in Devices : \A r \in Recordings(d) :
        /\ Chunks(r.chunks) \cap Chunks(sessions[e]) = {}
        /\ \A s \in Recordings(e) \ {r} : Chunks(r.chunks) \cap Chunks(s.chunks) = {}

\* A satellite that restarts while it records leaves nothing behind that would
\* open its next recording (server.go:394).
NoOrphans == \A d \in Devices : After(registered[d], sessions[d])

\* So a recording is what the satellite said, once and in its order.
RecordingsAreSound == WorkersKeepOrder /\ HandedOverOnce /\ NoOrphans

\* Whatever is queued is worked off and the loop goes on reading, even when
\* the satellite is dropped or the socket closed meanwhile.
QueuesDrain ==
    /\ []<>(hand = NoHand)
    /\ \A d \in Devices : []<>(queue[d] = <<>>)

\* Claimed at proxy/internal/udp/server.go:298-299: "packets from the same
\* satellite are always handled in arrival order".
ArrivalOrder ==
    \A d \in Devices : \A i, j \in DOMAIN sessions[d] : i < j => sessions[d][i].n < sessions[d][j].n
=============================================================================
