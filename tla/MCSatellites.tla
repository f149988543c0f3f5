---------------------------- MODULE MCSatellites ----------------------------
(* One run for the satellites behind a proxy (part): who is listed where,   *)
(* the packets at the proxy's socket, and what it plays.                    *)
EXTENDS Naturals, Sequences, SequenceTheorems, TLAPS
CONSTANTS Listed, Threads, MaxCalls, Devices, Roaming, NoAddr, NoPacket, QueueCapacity, MaxPackets,
          Capacity, SendFails, MaxStreams, MaxChunks, MaxTalks, Parts
VARIABLES part,
          bound, sat, regs, going, ready, renotify, connected, enabled, direct, listed, reverting, thread,
          known, online,
          socket, arrived, hand, queue, goroutines, satellites, sessions, registered, complete,
          now, phase, broken, wire, recv, table, chan, closed, worker, panicked, answer, status, pushed,
          sent, talks

M == INSTANCE SatelliteMap WITH Devices <- Listed, Roomed <- Listed
\* A satellite has an IP of its own; one that roams sends from two of its ports.
Ports(d) == IF d \in Roaming THEN {1, 2} ELSE {1}
Addrs == UNION {{<<d, port>> : port \in Ports(d)} : d \in Devices}
From == [d \in Devices |-> {a \in Addrs : a[1] = d}]
Ip == [a \in Addrs |-> a[1]]
S == INSTANCE ProxySessions WITH bound <- socket
D == INSTANCE PlayDispatch WITH played <- sent
ASSUME ConstantsOK ==
    M!SatelliteMapAssumption /\ S!ProxySessionsAssumption /\ S!NoPacketAssumption /\ D!PlayDispatchAssumption

map == <<bound, sat, regs, going, ready, renotify, connected, enabled, direct, listed, reverting, thread,
         known, online>>
packets == <<socket, arrived, hand, queue, goroutines, satellites, sessions, registered, complete>>
plays == <<now, phase, broken, wire, recv, table, chan, closed, worker, panicked, answer, status, pushed,
           sent, talks>>
vars == <<part, map, packets, plays>>
Map(A) == part = "map" /\ A /\ UNCHANGED <<part, packets, plays>>
Packets(A) == part = "packets" /\ A /\ UNCHANGED <<part, map, plays>>
Plays(A) == part = "plays" /\ A /\ UNCHANGED <<part, map, packets>>
Init == part \in Parts /\ M!Init /\ S!Init /\ D!Init
Next == Map(M!Next) \/ Packets(S!Next) \/ Plays(D!Next)
Fairness ==
    /\ \A d \in Listed : WF_vars(Map(M!RegisteredCall(d))) /\ WF_vars(Map(M!RenotifyCall(d)))
                         /\ WF_vars(Map(M!GoneCall(d)))
    /\ \A t \in Threads : WF_vars(Map(M!ThreadStep(t)))
    /\ WF_vars(Map(M!OnReady)) /\ WF_vars(Map(M!RevertSatellites)) /\ WF_vars(Map(M!PushSatelliteStates))
    /\ WF_vars(Packets(S!Enqueue)) /\ \A d \in Devices : WF_vars(Packets(S!Work(d)))
    /\ WF_vars(Plays(D!RunProxy)) /\ \A s \in D!Streams : WF_vars(Plays(D!Receiver(s)))
    /\ \A c \in D!Channels : WF_vars(Plays(D!Worker(c)))
Spec == Init /\ [][Next]_vars /\ Fairness

\* The modules of the parts state these properties.
\* Proxy, Core and adapter come to agree about who is there.
MapsSettle == M!MapsSettle
\* A recording is what the satellite said, once and in its order; so is what
\* the proxy plays what the Core announced.
RecordingsAreSound == S!RecordingsAreSound /\ D!SpeechIsInOrder
\* Whatever is queued is worked off: the receive loop goes on, and a lost
\* stream is followed by another.
QueuesDrain == S!QueuesDrain /\ D!PlaysOut
\* Claimed at dispatcher.go:68-70: the proxy stops a stream's workers and reconnects.
StreamComesBack == D!StreamComesBack

-----------------------------------------------------------------------------
(* What the run checks on a few packets is proved here for every number of  *)
(* devices, ports and packets.                                              *)

\* A step of the run is a step of the proxy's UDP server or none.
LEMMA PacketStep == [Next]_vars => [S!Next]_(S!vars)
BY DEF Next, vars, Map, Packets, Plays, packets, S!vars

\* A packet comes from an address of the device it names.
Genuine == {p \in S!Packet : p.addr \in From[p.from]}

SessionType ==
    /\ arrived \in Nat
    /\ hand = S!NoHand \/ hand \in [packet : Genuine, device : Devices]
    /\ queue \in [Devices -> Seq(Genuine)] /\ sessions \in [Devices -> Seq(Genuine)]
    /\ registered \in [Devices -> Nat]
    /\ satellites \in [Devices -> Addrs \cup {NoAddr}]
    /\ \A d \in Devices : satellites[d] # NoAddr => satellites[d] \in From[d]
    /\ \A r \in complete : r.device \in Devices /\ r.chunks \in Seq(Genuine) /\ r.end \in Nat
    /\ \A p \in goroutines : p \in Genuine /\ p.type = "audio" /\ ~p.queued /\ p.n <= arrived

\* What is on its way to a device's worker, the audio packets that were
\* handled, and the numbers of the control packets that were.
Due(d) == S!Chunks(queue[d]) \cup {p \in Genuine : hand = [packet |-> p, device |-> d]}
Kept(d) == S!Chunks(sessions[d]) \cup UNION {S!Chunks(r.chunks) : r \in S!Recordings(d)}
Marks(d) == {registered[d]} \cup {r.end : r \in S!Recordings(d)}

DueInv ==
    \A d \in Devices :
        /\ \A p \in Due(d) : p.from = d /\ p.queued /\ p.n <= arrived
        /\ \A i, j \in 1..Len(queue[d]) : i < j => queue[d][i].n < queue[d][j].n
        /\ \A p \in Genuine : hand = [packet |-> p, device |-> d] => \A q \in S!Chunks(queue[d]) : q.n < p.n

\* Whatever was handled is none of what will be, and older than what a worker
\* has still to handle.
PastInv ==
    \A d \in Devices :
        /\ \A p \in Kept(d) : /\ p \in Genuine /\ p.from = d /\ p.n <= arrived /\ p \notin goroutines
                              /\ p.queued => \A q \in Due(d) : p.n < q.n
        /\ \A n \in Marks(d) : n \in Nat /\ n <= arrived /\ \A q \in Due(d) : n < q.n

SessionInv == SessionType /\ DueInv /\ PastInv /\ S!RecordingsAreSound

\* A packet that is about to be handled.
Fresh(p) ==
    /\ p \in Genuine /\ p \notin Kept(p.from)
    /\ p.queued => /\ \A q \in Kept(p.from) : q.queued => q.n < p.n
                   /\ \A n \in Marks(p.from) : n < p.n
    /\ p.type = "audio" \/ p.queued

\* Fields of a packet.
LEMMA PacketFields ==
    ASSUME NEW p \in Genuine
    PROVE  /\ p.type \in S!Types /\ p.from \in Devices /\ p.addr \in Addrs /\ p.addr \in From[p.from]
           /\ p.n \in Nat /\ p.queued \in BOOLEAN /\ p \in S!Packet
BY DEF Genuine, S!Packet

\* A satellite's address leads to nobody else (findDeviceByAddr): no two
\* satellites share an IP here.
LEMMA FoundIsSender ==
    ASSUME SessionType, NEW d \in Devices, NEW a \in From[d] PROVE S!FindDeviceByAddr(a) \subseteq {d}
<1>1. \A e \in Devices : \A b \in From[e] : b \in Addrs /\ Ip[b] = e
    BY DEF From, Ip
<1>2. NoAddr \notin Addrs
    BY ConstantsOK DEF S!ProxySessionsAssumption
<1>3. \A e \in Devices : satellites[e] # NoAddr => Ip[satellites[e]] = e
    BY <1>1 DEF SessionType
<1>4. S!AtIp(a) \subseteq {d}
    BY <1>1, <1>3 DEF S!AtIp
<1>5. S!AtAddr(a) \subseteq {d}
    BY <1>1, <1>2, <1>3 DEF S!AtAddr
<1>6. QED
    BY <1>4, <1>5 DEF S!FindDeviceByAddr

\* A chunk that is appended joins the others.
LEMMA ChunkAppended ==
    ASSUME NEW s \in Seq(Genuine), NEW p \in Genuine
    PROVE  /\ Append(s, p) \in Seq(Genuine) /\ S!Chunks(Append(s, p)) = S!Chunks(s) \cup {p}
           /\ Len(Append(s, p)) = Len(s) + 1 /\ Len(s) \in Nat /\ DOMAIN s = 1..Len(s)
           /\ \A i \in 1..Len(s) : Append(s, p)[i] = s[i]
           /\ Append(s, p)[Len(s) + 1] = p
<1>1. /\ Append(s, p) \in Seq(Genuine) /\ Len(Append(s, p)) = Len(s) + 1 /\ Len(s) \in Nat
      /\ \A i \in 1..Len(s) : Append(s, p)[i] = s[i]
      /\ Append(s, p)[Len(s) + 1] = p
    BY AppendProperties
<1>2. DOMAIN s = 1..Len(s) /\ DOMAIN Append(s, p) = 1..(Len(s) + 1)
    BY <1>1, LenProperties
<1> DEFINE t == Append(s, p)
<1> HIDE DEF t
<1>3. S!Chunks(t) = S!Chunks(s) \cup {p}
    BY <1>1, <1>2 DEF S!Chunks, t
<1>4. QED
    BY <1>1, <1>2, <1>3 DEF t

\* A packet is handled: what is kept and marked grows by it at most.
LEMMA HandledIsKept ==
    ASSUME SessionType, NEW p \in Genuine, S!Handle(p), NEW d \in Devices
    PROVE  /\ Kept(d)' \subseteq Kept(d) \cup (IF d = p.from THEN {p} ELSE {})
           /\ Marks(d)' \subseteq Marks(d) \cup (IF d = p.from THEN {p.n} ELSE {})
<1>1. p.from \in Devices /\ p.addr \in From[p.from] /\ p.type \in S!Types
    BY PacketFields
<1>2. sessions \in [Devices -> Seq(Genuine)] /\ registered \in [Devices -> Nat]
    BY DEF SessionType
<1>3. S!Chunks(<<>>) = {}
    BY DEF S!Chunks
<1>4. CASE p.type = "register" /\ S!HandleRegister(p)
    <2>1. /\ sessions' = [sessions EXCEPT ![p.from] = <<>>] /\ complete' = complete
          /\ registered' = [registered EXCEPT ![p.from] = p.n]
        BY <1>4 DEF S!HandleRegister, S!WithoutOrphan
    <2>2. QED
        BY <1>1, <1>2, <1>3, <2>1 DEF Kept, Marks, S!Recordings
<1>5. CASE p.type = "heartbeat" /\ S!HandleHeartbeat(p)
    BY <1>5 DEF S!HandleHeartbeat, Kept, Marks, S!Recordings
<1>6. CASE p.type = "audio" /\ S!HandleAudio(p)
    <2>1. registered' = registered /\ complete' = complete
        BY <1>6 DEF S!HandleAudio
    <2>2. sessions' = sessions \/ sessions' = [sessions EXCEPT ![p.from] = Append(@, p)]
        BY <1>1, <1>6, FoundIsSender DEF S!HandleAudio
    <2>3. S!Chunks(Append(sessions[p.from], p)) = S!Chunks(sessions[p.from]) \cup {p}
        BY <1>1, <1>2, ChunkAppended
    <2>4. S!Chunks(sessions'[d]) \subseteq S!Chunks(sessions[d]) \cup (IF d = p.from THEN {p} ELSE {})
        BY <1>1, <1>2, <2>2, <2>3
    <2>5. QED
        BY <2>1, <2>4 DEF Kept, Marks, S!Recordings
<1>7. CASE p.type = "audio_end" /\ S!HandleAudioEnd(p)
    <2> DEFINE r == [device |-> p.from, chunks |-> sessions[p.from], end |-> p.n]
    <2>1. /\ registered' = registered
          /\ \/ sessions' = sessions /\ complete' = complete
             \/ sessions' = [sessions EXCEPT ![p.from] = <<>>] /\ complete' = complete \cup {r}
        BY <1>7 DEF S!HandleAudioEnd, S!Closed
    <2>2. CASE sessions' = sessions /\ complete' = complete
        BY <2>1, <2>2 DEF Kept, Marks, S!Recordings
    <2>3. CASE sessions' = [sessions EXCEPT ![p.from] = <<>>] /\ complete' = complete \cup {r}
        <3>1. S!Recordings(d)' \subseteq S!Recordings(d) \cup (IF d = p.from THEN {r} ELSE {})
            BY <2>3 DEF S!Recordings
        <3>2. r.chunks = sessions[p.from] /\ r.end = p.n
            OBVIOUS
        <3>3. S!Chunks(sessions'[d]) \subseteq S!Chunks(sessions[d])
            BY <1>1, <1>2, <1>3, <2>3
        <3>4. Marks(d)' \subseteq Marks(d) \cup (IF d = p.from THEN {p.n} ELSE {})
            BY <2>1, <3>1, <3>2 DEF Marks
        <3> HIDE DEF r
        <3>5. Kept(d)' \subseteq Kept(d)
            BY <3>1, <3>2, <3>3 DEF Kept
        <3>6. QED
            BY <3>4, <3>5
    <2>4. QED
        BY <2>1, <2>2, <2>3
<1>8. QED
    BY <1>4, <1>5, <1>6, <1>7 DEF S!Handle

\* A handled packet leaves the recordings sound: in their order, once, and
\* after the registration.
LEMMA HandledIsSound ==
    ASSUME SessionType, PastInv, S!RecordingsAreSound, NEW p, Fresh(p), S!Handle(p)
    PROVE  S!RecordingsAreSound'
<1> DEFINE f == p.from
<1>1. /\ p \in Genuine /\ f \in Devices /\ p.n \in Nat /\ p.addr \in From[f] /\ p.queued \in BOOLEAN
    BY PacketFields DEF Fresh
<1>2. /\ sessions \in [Devices -> Seq(Genuine)] /\ registered \in [Devices -> Nat]
      /\ \A r \in complete : r.device \in Devices /\ r.chunks \in Seq(Genuine) /\ r.end \in Nat
    BY DEF SessionType
<1>3. /\ \A q \in S!Chunks(sessions[f]) : q # p /\ (p.queued /\ q.queued => q.n < p.n)
      /\ \A r \in S!Recordings(f) : \A q \in S!Chunks(r.chunks) : q # p /\ (p.queued /\ q.queued => q.n < p.n)
      /\ p.queued => registered[f] < p.n /\ \A r \in S!Recordings(f) : r.end < p.n
    BY DEF Fresh, Kept, Marks
<1>4. /\ \A d \in Devices : \A q \in S!Chunks(sessions[d]) : q \in Genuine /\ q.from = d
      /\ \A d \in Devices : \A r \in S!Recordings(d) : \A q \in S!Chunks(r.chunks) : q \in Genuine /\ q.from = d
    BY DEF PastInv, Kept
<1>5. S!Chunks(<<>>) = {} /\ S!Increasing(<<>>)
    BY DEF S!Chunks, S!Increasing
<1> HIDE DEF f
<1>6. CASE p.type = "register" /\ S!HandleRegister(p)
    <2>1. /\ sessions' = [sessions EXCEPT ![f] = <<>>] /\ complete' = complete
          /\ registered' = [registered EXCEPT ![f] = p.n]
        BY <1>6 DEF S!HandleRegister, S!WithoutOrphan, f
    <2>2. \A d \in Devices : (sessions'[d] = sessions[d] /\ registered'[d] = registered[d]) \/ sessions'[d] = <<>>
        BY <1>1, <1>2, <2>1
    <2>3. \A d \in Devices : S!Recordings(d)' = S!Recordings(d)
        BY <2>1 DEF S!Recordings
    <2>4. S!WorkersKeepOrder'
        BY <1>5, <2>2, <2>3 DEF S!RecordingsAreSound, S!WorkersKeepOrder, S!After
    <2>5. S!HandedOverOnce'
        BY <1>5, <2>2, <2>3 DEF S!RecordingsAreSound, S!HandedOverOnce
    <2>6. S!NoOrphans'
        BY <1>5, <2>2 DEF S!RecordingsAreSound, S!NoOrphans, S!After
    <2>7. QED
        BY <2>4, <2>5, <2>6 DEF S!RecordingsAreSound
<1>7. CASE p.type = "heartbeat" /\ S!HandleHeartbeat(p)
    BY <1>7 DEF S!HandleHeartbeat, S!RecordingsAreSound, S!WorkersKeepOrder, S!HandedOverOnce, S!NoOrphans, S!Recordings
<1>8. CASE p.type = "audio" /\ S!HandleAudio(p)
    <2> DEFINE t == Append(sessions[f], p)
    <2>1. registered' = registered /\ complete' = complete
        BY <1>8 DEF S!HandleAudio
    <2>2. sessions' = sessions \/ sessions' = [sessions EXCEPT ![f] = t]
        BY <1>1, <1>8, FoundIsSender DEF S!HandleAudio, f
    <2>3. /\ t \in Seq(Genuine) /\ S!Chunks(t) = S!Chunks(sessions[f]) \cup {p}
          /\ DOMAIN t = 1..(Len(sessions[f]) + 1) /\ Len(sessions[f]) \in Nat /\ DOMAIN sessions[f] = 1..Len(sessions[f])
          /\ \A i \in 1..Len(sessions[f]) : t[i] = sessions[f][i]
          /\ t[Len(sessions[f]) + 1] = p
        BY <1>1, <1>2, ChunkAppended, LenProperties
    <2> HIDE DEF t
    <2>4. S!Increasing(t)
        <3>1. S!Increasing(sessions[f]) /\ \A i \in DOMAIN sessions[f] : sessions[f][i] \in S!Chunks(sessions[f])
            BY <1>1 DEF S!RecordingsAreSound, S!WorkersKeepOrder, S!Chunks
        <3> DEFINE k == Len(sessions[f])
        <3>2. SUFFICES ASSUME NEW i \in 1..(k + 1), NEW j \in 1..(k + 1), i < j, t[i].queued, t[j].queued
                       PROVE  t[i].n < t[j].n
            BY <2>3 DEF S!Increasing
        <3>3. k \in Nat /\ i \in 1..k /\ (j = k + 1 \/ j \in 1..k)
            BY <2>3, <3>2
        <3>4. CASE j \in 1..k
            <4>1. t[i] = sessions[f][i] /\ t[j] = sessions[f][j] /\ i \in DOMAIN sessions[f] /\ j \in DOMAIN sessions[f]
                BY <2>3, <3>3, <3>4
            <4>2. QED BY <3>1, <3>2, <4>1 DEF S!Increasing
        <3>5. CASE j = k + 1
            <4>1. t[i] = sessions[f][i] /\ t[j] = p /\ i \in DOMAIN sessions[f]
                BY <2>3, <3>3, <3>5
            <4>2. QED BY <1>3, <3>1, <3>2, <4>1
        <3>6. QED BY <3>3, <3>4, <3>5
    <2>5. \A d \in Devices : \/ sessions'[d] = sessions[d]
                             \/ d = f /\ sessions'[d] = t
        BY <1>1, <1>2, <2>2
    <2>6. \A d \in Devices : S!Recordings(d)' = S!Recordings(d)
        BY <2>1 DEF S!Recordings
    <2>7. S!NoOrphans'
        BY <1>3, <2>1, <2>3, <2>5 DEF S!RecordingsAreSound, S!NoOrphans, S!After
    <2>8. S!WorkersKeepOrder'
        <3>1. \A r \in S!Recordings(f) : S!After(r.end, t)
            BY <1>1, <1>3, <2>3 DEF S!RecordingsAreSound, S!WorkersKeepOrder, S!After
        <3>2. QED
            BY <2>4, <2>5, <2>6, <3>1 DEF S!RecordingsAreSound, S!WorkersKeepOrder
    <2>9. S!HandedOverOnce'
        <3>1. \A d \in Devices : \A r \in S!Recordings(d) : p \notin S!Chunks(r.chunks)
            BY <1>3, <1>4 DEF f
        <3>2. \A d \in Devices : \A r \in S!Recordings(d) :
                S!Chunks(sessions[f]) \cap S!Chunks(r.chunks) = {}
            BY <1>1 DEF S!RecordingsAreSound, S!HandedOverOnce
        <3>3. \A d \in Devices : \A r \in S!Recordings(d) : S!Chunks(r.chunks) \cap S!Chunks(t) = {}
            BY <2>3, <3>1, <3>2
        <3>4. QED
            BY <2>5, <2>6, <3>3 DEF S!RecordingsAreSound, S!HandedOverOnce
    <2>10. QED
        BY <2>7, <2>8, <2>9 DEF S!RecordingsAreSound
<1>9. CASE p.type = "audio_end" /\ S!HandleAudioEnd(p)
    <2> DEFINE r == [device |-> f, chunks |-> sessions[f], end |-> p.n]
    <2>1. /\ registered' = registered
          /\ \/ sessions' = sessions /\ complete' = complete
             \/ sessions' = [sessions EXCEPT ![f] = <<>>] /\ complete' = complete \cup {r}
        BY <1>9 DEF S!HandleAudioEnd, S!Closed, f
    <2>2. CASE sessions' = sessions /\ complete' = complete
        BY <2>1, <2>2 DEF S!RecordingsAreSound, S!WorkersKeepOrder, S!HandedOverOnce, S!NoOrphans, S!Recordings
    <2>3. CASE sessions' = [sessions EXCEPT ![f] = <<>>] /\ complete' = complete \cup {r}
        <3>1. r.device = f /\ r.chunks = sessions[f] /\ r.end = p.n
            OBVIOUS
        <3> HIDE DEF r
        <3>2. \A d \in Devices : /\ S!Recordings(d)' \subseteq S!Recordings(d) \cup {r}
                                 /\ r \in S!Recordings(d)' => d = f
            BY <2>3, <3>1 DEF S!Recordings
        <3>3. \A d \in Devices : sessions'[d] = IF d = f THEN <<>> ELSE sessions[d]
            BY <1>1, <1>2, <2>3
        <3>4. p.queued
            BY <1>9 DEF Fresh
        <3>5. S!NoOrphans'
            BY <1>5, <2>1, <3>3 DEF S!RecordingsAreSound, S!NoOrphans, S!After
        <3>6. S!WorkersKeepOrder'
            <4>1. S!Increasing(r.chunks) /\ S!Before(r.end, r.chunks)
                BY <1>1, <1>3, <3>1, <3>4 DEF S!RecordingsAreSound, S!WorkersKeepOrder, S!Before
            <4>2. \A s \in S!Recordings(f) : S!After(s.end, r.chunks) /\ ~ (r.end < s.end)
                BY <1>1, <1>2, <1>3, <3>1, <3>4 DEF S!RecordingsAreSound, S!WorkersKeepOrder, S!Recordings
            <4>3. ~ (r.end < r.end)
                BY <1>1, <3>1
            <4>4. \A d \in Devices : S!Increasing(sessions'[d])
                BY <1>5, <3>3 DEF S!RecordingsAreSound, S!WorkersKeepOrder
            <4>5. \A d \in Devices : \A s \in S!Recordings(d)' :
                    S!Increasing(s.chunks) /\ S!Before(s.end, s.chunks) /\ S!After(s.end, sessions'[d])
                BY <1>5, <3>2, <3>3, <4>1 DEF S!RecordingsAreSound, S!WorkersKeepOrder, S!After
            <4>6. \A d \in Devices : \A s, u \in S!Recordings(d)' : s.end < u.end => S!After(s.end, u.chunks)
                BY <3>2, <4>2, <4>3 DEF S!RecordingsAreSound, S!WorkersKeepOrder
            <4>7. QED
                BY <4>4, <4>5, <4>6 DEF S!WorkersKeepOrder
        <3>7. S!HandedOverOnce'
            <4>1. \A d \in Devices : \A s \in S!Recordings(d) : S!Chunks(s.chunks) \cap S!Chunks(r.chunks) = {}
                BY <1>1, <3>1 DEF S!RecordingsAreSound, S!HandedOverOnce
            <4>2. \A d \in Devices \ {f} : S!Chunks(r.chunks) \cap S!Chunks(sessions[d]) = {}
                BY <1>1, <1>4, <3>1
            <4>3. \A d, e \in Devices : \A s \in S!Recordings(d)' : S!Chunks(s.chunks) \cap S!Chunks(sessions'[e]) = {}
                BY <1>5, <3>2, <3>3, <4>1, <4>2 DEF S!RecordingsAreSound, S!HandedOverOnce
            <4>4. \A d, e \in Devices : \A s \in S!Recordings(d)' : \A u \in S!Recordings(e)' \ {s} :
                    S!Chunks(s.chunks) \cap S!Chunks(u.chunks) = {}
                BY <3>2, <4>1 DEF S!RecordingsAreSound, S!HandedOverOnce
            <4>5. QED
                BY <4>3, <4>4 DEF S!HandedOverOnce
        <3>8. QED
            BY <3>5, <3>6, <3>7 DEF S!RecordingsAreSound
    <2>4. QED
        BY <2>1, <2>2, <2>3
<1>10. QED
    BY <1>6, <1>7, <1>8, <1>9 DEF S!Handle

\* A packet is handled: types stay as they are.
LEMMA HandledTypes ==
    ASSUME SessionType, NEW p \in Genuine, S!Handle(p)
    PROVE  /\ sessions' \in [Devices -> Seq(Genuine)] /\ registered' \in [Devices -> Nat]
           /\ satellites' \in [Devices -> Addrs \cup {NoAddr}]
           /\ \A d \in Devices : satellites'[d] # NoAddr => satellites'[d] \in From[d]
           /\ \A r \in complete' : r.device \in Devices /\ r.chunks \in Seq(Genuine) /\ r.end \in Nat
<1>1. p.from \in Devices /\ p.addr \in Addrs /\ p.addr \in From[p.from] /\ p.n \in Nat
    BY PacketFields
<1>2. <<>> \in Seq(Genuine)
    OBVIOUS
<1>3. CASE p.type = "register" /\ S!HandleRegister(p)
    BY <1>1, <1>2, <1>3 DEF S!HandleRegister, S!WithoutOrphan, SessionType
<1>4. CASE p.type = "heartbeat" /\ S!HandleHeartbeat(p)
    BY <1>1, <1>4 DEF S!HandleHeartbeat, SessionType
<1>5. CASE p.type = "audio" /\ S!HandleAudio(p)
    <2>1. registered' = registered /\ complete' = complete /\ satellites' = satellites
        BY <1>5 DEF S!HandleAudio
    <2>2. sessions' = sessions \/ sessions' = [sessions EXCEPT ![p.from] = Append(@, p)]
        BY <1>1, <1>5, FoundIsSender DEF S!HandleAudio
    <2>3. Append(sessions[p.from], p) \in Seq(Genuine)
        BY <1>1, ChunkAppended DEF SessionType
    <2>4. sessions' \in [Devices -> Seq(Genuine)]
        BY <2>2, <2>3 DEF SessionType
    <2>5. QED
        BY <2>1, <2>4 DEF SessionType
<1>6. CASE p.type = "audio_end" /\ S!HandleAudioEnd(p)
    <2> DEFINE r == [device |-> p.from, chunks |-> sessions[p.from], end |-> p.n]
    <2>1. /\ registered' = registered /\ satellites' = satellites
          /\ sessions' = sessions \/ sessions' = [sessions EXCEPT ![p.from] = <<>>]
          /\ complete' \subseteq complete \cup {r}
        BY <1>6 DEF S!HandleAudioEnd, S!Closed
    <2>2. r.device \in Devices /\ r.chunks \in Seq(Genuine) /\ r.end \in Nat
        BY <1>1 DEF SessionType
    <2> HIDE DEF r
    <2>3. sessions' \in [Devices -> Seq(Genuine)]
        BY <1>2, <2>1 DEF SessionType
    <2>4. QED
        BY <2>1, <2>2, <2>3 DEF SessionType
<1>7. QED
    BY <1>3, <1>4, <1>5, <1>6 DEF S!Handle

\* The loop numbers a packet and hands it to its device's worker, or to a
\* goroutine of its own when it belongs to no device that is known.
LEMMA ReceiveStep ==
    ASSUME SessionInv, NEW type \in S!Types, NEW d \in Devices, NEW a \in From[d], S!Receive(type, d, a)
    PROVE  SessionInv'
<1> DEFINE yes == TRUE
           no == FALSE
           p == [type |-> type, from |-> d, addr |-> a, n |-> arrived + 1, queued |-> yes]
           g == [type |-> type, from |-> d, addr |-> a, n |-> arrived + 1, queued |-> no]
<1>0. yes \in BOOLEAN /\ no \in BOOLEAN /\ yes /\ ~no
    OBVIOUS
<1>1. /\ SessionType /\ DueInv /\ PastInv /\ S!RecordingsAreSound
    BY DEF SessionInv
<1>2. /\ arrived \in Nat /\ arrived < MaxPackets /\ MaxPackets \in Nat /\ arrived' = arrived + 1
      /\ hand = S!NoHand /\ a \in Addrs
      /\ UNCHANGED <<socket, queue, satellites, sessions, registered, complete>>
    BY <1>1, ConstantsOK DEF S!Receive, SessionType, S!ProxySessionsAssumption, From
<1>3. p \in Genuine /\ g \in Genuine
    BY <1>0, <1>2 DEF Genuine, S!Packet
<1>4. \/ /\ \E device \in S!RoutingDevice(p) : hand' = [packet |-> p, device |-> device]
         /\ UNCHANGED goroutines
      \/ S!RoutingDevice(p) = {} /\ goroutines' = goroutines \cup {g} /\ UNCHANGED hand
    <2>1. [p EXCEPT !.queued = FALSE] = g
        <3>1. no = FALSE
            OBVIOUS
        <3>2. [p EXCEPT !.queued = no] = g
            <4> HIDE DEF yes, no
            <4>1. QED OBVIOUS
        <3>3. QED
            BY <3>1, <3>2, Zenon
    <2>2. \/ /\ \E device \in S!RoutingDevice(p) : hand' = [packet |-> p, device |-> device]
             /\ UNCHANGED goroutines
          \/ S!RoutingDevice(p) = {} /\ goroutines' = goroutines \cup {[p EXCEPT !.queued = FALSE]} /\ UNCHANGED hand
        BY Zenon DEF S!Receive
    <2>3. QED BY <2>1, <2>2
<1>5. /\ p.type = type /\ p.from = d /\ p.addr = a /\ p.n = arrived + 1 /\ p.queued
      /\ g.type = type /\ g.from = d /\ g.n = arrived + 1 /\ ~g.queued
    BY <1>0
<1> HIDE DEF p, g, yes, no
<1>6. S!RoutingDevice(p) \subseteq {d} /\ (S!RoutingDevice(p) = {} => type = "audio")
    BY <1>1, <1>5, FoundIsSender DEF S!RoutingDevice
<1>7. \/ hand' = [packet |-> p, device |-> d] /\ goroutines' = goroutines
      \/ hand' = hand /\ goroutines' = goroutines \cup {g} /\ type = "audio"
    BY <1>4, <1>6
<1>8. \A e \in Devices : Due(e)' = Due(e) \/ (e = d /\ Due(e)' \subseteq Due(e) \cup {p})
    <2>1. CASE hand' = hand
        BY <1>2, <2>1 DEF Due
    <2>2. CASE hand' = [packet |-> p, device |-> d]
        <3>1. \A q, e : [packet |-> p, device |-> d] = [packet |-> q, device |-> e] => q = p /\ e = d
            OBVIOUS
        <3>2. \A e \in Devices : \A q \in Genuine : hand' = [packet |-> q, device |-> e] => q = p /\ e = d
            BY <2>2, <3>1
        <3>3. \A e \in Devices : {q \in Genuine : hand' = [packet |-> q, device |-> e]} \subseteq (IF e = d THEN {p} ELSE {})
            BY <3>2
        <3>4. \A e \in Devices : {q \in Genuine : hand = [packet |-> q, device |-> e]} = {}
            <4>1. \A q, e : S!NoHand # [packet |-> q, device |-> e]
                <5>1. DOMAIN S!NoHand = {"packet"} BY DEF S!NoHand
                <5>2. \A q, e : DOMAIN [packet |-> q, device |-> e] = {"packet", "device"} OBVIOUS
                <5>3. "device" \notin {"packet"} OBVIOUS
                <5>4. QED BY <5>1, <5>2, <5>3
            <4>2. QED BY <1>2, <4>1
        <3>5. QED BY <1>2, <3>3, <3>4 DEF Due
    <2>3. QED BY <1>7, <2>1, <2>2
<1>9. \A e \in Devices : Kept(e)' = Kept(e) /\ Marks(e)' = Marks(e)
    BY <1>2 DEF Kept, Marks, S!Recordings
<1>10. SessionType'
    BY <1>1, <1>2, <1>3, <1>5, <1>7, PacketFields DEF SessionType
<1>11. DueInv'
    <2>1. ASSUME NEW e \in Devices
          PROVE  \A q \in Due(e)' : q.from = e /\ q.queued /\ q.n <= arrived'
        <3>1. \A q \in Due(e) : q.from = e /\ q.queued /\ q.n <= arrived /\ q \in Genuine
            BY <1>1, ChunkAppended DEF DueInv, Due, SessionType, S!Chunks
        <3>2. \A q \in Genuine : q.n \in Nat
            BY PacketFields
        <3>3. QED BY <1>2, <1>5, <1>8, <3>1, <3>2
    <2>2. ASSUME NEW e \in Devices
          PROVE  \A i, j \in 1..Len(queue'[e]) : i < j => queue'[e][i].n < queue'[e][j].n
        BY <1>1, <1>2 DEF DueInv
    <2>3. ASSUME NEW e \in Devices, NEW q \in Genuine, hand' = [packet |-> q, device |-> e], NEW x \in S!Chunks(queue'[e])
          PROVE  x.n < q.n
        <3>1. CASE hand' = [packet |-> p, device |-> d]
            <4>1. q = p /\ e = d
                BY <2>3, <3>1
            <4>2. x \in Due(e) /\ x \in Genuine
                BY <1>1, <1>2, <2>3 DEF Due, SessionType, S!Chunks
            <4>3. x.n <= arrived /\ x.n \in Nat
                BY <1>1, <4>2, PacketFields DEF DueInv
            <4>4. QED BY <1>2, <1>5, <4>1, <4>3
        <3>2. CASE hand' = hand
            BY <1>1, <1>2, <2>3, <3>2 DEF DueInv
        <3>3. QED BY <1>7, <3>1, <3>2
    <2>4. QED BY <2>1, <2>2, <2>3 DEF DueInv
<1>12. PastInv'
    <2>1. ASSUME NEW e \in Devices, NEW x \in Kept(e)
          PROVE  /\ x \in Genuine /\ x.from = e /\ x.n <= arrived' /\ x \notin goroutines'
                 /\ x.queued => \A q \in Due(e)' : x.n < q.n
        <3>1. /\ x \in Genuine /\ x.from = e /\ x.n <= arrived /\ x \notin goroutines
              /\ x.queued => \A q \in Due(e) : x.n < q.n
            BY <1>1 DEF PastInv
        <3>2. x.n \in Nat
            BY <3>1, PacketFields
        <3>3. QED BY <1>2, <1>5, <1>7, <1>8, <3>1, <3>2
    <2>2. ASSUME NEW e \in Devices, NEW n \in Marks(e)
          PROVE  n \in Nat /\ n <= arrived' /\ \A q \in Due(e)' : n < q.n
        <3>1. n \in Nat /\ n <= arrived /\ \A q \in Due(e) : n < q.n
            BY <1>1 DEF PastInv
        <3>2. QED BY <1>2, <1>5, <1>8, <3>1
    <2>3. QED BY <1>9, <2>1, <2>2 DEF PastInv
<1>13. S!RecordingsAreSound'
    BY <1>1, <1>2 DEF S!RecordingsAreSound, S!WorkersKeepOrder, S!HandedOverOnce, S!NoOrphans, S!Recordings
<1>14. QED BY <1>10, <1>11, <1>12, <1>13 DEF SessionInv

\* Removing the first packet of a queue moves the others up.
LEMMA QueueTaken ==
    ASSUME NEW s \in Seq(Genuine), 1 \in DOMAIN s
    PROVE  LET t == SubSeq(s, 1, 1 - 1) \o SubSeq(s, 1 + 1, Len(s))
           IN  /\ t \in Seq(Genuine) /\ Len(t) = Len(s) - 1 /\ Len(s) \in Nat \ {0} /\ s[1] \in Genuine
               /\ \A i \in 1..Len(t) : t[i] = s[i + 1] /\ i + 1 \in 1..Len(s)
<1> DEFINE u == SubSeq(s, 1 + 1, Len(s))
<1>1. Len(s) \in Nat /\ DOMAIN s = 1..Len(s) /\ s \in [1..Len(s) -> Genuine]
    BY LenProperties
<1>2. Len(s) \in Nat \ {0} /\ s[1] \in Genuine
    BY <1>1
<1>3. SubSeq(s, 1, 1 - 1) = <<>>
    BY SubSeqEmpty
<1>4. /\ u \in Seq(Genuine) /\ Len(u) = IF 2 <= Len(s) THEN Len(s) - 2 + 1 ELSE 0
      /\ \A i \in 1..(Len(s) - 2 + 1) : u[i] = s[2 + i - 1]
    <2>1. \A i \in 2..Len(s) : s[i] \in Genuine
        BY <1>1
    <2>2. 1 + 1 = 2 /\ 2 \in Int /\ Len(s) \in Int
        BY <1>1
    <2>3. QED BY <2>1, <2>2, SubSeqProperties
<1>5. <<>> \o u = u
    BY <1>4, ConcatEmptySeq
<1> HIDE DEF u
<1>6. Len(u) = Len(s) - 1 /\ \A i \in 1..Len(u) : u[i] = s[i + 1] /\ i + 1 \in 1..Len(s)
    <2>1. Len(u) = Len(s) - 1 /\ Len(s) - 2 + 1 = Len(s) - 1
        <3> DEFINE k == Len(s)
        <3> HIDE DEF k
        <3>1. k \in Nat \ {0} /\ Len(u) = IF 2 <= k THEN k - 2 + 1 ELSE 0
            BY <1>2, <1>4 DEF k
        <3>2. Len(u) = k - 1 /\ k - 2 + 1 = k - 1
            BY <3>1
        <3>3. QED BY <3>2 DEF k
    <2>2. SUFFICES ASSUME NEW i \in 1..(Len(s) - 1) PROVE u[i] = s[i + 1] /\ i + 1 \in 1..Len(s)
        BY <2>1
    <2>3. 2 + i - 1 = i + 1 /\ i + 1 \in 1..Len(s)
        BY <1>2
    <2>4. QED BY <1>4, <2>1, <2>3
<1>7. QED
    BY <1>2, <1>3, <1>4, <1>5, <1>6 DEF u

\* The loop's packet joins the queue.
LEMMA EnqueueStep == ASSUME SessionInv, S!Enqueue PROVE SessionInv'
<1> DEFINE p == hand.packet
           d == hand.device
<1>1. /\ SessionType /\ DueInv /\ PastInv /\ S!RecordingsAreSound
    BY DEF SessionInv
<1>2. /\ p \in Genuine /\ d \in Devices /\ hand = [packet |-> p, device |-> d]
      /\ queue' = [queue EXCEPT ![d] = Append(@, p)] /\ hand' = S!NoHand
      /\ UNCHANGED <<socket, arrived, goroutines, satellites, sessions, registered, complete>>
    BY <1>1 DEF S!Enqueue, SessionType
<1> HIDE DEF p, d
<1>3. queue \in [Devices -> Seq(Genuine)]
    BY <1>1 DEF SessionType
<1>4. /\ queue'[d] = Append(queue[d], p) /\ queue' \in [Devices -> Seq(Genuine)]
      /\ \A e \in Devices \ {d} : queue'[e] = queue[e]
    BY <1>2, <1>3, ChunkAppended
<1>5. /\ S!Chunks(queue'[d]) = S!Chunks(queue[d]) \cup {p}
      /\ Len(queue'[d]) = Len(queue[d]) + 1 /\ Len(queue[d]) \in Nat
      /\ \A i \in 1..Len(queue[d]) : queue'[d][i] = queue[d][i]
      /\ queue'[d][Len(queue[d]) + 1] = p
      /\ \A i \in 1..Len(queue[d]) : queue[d][i] \in S!Chunks(queue[d])
    BY SMTT(30), <1>2, <1>3, <1>4, ChunkAppended DEF S!Chunks
<1>6. \A q, e : S!NoHand # [packet |-> q, device |-> e]
    <2>1. DOMAIN S!NoHand = {"packet"} BY DEF S!NoHand
    <2>2. \A q, e : DOMAIN [packet |-> q, device |-> e] = {"packet", "device"} OBVIOUS
    <2>3. "device" \notin {"packet"} OBVIOUS
    <2>4. QED BY <2>1, <2>2, <2>3
<1>7. \A e \in Devices : Due(e)' \subseteq Due(e)
    <2>1. p \in Due(d)
        BY <1>2 DEF Due
    <2>2. \A e \in Devices : Due(e)' = S!Chunks(queue'[e])
        BY <1>2, <1>6 DEF Due
    <2>3. \A e \in Devices : S!Chunks(queue[e]) \subseteq Due(e)
        BY DEF Due
    <2>4. QED BY ZenonT(40), <1>4, <1>5, <2>1, <2>2, <2>3
<1>8. \A e \in Devices : Kept(e)' = Kept(e) /\ Marks(e)' = Marks(e)
    BY <1>2 DEF Kept, Marks, S!Recordings
<1>9. SessionType'
    BY <1>1, <1>2, <1>4 DEF SessionType
<1>10. DueInv'
    <2>1. \A x \in S!Chunks(queue[d]) : x.n < p.n
        BY <1>1, <1>2 DEF DueInv
    <2>2. ASSUME NEW i \in 1..Len(queue'[d]), NEW j \in 1..Len(queue'[d]), i < j
          PROVE  queue'[d][i].n < queue'[d][j].n
        <3>1. i \in 1..Len(queue[d]) /\ (j = Len(queue[d]) + 1 \/ j \in 1..Len(queue[d]))
            BY <1>5, <2>2
        <3>2. CASE j \in 1..Len(queue[d])
            BY <1>1, <1>2, <1>5, <2>2, <3>1, <3>2 DEF DueInv
        <3>3. CASE j = Len(queue[d]) + 1
            BY <1>5, <2>1, <3>1, <3>3
        <3>4. QED BY <3>1, <3>2, <3>3
    <2>3. \A e \in Devices : \A i, j \in 1..Len(queue'[e]) : i < j => queue'[e][i].n < queue'[e][j].n
        BY <1>1, <1>4, <2>2 DEF DueInv
    <2>4. \A e \in Devices : \A x \in Due(e)' : x.from = e /\ x.queued /\ x.n <= arrived'
        BY <1>1, <1>2, <1>7 DEF DueInv
    <2>5. QED BY <1>2, <1>6, <2>3, <2>4 DEF DueInv
<1>11. PastInv'
    BY <1>1, <1>2, <1>7, <1>8 DEF PastInv
<1>12. S!RecordingsAreSound'
    BY <1>1, <1>2 DEF S!RecordingsAreSound, S!WorkersKeepOrder, S!HandedOverOnce, S!NoOrphans, S!Recordings
<1>13. QED BY <1>9, <1>10, <1>11, <1>12 DEF SessionInv

\* What a handled packet must satisfy for the rest to stay in order.
LEMMA HandledStep ==
    ASSUME SessionInv, NEW p, Fresh(p), S!Handle(p), arrived' = arrived, hand' = hand, p.n <= arrived,
           goroutines' \subseteq goroutines, p \notin goroutines',
           queue' \in [Devices -> Seq(Genuine)], DueInv',
           \A d \in Devices : Due(d)' \subseteq Due(d),
           p.queued => \A q \in Due(p.from)' : p.n < q.n,
           p.type # "audio" => p.queued
    PROVE  SessionInv'
<1>1. SessionType /\ PastInv /\ S!RecordingsAreSound /\ p \in Genuine /\ p.n \in Nat /\ p.from \in Devices
    BY PacketFields DEF SessionInv, Fresh
<1>2. SessionType'
    BY <1>1, HandledTypes DEF SessionType
<1>3. S!RecordingsAreSound'
    BY <1>1, HandledIsSound
<1>4. ASSUME NEW d \in Devices, NEW x \in Kept(d)'
      PROVE  /\ x \in Genuine /\ x.from = d /\ x.n <= arrived' /\ x \notin goroutines'
             /\ x.queued => \A q \in Due(d)' : x.n < q.n
    <2>1. x \in Kept(d) \/ (x = p /\ d = p.from)
        BY <1>1, <1>4, HandledIsKept
    <2>2. CASE x \in Kept(d)
        BY <1>1, <2>2 DEF PastInv
    <2>3. CASE x = p /\ d = p.from
        BY <1>1, <2>3
    <2>4. QED BY <2>1, <2>2, <2>3
<1>5. ASSUME NEW d \in Devices, NEW n \in Marks(d)'
      PROVE  n \in Nat /\ n <= arrived' /\ (p.queued \/ n \in Marks(d) => \A q \in Due(d)' : n < q.n)
    <2>1. n \in Marks(d) \/ (n = p.n /\ d = p.from)
        BY <1>1, <1>5, HandledIsKept
    <2>2. CASE n \in Marks(d)
        BY <1>1, <2>2 DEF PastInv
    <2>3. CASE n = p.n /\ d = p.from
        <3>1. n \in Nat /\ n <= arrived' /\ (p.queued => \A q \in Due(d)' : n < q.n)
            BY <1>1, <2>3
        <3>2. n \in Marks(d) => \A q \in Due(d)' : n < q.n
            BY <1>1 DEF PastInv
        <3>3. QED BY <3>1, <3>2
    <2>4. QED BY <2>1, <2>2, <2>3
<1>6. ASSUME NEW d \in Devices, NEW n \in Marks(d)', ~p.queued PROVE n \in Marks(d)
    <2>1. p.type = "audio"
        BY <1>6
    <2>2. S!HandleAudio(p)
        BY <2>1 DEF S!Handle
    <2>3. QED BY <1>6, <2>2 DEF S!HandleAudio, Marks, S!Recordings
<1>7. PastInv'
    BY <1>4, <1>5, <1>6 DEF PastInv
<1>8. QED BY <1>2, <1>3, <1>7 DEF SessionInv

\* A worker takes the first packet of its queue and handles it.
LEMMA WorkStep == ASSUME SessionInv, NEW d \in Devices, S!Work(d) PROVE SessionInv'
<1> DEFINE s == queue[d]
           t == SubSeq(s, 1, 1 - 1) \o SubSeq(s, 1 + 1, Len(s))
           p == s[1]
<1>1. SessionType /\ DueInv /\ PastInv
    BY DEF SessionInv
<1>2. /\ 1 \in DOMAIN s /\ S!Handle(p) /\ queue' = [queue EXCEPT ![d] = t]
      /\ arrived' = arrived /\ hand' = hand /\ goroutines' = goroutines
    BY DEF S!Work, S!InOrder, S!Removed, S!Taken
<1>3. queue \in [Devices -> Seq(Genuine)] /\ s \in Seq(Genuine)
    BY <1>1 DEF SessionType
<1>4. /\ t \in Seq(Genuine) /\ Len(t) = Len(s) - 1 /\ Len(s) \in Nat \ {0} /\ p \in Genuine
      /\ \A i \in 1..Len(t) : t[i] = s[i + 1] /\ i + 1 \in 1..Len(s)
    BY <1>2, <1>3, QueueTaken
<1>5. DOMAIN s = 1..Len(s) /\ DOMAIN t = 1..Len(t)
    BY <1>3, <1>4, LenProperties
<1> HIDE DEF t
<1>6. queue' \in [Devices -> Seq(Genuine)] /\ queue'[d] = t /\ \A e \in Devices \ {d} : queue'[e] = queue[e]
    BY <1>2, <1>3, <1>4
<1>7. \A i, j \in 1..Len(s) : i < j => s[i].n < s[j].n
    BY <1>1 DEF DueInv
<1>8. \A x \in S!Chunks(t) : x \in S!Chunks(s) /\ p.n < x.n
    <2>1. SUFFICES ASSUME NEW i \in 1..Len(t) PROVE t[i] \in S!Chunks(s) /\ p.n < t[i].n
        BY <1>5 DEF S!Chunks
    <2>2. t[i] = s[i + 1] /\ i + 1 \in 1..Len(s) /\ 1 \in 1..Len(s) /\ 1 < i + 1
        BY <1>4
    <2>3. QED BY <1>5, <1>7, <2>2 DEF S!Chunks
<1>9. p \in Due(d) /\ p \in S!Chunks(s)
    BY <1>2 DEF Due, S!Chunks
<1>10. p.from = d /\ p.queued /\ p.n <= arrived
    BY <1>1, <1>9 DEF DueInv
<1>11. \A e \in Devices : Due(e)' \subseteq Due(e)
    BY <1>2, <1>6, <1>8 DEF Due
<1>12. \A q \in Due(d)' : p.n < q.n
    <2>1. \A q \in Genuine : hand = [packet |-> q, device |-> d] => p.n < q.n
        BY <1>1, <1>9 DEF DueInv
    <2>2. QED BY <1>2, <1>6, <1>8, <2>1 DEF Due
<1>13. DueInv'
    <2>1. \A i, j \in 1..Len(t) : i < j => t[i].n < t[j].n
        BY <1>4, <1>7
    <2>2. \A e \in Devices : \A i, j \in 1..Len(queue'[e]) : i < j => queue'[e][i].n < queue'[e][j].n
        BY <1>1, <1>6, <2>1 DEF DueInv
    <2>3. \A e \in Devices : \A x \in Due(e)' : x.from = e /\ x.queued /\ x.n <= arrived'
        BY <1>1, <1>2, <1>11 DEF DueInv
    <2>4. ASSUME NEW e \in Devices, NEW q \in Genuine, hand' = [packet |-> q, device |-> e], NEW x \in S!Chunks(queue'[e])
          PROVE  x.n < q.n
        <3>1. x \in S!Chunks(queue[e])
            BY <1>6, <1>8, <2>4
        <3>2. QED BY <1>1, <1>2, <2>4, <3>1 DEF DueInv
    <2>5. QED BY <2>2, <2>3, <2>4 DEF DueInv
<1>14. Fresh(p)
    <2>1. \A q \in Kept(d) : q.queued => q.n < p.n
        BY <1>1, <1>9 DEF PastInv
    <2>2. \A n \in Marks(d) : n < p.n
        BY <1>1, <1>9 DEF PastInv
    <2>3. ~ (p.n < p.n)
        BY <1>4, PacketFields
    <2>4. p \notin Kept(d)
        BY <1>10, <2>1, <2>3
    <2>5. QED BY <1>4, <1>10, <2>1, <2>2, <2>4 DEF Fresh
<1>15. p \notin goroutines'
    BY <1>1, <1>2, <1>10 DEF SessionType
<1>16. QED
    BY <1>2, <1>6, <1>10, <1>11, <1>12, <1>13, <1>14, <1>15, HandledStep

\* Audio of nobody known is handled at any later time, and appended when its
\* sender is known by then.
LEMMA GoroutineStep == ASSUME SessionInv, NEW p \in goroutines, S!RunGoroutine(p) PROVE SessionInv'
<1>1. SessionType /\ DueInv /\ PastInv
    BY DEF SessionInv
<1>2. /\ S!Handle(p) /\ goroutines' = goroutines \ {p} /\ arrived' = arrived /\ hand' = hand /\ queue' = queue
    BY DEF S!RunGoroutine
<1>3. p \in Genuine /\ p.type = "audio" /\ ~p.queued /\ p.n <= arrived /\ p.from \in Devices
    BY <1>1, PacketFields DEF SessionType
<1>4. Fresh(p)
    BY <1>1, <1>3 DEF Fresh, PastInv
<1>5. \A d \in Devices : Due(d)' = Due(d)
    BY <1>2 DEF Due
<1>6. DueInv'
    BY <1>1, <1>2, <1>5 DEF DueInv
<1>7. queue' \in [Devices -> Seq(Genuine)]
    BY <1>1, <1>2 DEF SessionType
<1>8. QED
    BY <1>2, <1>3, <1>4, <1>5, <1>6, <1>7, HandledStep

\* The watchdog, the socket and the other parts of the run change no packet.
LEMMA SessionRests ==
    ASSUME SessionInv,
           UNCHANGED <<arrived, hand, queue, goroutines, sessions, registered, complete>>,
           satellites' = satellites \/ \E d \in Devices : satellites' = [satellites EXCEPT ![d] = NoAddr]
    PROVE  SessionInv'
<1>1. \A d \in Devices : Due(d)' = Due(d) /\ Kept(d)' = Kept(d) /\ Marks(d)' = Marks(d)
    BY DEF Due, Kept, Marks, S!Recordings
<1>2. SessionType'
    BY DEF SessionInv, SessionType
<1>3. DueInv' /\ PastInv'
    BY <1>1 DEF SessionInv, DueInv, PastInv
<1>4. S!RecordingsAreSound'
    BY DEF SessionInv, S!RecordingsAreSound, S!WorkersKeepOrder, S!HandedOverOnce, S!NoOrphans, S!Recordings
<1>5. QED BY <1>2, <1>3, <1>4 DEF SessionInv

\* No step of the proxy's UDP server disturbs the invariant.
LEMMA SessionStep == SessionInv /\ [S!Next]_(S!vars) => SessionInv'
<1> SUFFICES ASSUME SessionInv, [S!Next]_(S!vars) PROVE SessionInv'
    OBVIOUS
<1>1. CASE \E type \in S!Types, d \in Devices : \E a \in From[d] : S!Receive(type, d, a)
    BY <1>1, ReceiveStep
<1>2. CASE S!Enqueue
    BY <1>2, EnqueueStep
<1>3. CASE \E d \in Devices : S!Work(d)
    BY <1>3, WorkStep
<1>4. CASE \E d \in Devices : S!CheckTimeouts(d)
    BY <1>4, SessionRests DEF S!CheckTimeouts
<1>5. CASE \E p \in goroutines : S!RunGoroutine(p)
    BY <1>5, GoroutineStep
<1>6. CASE S!Close \/ S!Start \/ UNCHANGED S!vars
    BY <1>6, SessionRests DEF S!Close, S!Start, S!vars
<1>7. QED
    BY <1>1, <1>2, <1>3, <1>4, <1>5, <1>6 DEF S!Next

\* Nothing has arrived at first.
LEMMA SessionInit == Init => SessionInv
<1> SUFFICES ASSUME Init PROVE SessionInv
    OBVIOUS
<1>1. /\ arrived = 0 /\ hand = S!NoHand /\ goroutines = {} /\ complete = {}
      /\ queue = [d \in Devices |-> <<>>] /\ sessions = [d \in Devices |-> <<>>]
      /\ satellites = [d \in Devices |-> NoAddr] /\ registered = [d \in Devices |-> 0]
    BY DEF Init, S!Init
<1>2. <<>> \in Seq(Genuine) /\ S!Chunks(<<>>) = {} /\ S!Increasing(<<>>) /\ Len(<<>>) = 0
    BY DEF S!Chunks, S!Increasing
<1>3. SessionType
    BY <1>1, <1>2 DEF SessionType
<1>4. \A q, e : S!NoHand # [packet |-> q, device |-> e]
    <2>1. DOMAIN S!NoHand = {"packet"} BY DEF S!NoHand
    <2>2. \A q, e : DOMAIN [packet |-> q, device |-> e] = {"packet", "device"} OBVIOUS
    <2>3. "device" \notin {"packet"} OBVIOUS
    <2>4. QED BY <2>1, <2>2, <2>3
<1>5. \A d \in Devices : Due(d) = {} /\ Kept(d) = {} /\ Marks(d) = {0}
    BY <1>1, <1>2, <1>4 DEF Due, Kept, Marks, S!Recordings
<1>6. DueInv /\ PastInv
    BY <1>1, <1>2, <1>4, <1>5 DEF DueInv, PastInv
<1>7. S!RecordingsAreSound
    BY <1>1, <1>2 DEF S!RecordingsAreSound, S!WorkersKeepOrder, S!HandedOverOnce, S!NoOrphans, S!Recordings, S!After
<1>8. QED BY <1>3, <1>6, <1>7 DEF SessionInv

\* So a recording is what the satellite said, once and in its order.
LEMMA SessionsAlways == Spec => []S!RecordingsAreSound
<1>1. SessionInv /\ [Next]_vars => SessionInv'
    BY SessionStep, PacketStep
<1>2. SessionInv => S!RecordingsAreSound
    BY DEF SessionInv
<1>3. QED
    BY <1>1, <1>2, SessionInit, PTL DEF Spec

-----------------------------------------------------------------------------
(* What is played, for every number of devices, streams and chunks.         *)

\* A step of the run is a step of the dispatcher or none.
LEMMA PlayStep == [Next]_vars => [D!Next]_(D!vars)
BY DEF Next, vars, Map, Packets, Plays, plays, D!vars

Job == Nat \X Nat
PlayType ==
    /\ now \in D!Streams /\ phase \in {"open", "stopping", "waiting"}
    /\ wire \in [D!Streams -> Seq(Devices \X Job)] /\ recv = [s \in D!Streams |-> recv[s]]
    /\ table \in [D!Streams -> [Devices -> 0..2]] /\ closed \subseteq D!Channels
    /\ chan \in [D!Channels -> Seq(Job)] /\ worker = [c \in D!Channels |-> worker[c]]
    /\ pushed \in [Devices -> Nat] /\ sent \in [Devices -> Seq(Job)]
    /\ answer = [d \in Devices |-> answer[d]] /\ status = [d \in Devices |-> status[d]]

\* The channel of a device in the stream that stands.
Current(d) == <<now, d, 1>>
Resting(c) == chan[c] = <<>> /\ worker[c].at \in {"none", "gone"}

\* Only the receiver of the stream that stands acts, until its stream is read
\* to the end; only its first channels are used.
ReceiverInv ==
    /\ ~panicked
    /\ \A s \in D!Streams : s > now => /\ wire[s] = <<>> /\ s \notin broken /\ recv[s].at = "recv"
                                       /\ \A d \in Devices : table[s][d] = 0
    /\ \A s \in D!Streams : s < now \/ (s = now /\ phase # "open") => recv[s].at = "ended"
    /\ \A s \in D!Streams : recv[s].at = "ended" => wire[s] = <<>> /\ s \in broken
    /\ \A s \in broken : s < MaxStreams
    /\ recv[now].at = "dispatch" => recv[now].device \in Devices
    /\ recv[now].at = "send" => \E d \in Devices : recv[now].channel = Current(d) /\ table[now][d] = 1
WorkerInv ==
    /\ \A c \in closed : recv[c[1]].at = "ended"
    /\ \A c \in D!Channels : worker[c].at \in {"none", "gone"} => chan[c] = <<>>
    /\ \A c \in D!Channels : worker[c].at = "gone" => c \in closed
    /\ \A c \in D!Channels : c[1] # now \/ c[3] = 2 \/ phase = "waiting" => worker[c].at \in {"none", "gone"}
    /\ \A d \in Devices : /\ table[now][d] \in {0, 1}
                          /\ table[now][d] = 1 => Current(d) \notin closed /\ worker[Current(d)].at # "none"
                          /\ table[now][d] = 0 /\ phase = "open" => worker[Current(d)].at = "none"

\* In a stream's order, a device's chunks are numbered from lo + 1 to hi.
Covers(w, s, d, lo, hi) ==
    /\ lo <= hi
    /\ \A i \in 1..Len(w) : w[i][1] = d => w[i][2][1] = s /\ lo < w[i][2][2] /\ w[i][2][2] <= hi
    /\ \A i, j \in 1..Len(w) : i < j /\ w[i][1] = d /\ w[j][1] = d => w[i][2][2] < w[j][2][2]
    /\ \A n \in Nat : lo < n /\ n <= hi => \E i \in 1..Len(w) : w[i][1] = d /\ w[i][2][2] = n

\* What was sent, what waits in the channel, what the receiver holds and what
\* is on the wire are, in this order, all the chunks that were pushed.
Carried(d) == \/ recv[now].at = "dispatch" /\ recv[now].device = d
              \/ recv[now].at = "send" /\ recv[now].channel[2] = d
Passed(d) == Len(sent[d]) + Len(chan[Current(d)])
Numbered(d) ==
    \A i \in 1..Len(sent[d]) : /\ sent[d][i][2] = i /\ sent[d][i][1] <= now
                               /\ \A j \in 1..i : sent[d][j][1] <= sent[d][i][1]
Waiting(d) == \A i \in 1..Len(chan[Current(d)]) : chan[Current(d)][i] = <<now, Len(sent[d]) + i>>
Coming(d) ==
    /\ Carried(d) => recv[now].job = <<now, Passed(d) + 1>>
    /\ Covers(wire[now], now, d, IF Carried(d) THEN Passed(d) + 1 ELSE Passed(d), pushed[d])
FlowInv == \A d \in Devices : Numbered(d) /\ Waiting(d) /\ Coming(d)

\* The status stands for the chunk that is played, or for the last one.
StatusInv ==
    /\ \A d \in Devices : worker[Current(d)].at = "playing" =>
           sent[d] # <<>> /\ worker[Current(d)].job = sent[d][Len(sent[d])]
    /\ D!IdleAtRest

PlayInv == PlayType /\ ReceiverInv /\ WorkerInv /\ FlowInv /\ StatusInv

\* A chunk that the Core pushes goes to the end of the wire.
LEMMA CoversAppended ==
    ASSUME NEW w \in Seq(Devices \X Job), NEW s \in Nat, NEW d \in Devices, NEW lo \in Nat, NEW hi \in Nat,
           Covers(w, s, d, lo, hi), NEW e \in Devices, NEW n \in Nat, d = e => n = hi + 1
    PROVE  /\ Append(w, <<e, <<s, n>>>>) \in Seq(Devices \X Job)
           /\ Covers(Append(w, <<e, <<s, n>>>>), s, d, lo, IF d = e THEN hi + 1 ELSE hi)
<1> DEFINE x == <<e, <<s, n>>>>
           t == Append(w, x)
           k == Len(w)
<1>1. x \in Devices \X Job /\ x[1] = e /\ x[2][1] = s /\ x[2][2] = n
    BY DEF Job
<1> HIDE DEF x
<1>2. /\ t \in Seq(Devices \X Job) /\ Len(t) = k + 1 /\ k \in Nat
      /\ \A i \in 1..k : t[i] = w[i] /\ w[i] \in Devices \X Job
      /\ t[k + 1] = x
    BY <1>1, AppendProperties, ElementOfSeq
<1> HIDE DEF t, k
<1>3. \A i \in 1..Len(w) : w[i][1] = d => w[i][2][1] = s /\ lo < w[i][2][2] /\ w[i][2][2] <= hi /\ w[i][2][2] \in Nat
    BY <1>2 DEF Covers, Job, k
<1>4. \A i \in 1..(k + 1) : i \in 1..k \/ i = k + 1
    BY <1>2
<1> DEFINE h == IF d = e THEN hi + 1 ELSE hi
<1>5. lo <= h /\ hi <= h /\ h \in Nat /\ (d = e => h = n /\ n = hi + 1)
    BY DEF Covers
<1> HIDE DEF h
<1>6. \A i \in 1..Len(t) : t[i][1] = d => t[i][2][1] = s /\ lo < t[i][2][2] /\ t[i][2][2] <= h
    <2>1. ASSUME NEW i \in 1..k, w[i][1] = d PROVE w[i][2][1] = s /\ lo < w[i][2][2] /\ w[i][2][2] <= h
        BY <1>3, <1>5, <2>1 DEF k
    <2>2. d = e => x[2][1] = s /\ lo < x[2][2] /\ x[2][2] <= h
        BY <1>1, <1>5 DEF Covers
    <2>3. QED BY <1>1, <1>2, <1>4, <2>1, <2>2
<1>7. \A i, j \in 1..Len(t) : i < j /\ t[i][1] = d /\ t[j][1] = d => t[i][2][2] < t[j][2][2]
    <2>1. SUFFICES ASSUME NEW i \in 1..(k + 1), NEW j \in 1..(k + 1), i < j, t[i][1] = d, t[j][1] = d
                   PROVE  t[i][2][2] < t[j][2][2]
        BY <1>2
    <2>2. i \in 1..k
        BY <1>2, <2>1
    <2>3. CASE j \in 1..k
        BY <1>2, <2>1, <2>2, <2>3 DEF Covers, k
    <2>4. CASE j = k + 1
        <3>1. t[i] = w[i] /\ t[j] = x /\ w[i][1] = d /\ d = e
            BY <1>1, <1>2, <2>1, <2>2, <2>4
        <3>2. w[i][2][2] <= hi /\ w[i][2][2] \in Nat
            BY <1>3, <2>2, <3>1 DEF k
        <3>3. QED BY <1>1, <1>5, <3>1, <3>2
    <2>5. QED BY <1>4, <2>3, <2>4
<1>8. \A m \in Nat : lo < m /\ m <= h => \E i \in 1..Len(t) : t[i][1] = d /\ t[i][2][2] = m
    <2>1. SUFFICES ASSUME NEW m \in Nat, lo < m, m <= h PROVE \E i \in 1..(k + 1) : t[i][1] = d /\ t[i][2][2] = m
        BY <1>2
    <2>2. CASE m <= hi
        <3>1. PICK i \in 1..k : w[i][1] = d /\ w[i][2][2] = m
            BY <2>1, <2>2 DEF Covers, k
        <3>2. i \in 1..(k + 1) /\ t[i] = w[i]
            BY <1>2
        <3>3. QED BY <3>1, <3>2
    <2>3. CASE ~ (m <= hi)
        <3>1. d = e /\ m = n
            BY <1>5, <2>1, <2>3 DEF h
        <3>2. k + 1 \in 1..(k + 1)
            BY <1>2
        <3>3. QED BY <1>1, <1>2, <3>1, <3>2
    <2>4. QED BY <2>2, <2>3
<1>9. Covers(t, s, d, lo, h)
    BY <1>5, <1>6, <1>7, <1>8 DEF Covers
<1>10. QED BY <1>2, <1>9 DEF t, x, h

\* The first chunk of a device on the wire is the next one.
LEMMA CoversTaken ==
    ASSUME NEW w \in Seq(Devices \X Job), w # <<>>, NEW s \in Nat, NEW d \in Devices, NEW lo \in Nat, NEW hi \in Nat,
           Covers(w, s, d, lo, hi)
    PROVE  /\ Tail(w) \in Seq(Devices \X Job) /\ Head(w) \in Devices \X Job
           /\ Head(w)[1] = d => Head(w)[2] = <<s, lo + 1>> /\ Covers(Tail(w), s, d, lo + 1, hi)
           /\ Head(w)[1] # d => Covers(Tail(w), s, d, lo, hi)
<1> DEFINE t == Tail(w)
           k == Len(w)
           l == IF Head(w)[1] = d THEN lo + 1 ELSE lo
<1>1. /\ t \in Seq(Devices \X Job) /\ Len(t) = k - 1 /\ Head(w) = w[1] /\ Head(w) \in Devices \X Job
      /\ \A i \in 1..Len(t) : t[i] = w[i + 1]
    BY HeadTailProperties
<1>2. k \in Nat \ {0} /\ \A i \in 1..k : w[i] \in Devices \X Job
    BY EmptySeq, LenProperties, ElementOfSeq
<1> HIDE DEF t, k
<1>3. \A i \in 1..k : w[i][2] \in Job /\ w[i][2][2] \in Nat /\ w[i][2] = <<w[i][2][1], w[i][2][2]>>
    BY <1>2 DEF Job
<1>4. \A i \in 1..k : w[i][1] = d => w[i][2][1] = s /\ lo < w[i][2][2] /\ w[i][2][2] <= hi
    BY DEF Covers, k
<1>5. 1 \in 1..k /\ \A i \in 1..Len(t) : i + 1 \in 1..k /\ 1 < i + 1
    BY <1>1, <1>2
<1>6. \A i \in 1..k : 1 < i /\ w[1][1] = d /\ w[i][1] = d => w[1][2][2] < w[i][2][2]
    BY <1>5 DEF Covers, k
<1>7. w[1][1] = d => w[1][2][2] = lo + 1
    <2>1. SUFFICES ASSUME w[1][1] = d PROVE w[1][2][2] = lo + 1
        OBVIOUS
    <2>2. lo < w[1][2][2] /\ w[1][2][2] <= hi /\ w[1][2][2] \in Nat
        BY <1>3, <1>4, <1>5, <2>1
    <2>3. PICK i \in 1..k : w[i][1] = d /\ w[i][2][2] = lo + 1
        <3>1. lo + 1 \in Nat /\ lo < lo + 1 /\ lo + 1 <= hi
            BY <2>2
        <3>2. QED BY <3>1 DEF Covers, k
    <2>4. CASE i = 1
        BY <2>3, <2>4
    <2>5. CASE i # 1
        <3>1. w[1][2][2] < lo + 1
            BY <1>2, <1>6, <2>1, <2>3, <2>5
        <3>2. QED BY <2>2, <3>1
    <2>6. QED BY <2>4, <2>5
<1>8. l \in Nat /\ lo <= l /\ (w[1][1] = d => l = lo + 1) /\ (w[1][1] # d => l = lo)
    BY <1>1
<1> HIDE DEF l
<1>9. l <= hi
    <2>1. lo <= hi BY DEF Covers
    <2>2. w[1][1] = d => lo + 1 <= hi
        BY <1>3, <1>4, <1>5
    <2>3. QED BY <1>8, <2>1, <2>2
<1>10. \A i \in 1..Len(t) : t[i][1] = d => t[i][2][1] = s /\ l < t[i][2][2] /\ t[i][2][2] <= hi
    <2>1. SUFFICES ASSUME NEW i \in 1..Len(t), t[i][1] = d PROVE t[i][2][1] = s /\ l < t[i][2][2] /\ t[i][2][2] <= hi
        OBVIOUS
    <2>2. t[i] = w[i + 1] /\ i + 1 \in 1..k /\ 1 < i + 1
        BY <1>1, <1>5
    <2>3. w[i + 1][2][1] = s /\ lo < w[i + 1][2][2] /\ w[i + 1][2][2] <= hi /\ w[i + 1][2][2] \in Nat
        BY <1>3, <1>4, <2>1, <2>2
    <2>4. w[1][1] = d => lo + 1 < w[i + 1][2][2]
        BY <1>6, <1>7, <2>1, <2>2
    <2>5. QED BY <1>8, <2>2, <2>3, <2>4
<1>11. \A i, j \in 1..Len(t) : i < j /\ t[i][1] = d /\ t[j][1] = d => t[i][2][2] < t[j][2][2]
    <2>1. SUFFICES ASSUME NEW i \in 1..Len(t), NEW j \in 1..Len(t), i < j, t[i][1] = d, t[j][1] = d
                   PROVE  t[i][2][2] < t[j][2][2]
        OBVIOUS
    <2>2. t[i] = w[i + 1] /\ t[j] = w[j + 1] /\ i + 1 \in 1..k /\ j + 1 \in 1..k /\ i + 1 < j + 1
        BY <1>1, <1>5, <2>1
    <2>3. QED BY <2>1, <2>2 DEF Covers, k
<1>12. \A n \in Nat : l < n /\ n <= hi => \E i \in 1..Len(t) : t[i][1] = d /\ t[i][2][2] = n
    <2>1. SUFFICES ASSUME NEW n \in Nat, l < n, n <= hi PROVE \E i \in 1..Len(t) : t[i][1] = d /\ t[i][2][2] = n
        OBVIOUS
    <2>2. PICK i \in 1..k : w[i][1] = d /\ w[i][2][2] = n
        <3>1. lo < n
            BY <1>8, <2>1
        <3>2. QED BY <2>1, <3>1 DEF Covers, k
    <2>3. i # 1
        BY <1>7, <1>8, <2>1, <2>2
    <2>4. i - 1 \in 1..Len(t) /\ (i - 1) + 1 = i
        BY <1>1, <1>2, <2>3
    <2>5. t[i - 1] = w[i]
        BY <1>1, <2>4
    <2>6. QED BY <2>2, <2>4, <2>5
<1>13. Covers(t, s, d, l, hi)
    BY <1>9, <1>10, <1>11, <1>12 DEF Covers
<1>14. Head(w)[1] = d => Head(w)[2] = <<s, lo + 1>>
    BY <1>1, <1>3, <1>4, <1>5, <1>7
<1>15. (Head(w)[1] = d => l = lo + 1) /\ (Head(w)[1] # d => l = lo)
    BY DEF l
<1>16. QED BY <1>1, <1>13, <1>14, <1>15 DEF t

\* A stream that nobody has yet or that was given up has no part in what follows.
LEMMA CurrentChannels ==
    ASSUME PlayType
    PROVE  /\ now \in Nat /\ now \in D!Streams
           /\ \A d \in Devices : Current(d) \in D!Channels /\ Current(d)[1] = now /\ Current(d)[2] = d /\ Current(d)[3] = 1
           /\ \A c \in D!Channels : /\ c[1] \in D!Streams /\ c[2] \in Devices /\ c[3] \in {1, 2}
                                    /\ c[1] = now /\ c[3] # 2 => c = Current(c[2])
           /\ D!Streams \subseteq Nat
           /\ \A d, e \in Devices : Current(d) = Current(e) => d = e
BY ConstantsOK DEF PlayType, D!Streams, D!Channels, Current, D!PlayDispatchAssumption

\* What was passed on is a number.
LEMMA PassedNat ==
    ASSUME PlayType, NEW d \in Devices
    PROVE  Passed(d) \in Nat /\ Len(sent[d]) \in Nat /\ Len(chan[Current(d)]) \in Nat
<1> DEFINE a == Len(sent[d])
           b == Len(chan[Current(d)])
<1>1. a \in Nat /\ b \in Nat
    BY CurrentChannels, LenProperties DEF PlayType
<1> HIDE DEF a, b
<1>2. a + b \in Nat
    BY <1>1
<1>3. QED
    BY <1>1, <1>2 DEF Passed, a, b

\* The Core pushes a chunk.
LEMMA PushStep == ASSUME PlayInv, NEW e \in Devices, D!Push(e) PROVE PlayInv'
<1> DEFINE n == pushed[e] + 1
           x == <<e, <<now, n>>>>
<1>1. PlayType /\ ReceiverInv /\ WorkerInv /\ FlowInv /\ StatusInv
    BY DEF PlayInv
<1>2. /\ phase = "open" /\ now \notin broken
      /\ pushed' = [pushed EXCEPT ![e] = @ + 1]
      /\ UNCHANGED <<now, phase, broken, recv, table, chan, closed, worker, panicked, answer, status, sent, talks>>
    BY DEF D!Push
<1>3. pushed \in [Devices -> Nat] /\ wire \in [D!Streams -> Seq(Devices \X Job)] /\ now \in D!Streams /\ now \in Nat
    BY <1>1, CurrentChannels DEF PlayType
<1>4. pushed'[e] = n /\ n \in Nat /\ pushed' \in [Devices -> Nat] /\ \A d \in Devices \ {e} : pushed'[d] = pushed[d]
    BY <1>2, <1>3
<1>5. wire' = [wire EXCEPT ![now] = Append(@, <<e, <<now, pushed'[e]>>>>)]
    BY DEF D!Push
<1> DEFINE t == Append(wire[now], x)
<1>6. wire' = [wire EXCEPT ![now] = t]
    BY <1>3, <1>4, <1>5
<1>7. t \in Seq(Devices \X Job)
    BY <1>3, <1>4, AppendProperties DEF Job
<1> HIDE DEF x, t, n
<1>8. wire' \in [D!Streams -> Seq(Devices \X Job)] /\ wire'[now] = t /\ \A s \in D!Streams \ {now} : wire'[s] = wire[s]
    BY <1>3, <1>6, <1>7
<1>9. PlayType'
    BY <1>1, <1>2, <1>4, <1>8 DEF PlayType, D!Streams, D!Channels
<1>10. recv[now].at # "ended"
    BY <1>1, <1>2, <1>3 DEF ReceiverInv
<1>11. ReceiverInv'
    BY <1>1, <1>2, <1>3, <1>8, <1>10 DEF ReceiverInv, Current
<1>12. WorkerInv'
    BY <1>1, <1>2 DEF WorkerInv, Current
<1>13. ASSUME NEW d \in Devices PROVE (Numbered(d) /\ Waiting(d) /\ Coming(d))'
    <2>1. Numbered(d) /\ Waiting(d) /\ Coming(d)
        BY <1>1 DEF FlowInv
    <2>2. Numbered(d)' /\ Waiting(d)'
        BY <1>2, <2>1 DEF Numbered, Waiting, Current
    <2> DEFINE lo == IF Carried(d) THEN Passed(d) + 1 ELSE Passed(d)
    <2>3. lo \in Nat /\ pushed[d] \in Nat
        <3>1. Passed(d) \in Nat
            BY <1>1, PassedNat
        <3>2. Passed(d) + 1 \in Nat
            BY <3>1
        <3> HIDE DEF lo
        <3>3. lo = Passed(d) \/ lo = Passed(d) + 1
            BY DEF lo
        <3>4. lo \in Nat
            BY <3>1, <3>2, <3>3, Zenon
        <3>5. pushed[d] \in Nat
            BY <1>3
        <3>6. QED BY <3>4, <3>5
    <2>4. Covers(wire[now], now, d, lo, pushed[d])
        BY <2>1 DEF Coming
    <2>5. Passed(d)' = Passed(d) /\ (Carried(d)' <=> Carried(d)) /\ recv' = recv /\ now' = now
        BY <1>2 DEF Passed, Carried, Current
    <2>6. lo' = lo
        BY <2>5
    <2> HIDE DEF lo
    <2>7. Covers(t, now, d, lo, IF d = e THEN pushed[d] + 1 ELSE pushed[d])
        <3>1. wire[now] \in Seq(Devices \X Job) /\ (d = e => n = pushed[d] + 1)
            BY <1>3 DEF n
        <3>2. QED BY <1>3, <1>4, <2>3, <2>4, <3>1, CoversAppended DEF t, x
    <2>8. pushed'[d] = IF d = e THEN pushed[d] + 1 ELSE pushed[d]
        BY <1>4 DEF n
    <2>9. Covers(wire'[now'], now', d, lo', pushed'[d])
        BY <1>8, <2>5, <2>6, <2>7, <2>8
    <2>10. Coming(d)'
        BY <2>1, <2>5, <2>9 DEF Coming, lo
    <2>11. QED BY <2>2, <2>10
<1>14. StatusInv'
    BY <1>1, <1>2 DEF StatusInv, D!IdleAtRest, D!AtRest, Current
<1>15. QED BY <1>9, <1>11, <1>12, <1>13, <1>14 DEF PlayInv, FlowInv

\* The stream is lost: what has come can still be read.
LEMMA LostStep == ASSUME PlayInv, D!StreamLost PROVE PlayInv'
<1>1. PlayType /\ ReceiverInv /\ WorkerInv /\ FlowInv /\ StatusInv
    BY DEF PlayInv
<1>2. /\ broken' = broken \cup {now} /\ now < MaxStreams
      /\ UNCHANGED <<now, phase, wire, recv, table, chan, closed, worker, panicked, answer, status, pushed, sent, talks>>
    BY DEF D!StreamLost
<1>3. now \in Nat
    BY <1>1, CurrentChannels
<1>4. PlayType'
    BY <1>1, <1>2 DEF PlayType, D!Streams, D!Channels
<1>5. ReceiverInv'
    BY <1>1, <1>2, <1>3 DEF ReceiverInv, Current
<1>6. WorkerInv'
    BY <1>1, <1>2 DEF WorkerInv, Current
<1>7. FlowInv'
    BY <1>1, <1>2 DEF FlowInv, Numbered, Waiting, Coming, Carried, Passed, Current
<1>8. StatusInv'
    BY <1>1, <1>2 DEF StatusInv, D!IdleAtRest, D!AtRest, Current
<1>9. QED BY <1>4, <1>5, <1>6, <1>7, <1>8 DEF PlayInv

\* Whoever receives something does so on the stream that stands.
LEMMA ReceiverIsCurrent ==
    ASSUME PlayType, ReceiverInv, NEW s \in D!Streams, D!Recv(s) \/ D!WorkerChan(s) \/ D!Send(s)
    PROVE  s = now /\ phase = "open" /\ recv[s].at # "ended"
<1>1. now \in Nat /\ s \in Nat
    BY CurrentChannels
<1>2. recv[s].at \in {"recv", "dispatch", "send"}
    BY DEF D!Recv, D!WorkerChan, D!Send, D!Reading
<1>3. recv[s].at = "recv" => wire[s] # <<>> \/ s \in broken
    BY DEF D!Recv, D!WorkerChan, D!Send
<1>4. ~ (s > now)
    BY <1>1, <1>2, <1>3 DEF ReceiverInv
<1>5. ~ (s < now \/ (s = now /\ phase # "open"))
    BY <1>2 DEF ReceiverInv
<1>6. phase = "open" /\ s = now
    BY <1>1, <1>4, <1>5 DEF PlayType
<1>7. QED
    BY <1>2, <1>6

\* The receiver reads a chunk, or the loss behind the last one.
LEMMA RecvStep == ASSUME PlayInv, NEW s \in D!Streams, D!Recv(s) PROVE PlayInv'
<1> DEFINE w == wire[now]
<1>1. PlayType /\ ReceiverInv /\ WorkerInv /\ FlowInv /\ StatusInv
    BY DEF PlayInv
<1>2. /\ s = now /\ phase = "open" /\ recv[now].at = "recv"
      /\ UNCHANGED <<now, phase, broken, table, chan, closed, worker, panicked, answer, status, pushed, sent, talks>>
    BY <1>1, ReceiverIsCurrent DEF D!Recv, D!Reading
<1>3. /\ w \in Seq(Devices \X Job) /\ now \in D!Streams /\ now \in Nat
      /\ wire \in [D!Streams -> Seq(Devices \X Job)] /\ recv = [r \in D!Streams |-> recv[r]]
    BY <1>1, CurrentChannels DEF PlayType
<1>4. PlayType'
    <2>1. recv' = [r \in D!Streams |-> recv'[r]]
        BY <1>2, <1>3 DEF D!Recv
    <2>2. wire' \in [D!Streams -> Seq(Devices \X Job)]
        <3>1. w # <<>> => Tail(w) \in Seq(Devices \X Job)
            BY <1>3, HeadTailProperties
        <3>2. wire' = wire \/ (w # <<>> /\ wire' = [wire EXCEPT ![now] = Tail(w)])
            BY <1>2, <1>3 DEF D!Recv
        <3>3. QED BY <1>3, <3>1, <3>2
    <2>3. QED BY <1>1, <1>2, <2>1, <2>2 DEF PlayType, D!Streams, D!Channels
<1>5. \A d \in Devices : ~Carried(d) /\ Passed(d)' = Passed(d) /\ Passed(d) \in Nat /\ pushed[d] \in Nat
    BY <1>1, <1>2, PassedNat DEF Carried, Passed, Current, PlayType
<1>6. \A d \in Devices : Covers(w, now, d, Passed(d), pushed[d])
    BY <1>1, <1>5 DEF FlowInv, Coming
<1>7. WorkerInv'
    <2>1. \A r \in D!Streams : recv[r].at = "ended" => recv'[r].at = "ended"
        BY <1>2, <1>3 DEF D!Recv
    <2>2. QED BY <1>1, <1>2, <2>1 DEF WorkerInv, Current, PlayType, D!Channels
<1>8. StatusInv'
    BY <1>1, <1>2 DEF StatusInv, D!IdleAtRest, D!AtRest, Current
<1>9. \A d \in Devices : Numbered(d)' /\ Waiting(d)'
    BY <1>1, <1>2 DEF FlowInv, Numbered, Waiting, Current
<1>10. CASE w # <<>>
    <2> DEFINE x == Head(w)
    <2>1. /\ wire' = [wire EXCEPT ![now] = Tail(w)]
          /\ recv' = [recv EXCEPT ![now] = [at |-> "dispatch", device |-> x[1], job |-> x[2]]]
        BY <1>2, <1>3, <1>10 DEF D!Recv
    <2>2. x \in Devices \X Job /\ x[1] \in Devices
        BY <1>3, <1>10, HeadTailProperties
    <2>3. /\ recv'[now].at = "dispatch" /\ recv'[now].device = x[1] /\ recv'[now].job = x[2]
          /\ wire'[now] = Tail(w)
          /\ \A r \in D!Streams \ {now} : recv'[r] = recv[r] /\ wire'[r] = wire[r]
        BY <1>3, <2>1
    <2> HIDE DEF x
    <2>4. ReceiverInv'
        <3>1. \A r \in D!Streams : r > now => r # now
            BY <1>3
        <3>2. \A r \in D!Streams : r < now => r # now
            BY <1>3
        <3>3. QED BY <1>1, <1>2, <2>2, <2>3, <3>1, <3>2 DEF ReceiverInv, Current
    <2>5. ASSUME NEW d \in Devices PROVE Coming(d)'
        <3>1. /\ x[1] = d => x[2] = <<now, Passed(d) + 1>>
              /\ Covers(Tail(w), now, d, IF x[1] = d THEN Passed(d) + 1 ELSE Passed(d), pushed[d])
            <4>1. /\ w \in Seq(Devices \X Job) /\ w # <<>> /\ now \in Nat
                  /\ Passed(d) \in Nat /\ pushed[d] \in Nat /\ Covers(w, now, d, Passed(d), pushed[d])
                BY <1>3, <1>5, <1>6, <1>10
            <4> HIDE DEF w
            <4>2. /\ Head(w)[1] = d => Head(w)[2] = <<now, Passed(d) + 1>>
                  /\ Covers(Tail(w), now, d, IF Head(w)[1] = d THEN Passed(d) + 1 ELSE Passed(d), pushed[d])
                <5> DEFINE lo == Passed(d)
                           hi == pushed[d]
                <5>1. lo \in Nat /\ hi \in Nat /\ Covers(w, now, d, lo, hi)
                    BY <4>1
                <5> HIDE DEF lo, hi
                <5>2. Head(w)[1] = d => Head(w)[2] = <<now, lo + 1>> /\ Covers(Tail(w), now, d, lo + 1, hi)
                    BY <4>1, <5>1, CoversTaken
                <5>3. Head(w)[1] # d => Covers(Tail(w), now, d, lo, hi)
                    BY <4>1, <5>1, CoversTaken
                <5>4. QED BY <5>2, <5>3 DEF lo, hi
            <4>3. QED BY <4>2, Zenon DEF x, w
        <3>2. Carried(d)' <=> x[1] = d
            BY <1>2, <2>3 DEF Carried
        <3>3. QED BY <1>2, <1>5, <2>3, <3>1, <3>2 DEF Coming
    <2>6. QED BY <1>4, <1>7, <1>8, <1>9, <2>4, <2>5 DEF PlayInv, FlowInv
<1>11. CASE w = <<>>
    <2>1. now \in broken /\ recv' = [recv EXCEPT ![now] = [at |-> "ended"]] /\ wire' = wire
        BY <1>2, <1>11 DEF D!Recv
    <2>2. recv'[now].at = "ended" /\ \A r \in D!Streams \ {now} : recv'[r] = recv[r]
        BY <1>3, <2>1
    <2>3. ReceiverInv'
        <3>1. \A r \in D!Streams : r > now => r # now
            BY <1>3
        <3>2. \A r \in D!Streams : r < now => r # now
            BY <1>3
        <3>3. QED BY <1>1, <1>2, <1>11, <2>1, <2>2, <3>1, <3>2 DEF ReceiverInv, Current
    <2>4. ASSUME NEW d \in Devices PROVE Coming(d)'
        <3>1. ~Carried(d)'
            BY <1>2, <2>2 DEF Carried
        <3>2. QED BY <1>2, <1>5, <1>6, <2>1, <3>1 DEF Coming
    <2>5. QED BY <1>4, <1>7, <1>8, <1>9, <2>3, <2>4 DEF PlayInv, FlowInv
<1>12. QED BY <1>10, <1>11

\* The receiver looks up the device's channel, or makes it with its worker.
LEMMA WorkerChanStep == ASSUME PlayInv, NEW s \in D!Streams, D!WorkerChan(s) PROVE PlayInv'
<1> DEFINE e == recv[now].device
           job == recv[now].job
<1>1. PlayType /\ ReceiverInv /\ WorkerInv /\ FlowInv /\ StatusInv
    BY DEF PlayInv
<1>2. /\ s = now /\ phase = "open" /\ recv[now].at = "dispatch" /\ e \in Devices
      /\ UNCHANGED <<now, phase, broken, wire, chan, closed, panicked, answer, status, pushed, sent, talks>>
    BY <1>1, ReceiverIsCurrent DEF D!WorkerChan, ReceiverInv
<1>3. /\ now \in D!Streams /\ now \in Nat /\ recv = [r \in D!Streams |-> recv[r]]
      /\ table \in [D!Streams -> [Devices -> 0..2]] /\ worker = [c \in D!Channels |-> worker[c]]
    BY <1>1, CurrentChannels DEF PlayType
<1>4. table[now][e] \in {0, 1} /\ ~ (now < now)
    <2>1. table[now][e] \in {0, 1}
        <3> HIDE DEF e
        <3>1. QED BY <1>1, <1>2 DEF WorkerInv
    <2>2. ~ (now < now)
        BY <1>3
    <2>3. QED BY <2>1, <2>2
<1>5. /\ table' = [table EXCEPT ![now][e] = 1]
      /\ worker' = [worker EXCEPT ![Current(e)] = IF table[now][e] = 0 THEN D!Idle ELSE @]
      /\ recv' = [recv EXCEPT ![now] = [at |-> "send", channel |-> Current(e), job |-> job]]
    <2>1. LET k == IF table[now][e] # 0 THEN table[now][e] ELSE IF now < now \/ phase # "open" THEN 2 ELSE 1
          IN  /\ table' = [table EXCEPT ![now][e] = k]
              /\ worker' = [worker EXCEPT ![<<now, e, k>>] = IF table[now][e] = 0 THEN D!Idle ELSE @]
              /\ recv' = [recv EXCEPT ![now] = [at |-> "send", channel |-> <<now, e, k>>, job |-> @.job]]
        BY <1>2 DEF D!WorkerChan
    <2>2. (IF table[now][e] # 0 THEN table[now][e] ELSE IF now < now \/ phase # "open" THEN 2 ELSE 1) = 1
        BY <1>2, <1>4
    <2>3. QED BY <1>3, <2>1, <2>2 DEF Current
<1> HIDE DEF e, job
<1>6. /\ recv'[now].at = "send" /\ recv'[now].channel = Current(e) /\ recv'[now].job = job
      /\ \A r \in D!Streams \ {now} : recv'[r] = recv[r]
      /\ recv' = [r \in D!Streams |-> recv'[r]]
    BY <1>3, <1>5
<1>7. /\ table' \in [D!Streams -> [Devices -> 0..2]] /\ table'[now][e] = 1
      /\ \A d \in Devices \ {e} : table'[now][d] = table[now][d]
      /\ \A r \in D!Streams \ {now} : table'[r] = table[r]
    BY <1>2, <1>3, <1>5
<1>8. Current(e) \in D!Channels /\ Current(e)[1] = now
    BY <1>1, <1>2, CurrentChannels
<1>9. /\ worker' = [c \in D!Channels |-> worker'[c]]
      /\ \A c \in D!Channels \ {Current(e)} : worker'[c] = worker[c]
      /\ table[now][e] = 0 => worker[Current(e)].at = "none" /\ worker'[Current(e)].at = "idle"
      /\ table[now][e] # 0 => worker'[Current(e)] = worker[Current(e)]
    BY <1>1, <1>2, <1>3, <1>5, <1>8 DEF WorkerInv, D!Idle
<1>10. Current(e) \notin closed
    BY <1>1, <1>2, <1>8 DEF WorkerInv
<1>11. PlayType'
    BY <1>1, <1>2, <1>6, <1>7, <1>9 DEF PlayType, D!Streams, D!Channels
<1>12. ReceiverInv'
    <2>1. \A r \in D!Streams : r > now => r # now
        BY <1>3
    <2>2. \A r \in D!Streams : r < now => r # now
        BY <1>3
    <2>3. QED BY <1>1, <1>2, <1>6, <1>7, <2>1, <2>2 DEF ReceiverInv, Current
<1>13. WorkerInv'
    <2>1. \A c \in closed' : recv'[c[1]].at = "ended"
        BY <1>1, <1>2, <1>6 DEF WorkerInv, PlayType, D!Channels
    <2>2. \A c \in D!Channels : worker'[c].at \in {"none", "gone"} => worker'[c] = worker[c] \/ worker[c].at \in {"none", "gone"}
        BY <1>9
    <2>3. \A c \in D!Channels : worker'[c].at \in {"none", "gone"} => chan'[c] = <<>>
        BY <1>1, <1>2, <2>2 DEF WorkerInv
    <2>4. \A c \in D!Channels : worker'[c].at = "gone" => c \in closed'
        BY <1>1, <1>2, <1>9 DEF WorkerInv
    <2>5. \A c \in D!Channels : c[1] # now' \/ c[3] = 2 \/ phase' = "waiting" => worker'[c].at \in {"none", "gone"}
        BY <1>1, <1>2, <1>9, CurrentChannels DEF WorkerInv
    <2>6. ASSUME NEW d \in Devices
          PROVE  /\ table'[now][d] \in {0, 1}
                 /\ table'[now][d] = 1 => Current(d) \notin closed' /\ worker'[Current(d)].at # "none"
                 /\ table'[now][d] = 0 => worker'[Current(d)].at = "none"
        <3>1. CASE d = e
            <4>1. worker'[Current(e)].at # "none"
                BY <1>1, <1>2, <1>4, <1>9 DEF WorkerInv
            <4>2. QED BY <1>2, <1>7, <1>10, <3>1, <4>1
        <3>2. CASE d # e
            <4>1. Current(d) \in D!Channels \ {Current(e)}
                BY <1>1, <1>2, <3>2, CurrentChannels
            <4>2. QED BY <1>1, <1>2, <1>7, <1>9, <3>2, <4>1 DEF WorkerInv
        <3>3. QED BY <3>1, <3>2
    <2>7. \A d \in Devices : Current(d)' = Current(d)
        BY <1>2 DEF Current
    <2>8. QED BY <1>2, <2>1, <2>3, <2>4, <2>5, <2>6, <2>7 DEF WorkerInv
<1>14. FlowInv'
    <2>1. ASSUME NEW d \in Devices PROVE (Carried(d)' <=> Carried(d)) /\ recv'[now].job = recv[now].job
        BY <1>1, <1>2, <1>6, CurrentChannels DEF Carried, e, job
    <2>2. \A d \in Devices : Passed(d)' = Passed(d) /\ Numbered(d)' = Numbered(d) /\ Waiting(d)' = Waiting(d)
        BY <1>2 DEF Passed, Numbered, Waiting, Current
    <2>3. \A d \in Devices : Coming(d) => Coming(d)'
        BY <1>2, <2>1, <2>2 DEF Coming
    <2>4. QED BY <1>1, <2>2, <2>3 DEF FlowInv
<1>15. StatusInv'
    <2>1. \A c \in D!Channels : /\ worker'[c].at = "playing" <=> worker[c].at = "playing"
                                /\ worker'[c].at = "playing" => worker'[c] = worker[c]
        BY <1>4, <1>9
    <2>2. \A d \in Devices : Current(d)' = Current(d) /\ Current(d) \in D!Channels
        BY <1>1, <1>2, CurrentChannels DEF Current
    <2>3. \A d \in Devices : D!AtRest(d)' => D!AtRest(d)
        BY <1>2, <2>1 DEF D!AtRest
    <2>4. D!IdleAtRest'
        BY <1>1, <1>2, <2>3 DEF StatusInv, D!IdleAtRest
    <2>5. QED BY <1>1, <1>2, <2>1, <2>2, <2>4 DEF StatusInv
<1>16. QED BY <1>11, <1>12, <1>13, <1>14, <1>15 DEF PlayInv

\* The receiver puts the chunk into the channel, which is not closed.
LEMMA SendStep == ASSUME PlayInv, NEW s \in D!Streams, D!Send(s) PROVE PlayInv'
<1>1. PlayType /\ ReceiverInv /\ WorkerInv /\ FlowInv /\ StatusInv
    BY DEF PlayInv
<1>2. /\ s = now /\ phase = "open" /\ recv[now].at = "send" /\ recv[now].at # "ended"
      /\ UNCHANGED <<now, phase, broken, wire, table, closed, worker, answer, status, pushed, sent, talks>>
    BY <1>1, ReceiverIsCurrent DEF D!Send
<1>3. PICK e \in Devices : recv[now].channel = Current(e) /\ table[now][e] = 1
    BY <1>1, <1>2 DEF ReceiverInv
<1> DEFINE job == recv[now].job
           ch == chan[Current(e)]
<1>4. /\ now \in D!Streams /\ now \in Nat /\ recv = [r \in D!Streams |-> recv[r]]
      /\ chan \in [D!Channels -> Seq(Job)] /\ ch \in Seq(Job) /\ Current(e) \in D!Channels /\ Current(e)[1] = now
      /\ Current(e)[2] = e
    BY <1>1, <1>3, CurrentChannels DEF PlayType
<1>5. Current(e) \notin closed /\ worker[Current(e)].at \notin {"none", "gone"}
    <2>1. Current(e) \notin closed /\ worker[Current(e)].at # "none"
        BY <1>1, <1>3 DEF WorkerInv
    <2>2. worker[Current(e)].at # "gone"
        BY <1>1, <1>4, <2>1 DEF WorkerInv
    <2>3. QED BY <2>1, <2>2
<1>6. chan' = [chan EXCEPT ![Current(e)] = Append(@, job)] /\ recv' = [recv EXCEPT ![now] = D!Reading] /\ ~panicked'
    BY <1>2, <1>3, <1>5 DEF D!Send
<1>7. job = <<now, Passed(e) + 1>> /\ Passed(e) \in Nat /\ job \in Job /\ Carried(e)
    <2>1. Carried(e) /\ job = <<now, Passed(e) + 1>>
        BY <1>1, <1>2, <1>3, <1>4 DEF Carried, FlowInv, Coming
    <2>2. Passed(e) \in Nat
        BY <1>1, PassedNat
    <2>3. <<now, Passed(e) + 1>> \in Job
        BY <1>4, <2>2 DEF Job
    <2>4. QED BY <2>1, <2>2, <2>3
<1> DEFINE t == Append(ch, job)
<1>8. /\ t \in Seq(Job) /\ Len(t) = Len(ch) + 1 /\ Len(ch) \in Nat
      /\ \A i \in 1..Len(ch) : t[i] = ch[i]
      /\ t[Len(ch) + 1] = job
    BY <1>4, <1>7, AppendProperties
<1>9. /\ chan'[Current(e)] = t /\ \A c \in D!Channels \ {Current(e)} : chan'[c] = chan[c]
      /\ chan' \in [D!Channels -> Seq(Job)]
    BY <1>4, <1>6, <1>8
<1>10. /\ recv'[now].at = "recv" /\ \A r \in D!Streams \ {now} : recv'[r] = recv[r]
       /\ recv' = [r \in D!Streams |-> recv'[r]]
    BY <1>4, <1>6 DEF D!Reading
<1> HIDE DEF job, ch, t
<1>11. PlayType'
    BY <1>1, <1>2, <1>9, <1>10 DEF PlayType, D!Streams, D!Channels
<1>12. ReceiverInv'
    <2>1. \A r \in D!Streams : r > now => r # now
        BY <1>4
    <2>2. \A r \in D!Streams : r < now => r # now
        BY <1>4
    <2>3. QED BY <1>1, <1>2, <1>6, <1>10, <2>1, <2>2 DEF ReceiverInv, Current
<1>13. WorkerInv'
    <2>1. \A c \in closed' : recv'[c[1]].at = "ended"
        BY <1>1, <1>2, <1>10 DEF WorkerInv, PlayType, D!Channels
    <2>2. \A c \in D!Channels : worker'[c].at \in {"none", "gone"} => chan'[c] = <<>>
        BY <1>1, <1>2, <1>5, <1>9 DEF WorkerInv
    <2>3. \A d \in Devices : Current(d)' = Current(d)
        BY <1>2 DEF Current
    <2>4. QED BY <1>1, <1>2, <2>1, <2>2, <2>3 DEF WorkerInv
<1>14. ASSUME NEW d \in Devices PROVE (Numbered(d) /\ Waiting(d) /\ Coming(d))'
    <2>1. Numbered(d) /\ Waiting(d) /\ Coming(d)
        BY <1>1 DEF FlowInv
    <2>2. Numbered(d)'
        BY <1>2, <2>1 DEF Numbered
    <2>3. ~Carried(d)'
        BY <1>2, <1>10 DEF Carried
    <2>4. CASE d = e
        <3> DEFINE a == Len(sent[e])
                   b == Len(ch)
        <3>1. a \in Nat /\ b \in Nat /\ Passed(e) = a + b
            BY <1>1, PassedNat DEF Passed, ch
        <3>2. Passed(e)' = a + Len(t)
            BY <1>2, <1>9 DEF Passed, Current
        <3>3. Len(t) = b + 1
            BY <1>8
        <3> HIDE DEF a, b
        <3>4. Passed(e)' = Passed(e) + 1
            BY <3>1, <3>2, <3>3
        <3>5. \A i \in 1..b : ch[i] = <<now, a + i>>
            BY <2>1, <2>4 DEF Waiting, ch, a, b
        <3>6. \A i \in 1..b : t[i] = ch[i]
            BY <1>8 DEF b
        <3>7. t[b + 1] = <<now, a + (b + 1)>>
            <4>1. Passed(e) + 1 = a + (b + 1)
                BY <3>1
            <4>2. QED BY <1>7, <1>8, <4>1 DEF b
        <3>8. \A i \in 1..(b + 1) : t[i] = <<now, a + i>>
            BY <3>1, <3>5, <3>6, <3>7
        <3>9. Waiting(e)'
            BY <1>2, <1>9, <3>3, <3>8 DEF Waiting, Current, a
        <3>10. Covers(wire[now], now, e, Passed(e) + 1, pushed[e])
            BY <1>7, <2>1, <2>4 DEF Coming
        <3>11. Coming(e)'
            BY <1>2, <2>3, <2>4, <3>4, <3>10 DEF Coming
        <3>12. QED BY <2>2, <2>4, <3>9, <3>11
    <2>5. CASE d # e
        <3>1. Current(d) \in D!Channels \ {Current(e)}
            BY <1>1, <2>5, CurrentChannels
        <3>2. ~Carried(d)
            BY <1>2, <1>3, <1>4, <2>5 DEF Carried
        <3>3. chan'[Current(d)'] = chan[Current(d)] /\ Current(d)' = Current(d)
            BY <1>2, <1>9, <3>1 DEF Current
        <3>4. Passed(d)' = Passed(d)
            BY <1>2, <3>3 DEF Passed
        <3>5. Waiting(d)'
            BY <1>2, <2>1, <3>3 DEF Waiting
        <3>6. Covers(wire[now], now, d, Passed(d), pushed[d])
            BY <2>1, <3>2 DEF Coming
        <3>7. Coming(d)'
            BY <1>2, <2>3, <3>4, <3>6 DEF Coming
        <3>8. QED BY <2>2, <3>5, <3>7
    <2>6. QED BY <2>4, <2>5
<1>15. StatusInv'
    <2>1. t # <<>>
        BY <1>8
    <2>2. \A c \in D!Channels : chan'[c] = <<>> => chan[c] = <<>>
        BY <1>9, <2>1
    <2>3. \A d \in Devices : D!AtRest(d)' => D!AtRest(d)
        BY <1>2, <2>2 DEF D!AtRest
    <2>4. D!IdleAtRest'
        BY <1>1, <1>2, <2>3 DEF StatusInv, D!IdleAtRest
    <2>5. QED BY <1>1, <1>2, <2>4 DEF StatusInv, Current
<1>16. QED BY <1>11, <1>12, <1>13, <1>14, <1>15 DEF PlayInv, FlowInv

\* A worker that has something to do is that of a device's current channel.
LEMMA WorkerIsCurrent ==
    ASSUME PlayType, WorkerInv, NEW c \in D!Channels, worker[c].at \notin {"none", "gone"}
    PROVE  c[2] \in Devices /\ c = Current(c[2]) /\ phase # "waiting"
<1>1. c[1] = now /\ c[3] # 2 /\ phase # "waiting"
    BY DEF WorkerInv
<1>2. QED
    BY <1>1, CurrentChannels

\* The worker takes the next chunk.
LEMMA PlayedStep == ASSUME PlayInv, NEW c \in D!Channels, D!Play(c) PROVE PlayInv'
<1> DEFINE e == c[2]
           ch == chan[c]
           L == sent[e]
           job == Head(ch)
           t == Append(L, job)
<1>1. PlayType /\ ReceiverInv /\ WorkerInv /\ FlowInv /\ StatusInv
    BY DEF PlayInv
<1>2. /\ worker[c] = D!Idle /\ ch # <<>>
      /\ worker' = [worker EXCEPT ![c] = [at |-> "playing", job |-> job]]
      /\ chan' = [chan EXCEPT ![c] = Tail(@)]
      /\ sent' = [sent EXCEPT ![e] = Append(@, job)]
      /\ status' = [status EXCEPT ![e] = "speaking"]
      /\ UNCHANGED <<now, phase, broken, wire, recv, table, closed, panicked, answer, pushed, talks>>
    BY DEF D!Play
<1>3. worker[c].at = "idle"
    BY <1>2 DEF D!Idle
<1>4. e \in Devices /\ c = Current(e) /\ phase # "waiting" /\ c[1] = now
    BY <1>1, <1>3, WorkerIsCurrent, CurrentChannels
<1>5. /\ now \in D!Streams /\ now \in Nat /\ chan \in [D!Channels -> Seq(Job)] /\ ch \in Seq(Job)
      /\ worker = [k \in D!Channels |-> worker[k]] /\ sent \in [Devices -> Seq(Job)] /\ L \in Seq(Job)
      /\ status = [d \in Devices |-> status[d]]
    BY <1>1, <1>4, CurrentChannels DEF PlayType
<1>6. /\ job \in Job /\ job = ch[1] /\ Tail(ch) \in Seq(Job) /\ Len(Tail(ch)) = Len(ch) - 1
      /\ \A i \in 1..Len(Tail(ch)) : Tail(ch)[i] = ch[i + 1]
      /\ Len(ch) \in Nat \ {0}
    BY <1>2, <1>5, HeadTailProperties, EmptySeq
<1>7. /\ t \in Seq(Job) /\ Len(t) = Len(L) + 1 /\ Len(L) \in Nat
      /\ \A i \in 1..Len(L) : t[i] = L[i]
      /\ t[Len(L) + 1] = job
    BY <1>5, <1>6, AppendProperties
<1>8. /\ chan'[c] = Tail(ch) /\ \A k \in D!Channels \ {c} : chan'[k] = chan[k]
      /\ chan' \in [D!Channels -> Seq(Job)]
    BY <1>2, <1>5, <1>6
<1>9. /\ sent'[e] = t /\ \A d \in Devices \ {e} : sent'[d] = sent[d]
      /\ sent' \in [Devices -> Seq(Job)]
    BY <1>2, <1>4, <1>5, <1>7
<1>10. /\ worker'[c].at = "playing" /\ worker'[c].job = job /\ \A k \in D!Channels \ {c} : worker'[k] = worker[k]
       /\ worker' = [k \in D!Channels |-> worker'[k]]
       /\ status' = [d \in Devices |-> status'[d]] /\ \A d \in Devices \ {e} : status'[d] = status[d]
    BY <1>2, <1>4, <1>5
<1> HIDE DEF e, ch, L, job, t
<1>11. PlayType'
    BY <1>1, <1>2, <1>8, <1>9, <1>10 DEF PlayType, D!Streams, D!Channels
<1>12. ReceiverInv'
    BY <1>1, <1>2 DEF ReceiverInv, Current
<1>13. WorkerInv'
    <2>1. \A k \in D!Channels : worker'[k].at \in {"none", "gone"} => k # c /\ worker'[k] = worker[k] /\ chan'[k] = chan[k]
        BY <1>8, <1>10
    <2>2. \A k \in D!Channels : worker'[k].at = "none" => worker[k].at = "none"
        BY <2>1
    <2>3. \A k \in D!Channels : k[1] # now \/ k[3] = 2 \/ phase = "waiting" => worker'[k].at \in {"none", "gone"}
        <3>1. ~ (c[1] # now \/ c[3] = 2 \/ phase = "waiting")
            BY <1>1, <1>3 DEF WorkerInv
        <3>2. QED BY <1>1, <1>10, <3>1 DEF WorkerInv
    <2>4. \A d \in Devices : Current(d)' = Current(d) /\ Current(d) \in D!Channels
        BY <1>1, <1>2, CurrentChannels DEF Current
    <2>5. \A d \in Devices : table[now][d] = 0 /\ phase = "open" => worker'[Current(d)].at = "none"
        BY <1>1, <1>3, <1>10, <2>4 DEF WorkerInv
    <2>6. QED BY <1>1, <1>2, <2>1, <2>2, <2>3, <2>4, <2>5 DEF WorkerInv
<1>14. job = <<now, Len(L) + 1>>
    BY <1>1, <1>4, <1>6 DEF FlowInv, Waiting, ch, L
<1>15. ASSUME NEW d \in Devices PROVE (Numbered(d) /\ Waiting(d) /\ Coming(d))'
    <2>1. Numbered(d) /\ Waiting(d) /\ Coming(d)
        BY <1>1 DEF FlowInv
    <2>2. Carried(d)' = Carried(d)
        BY <1>2 DEF Carried
    <2>3. CASE d = e
        <3> DEFINE a == Len(L)
                   b == Len(ch)
        <3>1. a \in Nat /\ b \in Nat \ {0} /\ Passed(e) = a + b
            BY <1>4, <1>6, <1>7 DEF Passed, ch, L
        <3>2. Passed(e)' = Len(t) + Len(Tail(ch))
            BY <1>2, <1>4, <1>8, <1>9 DEF Passed, Current
        <3>3. Len(t) = a + 1 /\ Len(Tail(ch)) = b - 1
            BY <1>6, <1>7
        <3>4. \A i \in 1..a : L[i][2] = i /\ L[i][1] <= now /\ \A j \in 1..i : L[j][1] <= L[i][1]
            BY <2>1, <2>3 DEF Numbered, L, a
        <3>5. \A i \in 1..b : ch[i] = <<now, a + i>>
            BY <1>4, <2>1, <2>3 DEF Waiting, L, ch, a, b
        <3>6. \A i \in 1..a : t[i] = L[i]
            BY <1>7 DEF a
        <3>7. t[a + 1][1] = now /\ t[a + 1][2] = a + 1
            BY <1>7, <1>14 DEF a
        <3>8. \A i \in 1..(b - 1) : Tail(ch)[i] = ch[i + 1]
            BY <1>6 DEF b
        <3> HIDE DEF a, b
        <3>9. Passed(e)' = Passed(e)
            <4> DEFINE x == Len(t)
                       y == Len(Tail(ch))
            <4>1. x = a + 1 /\ y = b - 1 /\ Passed(e)' = x + y
                BY <3>2, <3>3
            <4> HIDE DEF x, y
            <4>2. x + y = a + b
                BY <3>1, <4>1
            <4>3. QED BY <3>1, <4>1, <4>2
        <3>10. Numbered(e)'
            <4>1. \A i \in 1..(a + 1) : i \in 1..a \/ i = a + 1
                BY <3>1
            <4>2. ASSUME NEW i \in 1..(a + 1)
                  PROVE  t[i][2] = i /\ t[i][1] <= now /\ \A j \in 1..i : t[j][1] <= t[i][1]
                <5>1. CASE i \in 1..a
                    <6>1. \A j \in 1..i : j \in 1..a
                        BY <3>1, <5>1
                    <6>2. QED BY <3>4, <3>6, <5>1, <6>1
                <5>2. CASE i = a + 1
                    <6>1. now <= now
                        BY <1>5
                    <6>2. ASSUME NEW j \in 1..(a + 1) PROVE t[j][1] <= now
                        <7>1. CASE j \in 1..a
                            BY <3>4, <3>6, <7>1
                        <7>2. CASE j = a + 1
                            BY <3>7, <6>1, <7>2
                        <7>3. QED BY <4>1, <7>1, <7>2
                    <6>3. QED BY <3>7, <5>2, <6>1, <6>2
                <5>3. QED BY <4>1, <5>1, <5>2
            <4>3. QED BY <1>2, <1>9, <3>3, <4>2 DEF Numbered
        <3>11. Waiting(e)'
            <4>1. ASSUME NEW i \in 1..(b - 1) PROVE Tail(ch)[i] = <<now, (a + 1) + i>>
                <5>1. i + 1 \in 1..b /\ a + (i + 1) = (a + 1) + i
                    BY <3>1
                <5>2. QED BY <3>5, <3>8, <5>1
            <4>2. chan'[Current(e)'] = Tail(ch)
                BY <1>2, <1>4, <1>8 DEF Current
            <4>3. QED BY <1>2, <1>9, <3>3, <4>1, <4>2 DEF Waiting
        <3>12. Coming(e)'
            BY <1>2, <2>1, <2>2, <2>3, <3>9 DEF Coming
        <3>13. QED BY <2>3, <3>10, <3>11, <3>12
    <2>4. CASE d # e
        <3>1. Current(d) \in D!Channels \ {c}
            BY <1>1, <1>4, <2>4, CurrentChannels
        <3>2. chan'[Current(d)'] = chan[Current(d)] /\ sent'[d] = sent[d]
            BY <1>2, <1>8, <1>9, <2>4, <3>1 DEF Current
        <3>3. Passed(d)' = Passed(d)
            BY <3>2 DEF Passed
        <3>4. Numbered(d)' /\ Waiting(d)' /\ Coming(d)'
            BY <1>2, <2>1, <2>2, <3>2, <3>3 DEF Numbered, Waiting, Coming
        <3>5. QED BY <3>4
    <2>5. QED BY <2>3, <2>4
<1>16. StatusInv'
    <2>1. ASSUME NEW d \in Devices, worker'[Current(d)].at = "playing"
          PROVE  sent'[d] # <<>> /\ worker'[Current(d)].job = sent'[d][Len(sent'[d])]
        <3>1. CASE d = e
            BY <1>4, <1>7, <1>9, <1>10, <3>1
        <3>2. CASE d # e
            <4>1. Current(d) \in D!Channels \ {c}
                BY <1>1, <1>4, <3>2, CurrentChannels
            <4>2. QED BY <1>1, <1>9, <1>10, <2>1, <3>2, <4>1 DEF StatusInv
        <3>3. QED BY <3>1, <3>2
    <2>2. ~D!AtRest(e)'
        BY <1>10 DEF D!AtRest, e
    <2>3. ASSUME NEW d \in Devices \ {e}, D!AtRest(d)' PROVE D!AtRest(d)
        <3>1. \A k \in D!Channels : k[2] = d => k # c
            BY DEF e
        <3>2. QED BY <1>2, <1>8, <1>10, <2>3, <3>1 DEF D!AtRest
    <2>4. D!IdleAtRest'
        BY <1>1, <1>9, <1>10, <2>2, <2>3 DEF StatusInv, D!IdleAtRest
    <2>5. Current(e)' = Current(e) /\ \A d \in Devices : Current(d)' = Current(d)
        BY <1>2 DEF Current
    <2>6. QED BY <2>1, <2>4, <2>5 DEF StatusInv
<1>17. QED BY <1>11, <1>12, <1>13, <1>15, <1>16 DEF PlayInv, FlowInv

\* The worker has played the chunk; after an announcement's last one the
\* satellite is shown idle.
LEMMA ChunkDoneStep == ASSUME PlayInv, NEW c \in D!Channels, D!ChunkDone(c) PROVE PlayInv'
<1> DEFINE e == c[2]
<1>1. PlayType /\ ReceiverInv /\ WorkerInv /\ FlowInv /\ StatusInv
    BY DEF PlayInv
<1>2. /\ worker[c].at = "playing"
      /\ status' = D!StatusAfter(e, worker[c].job)
      /\ worker' = [worker EXCEPT ![c] = D!Idle]
      /\ UNCHANGED <<now, phase, broken, wire, recv, table, chan, closed, panicked, answer, pushed, sent, talks>>
    BY DEF D!ChunkDone
<1>3. worker[c].at \notin {"none", "gone"}
    BY <1>2
<1>4. e \in Devices /\ c = Current(e) /\ phase # "waiting" /\ c[1] = now
    BY <1>1, <1>3, WorkerIsCurrent, CurrentChannels
<1>5. worker = [k \in D!Channels |-> worker[k]] /\ status = [d \in Devices |-> status[d]]
    BY <1>1 DEF PlayType
<1>6. /\ worker'[c].at = "idle" /\ \A k \in D!Channels \ {c} : worker'[k] = worker[k]
      /\ worker' = [k \in D!Channels |-> worker'[k]]
    BY <1>2, <1>5 DEF D!Idle
<1>7. /\ status' = [d \in Devices |-> status'[d]] /\ \A d \in Devices \ {e} : status'[d] = status[d]
      /\ D!IsLast(worker[c].job) => status'[e] = "idle"
    BY <1>2, <1>4, <1>5 DEF D!StatusAfter
<1> HIDE DEF e
<1>8. PlayType'
    BY <1>1, <1>2, <1>6, <1>7 DEF PlayType, D!Streams, D!Channels
<1>9. ReceiverInv'
    BY <1>1, <1>2 DEF ReceiverInv, Current
<1>10. WorkerInv'
    <2>1. \A k \in D!Channels : /\ worker'[k].at \in {"none", "gone"} <=> worker[k].at \in {"none", "gone"}
                                /\ worker'[k].at = "none" <=> worker[k].at = "none"
                                /\ worker'[k].at = "gone" <=> worker[k].at = "gone"
        BY <1>3, <1>6
    <2>2. \A d \in Devices : Current(d)' = Current(d) /\ Current(d) \in D!Channels
        BY <1>1, <1>2, CurrentChannels DEF Current
    <2>3. QED BY <1>1, <1>2, <2>1, <2>2 DEF WorkerInv
<1>11. FlowInv'
    BY ZenonT(40), <1>1, <1>2 DEF FlowInv, Numbered, Waiting, Coming, Carried, Passed, Current
<1>12. StatusInv'
    <2>1. \A d \in Devices : Current(d)' = Current(d) /\ Current(d) \in D!Channels
        BY <1>1, <1>2, CurrentChannels DEF Current
    <2>2. \A d \in Devices : worker'[Current(d)].at = "playing" => worker'[Current(d)] = worker[Current(d)]
        BY <1>6, <2>1
    <2>3. worker[c].job = sent[e][Len(sent[e])]
        BY <1>1, <1>2, <1>4 DEF StatusInv
    <2>4. ASSUME NEW d \in Devices, D!AtRest(d)', d # e PROVE D!AtRest(d)
        <3>1. \A k \in D!Channels : k[2] = d => k # c
            BY <2>4 DEF e
        <3>2. QED BY <1>2, <1>6, <2>4, <3>1 DEF D!AtRest
    <2>5. ASSUME NEW d \in Devices, D!AtRest(d)', sent'[d] = <<>> \/ D!IsLast(sent'[d][Len(sent'[d])])
          PROVE  status'[d] = "idle"
        <3>1. CASE d = e
            <4>1. sent[e] # <<>>
                BY <1>1, <1>2, <1>4 DEF StatusInv
            <4>2. QED BY <1>2, <1>7, <2>3, <2>5, <3>1, <4>1
        <3>2. CASE d # e
            BY <1>1, <1>2, <1>7, <2>4, <2>5, <3>2 DEF StatusInv, D!IdleAtRest
        <3>3. QED BY <3>1, <3>2
    <2>6. D!IdleAtRest'
        BY <2>5 DEF D!IdleAtRest
    <2>7. QED BY <1>1, <1>2, <2>1, <2>2, <2>6 DEF StatusInv
<1>13. QED BY <1>8, <1>9, <1>10, <1>11, <1>12 DEF PlayInv

\* The worker of a closed channel has played all that was in it.
LEMMA WorkerEndsStep == ASSUME PlayInv, NEW c \in D!Channels, D!WorkerEnds(c) PROVE PlayInv'
<1>1. PlayType /\ ReceiverInv /\ WorkerInv /\ FlowInv /\ StatusInv
    BY DEF PlayInv
<1>2. /\ worker[c] = D!Idle /\ chan[c] = <<>> /\ c \in closed
      /\ worker' = [worker EXCEPT ![c] = [at |-> "gone"]]
      /\ UNCHANGED <<now, phase, broken, wire, recv, table, chan, closed, panicked, answer, status, pushed, sent, talks>>
    BY DEF D!WorkerEnds
<1>3. worker = [k \in D!Channels |-> worker[k]] /\ worker[c].at = "idle"
    BY <1>1, <1>2 DEF PlayType, D!Idle
<1>4. /\ worker'[c].at = "gone" /\ \A k \in D!Channels \ {c} : worker'[k] = worker[k]
      /\ worker' = [k \in D!Channels |-> worker'[k]]
    BY <1>2, <1>3
<1>5. PlayType'
    BY <1>1, <1>2, <1>4 DEF PlayType, D!Streams, D!Channels
<1>6. ReceiverInv'
    BY <1>1, <1>2 DEF ReceiverInv, Current
<1>7. WorkerInv'
    <2>1. \A k \in D!Channels : /\ worker'[k].at \in {"none", "gone"} => chan'[k] = <<>>
                                /\ worker'[k].at = "gone" => k \in closed'
                                /\ worker[k].at \in {"none", "gone"} => worker'[k].at \in {"none", "gone"}
        BY <1>1, <1>2, <1>4 DEF WorkerInv
    <2>2. \A d \in Devices : Current(d)' = Current(d) /\ Current(d) \in D!Channels
        BY <1>1, <1>2, CurrentChannels DEF Current
    <2>3. \A k \in D!Channels : worker'[k].at = "none" <=> worker[k].at = "none"
        BY <1>3, <1>4
    <2>4. QED BY <1>1, <1>2, <2>1, <2>2, <2>3 DEF WorkerInv
<1>8. FlowInv'
    BY ZenonT(40), <1>1, <1>2 DEF FlowInv, Numbered, Waiting, Coming, Carried, Passed, Current
<1>9. StatusInv'
    <2>1. \A k \in D!Channels : /\ worker'[k].at = "playing" <=> worker[k].at = "playing"
                                /\ worker'[k].at = "playing" => worker'[k] = worker[k]
        BY <1>3, <1>4
    <2>2. \A d \in Devices : Current(d)' = Current(d) /\ Current(d) \in D!Channels
        BY <1>1, <1>2, CurrentChannels DEF Current
    <2>3. \A d \in Devices : D!AtRest(d)' => D!AtRest(d)
        BY <1>2, <2>1 DEF D!AtRest
    <2>4. D!IdleAtRest'
        BY <1>1, <1>2, <2>3 DEF StatusInv, D!IdleAtRest
    <2>5. QED BY <1>1, <1>2, <2>1, <2>2, <2>4 DEF StatusInv
<1>10. QED BY <1>5, <1>6, <1>7, <1>8, <1>9 DEF PlayInv

\* stop closes the channels of a stream that was read to its end.
LEMMA StopStep == ASSUME PlayInv, ~SendFails, D!Stop PROVE PlayInv'
<1>1. PlayType /\ ReceiverInv /\ WorkerInv /\ FlowInv /\ StatusInv
    BY DEF PlayInv
<1>2. /\ phase = "open" /\ recv[now].at = "ended" /\ phase' = "stopping"
      /\ closed' = closed \cup D!Entries(now)
      /\ table' = [table EXCEPT ![now] = [d \in Devices |-> 0]]
      /\ UNCHANGED <<now, broken, wire, recv, chan, worker, panicked, answer, status, pushed, sent, talks>>
    BY DEF D!Stop, D!GivenUp, D!ClosedAll
<1>3. now \in D!Streams /\ now \in Nat /\ table \in [D!Streams -> [Devices -> 0..2]] /\ D!Streams \subseteq Nat
    BY <1>1, CurrentChannels DEF PlayType
<1>4. /\ D!Entries(now) \subseteq D!Channels /\ \A c \in D!Entries(now) : c[1] = now
      /\ table' \in [D!Streams -> [Devices -> 0..2]]
      /\ \A d \in Devices : table'[now][d] = 0
      /\ \A s \in D!Streams \ {now} : table'[s] = table[s]
    BY <1>2, <1>3 DEF D!Entries
<1>5. PlayType'
    BY <1>1, <1>2, <1>4 DEF PlayType, D!Streams, D!Channels
<1>6. ReceiverInv'
    <2>1. \A s \in D!Streams : s > now => s # now
        BY <1>3
    <2>2. QED BY <1>1, <1>2, <1>4, <2>1 DEF ReceiverInv
<1>7. WorkerInv'
    BY <1>1, <1>2, <1>4 DEF WorkerInv, Current
<1>8. FlowInv'
    BY ZenonT(40), <1>1, <1>2 DEF FlowInv, Numbered, Waiting, Coming, Carried, Passed, Current
<1>9. StatusInv'
    BY <1>1, <1>2 DEF StatusInv, D!IdleAtRest, D!AtRest, Current
<1>10. QED BY <1>5, <1>6, <1>7, <1>8, <1>9 DEF PlayInv

\* ... and runProxyOnce returns when its workers are gone.
LEMMA StoppedStep == ASSUME PlayInv, D!Stopped PROVE PlayInv'
<1>1. PlayType /\ ReceiverInv /\ WorkerInv /\ FlowInv /\ StatusInv
    BY DEF PlayInv
<1>2. /\ phase = "stopping" /\ phase' = "waiting"
      /\ \A c \in D!Channels : c[1] = now => worker[c].at \in {"none", "gone"}
      /\ UNCHANGED <<now, broken, wire, recv, table, chan, closed, worker, panicked, answer, status, pushed, sent, talks>>
    BY DEF D!Stopped, D!Drained
<1>3. PlayType'
    BY <1>1, <1>2 DEF PlayType, D!Streams, D!Channels
<1>4. ReceiverInv'
    BY <1>1, <1>2 DEF ReceiverInv, Current
<1>5. WorkerInv'
    BY <1>1, <1>2 DEF WorkerInv, Current
<1>6. FlowInv'
    BY ZenonT(40), <1>1, <1>2 DEF FlowInv, Numbered, Waiting, Coming, Carried, Passed, Current
<1>7. StatusInv'
    BY <1>1, <1>2 DEF StatusInv, D!IdleAtRest, D!AtRest, Current
<1>8. QED BY <1>3, <1>4, <1>5, <1>6, <1>7 DEF PlayInv

\* The next stream starts where the last one, read to its end, has stopped.
LEMMA ReconnectStep == ASSUME PlayInv, D!Reconnect PROVE PlayInv'
<1> DEFINE s == now + 1
           Next1(d) == <<s, d, 1>>
<1>1. PlayType /\ ReceiverInv /\ WorkerInv /\ FlowInv /\ StatusInv
    BY DEF PlayInv
<1>2. /\ phase = "waiting" /\ phase' = "open" /\ now' = s
      /\ UNCHANGED <<broken, wire, recv, table, chan, closed, worker, panicked, answer, status, pushed, sent, talks>>
    BY DEF D!Reconnect
<1>3. now \in D!Streams /\ now \in Nat /\ D!Streams \subseteq Nat
    BY <1>1, CurrentChannels
<1>4. recv[now].at = "ended" /\ wire[now] = <<>> /\ now \in broken /\ now < MaxStreams
    BY <1>1, <1>2, <1>3 DEF ReceiverInv
<1>5. s \in D!Streams /\ s \in Nat /\ now < s /\ s # now /\ now <= s
    BY <1>3, <1>4, ConstantsOK DEF D!Streams, D!PlayDispatchAssumption
<1>6. \A r \in D!Streams : /\ r < s => r < now \/ r = now
                           /\ r > s => r > now
    BY <1>3
<1> HIDE DEF s
<1>7. PlayType'
    BY <1>1, <1>2, <1>5 DEF PlayType, D!Streams, D!Channels
<1>8. /\ wire[s] = <<>> /\ s \notin broken /\ recv[s].at = "recv"
      /\ \A d \in Devices : table[s][d] = 0
    BY <1>1, <1>5 DEF ReceiverInv
<1>9. ReceiverInv'
    <2>1. \A r \in D!Streams : r > s => /\ wire[r] = <<>> /\ r \notin broken /\ recv[r].at = "recv"
                                        /\ \A d \in Devices : table[r][d] = 0
        BY <1>1, <1>6 DEF ReceiverInv
    <2>2. \A r \in D!Streams : r < s => recv[r].at = "ended"
        BY <1>1, <1>4, <1>6 DEF ReceiverInv
    <2>3. QED BY <1>1, <1>2, <1>8, <2>1, <2>2 DEF ReceiverInv
<1>10. \A c \in D!Channels : worker[c].at \in {"none", "gone"} /\ chan[c] = <<>>
    BY <1>1, <1>2 DEF WorkerInv
<1>11. \A d \in Devices : Next1(d) \in D!Channels /\ Next1(d)[1] = s /\ Current(d)' = Next1(d)
    BY <1>2, <1>5 DEF D!Channels, Current
<1> HIDE DEF Next1
<1>12. \A d \in Devices : worker[Next1(d)].at = "none"
    BY <1>1, <1>8, <1>10, <1>11 DEF WorkerInv
<1>13. WorkerInv'
    BY <1>1, <1>2, <1>8, <1>10, <1>11, <1>12 DEF WorkerInv
<1>14. ASSUME NEW d \in Devices PROVE (Numbered(d) /\ Waiting(d) /\ Coming(d))'
    <2> DEFINE L == Len(sent[d])
               hi == pushed[d]
    <2>1. Numbered(d) /\ Coming(d)
        BY <1>1 DEF FlowInv
    <2>2. L \in Nat /\ hi \in Nat /\ sent[d] \in Seq(Job)
        BY <1>1, LenProperties DEF PlayType
    <2>3. chan[Current(d)] = <<>> /\ chan[Next1(d)] = <<>> /\ Len(<<>>) = 0
        BY <1>1, <1>10, <1>11, CurrentChannels
    <2>4. ~Carried(d) /\ ~Carried(d)'
        BY <1>2, <1>4, <1>8 DEF Carried
    <2>5. Passed(d) = L + 0 /\ Passed(d)' = L + 0
        BY <1>2, <1>11, <2>3 DEF Passed
    <2> HIDE DEF L, hi
    <2>6. Passed(d) = L /\ Passed(d)' = L
        BY <2>2, <2>5
    <2>7. Covers(<<>>, now, d, L, hi)
        BY <1>4, <2>1, <2>4, <2>6 DEF Coming, hi
    <2>8. L = hi
        <3>1. 1..Len(<<>>) = {}
            BY <2>3
        <3>2. L <= hi /\ ~ (L < hi)
            BY <2>2, <2>7, <3>1 DEF Covers
        <3>3. QED BY <2>2, <3>2
    <2>9. Covers(<<>>, s, d, L, hi)
        BY <2>2, <2>3, <2>7 DEF Covers
    <2>10. Coming(d)'
        BY <1>2, <1>8, <2>4, <2>6, <2>9 DEF Coming, hi
    <2>11. Waiting(d)'
        <3>1. 1..Len(<<>>) = {}
            BY <2>3
        <3>2. QED BY <1>2, <1>11, <2>3, <3>1 DEF Waiting
    <2>12. Numbered(d)'
        <3>1. \A i \in 1..Len(sent[d]) : sent[d][i][1] \in Nat
            BY <2>2, ElementOfSeq DEF Job
        <3>2. \A i \in 1..Len(sent[d]) : sent[d][i][1] <= s
            BY <1>3, <1>5, <2>1, <3>1 DEF Numbered
        <3>3. QED BY <1>2, <2>1, <3>2 DEF Numbered
    <2>13. QED BY <2>10, <2>11, <2>12
<1>15. StatusInv'
    <2>1. D!IdleAtRest'
        BY <1>1, <1>2 DEF StatusInv, D!IdleAtRest, D!AtRest
    <2>2. QED BY <1>2, <1>11, <1>12, <2>1 DEF StatusInv
<1>16. QED BY <1>7, <1>9, <1>13, <1>14, <1>15 DEF PlayInv, FlowInv

\* The answer to an utterance: the satellite is idle when there is none (any more).
LEMMA SayStep ==
    ASSUME PlayInv, NEW e \in Devices,
           D!Listen(e) \/ D!Submit(e) \/ D!Unanswered(e) \/ D!Answered(e) \/ D!Spoken(e)
    PROVE  PlayInv'
<1>1. PlayType /\ ReceiverInv /\ WorkerInv /\ FlowInv /\ StatusInv
    BY DEF PlayInv
<1>2. PICK to, shown : /\ to = "none" => shown = "idle"
                       /\ answer' = [answer EXCEPT ![e] = to] /\ status' = [status EXCEPT ![e] = shown]
                       /\ UNCHANGED <<now, phase, broken, wire, recv, table, chan, closed, worker, panicked, pushed, sent>>
    BY DEF D!Listen, D!Submit, D!Unanswered, D!Answered, D!Spoken, D!Say
<1>3. answer = [d \in Devices |-> answer[d]] /\ status = [d \in Devices |-> status[d]]
    BY <1>1 DEF PlayType
<1>4. /\ answer' = [d \in Devices |-> answer'[d]] /\ status' = [d \in Devices |-> status'[d]]
      /\ answer'[e] = "none" => status'[e] = "idle"
      /\ \A d \in Devices \ {e} : answer'[d] = answer[d] /\ status'[d] = status[d]
    BY <1>2, <1>3
<1>5. PlayType'
    BY <1>1, <1>2, <1>4 DEF PlayType, D!Streams, D!Channels
<1>6. ReceiverInv'
    BY <1>1, <1>2 DEF ReceiverInv, Current
<1>7. WorkerInv'
    BY <1>1, <1>2 DEF WorkerInv, Current
<1>8. FlowInv'
    BY <1>1, <1>2 DEF FlowInv, Numbered, Waiting, Coming, Carried, Passed, Current
<1>9. StatusInv'
    <2>1. \A d \in Devices \ {e} : D!AtRest(d)' => D!AtRest(d)
        BY <1>2, <1>4 DEF D!AtRest
    <2>2. D!AtRest(e)' => status'[e] = "idle"
        BY <1>4 DEF D!AtRest
    <2>3. D!IdleAtRest'
        BY <1>1, <1>2, <1>4, <2>1, <2>2 DEF StatusInv, D!IdleAtRest
    <2>4. QED BY <1>1, <1>2, <2>3 DEF StatusInv, Current
<1>10. QED BY <1>5, <1>6, <1>7, <1>8, <1>9 DEF PlayInv

\* Every step of the dispatcher keeps the invariant.
LEMMA PlayInvStep == ASSUME ~SendFails PROVE PlayInv /\ [D!Next]_(D!vars) => PlayInv'
<1> SUFFICES ASSUME PlayInv, [D!Next]_(D!vars) PROVE PlayInv'
    OBVIOUS
<1>1. CASE D!RunProxy
    BY <1>1, StopStep, StoppedStep, ReconnectStep DEF D!RunProxy
<1>2. CASE \E s \in D!Streams : D!Receiver(s)
    BY <1>2, RecvStep, WorkerChanStep, SendStep DEF D!Receiver
<1>3. CASE \E c \in D!Channels : D!Worker(c)
    BY <1>3, PlayedStep, ChunkDoneStep, WorkerEndsStep DEF D!Worker
<1>4. CASE D!StreamLost
    BY <1>4, LostStep
<1>5. CASE \E d \in Devices : \/ D!Push(d) \/ D!Listen(d) \/ D!Submit(d) \/ D!Unanswered(d) \/ D!Answered(d) \/ D!Spoken(d)
    BY <1>5, PushStep, SayStep
<1>6. CASE UNCHANGED D!vars
    <2>1. /\ UNCHANGED <<now, phase, broken, wire, recv, table, chan, closed, worker, panicked, answer, status>>
          /\ UNCHANGED <<pushed, sent, talks>>
        BY <1>6 DEF D!vars
    <2>2. PlayType' /\ ReceiverInv' /\ WorkerInv'
        BY <2>1 DEF PlayInv, PlayType, ReceiverInv, WorkerInv, Current, D!Streams, D!Channels
    <2>3. FlowInv' /\ StatusInv'
        BY ZenonT(40), <2>1 DEF PlayInv, FlowInv, Numbered, Waiting, Coming, Carried, Passed, Current, StatusInv,
                    D!IdleAtRest, D!AtRest
    <2>4. QED BY <2>2, <2>3 DEF PlayInv
<1>7. QED BY <1>1, <1>2, <1>3, <1>4, <1>5, <1>6 DEF D!Next

\* At first nothing has come and nothing is played.
LEMMA PlayInit == Init => PlayInv
<1> SUFFICES ASSUME Init PROVE PlayInv
    OBVIOUS
<1>1. /\ now = 1 /\ phase = "open" /\ broken = {}
      /\ wire = [s \in D!Streams |-> <<>>] /\ recv = [s \in D!Streams |-> D!Reading]
      /\ table = [s \in D!Streams |-> [d \in Devices |-> 0]]
      /\ chan = [c \in D!Channels |-> <<>>] /\ closed = {}
      /\ worker = [c \in D!Channels |-> [at |-> "none"]] /\ ~panicked
      /\ answer = [d \in Devices |-> "none"] /\ status = [d \in Devices |-> "idle"]
      /\ pushed = [d \in Devices |-> 0] /\ sent = [d \in Devices |-> <<>>]
    BY DEF Init, D!Init
<1>2. Len(<<>>) = 0 /\ 1..Len(<<>>) = {} /\ <<>> \in Seq(Job) /\ <<>> \in Seq(Devices \X Job)
    OBVIOUS
<1>3. now \in D!Streams
    BY <1>1, ConstantsOK DEF D!Streams, D!PlayDispatchAssumption
<1>4. PlayType
    BY <1>1, <1>2, <1>3 DEF PlayType
<1>5. /\ \A s \in D!Streams : recv[s].at = "recv" /\ wire[s] = <<>> /\ s \in Nat /\ s >= 1
      /\ \A d \in Devices : Current(d) \in D!Channels
      /\ \A c \in D!Channels : worker[c].at = "none" /\ chan[c] = <<>>
    BY <1>1, <1>4, CurrentChannels DEF D!Reading, D!Streams
<1>6. ReceiverInv
    BY <1>1, <1>3, <1>5 DEF ReceiverInv
<1>7. WorkerInv
    BY <1>1, <1>3, <1>5 DEF WorkerInv
<1>8. ASSUME NEW d \in Devices PROVE Numbered(d) /\ Waiting(d) /\ Coming(d)
    <2>1. sent[d] = <<>> /\ chan[Current(d)] = <<>> /\ pushed[d] = 0 /\ wire[now] = <<>> /\ ~Carried(d)
        BY <1>1, <1>3, <1>5 DEF Carried
    <2>2. Passed(d) = 0
        BY <1>2, <2>1 DEF Passed
    <2>3. Covers(<<>>, now, d, 0, 0)
        BY <1>2 DEF Covers
    <2>4. QED BY <1>2, <2>1, <2>2, <2>3 DEF Numbered, Waiting, Coming
<1>9. StatusInv
    BY <1>1, <1>5 DEF StatusInv, D!IdleAtRest
<1>10. QED BY <1>4, <1>6, <1>7, <1>8, <1>9 DEF PlayInv, FlowInv

\* Numbered from one without a gap, by streams that follow one another.
LEMMA PlayedSoundly == PlayInv => D!SpeechIsInOrder
<1> SUFFICES ASSUME PlayInv PROVE D!PlayedInOrder /\ D!IdleAtRest
    BY DEF D!SpeechIsInOrder
<1>1. PlayType /\ FlowInv /\ StatusInv
    BY DEF PlayInv
<1>2. ASSUME NEW d \in Devices, NEW i \in 1..(Len(sent[d]) - 1)
      PROVE  \/ sent[d][i][1] = sent[d][i + 1][1] /\ sent[d][i + 1][2] = sent[d][i][2] + 1
             \/ sent[d][i][1] < sent[d][i + 1][1] /\ sent[d][i][2] < sent[d][i + 1][2]
    <2> DEFINE n == Len(sent[d])
    <2>1. n \in Nat /\ sent[d] \in Seq(Job)
        BY <1>1, LenProperties DEF PlayType
    <2>2. i \in Nat /\ i \in 1..n /\ i + 1 \in 1..n /\ i \in 1..(i + 1) /\ i < i + 1
        <3>1. i \in 1..(n - 1)
            OBVIOUS
        <3> HIDE DEF n
        <3>2. QED BY <2>1, <3>1
    <2>3. sent[d][i] \in Job /\ sent[d][i + 1] \in Job
        BY <2>1, <2>2, ElementOfSeq
    <2>4. Numbered(d)
        BY <1>1 DEF FlowInv
    <2>5. sent[d][i][2] = i /\ sent[d][i + 1][2] = i + 1 /\ sent[d][i][1] <= sent[d][i + 1][1]
        BY <2>2, <2>4 DEF Numbered
    <2>6. sent[d][i][1] \in Nat /\ sent[d][i + 1][1] \in Nat
        BY <2>3 DEF Job
    <2>7. QED BY <2>2, <2>5, <2>6
<1>3. D!PlayedInOrder
    BY <1>2 DEF D!PlayedInOrder
<1>4. QED BY <1>1, <1>3 DEF StatusInv

\* So a recording is what the satellite said, and what the proxy plays what
\* the Core announced, each once and in its order, for every number of
\* devices, ports, packets, chunks and streams and every length of the queues
\* - as long as no heartbeat notices a lost stream before the receiver does.
THEOREM RecordingsAreSoundAlways == ASSUME ~SendFails PROVE Spec => []RecordingsAreSound
<1>1. PlayInv /\ [Next]_vars => PlayInv'
    BY PlayInvStep, PlayStep
<1>2. PlayInv => D!SpeechIsInOrder
    BY PlayedSoundly
<1>3. Spec => []D!SpeechIsInOrder
    BY <1>1, <1>2, PlayInit, PTL DEF Spec
<1>4. S!RecordingsAreSound /\ D!SpeechIsInOrder => RecordingsAreSound
    BY DEF RecordingsAreSound
<1>5. QED
    BY <1>3, <1>4, SessionsAlways, PTL
=============================================================================
