---------------------------- MODULE SatelliteMap ----------------------------
(***************************************************************************)
(* Which satellites are connected: what the proxy knows, what it tells the *)
(* Core, and what the Core tells the ioBroker adapter                      *)
(* (proxy/cmd/proxy/main.go, core/hannah/grpc_server.py, udp_server.py,    *)
(* main.py _on_satellite_change).                                          *)
(*                                                                         *)
(* Every hop is a goroutine, a call or a thread of its own, so nothing     *)
(* arrives in order.  The adapter keeps what it was last told.             *)
(***************************************************************************)
EXTENDS Naturals, FiniteSets

CONSTANTS
    Devices,
    Roomed,      \* the devices with a room in the database
    Threads,     \* overlapping _on_satellite_change threads (bound)
    MaxCalls     \* overlapping "registered" calls for a device (bound)

SatelliteMapAssumption ==
    /\ Roomed \subseteq Devices
    /\ MaxCalls \in Nat \ {0}

VARIABLES
    bound,      \* the proxy's UDP server runs
    sat,        \* the proxy's satellites
    regs,       \* `go onSatelliteChange(.., true)` goroutines not yet answered
    going,      \* satellites the watchdog has removed and not yet reported
    ready,      \* a `go onReady()` goroutine has yet to run
    renotify,   \* satellites onReady has yet to report again
    connected,  \* the proxy's stream to the Core
    enabled,    \* the Core's own UDP server runs
    direct,     \* its satellites
    listed,     \* _proxy_satellites
    reverting,  \* a revert has re-enabled UDP, its rest is outstanding
    thread,     \* _on_satellite_change threads: step and satellite_map
    known,      \* main's _known_satellites
    online      \* satellites the adapter was last told are online

proxyVars == <<bound, sat, regs, going, ready, renotify>>
coreVars  == <<enabled, direct, listed, reverting>>
vars == <<proxyVars, connected, coreVars, thread, known, online>>

Idle == [pc |-> "idle", map |-> {}]

TypeOK ==
    /\ bound \in BOOLEAN /\ ready \in BOOLEAN
    /\ sat \subseteq Devices /\ going \subseteq Devices /\ renotify \subseteq Devices
    /\ regs \in [Devices -> 0..MaxCalls]
    /\ connected \in BOOLEAN /\ enabled \in BOOLEAN /\ reverting \in BOOLEAN
    /\ direct \subseteq Devices /\ listed \subseteq Devices
    /\ thread \in [Threads -> [pc: {"idle", "joined", "left", "keep"}, map: SUBSET Devices]]
    /\ known \subseteq Devices /\ online \subseteq Devices

Init ==
    /\ bound = FALSE /\ ready = FALSE
    /\ sat = {} /\ going = {} /\ renotify = {}
    /\ regs = [d \in Devices |-> 0]
    /\ connected = FALSE /\ enabled = TRUE /\ reverting = FALSE
    /\ direct = {} /\ listed = {}
    /\ thread = [t \in Threads |-> Idle]
    /\ known = {} /\ online = {}

-----------------------------------------------------------------------------
(* The proxy.                                                              *)

\* handleControl "register": the Core is told in a goroutine.
Register(d) ==
    /\ bound
    /\ sat' = sat \cup {d}
    /\ regs[d] < MaxCalls
    /\ regs' = [regs EXCEPT ![d] = @ + 1]
    /\ UNCHANGED <<bound, going, ready, renotify, connected, coreVars, thread, known, online>>

\* checkTimeouts: the watchdog itself tells the Core, one after the other.
CheckTimeouts(silent) ==
    /\ bound /\ going = {}
    /\ silent # {} /\ silent \subseteq sat
    /\ sat' = sat \ silent
    /\ going' = silent
    /\ UNCHANGED <<bound, regs, ready, renotify, connected, coreVars, thread, known, online>>

\* onReady: bind, then tell the Core about every satellite there is.
OnReady ==
    /\ ready
    /\ ready' = FALSE
    /\ bound' = TRUE
    /\ renotify' = renotify \cup sat
    /\ UNCHANGED <<sat, regs, going, connected, coreVars, thread, known, online>>

-----------------------------------------------------------------------------
(* The calls to the Core, which may fail: the proxy only logs that.        *)

\* threading.Thread(target=self._on_satellite_change, args=(snapshot,)).start()
Spawn(map) ==
    \E t \in Threads :
        /\ thread[t] = Idle
        /\ thread' = [thread EXCEPT ![t] = [pc |-> "joined", map |-> map]]

\* NotifySatelliteRegistered: a satellite without a room is not listed.
NotifySatelliteRegistered(d) ==
    IF d \in Roomed
      THEN listed' = listed \cup {d} /\ Spawn(listed')
      ELSE UNCHANGED <<listed, thread>>

\* Fault: a failed call is answered without having been counted.
AnswerTwice(d) == regs' = [regs EXCEPT ![d] = @ - 1]
Answered(d) == regs[d] > 0 /\ regs' = [regs EXCEPT ![d] = @ - 1]

RegisteredCall(d) ==
    /\ Answered(d)
    /\ NotifySatelliteRegistered(d) \/ UNCHANGED <<listed, thread>>
    /\ UNCHANGED <<bound, sat, going, ready, renotify, connected, enabled, direct,
                   reverting, known, online>>

RenotifyCall(d) ==
    /\ d \in renotify
    /\ renotify' = renotify \ {d}
    /\ NotifySatelliteRegistered(d) \/ UNCHANGED <<listed, thread>>
    /\ UNCHANGED <<bound, sat, regs, going, ready, connected, enabled, direct,
                   reverting, known, online>>

\* NotifySatelliteGone
GoneCall(d) ==
    /\ d \in going
    /\ going' = going \ {d}
    /\ \/ listed' = listed \ {d} /\ Spawn(listed')
       \/ UNCHANGED <<listed, thread>>
    /\ UNCHANGED <<bound, sat, regs, ready, renotify, connected, enabled, direct,
                   reverting, known, online>>

\* Fault: a satellite that speaks is answered, not listed.
OnlyAnswered(d) == UNCHANGED <<listed, thread>>
\* A satellite the Core does not know is listed when it speaks.
ListSpeaker(d) ==
    IF d \in listed THEN UNCHANGED <<listed, thread>>
    ELSE listed' = listed \cup {d} /\ Spawn(listed')

SubmitSatelliteAudio(d) ==
    /\ d \in sat
    /\ ListSpeaker(d)
    /\ UNCHANGED <<proxyVars, connected, enabled, direct, reverting, known, online>>

-----------------------------------------------------------------------------
(* The Core.                                                               *)

\* The first stream: UdpServer.stop() forgets the Core's own satellites.
ProxyConnects ==
    /\ ~connected
    /\ connected' = TRUE
    /\ ready' = TRUE
    /\ enabled' = FALSE
    /\ direct' = {}
    /\ IF direct # {} THEN Spawn({}) ELSE UNCHANGED thread
    /\ UNCHANGED <<bound, sat, regs, going, renotify, listed, reverting, known, online>>

\* The stream ends: onLost closes the proxy's socket.
ProxyLost ==
    /\ connected
    /\ connected' = FALSE
    /\ bound' = FALSE
    /\ UNCHANGED <<sat, regs, going, ready, renotify, coreVars, thread, known, online>>

\* The grace period is over; UDP is enabled first ...
Revert ==
    /\ ~connected /\ ~enabled
    /\ enabled' = TRUE
    /\ reverting' = TRUE
    /\ UNCHANGED <<proxyVars, connected, direct, listed, thread, known, online>>

\* ... and then, whoever has connected by now, the satellites are forgotten.
RevertSatellites ==
    /\ reverting
    /\ reverting' = FALSE
    /\ listed' = {}
    /\ Spawn({})
    /\ UNCHANGED <<proxyVars, connected, enabled, direct, known, online>>

\* UdpServer: a satellite registers with the Core itself, or falls silent.
DirectRegister(d) ==
    /\ enabled
    /\ d \in Roomed
    /\ direct' = direct \cup {d}
    /\ Spawn(direct')
    /\ UNCHANGED <<proxyVars, connected, enabled, listed, reverting, known, online>>

DirectTimeout(d) ==
    /\ enabled
    /\ d \in direct
    /\ direct' = direct \ {d}
    /\ Spawn(direct')
    /\ UNCHANGED <<proxyVars, connected, enabled, listed, reverting, known, online>>

\* Fault: only the connected satellites are stated, as before #422.
OnlineOnly == online \cup listed
\* What the adapter holds once every satellite with a room was stated.
WholeTruth == (online \cup listed) \ (Roomed \ listed)

\* _push_satellite_states, on each heartbeat of the proxy.
PushSatelliteStates ==
    /\ connected
    /\ online' = WholeTruth
    /\ UNCHANGED <<proxyVars, connected, coreVars, thread, known>>

\* _on_volume, _on_mute, _on_dnd: a report over MQTT counts as online.
StateReported(d) ==
    /\ online' = online \cup {d}
    /\ UNCHANGED <<proxyVars, connected, coreVars, thread, known>>

\* _on_satellite_change, which reads _known_satellites twice and then sets it.
PushJoined(t) ==
    /\ thread[t].pc = "joined"
    /\ online' = online \cup (thread[t].map \ known)
    /\ thread' = [thread EXCEPT ![t].pc = "left"]
    /\ UNCHANGED <<proxyVars, connected, coreVars, known>>

PushLeft(t) ==
    /\ thread[t].pc = "left"
    /\ online' = online \ (known \ thread[t].map)
    /\ thread' = [thread EXCEPT ![t].pc = "keep"]
    /\ UNCHANGED <<proxyVars, connected, coreVars, known>>

KeepKnown(t) ==
    /\ thread[t].pc = "keep"
    /\ known' = thread[t].map
    /\ thread' = [thread EXCEPT ![t] = Idle]
    /\ UNCHANGED <<proxyVars, connected, coreVars, online>>

\* The Core restarts; the adapter keeps what it was told.
CoreRestarts ==
    /\ connected' = FALSE /\ bound' = FALSE
    /\ enabled' = TRUE /\ reverting' = FALSE
    /\ direct' = {} /\ listed' = {} /\ known' = {}
    /\ thread' = [t \in Threads |-> Idle]
    /\ UNCHANGED <<sat, regs, going, ready, renotify, online>>

-----------------------------------------------------------------------------
ThreadStep(t) == PushJoined(t) \/ PushLeft(t) \/ KeepKnown(t)

Next ==
    \/ \E d \in Devices :
        \/ Register(d) \/ RegisteredCall(d) \/ RenotifyCall(d) \/ GoneCall(d)
        \/ SubmitSatelliteAudio(d) \/ StateReported(d)
        \/ DirectRegister(d) \/ DirectTimeout(d)
    \/ \E silent \in SUBSET Devices : CheckTimeouts(silent)
    \/ \E t \in Threads : ThreadStep(t)
    \/ OnReady \/ ProxyConnects \/ ProxyLost \/ Revert \/ RevertSatellites
    \/ PushSatelliteStates \/ CoreRestarts

\* Goroutines, threads and calls come to an end, and a connected proxy sends
\* a heartbeat every ten seconds.  Nobody is obliged to register, speak,
\* fall silent, connect or break a connection.
Fairness ==
    /\ \A d \in Devices :
        /\ WF_vars(RegisteredCall(d)) /\ WF_vars(RenotifyCall(d)) /\ WF_vars(GoneCall(d))
    /\ \A t \in Threads : WF_vars(ThreadStep(t))
    /\ WF_vars(OnReady) /\ WF_vars(RevertSatellites) /\ WF_vars(PushSatelliteStates)

Spec == Init /\ [][Next]_vars /\ Fairness

-----------------------------------------------------------------------------
(* Properties.                                                             *)

\* While a proxy stays connected, the adapter comes to show what the Core has
\* listed, in whatever order snapshots, state reports and the proxy's
\* heartbeats reach it (grpc_server.py:1380-1396, #422).
AgentFollowsCore ==
    \A d \in Roomed :
        /\ <>[](connected /\ d \in listed) => <>[](d \in online)
        /\ <>[](connected /\ d \notin listed) => []<>(d \notin online)

\* A satellite that keeps speaking through a connected proxy comes to be
\* listed for good, whichever of its registrations was lost or overtaken
\* (grpc_server.py:1449-1455).
SpeakersAreListed ==
    \A d \in Devices :
        SF_vars(SubmitSatelliteAudio(d))
            => (<>[](connected /\ d \in sat) => <>[](d \in listed))

\* So proxy, Core and adapter come to agree about who is there.
MapsSettle == AgentFollowsCore /\ SpeakersAreListed

\* Claimed at core/hannah/grpc_server.py:1389-1390: the whole truth is stated
\* every cycle, "so ioBroker corrects itself within one heartbeat, whichever
\* event got lost": a satellite that is gone is shown offline.
GoneIsShown ==
    \A d \in Roomed :
        <>[](connected /\ d \notin sat) => []<>(d \notin online)
=============================================================================
