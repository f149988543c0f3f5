--------------------------- MODULE SatelliteClient ---------------------------
(***************************************************************************)
(* The Raspberry Pi satellite: it finds the server by its retained MQTT    *)
(* address, registers, sends heartbeats and starts itself again when       *)
(* nothing comes back.  The server is the Core's UDP server or a proxy's;  *)
(* only the one that is announced listens.  Packets may be lost.           *)
(***************************************************************************)
EXTENDS Naturals, FiniteSets

CONSTANTS Servers,
          HeartbeatTimeout, \* failed heartbeats before a restart
          MaxLosses,        \* packets lost (bound)
          MaxChanges,       \* restarts of the server and changes of address (bound)
          MaxSpeeches       \* answers too long for a heartbeat (bound)

VARIABLES
    proc,       \* "boot", "starting", "run" or "down"
    addr,       \* _hannah_addr
    reg,        \* the calls of _register: at start and again; "none", "sent" or "waiting"
    registered, \* the event
    hb,         \* the heartbeat thread: "sleep" or "sent"
    acked,      \* _heartbeat_ack_received
    failures,   \* _heartbeat_failures
    speaking,   \* the receiver's thread plays an answer and receives nothing
    up, down,   \* packets to a server, packets to the satellite
    announced,  \* the server in the retained topic
    known,      \* the servers that have registered the satellite
    roomed,     \* the satellite has a room
    odd,        \* history: disturbances since the last heartbeat that was answered
    losses, changes, speeches

process == <<proc, addr, reg, registered, hb, acked, failures>>
network == <<up, down, losses>>
server == <<announced, known, roomed, changes>>
vars == <<process, speaking, speeches, network, server, odd>>

None == "none"
Calls == {"start", "again"}
Packet(t, to) == [type |-> t, to |-> to]
Ons == [Calls -> {"none", "sent", "waiting"}]

TypeOK ==
    /\ proc \in {"boot", "starting", "run", "down"} /\ addr \in Servers \cup {None}
    /\ reg \in Ons /\ registered \in BOOLEAN /\ hb \in {"sleep", "sent"} /\ acked \in BOOLEAN
    /\ failures \in 0..HeartbeatTimeout /\ speaking \in BOOLEAN
    /\ up \subseteq {Packet(t, a) : t \in {"register", "heartbeat"}, a \in Servers}
    /\ down \subseteq {"registered", "heartbeat_ack", "reregister"}
    /\ announced \in Servers /\ known \subseteq Servers /\ roomed \in BOOLEAN

NoCalls == [c \in Calls |-> "none"]
Init ==
    /\ proc = "boot" /\ addr = None /\ reg = NoCalls /\ registered = FALSE
    /\ hb = "sleep" /\ acked = FALSE /\ failures = 0
    /\ speaking = FALSE /\ speeches = 0 /\ up = {} /\ down = {} /\ losses = 0
    /\ announced = (CHOOSE s \in Servers : TRUE) /\ known = {} /\ roomed = FALSE /\ changes = 0 /\ odd = 0

-----------------------------------------------------------------------------
(* Start, registration, restart *)

\* A new process: the address is the retained one.  Its back-off level starts
\* anew as well, so that every restart is immediate.
\* run: _resolve_hannah_address, _open_socket, _register.
Boot ==
    /\ proc = "boot" /\ proc' = "starting" /\ addr' = announced
    /\ reg' = [NoCalls EXCEPT !["start"] = "sent"] /\ registered' = FALSE
    /\ hb' = "sleep" /\ acked' = FALSE /\ failures' = 0 /\ speaking' = FALSE
    /\ up' = up \cup {Packet("register", announced)} /\ down' = {}
    /\ UNCHANGED <<losses, server, speeches, odd>>

\* _register: the event is cleared after the packet was sent.
Clear(c) ==
    /\ reg[c] = "sent" /\ reg' = [reg EXCEPT ![c] = "waiting"] /\ registered' = FALSE
    /\ UNCHANGED <<proc, addr, hb, acked, failures, speaking, speeches, network, server, odd>>

Confirmed(c) ==
    /\ reg[c] = "waiting" /\ registered /\ reg' = [reg EXCEPT ![c] = "none"]
    /\ proc' = (IF c = "start" THEN "run" ELSE proc)
    /\ UNCHANGED <<addr, registered, hb, acked, failures, speaking, speeches, network, server, odd>>

\* What is on its way arrives long before a time-out, unless nobody receives.
Settled == addr = announced /\ up = {} /\ (down = {} \/ speaking)

\* _trigger_restart_with_backoff.
RegistrationTimeout(c) ==
    /\ reg[c] = "waiting" /\ ~registered /\ Settled
    /\ reg' = [reg EXCEPT ![c] = "none"]
    /\ proc' = IF c = "start" THEN "down" ELSE proc
    /\ UNCHANGED <<addr, registered, hb, acked, failures, speaking, speeches, network, server, odd>>

\* systemctl restart, after the back-off.
Restart ==
    /\ proc = "down" /\ proc' = "boot" /\ UNCHANGED <<addr, reg, registered, hb, acked, failures>>
    /\ UNCHANGED <<speaking, speeches, network, server, odd>>

Registering(a) == up' = up \cup {Packet("register", a)} /\ reg' = [reg EXCEPT !["again"] = "sent"]

\* _on_server_changed, called with every new address in the retained topic.
ServerChanged ==
    /\ proc \in {"starting", "run"} /\ addr # announced
    /\ addr' = announced /\ failures' = 0 /\ Registering(announced)
    /\ UNCHANGED <<proc, registered, hb, acked, speaking, speeches, down, losses, server, odd>>

-----------------------------------------------------------------------------
(* The heartbeat *)

Heartbeat ==
    /\ proc = "run" /\ hb = "sleep" /\ hb' = "sent" /\ acked' = FALSE
    /\ up' = up \cup {Packet("heartbeat", addr)}
    /\ UNCHANGED <<proc, addr, reg, registered, failures, speaking, speeches, down, losses, server, odd>>

\* Fault: failures add up over the days.
HeartbeatOkKeepsCount ==
    /\ proc = "run" /\ hb = "sent" /\ acked /\ hb' = "sleep" /\ odd' = (IF speaking THEN HeartbeatTimeout ELSE 0)
    /\ UNCHANGED <<proc, addr, reg, registered, acked, failures, speaking, speeches, network, server>>

HeartbeatOk ==
    /\ proc = "run" /\ hb = "sent" /\ acked /\ hb' = "sleep" /\ failures' = 0 /\ odd' = (IF speaking THEN HeartbeatTimeout ELSE 0)
    /\ UNCHANGED <<proc, addr, reg, registered, acked, speaking, speeches, network, server>>

HeartbeatFailed ==
    /\ proc = "run" /\ hb = "sent" /\ ~acked /\ Settled
    /\ hb' = "sleep" /\ failures' = failures + 1
    /\ proc' = IF failures' >= HeartbeatTimeout THEN "down" ELSE proc
    /\ UNCHANGED <<addr, reg, registered, acked, speaking, speeches, network, server, odd>>

-----------------------------------------------------------------------------
(* _tts_receiver_loop *)

Receive(t) ==
    /\ proc \in {"starting", "run"} /\ ~speaking /\ t \in down
    /\ down' = down \ {t}
    /\ CASE t = "registered" -> /\ registered' = TRUE
                                \* Before clear() the answer is as good as lost, and counts as that (bound).
                                /\ LET early == \E c \in Calls : reg[c] = "sent" IN
                                   /\ early => losses < MaxLosses
                                   /\ losses' = losses + (IF early THEN 1 ELSE 0)
                                   /\ odd' = odd + (IF early THEN 1 ELSE 0)
                                /\ UNCHANGED <<acked, reg, up>>
         [] t = "heartbeat_ack" -> acked' = TRUE /\ UNCHANGED <<registered, reg, up, losses, odd>>
         [] OTHER -> Registering(addr) /\ UNCHANGED <<registered, acked, losses, odd>>
    /\ UNCHANGED <<proc, addr, hb, failures, speaking, speeches, server>>

\* An answer is played by the receiver's own thread.
Speak == /\ proc = "run" /\ ~speaking /\ speeches < MaxSpeeches
         /\ speaking' = TRUE /\ speeches' = speeches + 1 /\ odd' = odd + HeartbeatTimeout
         /\ UNCHANGED <<process, network, server>>
SpeechEnds == speaking /\ speaking' = FALSE /\ UNCHANGED <<process, speeches, network, server, odd>>

-----------------------------------------------------------------------------
(* The server: _handle_control *)

\* Fault: a heartbeat is answered whoever sends it.
AnswersEveryHeartbeat(t) ==
    IF t = "register" THEN IF roomed THEN {"registered"} ELSE {} ELSE {"heartbeat_ack"}

\* A satellite without a room gets no answer; an unknown one is to register.
Answers(t) ==
    IF t = "register" THEN IF roomed THEN {"registered"} ELSE {}
    ELSE IF announced \in known THEN {"heartbeat_ack"} ELSE {"reregister"}

Serve(p) ==
    /\ p \in up /\ up' = up \ {p}
    /\ IF p.to = announced
       THEN /\ down' = down \cup Answers(p.type)
            /\ known' = known \cup (IF p.type = "register" /\ roomed THEN {announced} ELSE {})
       ELSE UNCHANGED <<down, known>>
    /\ UNCHANGED <<process, speaking, speeches, losses, announced, roomed, changes, odd>>

\* _check_heartbeats: nothing for 30 seconds.
CheckHeartbeats(s) ==
    /\ s \in known /\ (proc # "run" \/ addr # s) /\ known' = known \ {s}
    /\ UNCHANGED <<process, speaking, speeches, network, announced, roomed, changes, odd>>

ServerRestarts ==
    /\ changes < MaxChanges /\ changes' = changes + 1 /\ odd' = odd + 1 /\ known' = {}
    /\ UNCHANGED <<process, speaking, speeches, network, announced, roomed>>
Announce(s) ==
    /\ changes < MaxChanges /\ changes' = changes + 1 /\ odd' = odd + 1 /\ s # announced /\ announced' = s
    /\ UNCHANGED <<process, speaking, speeches, network, known, roomed>>
AssignRoom == ~roomed /\ roomed' = TRUE
              /\ UNCHANGED <<process, speaking, speeches, network, announced, known, changes, odd>>
Lose == /\ losses < MaxLosses /\ losses' = losses + 1 /\ odd' = odd + 1
        /\ \/ \E p \in up : up' = up \ {p} /\ UNCHANGED down
           \/ \E t \in down : down' = down \ {t} /\ UNCHANGED up
        /\ UNCHANGED <<process, speaking, speeches, server>>

Answered == {"registered", "heartbeat_ack", "reregister"}
Messages == {Packet(t, a) : t \in {"register", "heartbeat"}, a \in Servers}
Registration(c) == Clear(c) \/ Confirmed(c) \/ RegistrationTimeout(c)
Beat == Heartbeat \/ HeartbeatOk \/ HeartbeatFailed
Next ==
    \/ Boot \/ Restart \/ ServerChanged \/ Beat \/ Speak \/ SpeechEnds
    \/ ServerRestarts \/ AssignRoom \/ Lose
    \/ \E c \in Calls : Registration(c)
    \/ \E t \in Answered : Receive(t)
    \/ \E p \in Messages : Serve(p)
    \/ \E s \in Servers : CheckHeartbeats(s) \/ Announce(s)
Threads == /\ WF_vars(Boot) /\ WF_vars(Restart) /\ WF_vars(ServerChanged) /\ WF_vars(SpeechEnds) /\ WF_vars(Beat)
           /\ \A c \in Calls : WF_vars(Registration(c))
           /\ \A t \in Answered : WF_vars(Receive(t))
           /\ \A p \in Messages : WF_vars(Serve(p))
Spec == Init /\ [][Next]_vars /\ Threads

-----------------------------------------------------------------------------
OnAir == proc = "run" /\ addr = announced /\ announced \in known

\* A satellite with a room comes on the air, after restarts of the server,
\* changes of address, lost packets and restarts of its own.
ComesOnAir == []<>(~roomed \/ OnAir)

\* A running satellite starts itself again only after as many disturbances
\* without an answer in between as it forgives, or when it cannot receive.
PatientBeforeRestart == [][proc = "run" /\ proc' = "down" => odd >= HeartbeatTimeout - 1]_vars

\* So a satellite keeps in touch, and by restarts only where nothing else helps.
KeepsInTouch == ComesOnAir /\ PatientBeforeRestart
=============================================================================
