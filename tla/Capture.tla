------------------------------ MODULE Capture -------------------------------
(***************************************************************************)
(* Wakeword capture of one satellite: a collector claims it, its           *)
(* recordings go to the collector's stream instead of the pipeline, and    *)
(* the satellite is put into sampling mode and do-not-disturb meanwhile.   *)
(* The Core reaches the collector over one connection; a newer one         *)
(* displaces the older.                                                    *)
(***************************************************************************)
EXTENDS Naturals, Sequences

CONSTANTS Collectors, Speakers, \* threads that want to say something
          Calm,                 \* TRUE: nothing claims, releases or hangs up while a
                          \* handler still sets the modes; no DND command
          MaxClaims, MaxOrders, MaxFaults

Nobody == "nobody"
Queues == 1..MaxClaims

VARIABLES
    captured,  \* _captured_satellites: the number of the queue, 0 without
    made,      \* queues made
    ended,     \* queues with an EOF
    streams,   \* queues a StreamSatelliteAudio handler reads
    call,      \* collector -> the unary call it has open
    dnd,       \* _device_dnd
    sampling,  \* the satellite's retained sampling mode
    line,      \* _collector_queue: whose
    dialled,   \* collector -> its CollectorConnect call: "off", "on" or "closing"
    orders,    \* collector -> commands on their way
    given,     \* start and stop commands given
    voice,     \* speaker -> "idle", "said" (feedback) or "rings" (alarm): allowed, being synthesised
    recording, \* "none", "begun" while captured, "routed" to the capture
    rightful,  \* history: the claim nobody released and whose stream did not end
    faults

modes == <<dnd, sampling>>
claims == <<captured, made, ended, rightful>>
links == <<line, dialled, orders, given>>
others == <<voice, recording>>
vars == <<claims, streams, call, modes, links, others, faults>>

TypeOK ==
    /\ captured \in 0..MaxClaims /\ made \in 0..MaxClaims /\ rightful \in 0..MaxClaims
    /\ ended \subseteq Queues /\ streams \subseteq Queues
    /\ call \in [Collectors -> {"idle", "claim", "on", "granted", "release", "off"}]
    /\ dnd \in BOOLEAN /\ sampling \in BOOLEAN
    /\ line \in Collectors \cup {Nobody} /\ dialled \in [Collectors -> {"off", "on", "closing"}]
    /\ \A c \in Collectors : orders[c] \in Seq({"start", "stop"})
    /\ given \in 0..MaxOrders /\ faults \in 0..MaxFaults
    /\ voice \in [Speakers -> {"idle", "said", "rings"}] /\ recording \in {"none", "begun", "routed"}

Init ==
    /\ captured = 0 /\ made = 0 /\ ended = {} /\ rightful = 0 /\ streams = {}
    /\ call = [c \in Collectors |-> "idle"] /\ dnd = FALSE /\ sampling = FALSE
    /\ line = Nobody /\ dialled = [c \in Collectors |-> "off"]
    /\ orders = [c \in Collectors |-> << >>] /\ given = 0 /\ faults = 0
    /\ voice = [s \in Speakers |-> "idle"] /\ recording = "none"

-----------------------------------------------------------------------------
(* Claiming and releasing *)

Settling == \E c \in Collectors : call[c] \in {"on", "off"}

\* RequestSatelliteCapture: the claim under the lock, the modes after it.
Claim(c) ==
    /\ call[c] = "claim" /\ (Calm => ~Settling)
    /\ \/ /\ captured # 0 /\ call' = [call EXCEPT ![c] = "idle"] /\ UNCHANGED claims
       \/ /\ captured = 0 /\ made < MaxClaims
          /\ made' = made + 1 /\ captured' = made + 1 /\ rightful' = made + 1
          /\ call' = [call EXCEPT ![c] = "on"] /\ UNCHANGED ended
    /\ UNCHANGED <<streams, modes, links, others, faults>>

\* ReleaseSatelliteCapture: whoever calls it, the capture in force is released.
Release(c) ==
    /\ call[c] = "release" /\ (Calm => ~Settling)
    /\ call' = [call EXCEPT ![c] = IF captured = 0 THEN "idle" ELSE "off"]
    /\ captured' = 0 /\ rightful' = 0 /\ ended' = ended \cup ({captured} \ {0})
    /\ UNCHANGED <<made, streams, modes, links, others, faults>>

\* Fault: the end of a capture leaves the modes as they are.
ModeKept(c) == call[c] = "on" \/ sampling
ModeFor(c) == call[c] = "on"
\* _on_set_capture: do-not-disturb and the retained sampling mode.
SetModes(c) ==
    /\ call[c] \in {"on", "off"}
    /\ dnd' = ModeFor(c) /\ sampling' = ModeFor(c)
    /\ call' = [call EXCEPT ![c] = IF call[c] = "on" THEN "granted" ELSE "idle"]
    /\ UNCHANGED <<claims, streams, links, others, faults>>

\* StreamSatelliteAudio reads whatever queue is there when it begins.
OpenStream(c) ==
    /\ call[c] = "granted" /\ call' = [call EXCEPT ![c] = "idle"]
    /\ streams' = streams \cup ({captured} \ {0})
    /\ UNCHANGED <<claims, modes, links, others, faults>>

\* Fault: the end of a stream releases whatever capture is in force.
EndsAny(q) == captured # 0
\* Its finally, all under the lock: only the capture it was opened for ends.
Ends(q) == captured = q

EndStream(q) ==
    /\ q \in streams /\ streams' = streams \ {q}
    /\ q \in ended \/ (faults < MaxFaults /\ (Calm => ~Settling))
    /\ faults' = IF q \in ended THEN faults ELSE faults + 1
    /\ rightful' = IF rightful = q THEN 0 ELSE rightful
    /\ IF Ends(q) THEN captured' = 0 /\ dnd' = FALSE /\ sampling' = FALSE
                  ELSE UNCHANGED <<captured, dnd, sampling>>
    /\ UNCHANGED <<made, ended, call, links, others>>

-----------------------------------------------------------------------------
(* The collector's connection *)

Connect(c) ==
    /\ dialled[c] = "off" /\ line # c
    /\ line' = c /\ orders' = [orders EXCEPT ![c] = << >>]
    /\ dialled' = [d \in Collectors |-> IF d = c THEN "on" ELSE IF d = line THEN "closing" ELSE dialled[d]]
    /\ UNCHANGED <<claims, streams, call, modes, given, others, faults>>

HangUp(c) ==
    /\ dialled[c] = "on" /\ faults < MaxFaults /\ faults' = faults + 1
    /\ dialled' = [dialled EXCEPT ![c] = "closing"]
    /\ UNCHANGED <<claims, streams, call, modes, line, orders, given, others>>

\* Fault: a call that ends takes the line with it.
LineAfter2(c) == Nobody
\* The finally of CollectorConnect: only its own queue is taken away.
LineAfter(c) == IF line = c THEN Nobody ELSE line

Closed(c) ==
    /\ dialled[c] = "closing" /\ dialled' = [dialled EXCEPT ![c] = "off"]
    /\ line' = LineAfter(c) /\ orders' = [orders EXCEPT ![c] = << >>]
    /\ UNCHANGED <<claims, streams, call, modes, given, others, faults>>

\* TriggerCollectorCapture and the spoken commands; the mute button stops a capture.
Order(o) ==
    /\ given < MaxOrders /\ line # Nobody /\ given' = given + 1
    /\ orders' = [orders EXCEPT ![line] = Append(@, o)]
    /\ UNCHANGED <<claims, streams, call, modes, line, dialled, others, faults>>
Start == Order("start")
MutePressed == captured # 0 /\ Order("stop")

\* The collector claims or releases as it is told.
Obey(c) ==
    /\ orders[c] # << >> /\ call[c] = "idle" /\ orders' = [orders EXCEPT ![c] = Tail(@)]
    /\ call' = [call EXCEPT ![c] = IF Head(orders[c]) = "start" THEN "claim" ELSE "release"]
    /\ UNCHANGED <<claims, streams, modes, line, dialled, given, others, faults>>

-----------------------------------------------------------------------------
(* What is said and what is heard meanwhile *)

\* _on_dnd, _apply_global_dnd and the adapter's command: nobody asks for a capture.
UserDnd(b) ==
    /\ ~Calm /\ faults < MaxFaults /\ faults' = faults + 1 /\ dnd' = b
    /\ UNCHANGED <<claims, streams, call, sampling, links, others>>

\* _handle_feedback asks for do-not-disturb, _dispatch_alarm_tts for a capture; the synthesis follows.
Feedback(s) == /\ voice[s] = "idle" /\ ~dnd /\ voice' = [voice EXCEPT ![s] = "said"]
               /\ UNCHANGED <<claims, streams, call, modes, links, recording, faults>>
AlarmSpeech(s) == /\ voice[s] = "idle" /\ captured = 0 /\ voice' = [voice EXCEPT ![s] = "rings"]
                  /\ UNCHANGED <<claims, streams, call, modes, links, recording, faults>>
Spoken(s) == /\ voice[s] # "idle" /\ voice' = [voice EXCEPT ![s] = "idle"]
             /\ UNCHANGED <<claims, streams, call, modes, links, recording, faults>>

\* A recording arrives whole: captured when it begins does not say captured when it arrives.
Record == /\ recording = "none" /\ sampling /\ recording' = "begun"
          /\ UNCHANGED <<claims, streams, call, modes, links, voice, faults>>
Captured == captured # 0
Arrive == /\ recording = "begun" /\ recording' = IF Captured THEN "routed" ELSE "none"
          /\ UNCHANGED <<claims, streams, call, modes, links, voice, faults>>
\* push_capture_audio looks again; without a queue the recording is nobody's.
Push == /\ recording = "routed" /\ recording' = "none"
        /\ UNCHANGED <<claims, streams, call, modes, links, voice, faults>>

Handle(c) == Claim(c) \/ Release(c) \/ SetModes(c) \/ OpenStream(c)
Next ==
    \/ \E c \in Collectors : Handle(c) \/ Obey(c) \/ Connect(c) \/ HangUp(c) \/ Closed(c)
    \/ \E q \in Queues : EndStream(q)
    \/ Start \/ MutePressed \/ (\E b \in BOOLEAN : UserDnd(b))
    \/ \E s \in Speakers : Feedback(s) \/ AlarmSpeech(s) \/ Spoken(s)
    \/ Record \/ Arrive \/ Push

Fairness ==
    /\ \A c \in Collectors : WF_vars(Handle(c))
    /\ \A q \in Queues : WF_vars(q \in ended /\ EndStream(q))
Spec == Init /\ [][Next]_vars /\ Fairness

-----------------------------------------------------------------------------
\* A capture is in force exactly while nobody released it and its own stream
\* did not end, and the Core can give orders to the newest collector as long as
\* its call stands: what ends late ends only what was its own.
NewerStands ==
    /\ captured = rightful
    /\ \A c \in Collectors : dialled[c] = "on" => line = c

\* A satellite that nobody captures leaves the sampling mode, and may be
\* spoken to again (the claim on the release of a capture).
HearsAgain == []<>(captured # 0 \/ ~(sampling \/ dnd))

\* Stated, and refuted when claims cross (Calm = FALSE): a capture that is set
\* up is never without its do-not-disturb.
QuietWhileCaptured == captured # 0 /\ ~Settling => dnd /\ sampling

\* Stated, and refuted: nothing is spoken into a capture.
NotSpokenInto == [][\A s \in Speakers : Spoken(s) => captured = 0]_vars
=============================================================================
