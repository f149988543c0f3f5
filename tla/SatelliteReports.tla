--------------------------- MODULE SatelliteReports ---------------------------
(***************************************************************************)
(* What a satellite reports over MQTT and what the Core keeps of it: the   *)
(* brightness of its ring, which both may change; its restarts, counted in *)
(* its flash and reported in a retained message; its firmware and the      *)
(* update it waits for.  The broker delivers in order; what is not         *)
(* retained is lost for whoever is not connected.                          *)
(***************************************************************************)
EXTENDS Naturals, Sequences

CONSTANTS Levels,      \* brightnesses
          Versions,    \* of the firmware, 1 to Versions
          Calm,        \* the ring is set only when the last value has arrived
          MaxSets, MaxRestarts, MaxCrashes \* bounds

VARIABLES
    stored,    \* Satellite.led_brightness
    shown,     \* the satellite's own value, in its flash
    wanted,    \* history: the value somebody set last
    sets,      \* led_brightness/set on its way to the satellite
    setTopic,  \* the retained one
    states,    \* led_brightness/state on its way to the Core
    power,     \* of the satellite: "off", "boot" (connected, not yet registered) or "on"
    adopting,  \* a value that is stored and not yet pushed; 0 when there is none
    version, count,   \* the satellite's firmware and restarts
    fwTopic,   \* the retained report of both
    reports,   \* reports on their way to the Core
    row,       \* firmware_version, new_version (0: no update_available) and the last reported count
    log,       \* history rows in satellite_restarts: count -> how many
    logging,   \* a count whose history row is written and whose last count is not; 0 when there is none
    nsets, crashes, torn

led == <<stored, shown, wanted, sets, setTopic, states, adopting, nsets>>
firmware == <<version, fwTopic, reports, row, log, logging>>
vars == <<led, firmware, power, count, crashes, torn>>

Counts == 1..MaxRestarts
TypeOK ==
    /\ {stored, shown, wanted, setTopic} \subseteq Levels /\ power \in {"off", "boot", "on"}
    /\ sets \in Seq(Levels) /\ states \in Seq(Levels) /\ adopting \in Levels \cup {0}
    /\ version \in 1..Versions /\ count \in Counts
    /\ row \in [firmware: 0..Versions, next: 0..Versions, count: 0..MaxRestarts]
    /\ log \in [Counts -> Nat] /\ logging \in Counts \cup {0}

Report == [type |-> "firmware", version |-> version, count |-> count]
Init ==
    /\ stored = (CHOOSE v \in Levels : TRUE) /\ shown = stored /\ wanted = stored /\ setTopic = stored
    /\ sets = <<>> /\ states = <<>> /\ power = "on" /\ adopting = 0
    /\ version = 1 /\ count = 1 /\ fwTopic = [type |-> "firmware", version |-> 1, count |-> 1]
    /\ reports = <<fwTopic>> /\ row = [firmware |-> 0, next |-> 0, count |-> 0]
    /\ log = [c \in Counts |-> 0] /\ logging = 0 /\ nsets = 0 /\ crashes = 0 /\ torn = {}

on == power # "off"
Push(v) == setTopic' = v /\ sets' = IF on THEN Append(sets, v) ELSE sets

-----------------------------------------------------------------------------
(* The brightness of the ring *)

Quiet == sets = <<>> /\ states = <<>> /\ adopting = 0

\* SetSatelliteLedBrightness and satellite_control: store, then push.
SetBrightness(v) ==
    /\ nsets < MaxSets /\ nsets' = nsets + 1 /\ (Calm => Quiet)
    /\ stored' = v /\ wanted' = v /\ Push(v)
    /\ UNCHANGED <<shown, states, adopting, firmware, power, count, crashes, torn>>

\* A manual MQTT command, past the Core.
ManualSet(v) ==
    /\ nsets < MaxSets /\ nsets' = nsets + 1 /\ (Calm => on /\ Quiet)
    /\ wanted' = v /\ Push(v)
    /\ UNCHANGED <<stored, shown, states, adopting, firmware, power, count, crashes, torn>>

\* on_led_brightness_set: applied and reported.
Apply ==
    /\ on /\ sets # <<>> /\ sets' = Tail(sets) /\ shown' = Head(sets)
    /\ states' = Append(states, shown')
    /\ UNCHANGED <<stored, wanted, setTopic, adopting, nsets, firmware, power, count, crashes, torn>>

\* on_satellite_registered: the value is reported unasked; _on_satellite_change
\* pushes the stored one.
Registered ==
    /\ power = "boot" /\ (Calm => Quiet)
    /\ power' = "on" /\ states' = Append(states, shown) /\ Push(stored)
    /\ UNCHANGED <<stored, shown, wanted, adopting, nsets, firmware, count, crashes, torn>>

\* Fault: what is reported is pushed, changed or not.
PushesAlways(v) == v
\* adopt_reported_led_brightness says whether the report changed anything.
Pushes(v) == IF stored = v THEN 0 ELSE v

\* _on_led_brightness_state, adopt_reported_led_brightness: the last writer wins.
Adopt ==
    /\ states # <<>> /\ adopting = 0 /\ states' = Tail(states)
    /\ stored' = Head(states) /\ adopting' = Pushes(Head(states))
    /\ UNCHANGED <<shown, wanted, sets, setTopic, nsets, firmware, power, count, crashes, torn>>
PushAdopted ==
    /\ adopting # 0 /\ Push(adopting) /\ adopting' = 0
    /\ UNCHANGED <<stored, shown, wanted, states, nsets, firmware, power, count, crashes, torn>>

-----------------------------------------------------------------------------
(* Restarts and firmware *)

\* Fault: the notice of the update stays.
InstalledKeepsNotice(r, v) == [r EXCEPT !.firmware = v]
\* set_satellite_firmware.
Installed(r, v) == [r EXCEPT !.firmware = v, !.next = IF @ = v THEN 0 ELSE @]

\* Fault: every report is a restart.
IsNewAlways(c) == TRUE
\* record_restart_report: the retained report comes again with every connection.
IsNew(c) == row.count # c

\* _on_message and _on_firmware_version: the history row comes before the count.
Firmware ==
    /\ reports # <<>> /\ Head(reports).type = "firmware" /\ logging = 0 /\ reports' = Tail(reports)
    /\ row' = Installed(row, Head(reports).version)
    /\ LET c == Head(reports).count IN
       IF IsNew(c) THEN log' = [log EXCEPT ![c] = @ + 1] /\ logging' = c ELSE UNCHANGED <<log, logging>>
    /\ UNCHANGED <<version, fwTopic, led, power, count, crashes, torn>>
RecordCount ==
    /\ logging # 0 /\ row' = [row EXCEPT !.count = logging] /\ logging' = 0
    /\ UNCHANGED <<version, fwTopic, reports, log, led, power, count, crashes, torn>>

\* _on_ota_pending.
OtaPending ==
    /\ reports # <<>> /\ Head(reports).type = "pending" /\ logging = 0 /\ reports' = Tail(reports)
    /\ row' = [row EXCEPT !.next = Head(reports).version]
    /\ UNCHANGED <<version, fwTopic, log, logging, led, power, count, crashes, torn>>

\* The satellite's check for an update, again and again: not retained.
CheckForUpdate(v) ==
    /\ on /\ v \in (version + 1)..Versions /\ reports = <<>>
    /\ reports' = <<[type |-> "pending", version |-> v, count |-> 0]>>
    /\ UNCHANGED <<version, fwTopic, row, log, logging, led, power, count, crashes, torn>>

\* The satellite goes off; a restart counts, with an update or without.
Off == /\ on /\ power' = "off" /\ sets' = <<>>
       /\ UNCHANGED <<stored, shown, wanted, setTopic, states, adopting, nsets, firmware, count, crashes, torn>>
Restart(v) ==
    /\ ~on /\ count < MaxRestarts /\ v \in {version, row.next} \ {0}
    /\ power' = "boot" /\ count' = count + 1 /\ version' = v
    /\ fwTopic' = [type |-> "firmware", version |-> v, count |-> count'] /\ reports' = Append(reports, fwTopic')
    /\ sets' = <<setTopic>>
    /\ UNCHANGED <<stored, shown, wanted, setTopic, states, adopting, nsets, row, log, logging, crashes, torn>>

\* Fault: a retained state is adopted like a live one.
RetainedStatesAdopted == <<shown>>
\* A retained state is an old one (_on_message, #453).
RetainedStates == <<>>

\* The Core starts again: what was on its way is lost, the retained report
\* comes again, the satellite registers again.
RestartCore ==
    /\ crashes < MaxCrashes /\ crashes' = crashes + 1 /\ (Calm => Quiet)
    /\ states' = RetainedStates /\ reports' = <<fwTopic>> /\ adopting' = 0 /\ logging' = 0
    /\ torn' = (IF logging # 0 THEN torn \cup {logging} ELSE torn)
    /\ power' = (IF on THEN "boot" ELSE "off")
    /\ UNCHANGED <<stored, shown, wanted, sets, setTopic, nsets, version, fwTopic, row, log, count>>

Satellite == Apply \/ (\E v \in 1..Versions : Restart(v))
Core == Adopt \/ PushAdopted \/ Firmware \/ RecordCount \/ OtaPending
Next ==
    \/ Satellite \/ Core \/ Registered \/ Off \/ RestartCore
    \/ \E v \in Levels : SetBrightness(v) \/ ManualSet(v)
    \/ \E v \in 1..Versions : CheckForUpdate(v)
Spec == Init /\ [][Next]_vars /\ WF_vars(Apply) /\ WF_vars(Adopt) /\ WF_vars(PushAdopted) /\ WF_vars(Registered)

-----------------------------------------------------------------------------
\* In the end the ring shows what is stored, and stays so ("damit Core und
\* Satellit nicht gegeneinander arbeiten", main.py:1581).
BrightnessSettles == <>[](power = "on" => Quiet /\ stored = shown)

\* Once everything has arrived, the ring shows what somebody set last.
LastWriterWins == power = "on" /\ Quiet => shown = wanted /\ stored = wanted

\* A restart is one row in the history, however often its report arrives;
\* a Core that ended between the two writes adds one more.
RestartLoggedOnce == \A c \in Counts : log[c] <= 1 + (IF c \in torn THEN crashes ELSE 0)

\* An installed update is not announced any longer once its report arrived.
NoticeIsCurrent == reports = <<>> => row.next = 0 \/ row.next # version

\* So row, history and ring of a satellite agree with what happened to it.
ReportsAreTrue == LastWriterWins /\ RestartLoggedOnce /\ NoticeIsCurrent
=============================================================================
