---------------------------- MODULE AlarmRinging ----------------------------
(***************************************************************************)
(* The ringing of alarms on one satellite (core/hannah/alarms.py,          *)
(* _start_ringing to stop_ringing).  Satellites share no ringing state.    *)
(*                                                                         *)
(* A Thread is a slot for one _fire thread that starts the ringing, rings  *)
(* the first round itself and leaves a loop thread behind; a Stopper is a  *)
(* caller of stop_ringing.  The satellite obeys a volume command at once,  *)
(* but the Core learns of it only from a later report.                     *)
(***************************************************************************)
EXTENDS Naturals, FiniteSets

CONSTANTS
    Threads,    \* overlapping alarm threads (bound)
    Stoppers,   \* overlapping stop_ringing calls (bound)
    Low, High,  \* volume_low, volume_high
    UserVols,   \* volumes users choose
    NoVol

AlarmRingingAssumption ==
    /\ NoVol \notin UserVols \cup {Low, High}
    /\ UserVols # {}

VARIABLES
    ringing,      \* the satellite is in _ringing
    ring_high, asset_broken, pre_ring_volume,  \* its entries in the other maps
    captured,     \* is_captured(satellite)
    thread,       \* per thread: step, first round?, level and fault seen
    stopper,      \* the volume each stop_ringing call has yet to restore
    volume,       \* the volume the satellite plays at
    known,        \* the volume the Core has last been told, _device_volume
    chosen,       \* the volume a user chose last
    results,      \* a play_asset answer is outstanding
    last          \* what the satellite was last asked to play

vars == <<ringing, ring_high, asset_broken, pre_ring_volume, captured, thread,
          stopper, volume, known, chosen, results, last>>

Vols == UserVols \cup {Low, High}
Idle == [pc |-> "idle", first |-> FALSE, level |-> NoVol, broken |-> FALSE]

TypeOK ==
    /\ ringing \in BOOLEAN
    /\ ring_high \in BOOLEAN
    /\ asset_broken \in BOOLEAN
    /\ pre_ring_volume \in Vols \cup {NoVol}
    /\ captured \in BOOLEAN
    /\ thread \in [Threads -> [pc: {"idle", "cycle", "level", "volume", "play", "next",
                                    "loop", "wait", "woken"},
                               first: BOOLEAN, level: {Low, High, NoVol}, broken: BOOLEAN]]
    /\ stopper \in [Stoppers -> Vols \cup {NoVol}]
    /\ volume \in Vols /\ known \in Vols /\ chosen \in UserVols
    /\ results \in BOOLEAN
    /\ last \in {"nothing", "asset", "speech"}

Init ==
    /\ ringing = FALSE /\ ring_high = FALSE /\ asset_broken = FALSE
    /\ pre_ring_volume = NoVol
    /\ captured = FALSE
    /\ thread = [t \in Threads |-> Idle]
    /\ stopper = [s \in Stoppers |-> NoVol]
    /\ chosen \in UserVols
    /\ volume = chosen /\ known = chosen
    /\ results = FALSE
    /\ last = "nothing"

At(t, pc) == thread[t].pc = pc
Goto(t, pc) == thread' = [thread EXCEPT ![t].pc = pc]
Exit(t) == thread' = [thread EXCEPT ![t] = Idle]
ring == <<ringing, ring_high, asset_broken, pre_ring_volume>>
sat  == <<volume, known, chosen, results, last>>

-----------------------------------------------------------------------------
(* _start_ringing and its first round.                                     *)

\* An alarm fires.  On a satellite that rings already nothing more happens.
StartRinging(t) ==
    /\ At(t, "idle")
    /\ ~ringing
    /\ ringing' = TRUE
    /\ ring_high' = FALSE
    /\ asset_broken' = FALSE
    /\ pre_ring_volume' = known
    /\ thread' = [thread EXCEPT ![t] = [Idle EXCEPT !.pc = "cycle", !.first = TRUE]]
    /\ UNCHANGED <<captured, stopper, sat>>

\* Where a round leads: the first one to the start of the loop thread.
AfterRound(t) == IF thread[t].first THEN "next" ELSE "loop"

\* _ringing_cycle: no round on a satellite that is being captured.
CheckCapture(t) ==
    /\ At(t, "cycle")
    /\ Goto(t, IF captured THEN AfterRound(t) ELSE "level")
    /\ UNCHANGED <<ring, captured, stopper, sat>>

\* Fault: the quiet rounds ring at the volume from before.
QuietAsBefore(high) == IF high THEN pre_ring_volume ELSE High
NextLevel(high) == IF high THEN Low ELSE High

\* The locked part: still ringing?  Then take the other level.
ChooseLevel(t) ==
    /\ At(t, "level")
    /\ IF ringing
         THEN /\ ring_high' = ~ring_high
              /\ thread' = [thread EXCEPT ![t].pc = "volume",
                                          ![t].level = NextLevel(ring_high),
                                          ![t].broken = asset_broken]
         ELSE /\ Goto(t, AfterRound(t))
              /\ UNCHANGED ring_high
    /\ UNCHANGED <<ringing, asset_broken, pre_ring_volume, captured, stopper, sat>>

\* _set_volume_fn, after the lock was released.
SetRingVolume(t) ==
    /\ At(t, "volume")
    /\ volume' = thread[t].level
    /\ Goto(t, "play")
    /\ UNCHANGED <<ring, captured, stopper, known, chosen, results, last>>

\* Fault: a failed alarm tone is asked for again instead of a spoken alarm.
ToneAgain(t) == "asset"
WhatToPlay(t) == IF thread[t].broken THEN "speech" ELSE "asset"

\* The alarm tone, or an attempt at speech once the tone has failed (which
\* the Core itself withholds from a captured satellite).
PlayRound(t) ==
    /\ At(t, "play")
    /\ last' = IF WhatToPlay(t) = "speech" /\ captured THEN last ELSE WhatToPlay(t)
    /\ results' = (results \/ WhatToPlay(t) = "asset")
    /\ Goto(t, AfterRound(t))
    /\ UNCHANGED <<ring, captured, stopper, volume, known, chosen>>

\* The first round is over: start the loop unless stopped meanwhile.
StartLoop(t) ==
    /\ At(t, "next")
    /\ IF ringing
         THEN thread' = [thread EXCEPT ![t].pc = "loop", ![t].first = FALSE]
         ELSE Exit(t)
    /\ UNCHANGED <<ring, captured, stopper, sat>>

-----------------------------------------------------------------------------
(* _ringing_loop.                                                          *)

\* Fault: the loop ends when it finds the satellite captured.
EndIfCaptured(t) == ringing /\ ~captured
\* Fault: the loop does not look whether it was stopped.
NeverEnds(t) == TRUE
\* satellite_id in self._ringing, read under the lock before and after the wait.
GoOn(t) == ringing

LoopCheck(t) ==
    /\ At(t, "loop")
    /\ IF GoOn(t) THEN Goto(t, "wait") ELSE Exit(t)
    /\ UNCHANGED <<ring, captured, stopper, sat>>

\* Fault: the wait has no timeout, and takes an old playback_done for a new one.
WaitEndsUntimed(t) ==
    /\ At(t, "wait")
    /\ last # "nothing"
    /\ Goto(t, "woken")
    /\ UNCHANGED <<ring, captured, stopper, sat>>

\* playback_done arrives, or the wait times out.
WaitEnds(t) ==
    /\ At(t, "wait")
    /\ Goto(t, "woken")
    /\ UNCHANGED <<ring, captured, stopper, sat>>

LoopRecheck(t) ==
    /\ At(t, "woken")
    /\ IF GoOn(t) THEN Goto(t, "cycle") ELSE Exit(t)
    /\ UNCHANGED <<ring, captured, stopper, sat>>

-----------------------------------------------------------------------------
(* Everything around it.                                                   *)

\* stop_ringing, its locked part ...
StopRinging(s) ==
    /\ stopper[s] = NoVol
    /\ ringing
    /\ ringing' = FALSE
    /\ ring_high' = FALSE
    /\ asset_broken' = FALSE
    /\ stopper' = [stopper EXCEPT ![s] = pre_ring_volume]
    /\ pre_ring_volume' = NoVol
    /\ UNCHANGED <<captured, thread, sat>>

\* ... and the restore after the lock was released.
RestoreVolume(s) ==
    /\ stopper[s] # NoVol
    /\ volume' = stopper[s]
    /\ stopper' = [stopper EXCEPT ![s] = NoVol]
    /\ UNCHANGED <<ring, captured, thread, known, chosen, results, last>>

\* The satellite answers a play_asset: a failure of the tone is noted.
OnPlayResult(ok) ==
    /\ results
    /\ results' = FALSE
    /\ asset_broken' = (asset_broken \/ (ringing /\ ~ok))
    /\ UNCHANGED <<ringing, ring_high, pre_ring_volume, captured, thread, stopper,
                   volume, known, chosen, last>>

\* The satellite reports its volume on volume/state.
VolumeReported ==
    /\ known # volume
    /\ known' = volume
    /\ UNCHANGED <<ring, captured, thread, stopper, volume, chosen, results, last>>

AllQuiet ==
    /\ ~ringing
    /\ \A t \in Threads : thread[t] = Idle
    /\ \A s \in Stoppers : stopper[s] = NoVol

\* A user turns the volume, while no alarm is at work.
UserSetsVolume(v) ==
    /\ AllQuiet
    /\ v # chosen
    /\ chosen' = v
    /\ volume' = v
    /\ UNCHANGED <<ring, captured, thread, stopper, known, results, last>>

ToggleCapture ==
    /\ captured' = ~captured
    /\ UNCHANGED <<ring, thread, stopper, sat>>

ThreadStep(t) ==
    \/ CheckCapture(t) \/ ChooseLevel(t) \/ SetRingVolume(t) \/ PlayRound(t)
    \/ StartLoop(t) \/ LoopCheck(t) \/ WaitEnds(t) \/ LoopRecheck(t)

Next ==
    \/ \E t \in Threads : StartRinging(t) \/ ThreadStep(t)
    \/ \E s \in Stoppers : StopRinging(s) \/ RestoreVolume(s)
    \/ \E ok \in BOOLEAN : OnPlayResult(ok)
    \/ VolumeReported
    \/ \E v \in UserVols : UserSetsVolume(v)
    \/ ToggleCapture

\* Threads run and waits end, at the latest after cycle_seconds.
Fairness ==
    /\ \A t \in Threads : WF_vars(ThreadStep(t))
    /\ \A s \in Stoppers : WF_vars(RestoreVolume(s))

Spec == Init /\ [][Next]_vars /\ Fairness

-----------------------------------------------------------------------------
(* Properties.                                                             *)

\* A satellite marked as ringing has a thread that rings it.  One without
\* would swallow every later alarm there (alarms.py:260-261).
RingingHasThread == ringing => \E t \in Threads : thread[t] # Idle

\* A stopped alarm falls silent for good, unless it is started again.
StopSilences ==
    []<>(ringing \/ \A t \in Threads : thread[t] = Idle)

\* A tone that cannot be played does not stay the last thing heard: the alarm
\* is spoken (#116), unless it is stopped or the satellite captured.
BrokenToneIsSpoken ==
    []<>(~ringing \/ ~asset_broken \/ captured \/ last = "speech")

\* The alarm goes on by itself when capture ends (alarms.py:69-72).
ResumesAfterCapture ==
    <>[](ringing /\ ~captured) => []<>(\E t \in Threads : At(t, "play"))

\* Claimed at core/hannah/alarms.py:331-332: stop_ringing "stellt die
\* Lautstärke von vor dem Klingeln wieder her."
VolumeRestored == AllQuiet => volume = chosen

\* Claimed at core/tests/test_alarm_manager.py:258-264 (idempotent per device)
\* and alarms.py:333-334 (a stop reaches the loop after its wait): one loop
\* rings a satellite at a time.
OneLoop == Cardinality({t \in Threads : thread[t] # Idle /\ ~thread[t].first}) <= 1
=============================================================================
