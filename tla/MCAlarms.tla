------------------------------ MODULE MCAlarms ------------------------------
(* The ringing of alarms on a satellite, bounded for TLC.                   *)
EXTENDS AlarmRinging

\* A user turns the volume up once, after the last alarm (bound).
MCInit == Init /\ chosen = 1
MCNext == Next /\ (chosen' = 2 => ~ringing')
MCSpec == MCInit /\ [][MCNext]_vars /\ Fairness

\* What was not stopped is heard: a thread rings it, again after a capture, and
\* it is spoken when the tone is broken (alarms.py _ringing_loop).
KeepsRinging == []RingingHasThread /\ ResumesAfterCapture /\ BrokenToneIsSpoken
=============================================================================
