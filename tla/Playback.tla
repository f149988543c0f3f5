------------------------------ MODULE Playback ------------------------------
(***************************************************************************)
(* One satellite's loudspeaker and microphone.  Announcements pass a gate: *)
(* a busy flag, set when audio is sent and cleared by a thread that waits  *)
(* for the satellite's playback_done, with a time-out.  A question is an   *)
(* announcement after which the microphone is opened and the next          *)
(* utterance of the room belongs to whoever asked.                         *)
(***************************************************************************)
EXTENDS Naturals

CONSTANTS Announcers, Questions,  \* threads that announce, threads that ask
          MaxRounds,              \* announcements of a thread
          MaxOdd                  \* tones past the gate (alarms, chimes), lost acknowledgements
                                  \* and restarts of the satellite

None == "none"
Threads == Announcers \cup Questions

VARIABLES
    pc,       \* thread -> where it is
    rounds,   \* thread -> announcements begun
    busy,     \* _busy_devices
    done,     \* the playback_done event
    releaser, \* the threads for whose audio another waits to free the satellite
    playing,  \* what the satellite is playing
    acks,     \* 1 while a playback_done is on its way (a second one says no more)
    mic,      \* the satellite listens, for which question
    pending,  \* _pending_questions of the room
    timer,    \* question -> its timer: "off", "running" or "firing"
    raced,    \* history: two threads found the satellite free before either took it
    assets, losses

gate == <<busy, done, releaser, raced>>
satellite == <<playing, acks, mic>>
room == <<pending, timer>>
vars == <<pc, rounds, gate, satellite, room, assets, losses>>

TypeOK ==
    /\ pc \in [Threads -> {"idle", "check", "begin", "await", "record"}]
    /\ rounds \in [Threads -> 0..MaxRounds] /\ busy \in BOOLEAN /\ done \in BOOLEAN /\ raced \in BOOLEAN
    /\ releaser \subseteq Threads
    /\ playing \subseteq Threads \cup {"asset"} /\ acks \in 0..1
    /\ mic \in Questions \cup {None} /\ pending \in Questions \cup {None}
    /\ timer \in [Questions -> {"off", "running", "firing"}]
    /\ assets \in 0..MaxOdd /\ losses \in 0..MaxOdd

Init ==
    /\ pc = [t \in Threads |-> "idle"] /\ rounds = [t \in Threads |-> 0]
    /\ busy = FALSE /\ done = FALSE /\ raced = FALSE /\ releaser = {}
    /\ playing = {} /\ acks = 0 /\ mic = None /\ pending = None
    /\ timer = [q \in Questions |-> "off"]
    /\ assets = 0 /\ losses = 0

-----------------------------------------------------------------------------
(* process_announcement and _dispatch_audio *)

\* A thread announces again when its audio was released; it asks once.
Announce(t) ==
    /\ pc[t] = "idle" /\ rounds[t] < MaxRounds /\ t \notin playing /\ t \notin releaser
    /\ t \in Questions => rounds[t] = 0
    /\ rounds' = [rounds EXCEPT ![t] = @ + 1] /\ pc' = [pc EXCEPT ![t] = "check"]
    /\ UNCHANGED <<gate, satellite, room, assets, losses>>

After(t) == IF t \in Questions THEN "await" ELSE "idle"

\* Busy: the announcement is dropped.  Who asks waits for playback_done anyway.
Check(t) ==
    /\ pc[t] = "check" /\ pc' = [pc EXCEPT ![t] = IF busy THEN After(t) ELSE "begin"]
    /\ raced' = (raced \/ (~busy /\ \E u \in Threads : pc[u] = "begin"))
    /\ UNCHANGED <<rounds, busy, done, releaser, satellite, room, assets, losses>>

\* Fault: the event of the last playback is not reset.
BeginWithOldEvent(t) ==
    /\ pc[t] = "begin" /\ pc' = [pc EXCEPT ![t] = After(t)]
    /\ busy' = TRUE /\ releaser' = releaser \cup {t} /\ playing' = playing \cup {t}
    /\ UNCHANGED <<rounds, done, raced, acks, mic, room, assets, losses>>

\* _begin_playback and _send_audio.
Begin(t) ==
    /\ pc[t] = "begin" /\ pc' = [pc EXCEPT ![t] = After(t)]
    /\ done' = FALSE /\ busy' = TRUE /\ releaser' = releaser \cup {t} /\ playing' = playing \cup {t}
    /\ UNCHANGED <<rounds, raced, acks, mic, room, assets, losses>>

\* Fault: without an acknowledgement the flag stays.
WaitForAck(t) == done

\* The time-out is the length of the audio and five seconds: by then its end
\* was acknowledged or the acknowledgement is lost.
WaitedEnough(t) == done \/ (t \notin playing /\ acks = 0)

\* _release_busy_after_playback, woken by whatever playback ended.
Release(t) ==
    /\ t \in releaser /\ WaitedEnough(t)
    /\ busy' = FALSE /\ releaser' = releaser \ {t}
    /\ UNCHANGED <<pc, rounds, done, raced, satellite, room, assets, losses>>

-----------------------------------------------------------------------------
(* The satellite *)

Finish(x) ==
    /\ x \in playing /\ playing' = playing \ {x} /\ acks' = 1
    /\ UNCHANGED <<pc, rounds, gate, mic, room, assets, losses>>

PlayAsset ==
    /\ assets + losses < MaxOdd /\ assets' = assets + 1 /\ playing' = playing \cup {"asset"}
    /\ UNCHANGED <<pc, rounds, gate, acks, mic, room, losses>>

PlaybackDone ==
    /\ acks = 1 /\ acks' = 0 /\ done' = TRUE
    /\ UNCHANGED <<pc, rounds, busy, releaser, raced, playing, mic, room, assets, losses>>

\* An acknowledgement is lost, or the satellite restarts.
LoseAck == /\ assets + losses < MaxOdd /\ losses' = losses + 1 /\ acks = 1 /\ acks' = 0
           /\ UNCHANGED <<pc, rounds, gate, playing, mic, room, assets>>
Reboot == /\ assets + losses < MaxOdd /\ losses' = losses + 1 /\ playing' = {} /\ mic' = None
          /\ UNCHANGED <<pc, rounds, gate, acks, room, assets>>

-----------------------------------------------------------------------------
(* _ask_fn: wait for the end of the question, open the microphone, record *)

Listen(q) ==
    /\ q \in Questions /\ pc[q] = "await" /\ (done \/ q \notin playing)
    /\ mic' = q /\ pc' = [pc EXCEPT ![q] = "record"]
    /\ UNCHANGED <<rounds, gate, playing, acks, room, assets, losses>>

\* Fault: a question that replaces another gets no timer of its own.
RecordWithoutTimer(q) ==
    /\ q \in Questions /\ pc[q] = "record" /\ pc' = [pc EXCEPT ![q] = "idle"]
    /\ pending' = q
    /\ timer' = [timer EXCEPT ![IF pending = None THEN q ELSE pending] = IF pending = None THEN "running" ELSE "off"]
    /\ UNCHANGED <<rounds, gate, satellite, assets, losses>>

\* The question before it is replaced; its timer, if it already fires, is not stopped.
Record(q) ==
    /\ q \in Questions /\ pc[q] = "record" /\ pc' = [pc EXCEPT ![q] = "idle"]
    /\ pending' = q
    /\ timer' = [p \in Questions |-> IF p = q THEN "running"
                                      ELSE IF p = pending /\ timer[p] = "running" THEN "off" ELSE timer[p]]
    /\ UNCHANGED <<rounds, gate, satellite, assets, losses>>

Elapse(q) == /\ timer[q] = "running" /\ timer' = [timer EXCEPT ![q] = "firing"]
             /\ UNCHANGED <<pc, rounds, gate, satellite, pending, assets, losses>>
\* _on_timeout takes away the room's question, whichever it is.
Expire(q) == /\ timer[q] = "firing" /\ timer' = [timer EXCEPT ![q] = "off"] /\ pending' = None
             /\ UNCHANGED <<pc, rounds, gate, satellite, assets, losses>>

\* _try_answer_pending with the next utterance; without a question it is a command.
Utter ==
    /\ mic # None /\ mic' = None
    /\ pending' = None
    /\ timer' = [q \in Questions |-> IF q = pending /\ timer[q] = "running" THEN "off" ELSE timer[q]]
    /\ UNCHANGED <<pc, rounds, gate, playing, acks, assets, losses>>

ThreadStep == \E t \in Threads : Check(t) \/ Begin(t) \/ Listen(t) \/ Record(t)
Released == \E t \in Threads : Release(t)
Heard == \E x \in Threads \cup {"asset"} : Finish(x)
TimerStep == \E q \in Questions : Elapse(q) \/ Expire(q)
Next ==
    \/ \E t \in Threads : Announce(t)
    \/ ThreadStep \/ Released \/ Heard \/ TimerStep
    \/ PlayAsset \/ PlaybackDone \/ LoseAck \/ Reboot \/ Utter

\* Audio ends by itself; threads and timers run; a message that is not lost
\* arrives.  All that waits is bounded, so that nobody is passed over forever.
Fairness == /\ WF_vars(ThreadStep) /\ WF_vars(Released) /\ WF_vars(Heard) /\ WF_vars(TimerStep)
            /\ WF_vars(PlaybackDone)
Spec == Init /\ [][Next]_vars /\ Fairness

-----------------------------------------------------------------------------
\* "verwirft, statt zu ueberlagern" (main.py:1460): no announcement is sent
\* over another one.
NeverOverlaid == \A t, u \in playing \ {"asset"} : t = u

\* Two steps, is_busy and mark_busy, are the only gap in the gate (#304), and
\* tones that pass it: otherwise the event, the time-out and the flag keep
\* announcements apart, whatever is lost.
OverlaidOnlyAfterRace == ~raced /\ assets = 0 => NeverOverlaid

\* A satellite is never mute for good: whatever is lost, the flag falls
\* (main.py:1446).
BusyEnds == []<>(~busy)

\* A question of the room is answered, replaced or expired in the end.
QuestionsEnd == \A q \in Questions : []<>(pending # q)
=============================================================================
