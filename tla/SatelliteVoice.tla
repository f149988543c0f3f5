--------------------------- MODULE SatelliteVoice ---------------------------
(***************************************************************************)
(* What is said at a Raspberry Pi satellite and what it answers: the wake  *)
(* word, the recording until silence, the Core's session that collects it, *)
(* and the answer, which arrives in packets and is played at its end.      *)
(***************************************************************************)
EXTENDS Naturals, Sequences

CONSTANTS MaxFrames, MinFrames, SilenceFrames, \* of a recording
          PreFrames,                           \* frames kept from before the wake word
          MaxTalks,                            \* recordings (bound)
          MaxLost                              \* packets lost (bound)

VARIABLES
    mic,       \* "listening", "pling" or "recording"
    talk,      \* the number of the recording
    recorded,  \* frames of it
    silence,   \* consecutive_silence
    calm,      \* history: frames since somebody spoke
    session,   \* the Core's session: the recording each packet is of
    handed,    \* the last session that was handed over
    answers,   \* packets on their way to the satellite
    chunks,    \* tts_chunks
    discard,   \* _tts_discard
    played,    \* the packets played last, each with the recording it answers
    lost

recording == <<mic, talk, recorded, silence, calm>>
core == <<session, handed>>
player == <<chunks, discard, played>>
vars == <<recording, core, answers, player, lost>>

TypeOK ==
    /\ mic \in {"listening", "pling", "recording"} /\ talk \in 0..MaxTalks
    /\ recorded \in 0..MaxFrames /\ silence \in 0..SilenceFrames /\ calm \in 0..(MaxFrames + 1)
    /\ discard \in BOOLEAN /\ lost \in 0..MaxLost

Init ==
    /\ mic = "listening" /\ talk = 0 /\ recorded = 0 /\ silence = 0 /\ calm = 0
    /\ session = <<>> /\ handed = <<>> /\ answers = <<>> /\ chunks = <<>>
    /\ discard = FALSE /\ played = <<>> /\ lost = 0

Times(n, x) == [i \in 1..n |-> x]

\* _wake_word_loop: from here to the end of the tone packets are discarded.
WakeWord ==
    /\ mic = "listening" /\ talk < MaxTalks /\ mic' = "pling" /\ talk' = talk + 1 /\ discard' = TRUE
    /\ UNCHANGED <<recorded, silence, calm, core, answers, chunks, played, lost>>

\* _record_and_stream begins with the frames from before the wake word.
PlingEnds ==
    /\ mic = "pling" /\ mic' = "recording" /\ discard' = FALSE
    /\ recorded' = 0 /\ silence' = 0 /\ calm' = 0
    /\ session' = session \o Times(PreFrames, talk)
    /\ UNCHANGED <<talk, handed, answers, chunks, played, lost>>

\* Fault: a pause is as good as silence.
SilenceAddsUp(n, loud) == IF n < MinFrames THEN 0 ELSE IF loud THEN silence ELSE silence + 1
\* Silence counts from the shortest recording on, and anew after every sound.
SilenceAfter(n, loud) == IF n < MinFrames \/ loud THEN 0 ELSE silence + 1

\* A frame, and _handle_audio: the session opens with the first one.
Frame(loud) ==
    /\ mic = "recording" /\ recorded < MaxFrames /\ silence < SilenceFrames
    /\ recorded' = recorded + 1 /\ silence' = SilenceAfter(recorded', loud)
    /\ calm' = (IF loud THEN 0 ELSE calm + 1)
    /\ session' = Append(session, talk)
    /\ UNCHANGED <<mic, talk, handed, answers, player, lost>>

Ended == recorded = MaxFrames \/ silence = SilenceFrames
Answer == Times(2, [type |-> "chunk", of |-> talk]) \o <<[type |-> "end", of |-> talk]>>

\* Fault: the session stays open after its end.
AudioEndKeepsSession ==
    /\ mic = "recording" /\ Ended /\ mic' = "listening"
    /\ handed' = session /\ answers' = answers \o Answer
    /\ UNCHANGED <<talk, recorded, silence, calm, session, player, lost>>

\* audio_end, and _handle_control, which hands the session over; the answer.
AudioEnd ==
    /\ mic = "recording" /\ Ended /\ mic' = "listening"
    /\ handed' = session /\ session' = <<>> /\ answers' = answers \o Answer
    /\ UNCHANGED <<talk, recorded, silence, calm, player, lost>>
LoseAudioEnd ==
    /\ mic = "recording" /\ Ended /\ mic' = "listening" /\ lost < MaxLost /\ lost' = lost + 1
    /\ UNCHANGED <<talk, recorded, silence, calm, core, answers, player>>

\* Fault: what was played stays in the list.
ReceiveKeepsChunks ==
    /\ answers # <<>> /\ answers' = Tail(answers)
    /\ IF Head(answers).type = "chunk"
       THEN chunks' = (IF discard THEN <<>> ELSE Append(chunks, Head(answers).of)) /\ UNCHANGED played
       ELSE chunks' = chunks /\ played' = (IF chunks = <<>> THEN played ELSE chunks)
    /\ UNCHANGED <<recording, core, discard, lost>>

\* _tts_receiver_loop: an end without packets plays nothing.
Receive ==
    /\ answers # <<>> /\ answers' = Tail(answers)
    /\ IF Head(answers).type = "chunk"
       THEN chunks' = (IF discard THEN <<>> ELSE Append(chunks, Head(answers).of)) /\ UNCHANGED played
       ELSE chunks' = <<>> /\ played' = (IF chunks = <<>> THEN played ELSE chunks)
    /\ UNCHANGED <<recording, core, discard, lost>>
LoseAnswer == /\ answers # <<>> /\ answers' = Tail(answers) /\ lost < MaxLost /\ lost' = lost + 1
              /\ UNCHANGED <<recording, core, player>>

Next == WakeWord \/ PlingEnds \/ (\E loud \in BOOLEAN : Frame(loud)) \/ AudioEnd \/ LoseAudioEnd
        \/ Receive \/ LoseAnswer
Spec == Init /\ [][Next]_vars

-----------------------------------------------------------------------------
Uniform(s) == \A i, j \in 1..Len(s) : s[i] = s[j]

\* As long as no packet is lost, what is recognised is one recording, and what
\* is played at once is one answer, however the wake word cuts into it.
OneAtATime == lost = 0 => Uniform(handed) /\ Uniform(played)

\* Nobody is cut off: a recording that is not as long as it may be ends only
\* after silence without a sound in it, and not before the shortest recording.
NobodyIsCutOff ==
    mic = "recording" /\ Ended /\ recorded < MaxFrames => calm >= SilenceFrames /\ recorded >= MinFrames

\* So what is said is heard whole, and what is answered too.
SpeechIsWhole == OneAtATime /\ NobodyIsCutOff
=============================================================================
