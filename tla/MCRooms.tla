------------------------------ MODULE MCRooms -------------------------------
(* One run for a room and its satellite (part): how it finds the server and *)
(* stays there, how it hears and answers, gets its row and reports; what is *)
(* played and asked on it, the voice enrolment, and the memory of what was  *)
(* said.                                                                    *)
EXTENDS Naturals
CONSTANTS Servers, HeartbeatTimeout, MaxLosses, MaxChanges, MaxSpeeches,
          MaxFrames, MinFrames, SilenceFrames, PreFrames, MaxTalks, MaxLost,
          Macs, Seeds, Names, MaxProvided,
          Levels, Versions, Calm, MaxSets, MaxRestarts, MaxCrashes,
          Announcers, Questions, MaxRounds, MaxOdd, MaxQuestions, MaxUtterances, AskFails,
          MaxCommands, MaxMessages, Parts

\* A recording ends only after some silence; the sentinel of rows is no seed.
ASSUME RoomsAssumption ==
    /\ {MaxFrames, MinFrames, PreFrames, MaxTalks, MaxLost} \subseteq Nat /\ SilenceFrames \in Nat \ {0}
    /\ "none" \notin Seeds /\ Levels # {}
    /\ {Versions, MaxRestarts} \subseteq Nat \ {0} /\ MaxCrashes \in Nat
    /\ {MaxRounds, MaxOdd, MaxQuestions, MaxUtterances, MaxCommands, MaxMessages} \subseteq Nat

VARIABLES part,
          proc, addr, reg, registered, hb, acked, failures, speaking, up, down, announced, known,
          roomed, odd, losses, changes, speeches,
          mic, talk, recorded, silence, calm, session, handed, answers, chunks, discard, played, unheard,
          rows, flash, call, packet, stale, paired, lost, provided,
          stored, shown, wanted, sets, setTopic, states, power, adopting, version, count, fwTopic,
          reports, row, log, logging, nsets, crashes, torn,
          pc, rounds, busy, done, raced, releaser, playing, acks, open, pending, timer, assets, silenced,
          active, at, asked, waiter, event, held, taker, samples, swallowed, utterances,
          ctx, alive, commands, started, filled, ending

C == INSTANCE SatelliteClient
V == INSTANCE SatelliteVoice WITH lost <- unheard
R == INSTANCE Provisioning
S == INSTANCE SatelliteReports
P == INSTANCE Playback WITH mic <- open, losses <- silenced
E == INSTANCE Enrollment
M == INSTANCE Conversation

client == <<proc, addr, reg, registered, hb, acked, failures, speaking, up, down, announced, known,
            roomed, odd, losses, changes, speeches>>
voice == <<mic, talk, recorded, silence, calm, session, handed, answers, chunks, discard, played, unheard>>
provisioning == <<rows, flash, call, packet, stale, paired, lost, provided>>
report == <<stored, shown, wanted, sets, setTopic, states, power, adopting, version, count, fwTopic,
            reports, row, log, logging, nsets, crashes, torn>>
playback == <<pc, rounds, busy, done, raced, releaser, playing, acks, open, pending, timer, assets, silenced>>
enrollment == <<active, at, asked, waiter, event, held, taker, samples, swallowed, utterances>>
conversation == <<ctx, alive, commands, started, filled, ending>>
vars == <<part, client, voice, provisioning, report, playback, enrollment, conversation>>
Client(A) == part = "client" /\ A /\ UNCHANGED <<part, voice, provisioning, report, playback, enrollment, conversation>>
Voice(A) == part = "voice" /\ A /\ UNCHANGED <<part, client, provisioning, report, playback, enrollment, conversation>>
Row(A) == part = "provisioning" /\ A /\ UNCHANGED <<part, client, voice, report, playback, enrollment, conversation>>
Reports(A) == part = "reports" /\ A /\ UNCHANGED <<part, client, voice, provisioning, playback, enrollment, conversation>>
Playing(A) == part = "playback" /\ A /\ UNCHANGED <<part, client, voice, provisioning, report, enrollment, conversation>>
Enrolling(A) == part = "enrollment" /\ A /\ UNCHANGED <<part, client, voice, provisioning, report, playback, conversation>>
Conversing(A) == part = "conversation" /\ A /\ UNCHANGED <<part, client, voice, provisioning, report, playback, enrollment>>
Init == part \in Parts /\ C!Init /\ V!Init /\ R!Init /\ S!Init /\ P!Init /\ E!Init /\ M!Init
Next == Client(C!Next) \/ Voice(V!Next) \/ Row(R!Next) \/ Reports(S!Next) \/ Playing(P!Next)
            \/ Enrolling(E!Next) \/ Conversing(M!Next)
Fairness ==
    /\ WF_vars(Client(C!Boot)) /\ WF_vars(Client(C!Restart)) /\ WF_vars(Client(C!ServerChanged))
    /\ WF_vars(Client(C!SpeechEnds)) /\ WF_vars(Client(C!Beat))
    /\ \A c \in C!Calls : WF_vars(Client(C!Registration(c)))
    /\ \A t \in C!Answered : WF_vars(Client(C!Receive(t)))
    /\ \A p \in C!Messages : WF_vars(Client(C!Serve(p)))
    /\ \A m \in Macs : WF_vars(Row(R!Register(m))) /\ WF_vars(Row(R!Call(m))) /\ WF_vars(Row(R!Receive(m)))
    /\ WF_vars(Reports(S!Apply)) /\ WF_vars(Reports(S!Adopt)) /\ WF_vars(Reports(S!PushAdopted))
    /\ WF_vars(Reports(S!Registered))
    /\ WF_vars(Playing(P!ThreadStep)) /\ WF_vars(Playing(P!Released)) /\ WF_vars(Playing(P!Heard))
    /\ WF_vars(Playing(P!TimerStep)) /\ WF_vars(Playing(P!PlaybackDone))
    /\ WF_vars(Enrolling(E!Dialogue)) /\ WF_vars(Enrolling(E!Consume))
    /\ \A i \in E!Ids : WF_vars(Enrolling(E!Timeout(i)))
Spec == Init /\ [][Next]_vars /\ Fairness

\* The modules of the parts state these properties.
\* A satellite comes on the air, by restarts only where nothing else helps, and
\* is known by its own row rather than its seed.
KeepsInTouch == C!KeepsInTouch /\ R!SeedIsForgotten
\* What is said is heard whole, and what is answered too.
SpeechIsWhole == V!SpeechIsWhole
\* A seed is for one satellite.
SeedPairsOnce == R!SeedPairsOnce
\* Row, history and ring of a satellite agree with what happened to it.
ReportsAreTrue == S!ReportsAreTrue
\* Claimed at main.py:1581: Core and satellite do not work against each other.
BrightnessSettles == S!BrightnessSettles
\* No announcement is sent over another one but through the known gap.
OverlaidOnlyAfterRace == P!OverlaidOnlyAfterRace
\* Audio is kept from the speech recognition only while an enrolment runs.
HeardOtherwise == E!HeardOtherwise
\* A follow-up means what was just said, and nothing that contradicts it.
ContextIsCurrent == M!ContextIsCurrent
\* So a satellite is never kept busy or asked for ever.
DialogueEnds == P!BusyEnds /\ P!QuestionsEnd /\ E!EnrollmentEnds
=============================================================================
