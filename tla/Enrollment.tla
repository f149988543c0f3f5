----------------------------- MODULE Enrollment -----------------------------
(***************************************************************************)
(* Learning a voice at one satellite: questions are spoken one after the   *)
(* other, the audio of the satellite goes to the dialogue while a question *)
(* waits, and a timer ends the wait.                                       *)
(***************************************************************************)
EXTENDS Naturals

CONSTANTS MaxQuestions, MaxUtterances,
          AskFails  \* speaking a question may raise an exception

VARIABLES
    active,    \* _active_devices
    at,        \* the dialogue's thread: "idle", "asking", "waiting" or "ending"
    asked,     \* questions asked
    waiter,    \* _waiters: the question that waits for audio, or 0
    event,     \* the questions whose event is set
    held,      \* question -> utterances in its holder
    taker,     \* the audio's thread: the question whose entry it has found, or 0
    samples,   \* the questions whose answer is part of the voice print
    swallowed, \* history: an utterance was taken although nobody was asking
    utterances

vars == <<active, at, asked, waiter, event, held, taker, samples, swallowed, utterances>>
Ids == 1..MaxQuestions

TypeOK ==
    /\ active \in BOOLEAN /\ at \in {"idle", "asking", "waiting", "ending"} /\ asked \in 0..MaxQuestions
    /\ waiter \in Ids \cup {0} /\ event \subseteq Ids /\ held \in [Ids -> 0..MaxUtterances]
    /\ taker \in Ids \cup {0} /\ samples \subseteq Ids /\ swallowed \in BOOLEAN /\ utterances \in 0..MaxUtterances

Init == /\ active = FALSE /\ at = "idle" /\ asked = 0 /\ waiter = 0 /\ event = {} /\ held = [i \in Ids |-> 0]
        /\ taker = 0 /\ samples = {} /\ swallowed = FALSE /\ utterances = 0

Start == /\ ~active /\ asked = 0 /\ active' = TRUE /\ at' = "asking"
         /\ UNCHANGED <<asked, waiter, event, held, taker, samples, swallowed, utterances>>

\* _ask_and_wait: registered before the question is spoken.
Ask == /\ at = "asking" /\ asked < MaxQuestions /\ samples # Ids
       /\ asked' = asked + 1 /\ waiter' = asked + 1
       /\ at' \in {"waiting"} \cup (IF AskFails THEN {"ending"} ELSE {})
       /\ UNCHANGED <<active, event, held, taker, samples, swallowed, utterances>>

\* The timer of a question, unless its answer has cancelled it.
Timeout(i) == /\ i <= asked /\ i \notin event /\ held[i] = 0 /\ event' = event \cup {i}
              /\ UNCHANGED <<active, at, asked, waiter, held, taker, samples, swallowed, utterances>>

\* Fault: the entry stays registered after its question.
CollectKeepsEntry ==
    /\ at = "waiting" /\ asked \in event /\ at' = "asking"
    /\ samples' = samples \cup (IF held[asked] > 0 THEN {asked} ELSE {})
    /\ UNCHANGED <<active, asked, waiter, event, held, taker, swallowed, utterances>>

Collect ==
    /\ at = "waiting" /\ asked \in event /\ at' = "asking" /\ waiter' = 0
    /\ samples' = samples \cup (IF held[asked] > 0 THEN {asked} ELSE {})
    /\ UNCHANGED <<active, asked, event, held, taker, swallowed, utterances>>

Enough == /\ at = "asking" /\ asked = MaxQuestions /\ at' = "ending"
          /\ UNCHANGED <<active, asked, waiter, event, held, taker, samples, swallowed, utterances>>

\* Enrolment with the speech recognition service, the confirmation, and the
\* "finally" that frees the satellite, whatever was raised.
Finish == /\ at = "ending" /\ at' = "idle" /\ active' = FALSE
          /\ UNCHANGED <<asked, waiter, event, held, taker, samples, swallowed, utterances>>

\* try_consume: the entry is looked up under the lock, and used after it.
Utter == /\ taker = 0 /\ utterances < MaxUtterances /\ utterances' = utterances + 1
         /\ taker' = waiter /\ swallowed' = (swallowed \/ (waiter # 0 /\ ~active))
         /\ UNCHANGED <<active, at, asked, waiter, event, held, samples>>
\* Fault: the answer is kept, the dialogue is not woken.
ConsumeSilently == /\ taker # 0 /\ taker' = 0 /\ held' = [held EXCEPT ![taker] = @ + 1]
                   /\ UNCHANGED <<active, at, asked, waiter, event, samples, swallowed, utterances>>
Consume == /\ taker # 0 /\ taker' = 0
           /\ held' = [held EXCEPT ![taker] = @ + 1] /\ event' = event \cup {taker}
           /\ UNCHANGED <<active, at, asked, waiter, samples, swallowed, utterances>>

Dialogue == Ask \/ Collect \/ Enough \/ Finish
Next == Start \/ Dialogue \/ Utter \/ Consume \/ \E i \in Ids : Timeout(i)
Fairness == WF_vars(Dialogue) /\ WF_vars(Consume) /\ \A i \in Ids : WF_vars(Timeout(i))
Spec == Init /\ [][Next]_vars /\ Fairness

-----------------------------------------------------------------------------
\* An enrolment ends, whoever answers or not, and frees the satellite.
EnrollmentEnds == []<>(~active)

\* Audio is kept from the speech recognition only while an enrolment runs
\* (voice_enrollment.py:138; a question that cannot be spoken breaks it).
HeardOtherwise == ~swallowed
=============================================================================
