------------------------------ MODULE ToolAgent ------------------------------
(***************************************************************************)
(* ToolAgent.run: the language model is asked again and again, each answer *)
(* may hold several tool calls, and what is to be said is collected on the *)
(* way.  The model may say anything, repeat itself, or fail.  The devices  *)
(* are those of the registry, which the agent of the house may change      *)
(* between two calls.                                                      *)
(***************************************************************************)
EXTENDS Naturals, Sequences, FiniteSetsExt, SequencesExt

CONSTANTS Devices, RequiredTrust,  \* device -> the trust its slot asks for
          Trust,                   \* the trust of whoever speaks
          Automations, KnownUser,
          MaxIterations, MaxBatch, \* _MAX_ITERATIONS, and (bound) calls in one answer
          MaxRenewals              \* (bound) changes of the registry

VARIABLES
    running,    \* "asking", "calling", "done"
    iteration,
    batch,      \* calls of this answer still to be made
    called,     \* the calls made
    spoken,     \* what is to be said, in order
    known,      \* devices in the registry
    writable,   \* those whose slot may be written
    values,     \* device -> the value sent to it last
    enabled,    \* automations switched on for the user
    adapter,    \* an agent of the house is connected
    answer,     \* what run returns
    refused,    \* history: devices refused for want of trust
    renewals

agent == <<running, iteration, batch, called, spoken, answer, refused>>
house == <<known, writable, values, enabled, adapter, renewals>>
vars == <<agent, house>>

DENIED == "Das darfst du leider nicht steuern."  \* TRUST_DENIED_TEXT
FALLBACK == "Das kann ich leider nicht beantworten."  \* DEFAULT_FALLBACK
Values == {"true", "blau"}

\* Calls as the model writes them.
Calls ==
    [tool : {"set_device_state"}, device : Devices, value : Values]
      \cup [tool : {"set_automation"}, device : Automations, value : {"true", "false"}]
      \cup [tool : {"speak", "get_active_devices"}, device : {""}, value : {"Erledigt."}]

TypeOK ==
    /\ running \in {"asking", "calling", "done"} /\ iteration \in 0..MaxIterations
    /\ ToSet(batch) \cup called \subseteq Calls /\ ToSet(spoken) \subseteq {DENIED, "Erledigt."}
    /\ known \subseteq Devices /\ writable \subseteq Devices /\ refused \subseteq Devices /\ adapter \in BOOLEAN
    /\ values \in [Devices -> {"off", "on"}] /\ enabled \subseteq Automations

Init ==
    /\ running = "asking" /\ iteration = 0 /\ batch = <<>> /\ called = {} /\ spoken = <<>>
    /\ known = Devices /\ writable \in SUBSET Devices /\ values = [d \in Devices |-> "off"]
    /\ enabled = {} /\ adapter = TRUE /\ answer = <<>> /\ refused = {} /\ renewals = 0

-----------------------------------------------------------------------------
(* The tools *)

\* _coerce_llm_value: only a Boolean in words becomes one; the rest stays a
\* string, which slot_value_to_pb refuses for a switch.
Switches(value) == value = "true"

\* Fault: the refusal is left to the model to pass on.
LeftToTheModel(said) == said
\* A refusal goes straight into the answer, once.
WithDenial(said) == IF Contains(said, DENIED) THEN said ELSE Append(said, DENIED)

\* DeviceController.set_slot, past the checks: a value of the slot's kind, sent
\* if an adapter is connected.
SetSlot(d, value) == IF Switches(value) /\ adapter THEN [values EXCEPT ![d] = "on"] ELSE values

\* _set_device_state, in the order of its checks.
SetDeviceState(call) ==
    LET d == call.device
        there == d \in known /\ d \in writable
        denied == there /\ Trust < RequiredTrust[d]
    IN /\ spoken' = IF denied THEN WithDenial(spoken) ELSE spoken
       /\ refused' = IF denied THEN refused \cup {d} ELSE refused
       /\ values' = IF there /\ ~denied THEN SetSlot(d, call.value) ELSE values
       /\ UNCHANGED enabled
SetAutomation(call) ==
    /\ enabled' = CASE ~KnownUser -> enabled
                    [] call.value = "true" -> enabled \cup {call.device}
                    [] OTHER -> enabled \ {call.device}
    /\ UNCHANGED <<spoken, refused, values>>

\* _dispatch: the queries and an unknown tool change nothing.
Dispatch(call) ==
    CASE call.tool = "set_device_state" -> SetDeviceState(call)
      [] call.tool = "set_automation" -> SetAutomation(call)
      [] call.tool = "speak" -> spoken' = Append(spoken, call.value) /\ UNCHANGED <<refused, values, enabled>>
      [] OTHER -> UNCHANGED <<spoken, refused, values, enabled>>

-----------------------------------------------------------------------------
(* The loop *)

Return(text) == running' = "done" /\ answer' = text

\* chat_with_tools: tool calls, or a text, or the fallback after an error or a
\* time-out.  A text ends the run, with what was said before if there is any.
Ask ==
    /\ running = "asking" /\ iteration < MaxIterations /\ iteration' = iteration + 1
    /\ \/ \E calls \in BoundedSeq(Calls, MaxBatch) :
            /\ calls # <<>> /\ batch' = calls /\ running' = "calling" /\ UNCHANGED answer
       \/ \E text \in {"Gern.", "", FALLBACK} : Return(IF spoken # <<>> THEN spoken ELSE <<text>>) /\ UNCHANGED batch
    /\ UNCHANGED <<called, spoken, refused, house>>

\* One call; the same one is not dispatched twice.
Call ==
    /\ running = "calling" /\ batch # <<>> /\ batch' = Tail(batch)
    /\ IF Head(batch) \in called
       THEN UNCHANGED <<called, spoken, refused, values, enabled>>
       ELSE called' = called \cup {Head(batch)} /\ Dispatch(Head(batch))
    /\ UNCHANGED <<running, iteration, answer, known, writable, adapter, renewals>>

\* After a batch: what was said ends the run, and so does the last iteration.
EndOfBatch ==
    /\ running = "calling" /\ batch = <<>>
    /\ IF spoken # <<>> \/ iteration = MaxIterations THEN Return(spoken) ELSE running' = "asking" /\ UNCHANGED answer
    /\ UNCHANGED <<iteration, batch, called, spoken, refused, house>>

\* The registry is renewed, or the agent of the house comes or goes.
Renew ==
    /\ renewals < MaxRenewals /\ renewals' = renewals + 1
    /\ \/ (\E d \in Devices : known' = SymDiff(known, {d})) /\ UNCHANGED adapter
       \/ adapter' = ~adapter /\ UNCHANGED known
    /\ UNCHANGED <<agent, writable, values, enabled>>

Next == Ask \/ Call \/ EndOfBatch \/ Renew
Spec == Init /\ [][Next]_vars /\ WF_agent(Ask \/ Call \/ EndOfBatch)

-----------------------------------------------------------------------------
\* "das LLM kann sie so weder uebergehen noch einen Erfolg erfinden"
\* (tool_agent.py:584): whatever the model says after a refusal, and in
\* whatever order the calls of a batch come, the refusal is spoken.
DeniedIsSaid == running = "done" /\ refused # {} => Contains(answer, DENIED)

\* The model that fails after a device was switched does not make the answer a
\* failure.  (Not so: see the README.)
SwitchedIsNotAFailure == running = "done" /\ (\E d \in Devices : values[d] = "on") => answer # <<FALLBACK>>

\* Every sentence gets its answer, however often the model calls tools.
AgentAnswers == <>(running = "done")
=============================================================================
