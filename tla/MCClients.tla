----------------------------- MODULE MCClients ------------------------------
(* One run for whoever talks to the house in words or by buttons (part): the *)
(* chat adapter's calls, the menu of a chat, the sentences and the messages, *)
(* the agent that answers what no rule does, and the calls that set alarms.  *)
EXTENDS Naturals, FiniteSets
CONSTANTS Requests, MaxTries, MaxOutages,
          Devices, Levels, MaxChanges, MaxPresses,
          Sources, Satellites,
          Lamps, Automations, MaxIterations, MaxBatch, MaxRenewals,
          Callers, Timers, DayLen, WeekLen, MaxDay, SkipLists, SkipDates, BusyDayLen, BusyMaxDay, NoRow, NoTimer,
          Parts
VARIABLES part,
          up, epoch, stream, at, call, try, pending, sent, results, redeemed, told, whose, events, status,
          present, lit, trust, commands, keyboard, press, acted, shifted, changes, presses,
          mail, made, light, lighting, question, buried, smalltalk, doing, rows, read, last, replies, alarm,
          running, iteration, batch, called, spoken, known, writable, values, enabled, adapter, answer,
          refused, renewals,
          now, awake, entry, born, armed, timers, edit

\* The first device asks for no trust, the last for more than the menu does.
RoomOf == <<1, 1, 2>>
MenuTrust == 7
SlotTrust == <<0, 7, 10>>
Sender == <<"v", "nobody">>
Trust == 4
RequiredTrust == [d \in Lamps |-> IF d = "d1" THEN 7 ELSE 0]

\* Satellites are among those who speak.
ASSUME ClientsAssumption == Satellites \subseteq Sources

C == INSTANCE ChannelStream
H == INSTANCE HouseMenu
D == INSTANCE TextDialogue
A == INSTANCE ToolAgent WITH Devices <- Lamps, KnownUser <- TRUE
\* An alarm: calls wait for one another and skip dates; or they overlap, and do not.
S == INSTANCE AlarmSchedule WITH Overlap <- FALSE,
        up <- awake, row <- entry, timers <- armed, timer <- timers, call <- edit
O == INSTANCE AlarmSchedule WITH Overlap <- TRUE,
        DayLen <- BusyDayLen, MaxDay <- BusyMaxDay, SkipLists <- {{}}, SkipDates <- {},
        up <- awake, row <- entry, timers <- armed, timer <- timers, call <- edit
ASSUME AlarmsAssumption == S!AlarmScheduleAssumption /\ O!AlarmScheduleAssumption

chat == <<up, epoch, stream, at, call, try, pending, sent, results, redeemed, told, whose, events, status>>
menu == <<present, lit, trust, commands, keyboard, press, acted, shifted, changes, presses>>
dialogue == <<mail, made, light, lighting, question, buried, smalltalk, doing, rows, read, last, replies, alarm>>
agent == <<running, iteration, batch, called, spoken, known, writable, values, enabled, adapter, answer,
           refused, renewals>>
schedule == <<now, awake, entry, born, armed, timers, edit>>
vars == <<part, chat, menu, dialogue, agent, schedule>>
Chat == part = "chat" /\ C!Next /\ UNCHANGED <<part, menu, dialogue, agent, schedule>>
Menu == part = "menu" /\ H!Next /\ UNCHANGED <<part, chat, dialogue, agent, schedule>>
\* The second message comes only while nobody chats and no alarm is set (bound).
Dialogue == /\ part = "dialogue" /\ D!Next /\ (made' = 2 => smalltalk' = {} /\ alarm' = "none")
            /\ UNCHANGED <<part, chat, menu, agent, schedule>>
Agent == part = "agent" /\ A!Next /\ UNCHANGED <<part, chat, menu, dialogue, schedule>>
Serial == part = "serial" /\ S!Next /\ UNCHANGED <<part, chat, menu, dialogue, agent>>
Overlap == part = "overlap" /\ O!Next /\ UNCHANGED <<part, chat, menu, dialogue, agent>>
Init == part \in Parts /\ C!Init /\ H!Init /\ D!Init /\ A!Init /\ S!Init
        /\ (part = "agent" \/ writable = Lamps)
Next == Chat \/ Menu \/ Dialogue \/ Agent \/ Serial \/ Overlap
Spec == Init /\ [][Next]_vars

\* ChannelStream, HouseMenu, TextDialogue, ToolAgent and AlarmSchedule state these
\* properties.
\* A call of the chat is answered truly, by the stream it went out on.
CallsAreAnswered == C!CallsAreAnswered
\* A button does what it says to the device it was drawn for.
ButtonsMeanIt == H!ButtonsMeanIt
\* A message is read, answered and written as its two sides mean it.
MessagesStand == D!MessagesStand
\* A refusal is spoken whatever the model says.
DeniedIsSaid == A!DeniedIsSaid
\* An alarm is not lost, whatever was called: its series keeps a timer, and
\* without overlaps at the right time.
NeverUnscheduled == /\ part = "serial" => S!NeverUnscheduled /\ S!TimerMatchesRow
                    /\ part = "overlap" => O!NeverUnscheduled
=============================================================================
