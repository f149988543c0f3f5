---------------------------- MODULE TextDialogue ----------------------------
(***************************************************************************)
(* What becomes of a recognised sentence: _handle_text for chats and for   *)
(* satellites of the proxy, pipeline for satellites of the Core's own UDP  *)
(* server.  A source (a chat, a satellite) has one open question; a user's *)
(* messages are read out one after another, with a question after each one *)
(* somebody sent.  One user, u, owns the satellite and has a mailbox.      *)
(***************************************************************************)
EXTENDS Naturals, Sequences, FiniteSets, SequencesExt

CONSTANTS Sources, Satellites,   \* Satellites: those that may come by either way
          Sender                 \* message -> who sent it, "nobody" for the system

VARIABLES
    mail,       \* u's messages in the database
    made,       \* messages created so far
    light,      \* the yellow light of u's satellites
    lighting,   \* messages whose on_created has not run yet
    question,   \* source -> its pending_clarification
    buried,     \* history: source -> what the trailer of its last answer put its notice in place of
    smalltalk,  \* sources in smalltalk mode
    doing,      \* source -> where consume_all stands
    rows,       \* source -> the rows it has selected
    read,       \* messages that were read out, or dismissed on a page
    last,       \* source -> the last message read out there
    replies,    \* <<message, to>>: replies made
    alarm       \* the alarm set here: "none", "once" or "series"

mailbox == <<mail, made, light, lighting, rows, read, last, replies>>
talk == <<question, buried, smalltalk, doing>>
vars == <<mailbox, talk, alarm>>
Messages == 1..Len(Sender)
Question(kind, m, rest) == [kind |-> kind, about |-> m, rest |-> rest]
NoQuestion == Question("none", 0, <<>>)
AlarmQuestions == {"alarm_expand", "alarm_delete_series"}
MailQuestions == {"message_playback", "message_reply_prompt", "message_compose"}

TypeOK ==
    /\ mail \subseteq Messages /\ made \in 0..Len(Sender) /\ light \in BOOLEAN /\ smalltalk \subseteq Sources
    /\ \A s \in Sources : /\ question[s].kind \in {"none", "pick"} \cup AlarmQuestions \cup MailQuestions
                          /\ doing[s] \in {"idle", "select", "delete"}
    /\ alarm \in {"none", "once", "series"} /\ read \subseteq Messages

Init ==
    /\ mail = {} /\ made = 0 /\ light = FALSE /\ lighting = {}
    /\ question = [s \in Sources |-> NoQuestion] /\ buried = [s \in Sources |-> "none"] /\ smalltalk = {}
    /\ doing = [s \in Sources |-> "idle"] /\ rows = [s \in Sources |-> <<>>]
    /\ read = {} /\ last = [s \in Sources |-> 0] /\ replies = {} /\ alarm = "none"

-----------------------------------------------------------------------------
(* Who speaks, and the end of every answer *)

\* _resolve_message_user_id, _resolve_timer_user_id: the speaker, or the owner.
WhoIs(s, known) == IF known \/ s \in Satellites THEN "u" ELSE "nobody"

\* Fault: the question what to say is talked over.
TrailedAlsoSending == {"MessageQuery", "Trigger", "Ignored"}
\* Answers that get no trailer.
Untrailed == {"MessageQuery", "SendMessage", "Trigger", "Ignored"}

\* _logged: a known speaker with open messages is asked whether to hear them,
\* in place of the question q, asked by the answer itself or still open.
Trails(way, name, spoken, known) == way = "text" /\ known /\ spoken /\ name \notin Untrailed /\ mail # {}
Answer(s, way, known, name, spoken, q) ==
    /\ question' = [question EXCEPT ![s] =
           IF Trails(way, name, spoken, known) THEN Question("message_playback", 0, <<>>) ELSE q]
    /\ buried' = [buried EXCEPT ![s] = IF Trails(way, name, spoken, known) THEN q.kind ELSE "none"]
Ask(s, q) == question' = [question EXCEPT ![s] = q] /\ buried' = [buried EXCEPT ![s] = "none"]
Plain(s, way, known, name, q) == Answer(s, way, known, name, TRUE, q)

Heard(s) == doing[s] = "idle"
NoMail == UNCHANGED mailbox

-----------------------------------------------------------------------------
(* Before the parser *)

\* A phrase of a trigger comes first; the question stays open.
Phrase(s, way, known) ==
    /\ Heard(s) /\ Plain(s, way, known, "Trigger", question[s])
    /\ NoMail /\ UNCHANGED <<smalltalk, doing, alarm>>

\* In smalltalk mode the language model is asked before any open question, and
\* the trailer of its answer replaces whatever was open.
Chatting(s, known, verdict) ==
    /\ Heard(s) /\ s \in smalltalk
    /\ Answer(s, "text", known, IF verdict = "SMALLTALK" THEN "Smalltalk" ELSE "Ignored", verdict = "SMALLTALK", question[s])
    /\ NoMail /\ UNCHANGED <<smalltalk, doing, alarm>>

\* _resolve_alarm_confirmation: anything but a yes leaves the alarm as it is.
ConfirmAlarm(s, way, known, yes) ==
    /\ Heard(s) /\ question[s].kind \in AlarmQuestions
    /\ alarm' = CASE ~yes -> alarm
                  [] question[s].kind = "alarm_expand" -> IF alarm = "once" THEN "series" ELSE alarm
                  [] OTHER -> "none"
    /\ Plain(s, way, known, "Alarm", NoQuestion)
    /\ NoMail /\ UNCHANGED <<smalltalk, doing>>

\* The candidate that was named completes the command that asked.
Pick(s, way, known) ==
    /\ Heard(s) /\ question[s].kind = "pick"
    /\ Plain(s, way, known, "TurnOn", NoQuestion)
    /\ NoMail /\ UNCHANGED <<smalltalk, doing, alarm>>

-----------------------------------------------------------------------------
(* Messages *)

\* _on_message_created follows the row.
Create ==
    /\ made < Len(Sender) /\ made' = made + 1 /\ mail' = mail \cup {made + 1} /\ lighting' = lighting \cup {made + 1}
    /\ UNCHANGED <<light, rows, read, last, replies, talk, alarm>>
Lit(m) ==
    /\ m \in lighting /\ lighting' = lighting \ {m} /\ light' = TRUE
    /\ UNCHANGED <<mail, made, rows, read, last, replies, talk, alarm>>
\* delete_message: dismissed, the light follows when it was the last one.
Dismiss(m) ==
    /\ m \in mail /\ mail' = mail \ {m} /\ light' = (light /\ mail' # {})
    /\ read' = read \cup {m}
    /\ UNCHANGED <<made, lighting, rows, last, replies, talk, alarm>>

\* Fault: the reply is about the message that comes next.
AboutNext(todo, n) == IF n < Len(todo) THEN todo[n + 1] ELSE todo[n]
\* A reply is about the message that was read last.
About(todo, n) == todo[n]

\* _play_message_queue: up to and with the first one somebody sent.
FirstSent(todo, n) == Sender[todo[n]] # "nobody" /\ \A i \in 1..(n - 1) : Sender[todo[i]] = "nobody"
PlayTo(s, todo, n) ==
    /\ read' = read \cup {todo[i] : i \in 1..n}
    /\ last' = [last EXCEPT ![s] = IF n = 0 THEN @ ELSE todo[n]]
Play(s, todo) ==
    \/ /\ \A n \in 1..Len(todo) : ~FirstSent(todo, n)
       /\ PlayTo(s, todo, Len(todo)) /\ Ask(s, NoQuestion)
    \/ \E n \in 1..Len(todo) :
         /\ FirstSent(todo, n) /\ PlayTo(s, todo, n)
         /\ Ask(s, Question("message_reply_prompt", About(todo, n), SubSeq(todo, n + 1, Len(todo))))

\* The question is answered with a yes, or MessageQuery was said: consume_all.
Fetch(s, known) ==
    /\ IF WhoIs(s, known) = "u" THEN doing' = [doing EXCEPT ![s] = "select"] ELSE UNCHANGED doing
    /\ Ask(s, NoQuestion)
    /\ NoMail /\ UNCHANGED <<smalltalk, alarm>>
Select(s) ==
    /\ doing[s] = "select" /\ rows' = [rows EXCEPT ![s] = SetToSortSeq(mail, <)]
    /\ doing' = [doing EXCEPT ![s] = "delete"]
    /\ UNCHANGED <<mail, made, light, lighting, read, last, replies, question, buried, smalltalk, alarm>>
Delete(s) ==
    /\ doing[s] = "delete" /\ mail' = mail \ ToSet(rows[s]) /\ light' = (light /\ rows[s] = <<>>)
    /\ Play(s, rows[s]) /\ rows' = [rows EXCEPT ![s] = <<>>] /\ doing' = [doing EXCEPT ![s] = "idle"]
    /\ UNCHANGED <<made, lighting, replies, smalltalk, alarm>>

ConfirmPlayback(s, known, yes) ==
    /\ Heard(s) /\ question[s].kind = "message_playback"
    /\ IF yes THEN Fetch(s, TRUE)
       ELSE Plain(s, "text", FALSE, "MessageQuery", NoQuestion) /\ NoMail /\ UNCHANGED <<smalltalk, doing, alarm>>

\* _resolve_message_reply_prompt: yes asks for the words, anything else reads on.
ReplyPrompt(s, yes) ==
    /\ Heard(s) /\ question[s].kind = "message_reply_prompt"
    /\ IF yes
       THEN /\ Plain(s, "text", FALSE, "MessageQuery", [question[s] EXCEPT !.kind = "message_compose"])
            /\ NoMail
       ELSE Play(s, question[s].rest) /\ UNCHANGED <<mail, made, light, lighting, rows, replies>>
    /\ UNCHANGED <<smalltalk, doing, alarm>>

\* _resolve_message_compose: whatever is said is the message.
Compose(s, known) ==
    /\ Heard(s) /\ question[s].kind = "message_compose"
    /\ IF WhoIs(s, known) = "nobody"
       THEN Plain(s, "text", known, "SendMessage", NoQuestion) /\ NoMail
       ELSE /\ replies' = replies \cup {<<question[s].about, last[s]>>} /\ Play(s, question[s].rest)
            /\ UNCHANGED <<mail, made, light, lighting, rows>>
    /\ UNCHANGED <<smalltalk, doing, alarm>>

-----------------------------------------------------------------------------
(* The parser's intents.  No open question is answered by the sentence. *)

\* The kinds that take any sentence as their answer; on the UDP way messages do not.
Parses(s, way) == question[s].kind \notin AlarmQuestions /\ (way = "text" => question[s].kind \notin MailQuestions)
Parsed(s, way) == Heard(s) /\ Parses(s, way) /\ NoMail /\ UNCHANGED doing

\* A room, a category or a device has several candidates.
Clarify(s, way, known) ==
    /\ Parsed(s, way) /\ Plain(s, way, known, "Clarification", Question("pick", 0, <<>>)) /\ UNCHANGED <<smalltalk, alarm>>
\* Queries, presence, satellites, timers, automations; a stop says nothing.
Ordinary(s, way, known, name) ==
    /\ Parsed(s, way) /\ Answer(s, way, known, name, name # "StopIntent", NoQuestion)
    /\ UNCHANGED <<smalltalk, alarm>>
\* A command that reached a device ends the smalltalk.
Device(s, way, known, reached) ==
    /\ Parsed(s, way) /\ Plain(s, way, known, "TurnOn", NoQuestion)
    /\ smalltalk' = IF way = "text" /\ reached THEN smalltalk \ {s} ELSE smalltalk
    /\ UNCHANGED alarm
\* The language model answers, and the text way stays with it.
Smalltalk(s, way, known) ==
    /\ Parsed(s, way) /\ Plain(s, way, known, "Smalltalk", NoQuestion)
    /\ smalltalk' = IF way = "text" THEN smalltalk \cup {s} ELSE smalltalk
    /\ UNCHANGED alarm
\* A chat gets no alarm; a weekday asks for the rest of the week.
SetAlarm(s, way, known, weekday) ==
    /\ Parsed(s, way)
    /\ IF s \in Satellites
       THEN /\ alarm' = "once"
            /\ Plain(s, way, known, "SetAlarm", IF weekday THEN Question("alarm_expand", 0, <<>>) ELSE NoQuestion)
       ELSE Plain(s, way, known, "SetAlarm", NoQuestion) /\ UNCHANGED alarm
    /\ UNCHANGED smalltalk
DeleteAlarm(s, way, known) ==
    /\ Parsed(s, way) /\ alarm' = IF alarm = "once" THEN "none" ELSE alarm
    /\ Plain(s, way, known, "DeleteAlarm", IF alarm = "series" THEN Question("alarm_delete_series", 0, <<>>) ELSE NoQuestion)
    /\ UNCHANGED <<smalltalk>>
MessageQuery(s, known) == Heard(s) /\ Parses(s, "text") /\ Fetch(s, known)
SendMessage(s, known) ==
    /\ Parsed(s, "text")
    /\ Plain(s, "text", known, "SendMessage",
             IF WhoIs(s, known) = "u" THEN Question("message_compose", 0, <<>>) ELSE NoQuestion)
    /\ UNCHANGED <<smalltalk, alarm>>

\* Two minutes without a word, or a restart: the question and the mode are gone.
Lapse(s) ==
    /\ doing[s] = "idle"
    /\ Ask(s, NoQuestion)
    /\ smalltalk' = smalltalk \ {s}
    /\ UNCHANGED <<mailbox, doing, alarm>>

\* Who speaks makes no difference on the UDP way.
Parsing(s, way, known) ==
    \/ Phrase(s, way, known) \/ Pick(s, way, known) \/ Clarify(s, way, known)
    \/ Smalltalk(s, way, known) \/ DeleteAlarm(s, way, known)
    \/ \E yes \in BOOLEAN :
         ConfirmAlarm(s, way, known, yes) \/ Device(s, way, known, yes) \/ SetAlarm(s, way, known, yes)
    \/ \E name \in {"Query", "StopIntent"} : Ordinary(s, way, known, name)
Text(s, known) ==
    \/ Parsing(s, "text", known)
    \/ \E verdict \in {"SMALLTALK", "NOT_ADDRESSED"} : Chatting(s, known, verdict)
    \/ \E yes \in BOOLEAN : ConfirmPlayback(s, known, yes) \/ ReplyPrompt(s, yes)
    \/ Compose(s, known) \/ MessageQuery(s, known) \/ SendMessage(s, known)
Next ==
    \/ Create \/ (\E m \in Messages : Lit(m) \/ Dismiss(m))
    \/ \E s \in Sources : Select(s) \/ Delete(s) \/ Lapse(s)
    \/ \E s \in Sources, known \in BOOLEAN : Text(s, known)
    \/ \E s \in Satellites : Parsing(s, "udp", FALSE)
Spec == Init /\ [][Next]_vars

-----------------------------------------------------------------------------
\* A reply goes to the sender of the message that was read last to whoever
\* replies, in whatever order messages, sentences and satellites come.
ReplyIsToTheRead == \A r \in replies : r[1] # 0 => r[1] = r[2] /\ r[1] \in read

\* Outside smalltalk mode "Was moechtest du ausrichten?" is never talked over by
\* the notice of other messages, whoever asked it and whenever: the next sentence
\* is the message (main.py:1010).  In the mode an answer to anything else is.
ComposeStands == \A s \in Sources : buried[s] = "message_compose" => s \in smalltalk

\* Claimed at core/main.py:1010: SendMessage gets no trailer, so that the notice
\* does not replace message_compose; in any mode.
NoticeSparesCompose == \A s \in Sources : buried[s] # "message_compose"

\* No question is replaced by the notice of messages.
QuestionsStand == \A s \in Sources : buried[s] = "none"

\* "Eine Message wird konsumiert (geloescht), sobald sie tatsaechlich vorgelesen
\* wurde" (messages.py:12): what is no longer there was read out, or is about to be.
ConsumedWasRead ==
    \A m \in 1..made : m \notin mail \cup read =>
        \E s \in Sources : m \in ToSet(question[s].rest) \cup ToSet(rows[s])

\* The light of a user with messages burns once everything has settled.
LightBurns == mail # {} /\ lighting = {} /\ (\A s \in Sources : doing[s] = "idle") => light

\* So a message is read, answered and written as its two sides mean it.
MessagesStand == ComposeStands /\ ReplyIsToTheRead
=============================================================================
