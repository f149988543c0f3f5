--------------------------- MODULE ClientsProofs ---------------------------
(***************************************************************************)
(* What the run of MCClients checks on a few chats, devices and messages   *)
(* is proved here for every number of them: the tool agent, the chat       *)
(* adapter's calls, the house menu, the messages and the alarms.           *)
(***************************************************************************)
EXTENDS MCClients, Sequences, SequenceTheorems, FiniteSetTheorems, TLAPS

\* A step of the run is a step of the tool agent or none.
LEMMA ToolStep == [Next]_vars => [A!Next]_(A!vars)
BY DEF Next, vars, Chat, Menu, Dialogue, Agent, Serial, Overlap, agent, A!vars, A!agent, A!house

\* A step of the run is a step of the chat adapter or none.
LEMMA ChatStep == [Next]_vars => [C!Next]_(C!vars)
BY DEF Next, vars, Chat, Menu, Dialogue, Agent, Serial, Overlap, chat, C!vars, C!redeem, C!subscription

\* A step of the run is a step of the house menu or none.
LEMMA MenuStep == [Next]_vars => [H!Next]_(H!vars)
BY DEF Next, vars, Chat, Menu, Dialogue, Agent, Serial, Overlap, menu, H!vars

\* A step of the run is a step of the dialogue or none.
LEMMA DialogueStep == [Next]_vars => [D!Next]_(D!vars)
BY DEF Next, vars, Chat, Menu, Dialogue, Agent, Serial, Overlap, dialogue, D!vars, D!mailbox, D!talk

-----------------------------------------------------------------------------
(* A refusal is spoken.                                                     *)

Words == {A!DENIED, "Erledigt."}
Said(s) == \E i \in 1..Len(s) : s[i] = A!DENIED

\* What the model is to say grows at its end only.
LEMMA SaidStays ==
    ASSUME NEW s \in Seq(Words), NEW w \in Words
    PROVE  Append(s, w) \in Seq(Words) /\ (Said(s) \/ w = A!DENIED => Said(Append(s, w)))
<1>1. /\ Append(s, w) \in Seq(Words) /\ Len(Append(s, w)) = Len(s) + 1 /\ Len(s) \in Nat
      /\ \A i \in 1..Len(s) : Append(s, w)[i] = s[i]
      /\ Append(s, w)[Len(s) + 1] = w
    BY AppendProperties
<1> DEFINE t == Append(s, w)
<1> HIDE DEF t
<1>2. /\ Len(t) = Len(s) + 1 /\ Len(s) \in Nat
      /\ \A i \in 1..Len(s) : t[i] = s[i]
      /\ t[Len(s) + 1] = w
    BY <1>1 DEF t
<1>3. CASE Said(s)
    <2>1. PICK i \in 1..Len(s) : s[i] = A!DENIED
        BY <1>3 DEF Said
    <2>2. i \in 1..Len(t) /\ t[i] = A!DENIED
        BY <1>2, <2>1
    <2>3. QED BY <1>1, <2>2 DEF Said, t
<1>4. CASE w = A!DENIED
    <2>1. Len(s) + 1 \in 1..Len(t) /\ t[Len(s) + 1] = A!DENIED
        BY <1>2, <1>4
    <2>2. QED BY <1>1, <2>1 DEF Said, t
<1>5. QED BY <1>1, <1>3, <1>4

\* One tool call of an answer of the model, and the rest of them.
LEMMA CallsTail ==
    ASSUME NEW s \in Seq(A!Calls), s # <<>>
    PROVE  Tail(s) \in Seq(A!Calls) /\ Head(s) \in A!Calls
BY HeadTailProperties

\* A refused device is in what is to be said, and at the end in the answer.
AgentInv ==
    /\ batch \in Seq(A!Calls)
    /\ spoken \in Seq(Words)
    /\ refused # {} => Said(spoken)
    /\ running = "done" => refused = {} \/ Said(answer)

\* The calls that touch what is said: a refusal adds itself, a speech itself.
LEMMA DispatchSpeaks ==
    ASSUME spoken \in Seq(Words), refused # {} => Said(spoken), NEW c \in A!Calls, A!Dispatch(c)
    PROVE  spoken' \in Seq(Words) /\ (refused' # {} => Said(spoken'))
<1>w. A!DENIED \in Words /\ "Erledigt." \in Words
    BY DEF Words
<1>1. CASE c.tool = "set_device_state"
    <2>1. A!SetDeviceState(c)
        BY <1>1 DEF A!Dispatch
    <2>2. \/ UNCHANGED <<spoken, refused>>
          \/ spoken' = A!WithDenial(spoken)
        BY <2>1, Zenon DEF A!SetDeviceState
    <2>3. CASE UNCHANGED <<spoken, refused>>
        BY <2>3
    <2>4. CASE spoken' = A!WithDenial(spoken)
        <3>1. CASE A!Contains(spoken, A!DENIED)
            BY <2>4, <3>1 DEF A!WithDenial, A!Contains, Said
        <3>2. CASE ~A!Contains(spoken, A!DENIED)
            BY <2>4, <3>2, SaidStays, <1>w DEF A!WithDenial
        <3>3. QED BY <3>1, <3>2
    <2>5. QED BY <2>2, <2>3, <2>4
<1>2. CASE c.tool = "set_automation"
    BY <1>2 DEF A!Dispatch, A!SetAutomation
<1>3. CASE c.tool = "speak"
    <2>1. c.value = "Erledigt."
        BY <1>3 DEF A!Calls
    <2>2. spoken' = Append(spoken, c.value) /\ refused' = refused
        BY <1>3 DEF A!Dispatch
    <2>3. QED BY <2>1, <2>2, SaidStays, <1>w
<1>4. CASE c.tool \notin {"set_device_state", "set_automation", "speak"}
    BY <1>4 DEF A!Dispatch
<1>5. QED BY <1>1, <1>2, <1>3, <1>4

\* Nothing takes a refusal out of what is to be said, and a text of the model
\* is the answer only while nothing is.
LEMMA AgentInvStep == AgentInv /\ [A!Next]_(A!vars) => AgentInv'
<1> SUFFICES ASSUME AgentInv, [A!Next]_(A!vars) PROVE AgentInv'
    OBVIOUS
<1> USE DEF AgentInv
<1>1. CASE A!Ask
    <2>1. UNCHANGED <<spoken, refused>>
        BY <1>1 DEF A!Ask
    <2>2. CASE \E calls \in A!BoundedSeq(A!Calls, MaxBatch) :
                  calls # <<>> /\ batch' = calls /\ running' = "calling" /\ UNCHANGED answer
        <3>1. batch' \in A!BoundedSeq(A!Calls, MaxBatch) /\ running' = "calling"
            BY <2>2
        <3>2. batch' \in Seq(A!Calls)
            BY <3>1 DEF A!BoundedSeq, A!SeqOf
        <3>3. QED BY <2>1, <3>1, <3>2 DEF Said
    <2>3. CASE \E text \in {"Gern.", "", A!FALLBACK} :
                  A!Return(IF spoken # <<>> THEN spoken ELSE <<text>>) /\ UNCHANGED batch
        <3>1. batch' = batch /\ (spoken # <<>> => answer' = spoken)
            BY <2>3 DEF A!Return
        <3>2. spoken = <<>> => ~Said(spoken)
            BY DEF Said
        <3>3. QED BY <2>1, <3>1, <3>2 DEF Said
    <2>4. QED BY <1>1, <2>2, <2>3 DEF A!Ask
<1>2. CASE A!Call
    <2>1. batch' \in Seq(A!Calls) /\ Head(batch) \in A!Calls /\ running = "calling" /\ UNCHANGED <<running, answer>>
        BY <1>2, CallsTail DEF A!Call
    <2>2. UNCHANGED <<spoken, refused>> \/ A!Dispatch(Head(batch))
        BY <1>2 DEF A!Call
    <2>3. spoken' \in Seq(Words) /\ (refused' # {} => Said(spoken'))
        <3>1. CASE UNCHANGED <<spoken, refused>>
            BY <3>1 DEF Said
        <3>2. CASE A!Dispatch(Head(batch))
            BY <3>2, <2>1, DispatchSpeaks
        <3>3. QED BY <2>2, <3>1, <3>2
    <2>4. QED BY <2>1, <2>3 DEF Said
<1>3. CASE A!EndOfBatch
    BY <1>3 DEF A!EndOfBatch, A!Return, Said
<1>4. CASE A!Renew \/ UNCHANGED A!vars
    BY <1>4 DEF A!Renew, A!vars, A!agent, Said
<1>5. QED BY <1>1, <1>2, <1>3, <1>4 DEF A!Next

\* Whatever the model says after a refusal, in whatever order the calls of an
\* answer come and however the registry changes meanwhile, the refusal is spoken:
\* for every number of devices, automations, calls and answers.
THEOREM DeniedIsSaidAlways == Spec => []DeniedIsSaid
<1>1. Init => AgentInv
    BY DEF Init, A!Init, AgentInv, Words
<1>2. AgentInv /\ [Next]_vars => AgentInv'
    BY AgentInvStep, ToolStep
<1>3. AgentInv => DeniedIsSaid
    BY DEF AgentInv, DeniedIsSaid, A!DeniedIsSaid, A!Contains, Said
<1>4. QED
    BY <1>1, <1>2, <1>3, PTL DEF Spec

-----------------------------------------------------------------------------
(* A call of the chat is answered truly, by the stream it went out on.      *)

ChatType ==
    /\ epoch \in Nat \ {0} /\ stream \in Nat /\ stream <= epoch
    /\ at \in [Requests -> {"idle", "write", "wait", "over"}]
    /\ told \in [Requests -> {"none", "linked", "refused", "unreachable"}]
    /\ whose \in [Requests -> Requests \cup {"none"}]
    /\ call \in [Requests -> Nat] /\ pending \subseteq Requests

\* What is on its way from the Core is true, and so is what the chat was told.
TruthInv ==
    /\ \A a \in results : a.ok => a.id.of \in redeemed
    /\ \A r \in Requests : told[r] \in {"linked", "refused"} => whose[r] = r
    /\ \A r \in Requests : told[r] = "linked" => r \in redeemed

\* Who is pending is so for the open stream; who is to write and no longer
\* pending has taken a stream that the Core will not answer any more.
WaitInv ==
    /\ stream = 0 => pending = {}
    /\ \A r \in pending : call[r] = stream
    /\ \A r \in Requests : at[r] = "wait" => r \in pending
    /\ \A r \in Requests : at[r] = "write" =>
          r \in pending \/ call[r] < epoch \/ (~up /\ call[r] <= epoch)

\* One answer to one chat.
LEMMA OverTypes ==
    ASSUME ChatType, NEW r \in Requests, NEW text \in {"linked", "refused", "unreachable"}, C!Over(r, text)
    PROVE  /\ at' \in [Requests -> {"idle", "write", "wait", "over"}]
           /\ told' \in [Requests -> {"none", "linked", "refused", "unreachable"}]
           /\ at'[r] = "over" /\ told'[r] = text
           /\ \A q \in Requests \ {r} : at'[q] = at[q] /\ told'[q] = told[q]
BY DEF ChatType, C!Over

\* Every step of the adapter and the Core keeps the types.
LEMMA ChatTypeStep == ChatType /\ [C!Next]_(C!vars) => ChatType'
<1> SUFFICES ASSUME ChatType, [C!Next]_(C!vars) PROVE ChatType'
    OBVIOUS
<1>1. CASE C!Open
    BY <1>1 DEF ChatType, C!Open
<1>2. CASE C!Close
    BY <1>2 DEF ChatType, C!Close, C!Released
<1>3. CASE C!Events \/ C!CoreEnds \/ UNCHANGED C!vars
    BY <1>3 DEF ChatType, C!Events, C!Subscribe, C!EndOfStream, C!ConnectFails, C!Backoff, C!CoreEnds,
                C!vars, C!redeem
<1>4. CASE C!CoreStarts
    BY <1>4 DEF ChatType, C!CoreStarts, C!redeem
<1>5. ASSUME NEW r \in Requests, C!Begin(r) PROVE ChatType'
    <2>1. CASE stream = 0
        BY <1>5, <2>1, OverTypes DEF ChatType, C!Begin
    <2>2. CASE stream # 0
        BY <1>5, <2>2 DEF ChatType, C!Begin, C!None
    <2>3. QED BY <2>1, <2>2
<1>6. ASSUME NEW r \in Requests, C!Write(r) PROVE ChatType'
    <2>1. CASE C!Over(r, "unreachable") /\ pending' = pending \ {r}
        BY <1>6, <2>1, OverTypes DEF ChatType, C!Write
    <2>2. CASE at' = [at EXCEPT ![r] = "wait"] /\ UNCHANGED <<told, pending>>
        BY <1>6, <2>2 DEF ChatType, C!Write
    <2>3. QED BY <1>6, <2>1, <2>2 DEF C!Write
<1>7. ASSUME NEW r \in Requests, C!Timeout(r) PROVE ChatType'
    BY <1>7, OverTypes DEF ChatType, C!Timeout
<1>8. ASSUME NEW i \in sent, NEW ok \in BOOLEAN, C!Serve(i, ok) PROVE ChatType'
    BY <1>8 DEF ChatType, C!Serve
<1>9. ASSUME NEW a \in results, C!Answer(a) PROVE ChatType'
    <2>1. UNCHANGED <<up, epoch, stream, call>>
        BY <1>9 DEF C!Answer
    <2>2. CASE UNCHANGED <<at, told, pending, whose>>
        BY <2>1, <2>2 DEF ChatType
    <2>3. ASSUME NEW p \in C!Asked(a.id), C!Over(p, IF a.ok THEN "linked" ELSE "refused"),
                 pending' = pending \ {p}, whose' = [whose EXCEPT ![p] = a.id.of]
          PROVE ChatType'
        <3>1. p \in Requests /\ a.id.of = p
            BY DEF C!Asked, ChatType
        <3>2. /\ at' \in [Requests -> {"idle", "write", "wait", "over"}]
              /\ told' \in [Requests -> {"none", "linked", "refused", "unreachable"}]
            BY <3>1, <2>3, OverTypes
        <3>3. QED BY <2>1, <2>3, <3>1, <3>2 DEF ChatType
    <2>4. QED BY <1>9, <2>2, <2>3 DEF C!Answer
<1>10. QED BY <1>1, <1>2, <1>3, <1>4, <1>5, <1>6, <1>7, <1>8, <1>9 DEF C!Next

\* An answer reaches the chat whose code it is about, or nobody.
LEMMA TruthInvStep == ChatType /\ TruthInv /\ [C!Next]_(C!vars) => TruthInv'
<1> SUFFICES ASSUME ChatType, TruthInv, [C!Next]_(C!vars) PROVE TruthInv'
    OBVIOUS
<1>1. CASE C!Close
    BY <1>1 DEF ChatType, TruthInv, C!Close, C!Released
<1>2. CASE UNCHANGED <<told, whose, redeemed>> /\ results' \subseteq results
    BY <1>2 DEF TruthInv
<1>3. CASE C!Open \/ C!Events \/ C!CoreEnds \/ C!CoreStarts \/ UNCHANGED C!vars
    BY <1>2, <1>3 DEF C!Open, C!Events, C!Subscribe, C!EndOfStream, C!ConnectFails, C!Backoff, C!CoreEnds,
                      C!CoreStarts, C!vars, C!redeem
<1>4. ASSUME NEW r \in Requests, C!Over(r, "unreachable"), UNCHANGED <<whose, redeemed, results>> PROVE TruthInv'
    BY <1>4, OverTypes DEF TruthInv
<1>5. ASSUME NEW r \in Requests, C!Begin(r) PROVE TruthInv'
    <2>1. CASE stream = 0
        BY <1>4, <1>5, <2>1 DEF C!Begin
    <2>2. CASE stream # 0
        BY <1>5, <2>2 DEF ChatType, TruthInv, C!Begin, C!None
    <2>3. QED BY <2>1, <2>2
<1>6. ASSUME NEW r \in Requests, C!Write(r) PROVE TruthInv'
    BY <1>2, <1>4, <1>6 DEF C!Write
<1>7. ASSUME NEW r \in Requests, C!Timeout(r) PROVE TruthInv'
    BY <1>4, <1>7 DEF C!Timeout
<1>8. ASSUME NEW i \in sent, NEW ok \in BOOLEAN, C!Serve(i, ok) PROVE TruthInv'
    <2>1. /\ results' = results \cup {[id |-> i, ok |-> ok]} /\ redeemed \subseteq redeemed'
          /\ ok => i.of \in redeemed'
          /\ UNCHANGED <<told, whose>>
        BY <1>8 DEF C!Serve
    <2>2. QED BY <2>1 DEF TruthInv
<1>9. ASSUME NEW a \in results, C!Answer(a) PROVE TruthInv'
    <2>1. UNCHANGED redeemed /\ results' \subseteq results
        BY <1>9 DEF C!Answer
    <2>2. CASE UNCHANGED <<at, told, pending, whose>>
        BY <1>2, <2>1, <2>2
    <2>3. ASSUME NEW p \in C!Asked(a.id), C!Over(p, IF a.ok THEN "linked" ELSE "refused"),
                 whose' = [whose EXCEPT ![p] = a.id.of]
          PROVE TruthInv'
        <3>1. p \in Requests /\ a.id.of = p
            BY DEF C!Asked, ChatType
        <3>2. /\ told'[p] = IF a.ok THEN "linked" ELSE "refused"
              /\ \A q \in Requests \ {p} : told'[q] = told[q]
            BY <3>1, <2>3, OverTypes
        <3>3. /\ whose'[p] = p
              /\ \A q \in Requests \ {p} : whose'[q] = whose[q]
            BY <3>1, <2>3 DEF ChatType
        <3>4. told'[p] = "linked" => p \in redeemed
            BY <3>1, <3>2 DEF TruthInv
        <3>5. QED BY <2>1, <3>1, <3>2, <3>3, <3>4 DEF TruthInv
    <2>4. QED BY <1>9, <2>2, <2>3 DEF C!Answer
<1>10. QED BY <1>1, <1>3, <1>5, <1>6, <1>7, <1>8, <1>9 DEF C!Next

\* Nobody waits for a stream that has ended: its end releases who waits, and a
\* request that was released before its write finds no stream to write to.
LEMMA WaitInvStep == ChatType /\ WaitInv /\ [C!Next]_(C!vars) => WaitInv'
<1> SUFFICES ASSUME ChatType, WaitInv, [C!Next]_(C!vars) PROVE WaitInv'
    OBVIOUS
<1>1. CASE C!Open
    BY <1>1 DEF ChatType, WaitInv, C!Open
<1>2. CASE C!Close
    <2>1. /\ stream' = 0 /\ pending' = {} /\ UNCHANGED <<up, epoch, call>> /\ (~up \/ stream < epoch)
        BY <1>2 DEF ChatType, C!Close, C!Released
    <2>2. /\ \A r \in Requests : at'[r] # "wait"
          /\ \A r \in Requests : at'[r] = "write" => at[r] = "write"
        BY <1>2 DEF ChatType, WaitInv, C!Close, C!Released
    <2>3. ASSUME NEW r \in Requests, at'[r] = "write" PROVE call[r] < epoch \/ (~up /\ call[r] <= epoch)
        <3>1. CASE r \in pending
            BY <2>1, <3>1 DEF ChatType, WaitInv
        <3>2. CASE r \notin pending
            BY <2>2, <2>3, <3>2 DEF ChatType, WaitInv
        <3>3. QED BY <3>1, <3>2
    <2>4. QED BY <2>1, <2>2, <2>3 DEF WaitInv
<1>3. CASE UNCHANGED <<up, epoch, stream, at, call, pending>>
    BY <1>3 DEF WaitInv
<1>4. CASE C!Events \/ UNCHANGED C!vars
    BY <1>3, <1>4 DEF C!Events, C!Subscribe, C!EndOfStream, C!ConnectFails, C!Backoff, C!vars, C!redeem
<1>5. CASE C!CoreEnds
    <2>1. ~up' /\ UNCHANGED <<epoch, stream, at, call, pending>>
        BY <1>5 DEF C!CoreEnds
    <2>2. QED BY <2>1 DEF ChatType, WaitInv
<1>6. CASE C!CoreStarts
    <2>1. epoch' = epoch + 1 /\ UNCHANGED <<stream, at, call, pending>>
        BY <1>6 DEF C!CoreStarts, C!redeem
    <2>2. QED BY <2>1 DEF ChatType, WaitInv
<1>7. ASSUME NEW r \in Requests, C!Over(r, "unreachable"), UNCHANGED <<up, epoch, stream, call>>,
             pending' \subseteq pending, pending \ {r} \subseteq pending'
      PROVE  WaitInv'
    BY <1>7, OverTypes DEF ChatType, WaitInv
<1>8. ASSUME NEW r \in Requests, C!Begin(r) PROVE WaitInv'
    <2>1. CASE stream = 0
        BY <1>7, <1>8, <2>1 DEF C!Begin
    <2>2. CASE stream # 0
        BY <1>8, <2>2 DEF ChatType, WaitInv, C!Begin
    <2>3. QED BY <2>1, <2>2
<1>9. ASSUME NEW r \in Requests, C!Write(r) PROVE WaitInv'
    <2>1. UNCHANGED <<up, epoch, stream, call>>
        BY <1>9 DEF C!Write
    <2>2. CASE call[r] = stream /\ up /\ stream = epoch
        <3>1. at' = [at EXCEPT ![r] = "wait"] /\ pending' = pending
            BY <1>9, <2>2 DEF C!Write
        <3>2. at[r] = "write" /\ r \in pending
            BY <1>9, <2>2 DEF ChatType, WaitInv, C!Write
        <3>3. QED BY <2>1, <3>1, <3>2 DEF ChatType, WaitInv
    <2>3. CASE ~(call[r] = stream /\ up /\ stream = epoch)
        BY <1>7, <1>9, <2>1, <2>3 DEF C!Write
    <2>4. QED BY <2>2, <2>3
<1>10. ASSUME NEW r \in Requests, C!Timeout(r) PROVE WaitInv'
    BY <1>7, <1>10 DEF C!Timeout
<1>11. ASSUME NEW i \in sent, NEW ok \in BOOLEAN, C!Serve(i, ok) PROVE WaitInv'
    BY <1>3, <1>11 DEF C!Serve
<1>12. ASSUME NEW a \in results, C!Answer(a) PROVE WaitInv'
    <2>1. UNCHANGED <<up, epoch, stream, call>>
        BY <1>12 DEF C!Answer
    <2>2. CASE UNCHANGED <<at, told, pending, whose>>
        BY <1>3, <2>1, <2>2
    <2>3. ASSUME NEW p \in C!Asked(a.id), C!Over(p, IF a.ok THEN "linked" ELSE "refused"), pending' = pending \ {p}
          PROVE  WaitInv'
        <3>1. p \in Requests
            BY DEF C!Asked, ChatType
        <3>2. at'[p] = "over" /\ \A q \in Requests \ {p} : at'[q] = at[q]
            BY <3>1, <2>3, OverTypes
        <3>3. QED BY <2>1, <2>3, <3>1, <3>2 DEF ChatType, WaitInv
    <2>4. QED BY <1>12, <2>2, <2>3 DEF C!Answer
<1>13. QED BY <1>1, <1>2, <1>4, <1>5, <1>6, <1>8, <1>9, <1>10, <1>11, <1>12 DEF C!Next

\* A chat is told the answer to its own code, and that it is linked only when it
\* is; and nobody waits for an answer over a stream that has ended: for every
\* number of chats, tries and outages, however late the answers come.
THEOREM CallsAreAnsweredAlways == Spec => []CallsAreAnswered
<1>1. Init => ChatType /\ TruthInv /\ WaitInv
    <2>1. Init => ChatType
        BY DEF Init, C!Init, ChatType, C!None
    <2>2. Init => TruthInv
        BY DEF Init, C!Init, TruthInv, C!None
    <2>3. Init => WaitInv
        BY DEF Init, C!Init, WaitInv
    <2>4. QED BY <2>1, <2>2, <2>3
<1>2. ChatType /\ TruthInv /\ WaitInv /\ [Next]_vars => (ChatType /\ TruthInv /\ WaitInv)'
    BY ChatTypeStep, TruthInvStep, WaitInvStep, ChatStep
<1>3. ChatType /\ TruthInv /\ WaitInv => CallsAreAnswered
    BY DEF TruthInv, WaitInv, CallsAreAnswered, C!CallsAreAnswered, C!AnsweredTruly, C!NobodyWaitsForOldStream
<1>4. QED
    BY <1>1, <1>2, <1>3, PTL DEF Spec

-----------------------------------------------------------------------------
(* A button does what it says to the device it was drawn for.               *)

MenuType ==
    /\ press = [at |-> press.at, view |-> press.view, room |-> press.room, dev |-> press.dev,
                shown |-> press.shown, on |-> press.on, device |-> press.device]
    /\ press.on \in BOOLEAN /\ keyboard.on \in BOOLEAN

\* What a device's keyboard shows is what its places are, until the list
\* changes; and so for the press of its button until the device is found.
ShownInv ==
    /\ ~shifted /\ keyboard.view = "device" => keyboard.shown = H!Lookup(keyboard.room, keyboard.dev)
    /\ ~shifted /\ press.at \in {"trust", "list"} /\ press.view = "control" =>
          press.shown = H!Lookup(press.room, press.dev)
    /\ ~shifted /\ press.at = "control" => press.shown = press.device

\* A place is the same device as long as the list is.
LEMMA PlacesStay == UNCHANGED present => \A r, d : H!Lookup(r, d)' = H!Lookup(r, d)
BY DEF H!Lookup, H!RoomList, H!DeviceList

\* A press moves on to its next call.
LEMMA PressMoves ==
    ASSUME NEW a, NEW v, NEW r, NEW d, NEW shown, NEW on, NEW found, NEW where
    PROVE  [[at |-> a, view |-> v, room |-> r, dev |-> d, shown |-> shown, on |-> on, device |-> found]
              EXCEPT !.at = where] =
           [at |-> where, view |-> v, room |-> r, dev |-> d, shown |-> shown, on |-> on, device |-> found]
OBVIOUS

\* And it does with the device it has found.
LEMMA PressFinds ==
    ASSUME NEW a, NEW v, NEW r, NEW d, NEW shown, NEW on, NEW found, NEW device
    PROVE  [[at |-> a, view |-> v, room |-> r, dev |-> d, shown |-> shown, on |-> on, device |-> found]
              EXCEPT !.device = device] =
           [at |-> a, view |-> v, room |-> r, dev |-> d, shown |-> shown, on |-> on, device |-> device]
OBVIOUS

\* So a press that has moved on differs from what it was in where it is.
LEMMA PressKeeps ==
    ASSUME MenuType, NEW where, NEW device
    PROVE  /\ [press EXCEPT !.at = where, !.device = device] =
                 [at |-> where, view |-> press.view, room |-> press.room, dev |-> press.dev,
                  shown |-> press.shown, on |-> press.on, device |-> device]
           /\ [press EXCEPT !.at = where] =
                 [at |-> where, view |-> press.view, room |-> press.room, dev |-> press.dev,
                  shown |-> press.shown, on |-> press.on, device |-> press.device]
<1> DEFINE Now(there, found) == [at |-> there, view |-> press.view, room |-> press.room, dev |-> press.dev,
                                 shown |-> press.shown, on |-> press.on, device |-> found]
<1>1. press = Now(press.at, press.device)
    BY DEF MenuType
<1>2. [Now(press.at, press.device) EXCEPT !.at = where] = Now(where, press.device)
    BY PressMoves
<1>3. [Now(where, press.device) EXCEPT !.device = device] = Now(where, device)
    BY PressFinds
<1> HIDE DEF Now
<1>4. [press EXCEPT !.at = where] = Now(where, press.device)
    BY <1>1, <1>2, Zenon
<1>5. [press EXCEPT !.at = where, !.device = device] = Now(where, device)
    BY <1>3, <1>4, Zenon
<1>6. QED BY <1>4, <1>5 DEF Now

\* A button that is drawn says on or off.
LEMMA DrawnIsBoolean == \A r, d : H!Draw(r, d).on \in BOOLEAN
BY DEF H!Draw, H!Keyboard

\* Keyboards and presses keep their form.
LEMMA MenuTypeStep == MenuType /\ [H!Next]_(H!vars) => MenuType'
<1> SUFFICES ASSUME MenuType, [H!Next]_(H!vars) PROVE MenuType'
    OBVIOUS
<1>1. CASE UNCHANGED <<keyboard, press>>
    BY <1>1 DEF MenuType
<1>2. CASE H!Haus
    BY <1>2 DEF MenuType, H!Haus, H!Keyboard
<1>3. ASSUME NEW v, NEW r, NEW d, NEW shown, NEW on \in BOOLEAN, H!Pressed(v, r, d, shown, on) PROVE MenuType'
    BY <1>3 DEF MenuType, H!Pressed
<1>4. CASE H!PressReload \/ H!PressBack \/ H!PressClose
    BY <1>3, <1>4 DEF H!PressReload, H!PressBack, H!PressClose
<1>5. CASE H!PressSwitch
    BY <1>3, <1>5 DEF H!PressSwitch, MenuType
<1>6. CASE (\E r \in 1..Len(H!RoomList) : H!PressRoom(r)) \/ (\E d \in Devices : H!PressDevice(d))
    BY <1>3, <1>6 DEF H!PressRoom, H!PressDevice
<1>a. ASSUME NEW where, press' = [press EXCEPT !.at = where], keyboard' = keyboard PROVE MenuType'
    BY <1>a, PressKeeps DEF MenuType
<1>d. ASSUME H!Done, keyboard'.on \in BOOLEAN PROVE MenuType'
    BY <1>d DEF MenuType, H!Done, H!NoPress
<1>k. keyboard.on \in BOOLEAN /\ \A v, r : H!Keyboard(v, r, 1, H!None, FALSE).on \in BOOLEAN
    BY DEF MenuType, H!Keyboard
<1>7. CASE H!CheckTrust
    <2>1. \/ H!Done /\ UNCHANGED keyboard
          \/ H!Done /\ keyboard' = H!Keyboard("none", 1, 1, H!None, FALSE)
          \/ press' = [press EXCEPT !.at = "list"] /\ UNCHANGED keyboard
        BY <1>7 DEF H!CheckTrust
    <2>2. QED BY <2>1, <1>a, <1>d, <1>k
<1>8. CASE H!Show
    <2>1. H!Done
        BY <1>8 DEF H!Show
    <2>2. \/ UNCHANGED keyboard
          \/ \E v, r : keyboard' = H!Keyboard(v, r, 1, H!None, FALSE)
          \/ \E r, d : keyboard' = H!Draw(r, d)
        BY <1>8 DEF H!Show
    <2>3. QED BY <2>1, <2>2, <1>d, <1>k, DrawnIsBoolean
<1>9. CASE H!FindDevice
    BY <1>9, PressKeeps DEF MenuType, H!FindDevice, H!NoPress
<1>10. CASE H!Control
    <2>1. UNCHANGED keyboard /\ (H!Done \/ press' = [press EXCEPT !.at = "reload"])
        BY <1>10 DEF H!Control
    <2>2. QED BY <2>1, <1>a, <1>d, <1>k
<1>11. CASE H!Reload
    BY <1>11, DrawnIsBoolean DEF MenuType, H!Reload, H!Done, H!NoPress
<1>12. CASE (\E d \in Devices : H!ListChanges(d) \/ H!Switched(d)) \/ (\E t \in Levels, here \in BOOLEAN : H!SetTrust(t, here))
            \/ UNCHANGED H!vars
    BY <1>1, <1>12 DEF H!ListChanges, H!Switched, H!SetTrust, H!vars
<1>13. QED BY <1>2, <1>4, <1>5, <1>6, <1>7, <1>8, <1>9, <1>10, <1>11, <1>12 DEF H!Next

\* What a press shows is found, and a keyboard drawn, on one list of devices.
LEMMA ShownInvStep == MenuType /\ ShownInv /\ [H!Next]_(H!vars) => ShownInv'
<1> SUFFICES ASSUME MenuType, ShownInv, [H!Next]_(H!vars) PROVE ShownInv'
    OBVIOUS
<1>1. CASE UNCHANGED <<keyboard, press, shifted, present>>
    BY <1>1, PlacesStay DEF ShownInv
<1>2. ASSUME UNCHANGED <<press, present>>, press.at = "idle", keyboard'.view # "device" PROVE ShownInv'
    BY <1>2 DEF ShownInv
<1>3. ASSUME NEW v, NEW r, NEW d, NEW shown, NEW on, H!Pressed(v, r, d, shown, on),
             v = "control" => keyboard.view = "device" /\ r = keyboard.room /\ d = keyboard.dev /\ shown = keyboard.shown
      PROVE  ShownInv'
    <2>1. /\ press'.at = "trust" /\ press'.view = v /\ press'.room = r /\ press'.dev = d /\ press'.shown = shown
          /\ UNCHANGED <<present, keyboard, shifted>>
        BY <1>3 DEF H!Pressed
    <2>2. QED BY <1>3, <2>1, PlacesStay DEF ShownInv
<1>4. CASE H!Haus
    BY <1>2, <1>4 DEF H!Haus, H!Keyboard
<1>5. CASE H!PressReload \/ H!PressBack \/ H!PressClose \/ H!PressSwitch
    BY <1>3, <1>5 DEF H!PressReload, H!PressBack, H!PressClose, H!PressSwitch
<1>6. CASE (\E r \in 1..Len(H!RoomList) : H!PressRoom(r)) \/ (\E d \in Devices : H!PressDevice(d))
    BY <1>3, <1>6 DEF H!PressRoom, H!PressDevice
<1>d. H!Done => press'.at = "idle"
    BY DEF H!Done, H!NoPress
<1>k. ASSUME H!Done, UNCHANGED <<present, shifted>>, keyboard' = keyboard \/ keyboard'.view # "device" PROVE ShownInv'
    BY <1>k, <1>d, PlacesStay DEF ShownInv
<1>r. ASSUME H!Done, UNCHANGED present, NEW r, NEW d, keyboard' = H!Draw(r, d) PROVE ShownInv'
    <2>1. /\ keyboard'.shown = H!Lookup(r, d) /\ keyboard'.room = r /\ keyboard'.dev = d
        BY <1>r DEF H!Draw, H!Keyboard
    <2>2. QED BY <1>r, <1>d, <2>1, PlacesStay DEF ShownInv
<1>7. CASE H!CheckTrust
    <2>1. UNCHANGED <<present, shifted>>
        BY <1>7 DEF H!CheckTrust
    <2>2. CASE H!Done
        BY <1>7, <1>k, <2>1, <2>2 DEF H!CheckTrust, H!Keyboard
    <2>3. CASE press' = [press EXCEPT !.at = "list"] /\ UNCHANGED keyboard
        <3>1. /\ press'.at = "list" /\ press'.view = press.view /\ press'.room = press.room
              /\ press'.dev = press.dev /\ press'.shown = press.shown /\ press.at = "trust"
            BY <1>7, <2>3, PressKeeps DEF H!CheckTrust
        <3>2. QED BY <2>1, <2>3, <3>1, PlacesStay DEF ShownInv
    <2>4. QED BY <1>7, <2>2, <2>3 DEF H!CheckTrust
<1>8. CASE H!Show
    <2>1. H!Done /\ UNCHANGED present
        BY <1>8 DEF H!Show
    <2>2. \/ UNCHANGED <<keyboard, shifted>>
          \/ keyboard'.view # "device"
          \/ \E r, d : keyboard' = H!Draw(r, d)
        BY <1>8 DEF H!Show, H!Keyboard
    <2>3. CASE keyboard'.view # "device"
        BY <1>d, <2>1, <2>3 DEF ShownInv
    <2>4. QED BY <2>1, <2>2, <2>3, <1>k, <1>r
<1>9. CASE H!FindDevice
    <2> DEFINE d == H!Lookup(press.room, press.dev)
    <2>1. press.at = "list" /\ press.view = "control" /\ UNCHANGED <<present, keyboard, shifted>>
        BY <1>9 DEF H!FindDevice
    <2>2. CASE press' = H!NoPress
        BY <1>k, <2>1, <2>2 DEF H!Done
    <2>3. CASE press' = [press EXCEPT !.at = "control", !.device = d]
        <3>1. press'.at = "control" /\ press'.shown = press.shown /\ press'.device = d
            BY <2>3, PressKeeps
        <3>2. QED BY <2>1, <3>1, PlacesStay DEF ShownInv
    <2>4. QED BY <1>9, <2>2, <2>3 DEF H!FindDevice
<1>10. CASE H!Control
    <2>1. UNCHANGED <<present, keyboard, shifted>>
        BY <1>10 DEF H!Control
    <2>2. CASE H!Done
        BY <1>k, <2>1, <2>2
    <2>3. CASE press' = [press EXCEPT !.at = "reload"]
        <3>1. press'.at = "reload"
            BY <2>3, PressKeeps
        <3>2. QED BY <2>1, <3>1, PlacesStay DEF ShownInv
    <2>4. QED BY <1>10, <2>2, <2>3 DEF H!Control
<1>11. CASE H!Reload
    <2>1. H!Done /\ UNCHANGED present
        BY <1>11 DEF H!Reload
    <2>2. UNCHANGED <<keyboard, shifted>> \/ keyboard' = H!Draw(press.room, press.dev)
        BY <1>11 DEF H!Reload
    <2>3. QED BY <2>1, <2>2, <1>k, <1>r
<1>12. CASE \E d \in Devices : H!ListChanges(d)
    BY <1>12 DEF ShownInv, H!ListChanges
<1>13. CASE (\E d \in Devices : H!Switched(d)) \/ (\E t \in Levels, here \in BOOLEAN : H!SetTrust(t, here))
            \/ UNCHANGED H!vars
    BY <1>1, <1>13 DEF H!Switched, H!SetTrust, H!vars
<1>14. QED BY <1>4, <1>5, <1>6, <1>7, <1>8, <1>9, <1>10, <1>11, <1>12, <1>13 DEF H!Next

\* Only a command switches, and it switches what its press shows.
LEMMA ButtonsStep == MenuType /\ ShownInv /\ ButtonsMeanIt /\ [H!Next]_(H!vars) => ButtonsMeanIt'
<1> SUFFICES ASSUME MenuType, ShownInv, ButtonsMeanIt, [H!Next]_(H!vars) PROVE ButtonsMeanIt'
    OBVIOUS
<1>1. CASE UNCHANGED acted
    BY <1>1 DEF ButtonsMeanIt, H!ButtonsMeanIt
<1>2. CASE H!Control /\ ~UNCHANGED acted
    <2> DEFINE d == press.device
               is == d \in lit'
    <2>1. /\ lit' = H!Set(d, press.on) /\ press.at = "control"
          /\ acted' = [device |-> d, on |-> is, shown |-> IF shifted THEN d ELSE press.shown,
                       label |-> press.on, trust |-> trust]
        BY <1>2 DEF H!Control
    <2>2. is = press.on
        <3>1. press.on = TRUE \/ press.on = FALSE
            BY DEF MenuType
        <3>2. CASE press.on = TRUE
            BY <2>1, <3>2 DEF H!Set
        <3>3. CASE press.on = FALSE
            <4>1. lit' = lit \ {d}
                BY <2>1, <3>3 DEF H!Set
            <4>2. ~is
                BY <4>1
            <4> HIDE DEF is
            <4>3. is \in BOOLEAN
                BY DEF is
            <4>4. is = FALSE
                BY <4>2, <4>3
            <4>5. QED BY <3>3, <4>4
        <3>4. QED BY <3>1, <3>2, <3>3
    <2> HIDE DEF is
    <2>3. acted'.device = d /\ acted'.on = is /\ acted'.label = press.on
          /\ acted'.shown = IF shifted THEN d ELSE press.shown
        BY <2>1
    <2>4. acted'.shown = d
        BY <2>1, <2>3 DEF ShownInv
    <2>5. QED BY <2>2, <2>3, <2>4 DEF ButtonsMeanIt, H!ButtonsMeanIt
<1>3. CASE H!PressReload \/ H!PressBack \/ H!PressClose \/ H!PressSwitch
           \/ (\E r \in 1..Len(H!RoomList) : H!PressRoom(r)) \/ (\E d \in Devices : H!PressDevice(d))
    BY <1>1, <1>3 DEF H!PressReload, H!PressBack, H!PressClose, H!PressSwitch, H!PressRoom, H!PressDevice, H!Pressed
<1>4. CASE \/ H!Haus \/ H!CheckTrust \/ H!Show \/ H!FindDevice \/ H!Reload
           \/ (\E d \in Devices : H!ListChanges(d) \/ H!Switched(d))
           \/ (\E t \in Levels, here \in BOOLEAN : H!SetTrust(t, here)) \/ UNCHANGED H!vars
    BY <1>1, <1>4 DEF H!Haus, H!CheckTrust, H!Show, H!FindDevice, H!Reload, H!ListChanges, H!Switched,
                      H!SetTrust, H!vars
<1>5. QED BY <1>1, <1>2, <1>3, <1>4 DEF H!Next

\* A button does what it says to the device it was drawn for, as long as the list
\* is the one it was drawn from: for every number of devices, rooms and presses.
THEOREM ButtonsMeanItAlways == Spec => []ButtonsMeanIt
<1>1. Init => MenuType /\ ShownInv /\ ButtonsMeanIt
    <2>1. Init => MenuType
        BY DEF Init, H!Init, MenuType, H!NoPress, H!Keyboard
    <2>2. Init => ShownInv
        BY DEF Init, H!Init, ShownInv, H!NoPress, H!Keyboard
    <2>3. Init => ButtonsMeanIt
        BY DEF Init, H!Init, H!Nothing, H!None, ButtonsMeanIt, H!ButtonsMeanIt
    <2>4. QED BY <2>1, <2>2, <2>3
<1>2. MenuType /\ ShownInv /\ ButtonsMeanIt /\ [Next]_vars => (MenuType /\ ShownInv /\ ButtonsMeanIt)'
    BY MenuTypeStep, ShownInvStep, ButtonsStep, MenuStep
<1>3. QED
    BY <1>1, <1>2, PTL DEF Spec

-----------------------------------------------------------------------------
(* A reply is about what was read last; its words are not talked over, but in *)
(* smalltalk mode.                                                          *)

\* What a question is about is what was read last to whom it is asked.
Replying == {"message_reply_prompt", "message_compose"}
Rightful(q, m, heard) == q.kind \in Replying /\ q.about # 0 => q.about = m /\ q.about \in heard
IsQuestion(q) == q = [kind |-> q.kind, about |-> q.about, rest |-> q.rest]

DialogueType ==
    /\ question = [s \in Sources |-> question[s]] /\ \A s \in Sources : IsQuestion(question[s])
    /\ buried = [s \in Sources |-> buried[s]]
    /\ last = [s \in Sources |-> last[s]]
RightfulInv == \A s \in Sources : Rightful(question[s], last[s], read)
DialogueInv == DialogueType /\ RightfulInv /\ MessagesStand

\* No other source leaves the smalltalk.
OthersChat(s) == smalltalk \ {s} \subseteq smalltalk'

\* A reply that is made is about what was read last.
Replied == \A r \in replies' : r \notin replies => (r[1] # 0 => r[1] = r[2] /\ r[1] \in read)

\* Nobody is asked, told or replied to anew.
LEMMA DialogueRests ==
    ASSUME DialogueInv, UNCHANGED <<question, buried, smalltalk, last, replies>>, read \subseteq read'
    PROVE  DialogueInv'
<1>1. DialogueType'
    BY DEF DialogueInv, DialogueType
<1>2. RightfulInv'
    BY DEF DialogueInv, RightfulInv, Rightful
<1>3. MessagesStand'
    BY DEF DialogueInv, MessagesStand, D!MessagesStand, D!ComposeStands, D!ReplyIsToTheRead
<1>4. QED BY <1>1, <1>2, <1>3 DEF DialogueInv

\* Somebody is asked a question that is right for what was read to them.
LEMMA DialogueAsks ==
    ASSUME DialogueInv, NEW s \in Sources, NEW q, NEW m, NEW w,
           question' = [question EXCEPT ![s] = q], buried' = [buried EXCEPT ![s] = w],
           last' = [last EXCEPT ![s] = m], Replied, read \subseteq read',
           IsQuestion(q), Rightful(q, m, read'),
           OthersChat(s), w = "message_compose" => s \in smalltalk'
    PROVE  DialogueInv'
<1>1. /\ question' = [r \in Sources |-> IF r = s THEN q ELSE question[r]]
      /\ buried' = [r \in Sources |-> IF r = s THEN w ELSE buried[r]]
      /\ last' = [r \in Sources |-> IF r = s THEN m ELSE last[r]]
    BY DEF DialogueInv, DialogueType
<1>2. DialogueType'
    <2>1. question' = [r \in Sources |-> question'[r]]
        BY <1>1
    <2>2. buried' = [r \in Sources |-> buried'[r]]
        BY <1>1
    <2>3. last' = [r \in Sources |-> last'[r]]
        BY <1>1
    <2>4. \A r \in Sources : IsQuestion(question'[r])
        BY <1>1 DEF DialogueInv, DialogueType
    <2>5. QED BY <2>1, <2>2, <2>3, <2>4 DEF DialogueType, IsQuestion
<1>3. RightfulInv'
    BY <1>1 DEF DialogueInv, RightfulInv, Rightful
<1>4. D!ComposeStands'
    BY <1>1 DEF DialogueInv, MessagesStand, D!MessagesStand, D!ComposeStands, OthersChat
<1>5. D!ReplyIsToTheRead'
    BY DEF DialogueInv, Replied, MessagesStand, D!MessagesStand, D!ReplyIsToTheRead
<1>6. QED BY <1>2, <1>3, <1>4, <1>5 DEF DialogueInv, MessagesStand, D!MessagesStand

\* The notice of messages is no reply, and neither is the end of a question.
LEMMA NoticesAreNoReplies ==
    \A m, heard : /\ IsQuestion(D!NoQuestion) /\ Rightful(D!NoQuestion, m, heard)
                  /\ IsQuestion(D!Question("message_playback", 0, <<>>))
                  /\ Rightful(D!Question("message_playback", 0, <<>>), m, heard)
                  /\ \A kind, rest : /\ IsQuestion(D!Question(kind, 0, rest))
                                     /\ Rightful(D!Question(kind, 0, rest), m, heard)
BY DEF IsQuestion, Rightful, D!Question, D!NoQuestion

\* An answer that reads nothing out: the words somebody is asked for get no
\* notice of messages, but in smalltalk mode.
LEMMA AnswerKeeps ==
    ASSUME DialogueInv, NEW s \in Sources, NEW way, NEW knows, NEW name, NEW aloud, NEW q,
           D!Answer(s, way, knows, name, aloud, q), UNCHANGED D!mailbox,
           IsQuestion(q), Rightful(q, last[s], read), OthersChat(s),
           q.kind = "message_compose" => name \in D!Untrailed \/ s \in smalltalk'
    PROVE  DialogueInv'
<1> DEFINE trails == D!Trails(way, name, aloud, knows)
           notice == D!Question("message_playback", 0, <<>>)
           asked == IF trails THEN notice ELSE q
           over == IF trails THEN q.kind ELSE "none"
<1>q. question' = [question EXCEPT ![s] = asked]
    BY Zenon DEF D!Answer
<1>b. buried' = [buried EXCEPT ![s] = over]
    BY Zenon DEF D!Answer
<1>u. UNCHANGED <<read, last, replies>>
    BY DEF D!mailbox
<1>2. over = "message_compose" => s \in smalltalk'
    BY DEF D!Trails
<1>3. IsQuestion(asked) /\ Rightful(asked, last[s], read)
    BY NoticesAreNoReplies
<1>4. last' = [last EXCEPT ![s] = last[s]]
    BY <1>u DEF DialogueInv, DialogueType
<1> HIDE DEF asked, over
<1>5. Replied /\ read \subseteq read'
    BY <1>u DEF Replied
<1>6. Rightful(asked, last[s], read')
    BY <1>u, <1>3
<1>7. QED BY <1>q, <1>b, <1>2, <1>3, <1>4, <1>5, <1>6, DialogueAsks

\* Reading out: the question after it is about the last message that was read.
LEMMA PlayKeeps ==
    ASSUME DialogueInv, NEW s \in Sources, NEW todo, D!Play(s, todo), Replied, UNCHANGED smalltalk
    PROVE  DialogueInv'
<1>0. OthersChat(s)
    BY DEF OthersChat
<1>1. ASSUME NEW n, D!PlayTo(s, todo, n), D!Ask(s, D!NoQuestion) PROVE DialogueInv'
    <2> DEFINE m == IF n = 0 THEN last[s] ELSE todo[n]
    <2>1. last' = [last EXCEPT ![s] = m] /\ read \subseteq read'
        BY <1>1 DEF D!PlayTo
    <2>2. question' = [question EXCEPT ![s] = D!NoQuestion] /\ buried' = [buried EXCEPT ![s] = "none"]
        BY <1>1 DEF D!Ask
    <2> HIDE DEF m
    <2>3. QED BY <1>0, <2>1, <2>2, NoticesAreNoReplies, DialogueAsks
<1>2. ASSUME NEW n \in 1..Len(todo), D!PlayTo(s, todo, n),
             D!Ask(s, D!Question("message_reply_prompt", D!About(todo, n), SubSeq(todo, n + 1, Len(todo))))
      PROVE  DialogueInv'
    <2> DEFINE rest == SubSeq(todo, n + 1, Len(todo))
               q == D!Question("message_reply_prompt", todo[n], rest)
    <2>1. n # 0 /\ n \in 1..n
        OBVIOUS
    <2>2. last' = [last EXCEPT ![s] = todo[n]] /\ read \subseteq read' /\ todo[n] \in read'
        BY <1>2, <2>1 DEF D!PlayTo
    <2>3. question' = [question EXCEPT ![s] = q] /\ buried' = [buried EXCEPT ![s] = "none"]
        BY <1>2 DEF D!Ask, D!About
    <2> HIDE DEF rest
    <2>4. IsQuestion(q) /\ Rightful(q, todo[n], read')
        BY <2>2 DEF IsQuestion, Rightful, D!Question
    <2> HIDE DEF q
    <2>5. QED BY <1>0, <2>2, <2>3, <2>4, DialogueAsks
<1>3. QED BY <1>1, <1>2 DEF D!Play

\* An answer with a question about no message, or with none.
LEMMA AnswerAsks ==
    ASSUME DialogueInv, NEW s \in Sources, NEW way, NEW knows, NEW name, NEW aloud, NEW kind,
           D!Answer(s, way, knows, name, aloud, D!Question(kind, 0, <<>>)), UNCHANGED D!mailbox,
           OthersChat(s), kind = "message_compose" => name \in D!Untrailed
    PROVE  DialogueInv'
<1> DEFINE q == D!Question(kind, 0, <<>>)
<1>1. q.kind = kind
    BY DEF D!Question
<1>2. IsQuestion(q) /\ Rightful(q, last[s], read)
    BY NoticesAreNoReplies
<1> HIDE DEF q
<1>3. D!Answer(s, way, knows, name, aloud, q)
    BY DEF q
<1>4. QED BY <1>1, <1>2, <1>3, AnswerKeeps

\* An answer in words, with no question about a message.
LEMMA PlainAsks ==
    ASSUME DialogueInv, NEW s \in Sources, NEW way, NEW knows, NEW name, NEW kind,
           D!Plain(s, way, knows, name, D!Question(kind, 0, <<>>)), UNCHANGED D!mailbox,
           OthersChat(s), kind # "message_compose"
    PROVE  DialogueInv'
<1> DEFINE aloud == TRUE
<1>1. D!Answer(s, way, knows, name, aloud, D!Question(kind, 0, <<>>))
    BY DEF D!Plain
<1> HIDE DEF aloud
<1>2. QED BY <1>1, AnswerAsks

\* An answer in words that closes the question.
LEMMA PlainEnds ==
    ASSUME DialogueInv, NEW s \in Sources, NEW way, NEW knows, NEW name,
           D!Plain(s, way, knows, name, D!NoQuestion), UNCHANGED D!mailbox, OthersChat(s)
    PROVE  DialogueInv'
<1>1. D!Plain(s, way, knows, name, D!Question("none", 0, <<>>))
    BY DEF D!NoQuestion
<1>2. "none" # "message_compose"
    OBVIOUS
<1>3. QED BY <1>1, <1>2, PlainAsks

\* An answer that leaves the question open.
LEMMA AnswerLeaves ==
    ASSUME DialogueInv, NEW s \in Sources, NEW way, NEW knows, NEW name, NEW aloud,
           D!Answer(s, way, knows, name, aloud, question[s]), UNCHANGED D!mailbox,
           OthersChat(s), name \in D!Untrailed \/ s \in smalltalk'
    PROVE  DialogueInv'
<1>1. IsQuestion(question[s]) /\ Rightful(question[s], last[s], read)
    BY DEF DialogueInv, DialogueType, RightfulInv
<1>2. QED BY <1>1, AnswerKeeps

\* A question that is put down, with nothing read out.
LEMMA QuestionEnds ==
    ASSUME DialogueInv, NEW s \in Sources, D!Ask(s, D!NoQuestion), UNCHANGED D!mailbox, OthersChat(s)
    PROVE  DialogueInv'
<1>1. question' = [question EXCEPT ![s] = D!NoQuestion] /\ buried' = [buried EXCEPT ![s] = "none"]
    BY DEF D!Ask
<1>2. last' = [last EXCEPT ![s] = last[s]] /\ Replied /\ read' = read
    BY DEF D!mailbox, DialogueInv, DialogueType, Replied
<1>3. QED BY <1>1, <1>2, NoticesAreNoReplies, DialogueAsks

\* The sentences that no open message question takes.
LEMMA ParsingKeeps ==
    ASSUME DialogueInv, NEW s \in Sources, NEW way, NEW knows, D!Parsing(s, way, knows)
    PROVE  DialogueInv'
<1> USE DEF D!NoMail, D!Parsed
<1>0. OthersChat(s)
    BY DEF D!Parsing, D!Phrase, D!Pick, D!Clarify, D!Smalltalk, D!DeleteAlarm, D!ConfirmAlarm, D!Device,
           D!SetAlarm, D!Ordinary, OthersChat
<1>1. CASE D!Phrase(s, way, knows)
    <2>1. D!Answer(s, way, knows, "Trigger", TRUE, question[s]) /\ UNCHANGED D!mailbox
        BY <1>1 DEF D!Phrase, D!Plain
    <2>2. "Trigger" \in D!Untrailed
        BY DEF D!Untrailed
    <2>3. QED BY <1>0, <2>1, <2>2, AnswerLeaves
<1>2. CASE D!Pick(s, way, knows)
    BY <1>0, <1>2, PlainEnds DEF D!Pick
<1>3. CASE D!Clarify(s, way, knows)
    BY <1>0, <1>3, PlainAsks DEF D!Clarify
<1>4. CASE D!Smalltalk(s, way, knows)
    BY <1>0, <1>4, PlainEnds DEF D!Smalltalk
<1>5. CASE D!DeleteAlarm(s, way, knows)
    <2>1. \/ D!Plain(s, way, knows, "DeleteAlarm", D!NoQuestion)
          \/ D!Plain(s, way, knows, "DeleteAlarm", D!Question("alarm_delete_series", 0, <<>>))
        BY <1>5 DEF D!DeleteAlarm
    <2>2. UNCHANGED D!mailbox
        BY <1>5 DEF D!DeleteAlarm
    <2>3. QED BY <1>0, <2>1, <2>2, PlainAsks, PlainEnds
<1>6. ASSUME NEW yes \in BOOLEAN, D!ConfirmAlarm(s, way, knows, yes) PROVE DialogueInv'
    BY <1>0, <1>6, PlainEnds DEF D!ConfirmAlarm
<1>7. ASSUME NEW yes \in BOOLEAN, D!Device(s, way, knows, yes) PROVE DialogueInv'
    BY <1>0, <1>7, PlainEnds DEF D!Device
<1>8. ASSUME NEW weekday \in BOOLEAN, D!SetAlarm(s, way, knows, weekday) PROVE DialogueInv'
    <2>1. \/ D!Plain(s, way, knows, "SetAlarm", D!NoQuestion)
          \/ D!Plain(s, way, knows, "SetAlarm", D!Question("alarm_expand", 0, <<>>))
        BY <1>8 DEF D!SetAlarm
    <2>2. UNCHANGED D!mailbox
        BY <1>8 DEF D!SetAlarm
    <2>3. QED BY <1>0, <2>1, <2>2, PlainAsks, PlainEnds
<1>9. ASSUME NEW name \in {"Query", "StopIntent"}, D!Ordinary(s, way, knows, name) PROVE DialogueInv'
    <2>1. D!Answer(s, way, knows, name, name # "StopIntent", D!Question("none", 0, <<>>)) /\ UNCHANGED D!mailbox
        BY <1>9 DEF D!Ordinary, D!NoQuestion
    <2>2. "none" # "message_compose"
        OBVIOUS
    <2>3. QED BY <1>0, <2>1, <2>2, AnswerAsks
<1>10. QED BY <1>1, <1>2, <1>3, <1>4, <1>5, <1>6, <1>7, <1>8, <1>9 DEF D!Parsing

\* Messages are asked for: what is open is put down until they are read out.
LEMMA FetchKeeps ==
    ASSUME DialogueInv, NEW s \in Sources, NEW knows, D!Fetch(s, knows)
    PROVE  DialogueInv'
BY QuestionEnds DEF D!Fetch, D!NoMail, OthersChat

\* "Moechtest du antworten?": yes keeps what the reply is about.
LEMMA ReplyPromptKeeps ==
    ASSUME DialogueInv, NEW s \in Sources, NEW yes \in BOOLEAN, D!ReplyPrompt(s, yes)
    PROVE  DialogueInv'
<1>1. CASE yes
    <2> DEFINE q == [question[s] EXCEPT !.kind = "message_compose"]
    <2>1. D!Answer(s, "text", FALSE, "MessageQuery", TRUE, q) /\ UNCHANGED D!mailbox
        BY <1>1 DEF D!ReplyPrompt, D!Plain, D!NoMail
    <2>2. question[s].kind = "message_reply_prompt"
        BY DEF D!ReplyPrompt
    <2>3. IsQuestion(question[s]) /\ Rightful(question[s], last[s], read)
        BY DEF DialogueInv, DialogueType, RightfulInv
    <2>4. q = [kind |-> "message_compose", about |-> question[s].about, rest |-> question[s].rest]
        BY <2>3 DEF IsQuestion
    <2> HIDE DEF q
    <2>5. IsQuestion(q) /\ Rightful(q, last[s], read)
        BY <2>2, <2>3, <2>4 DEF IsQuestion, Rightful, Replying
    <2>6. "MessageQuery" \in D!Untrailed
        BY DEF D!Untrailed
    <2>7. OthersChat(s)
        BY DEF D!ReplyPrompt, OthersChat
    <2>8. QED BY <2>1, <2>5, <2>6, <2>7, AnswerKeeps
<1>2. CASE ~yes
    BY <1>2, PlayKeeps DEF D!ReplyPrompt, Replied
<1>3. QED BY <1>1, <1>2

\* The message is said: it goes to the sender of what was read last.
LEMMA ComposeKeeps ==
    ASSUME DialogueInv, NEW s \in Sources, NEW knows, D!Compose(s, knows)
    PROVE  DialogueInv'
<1>0. UNCHANGED smalltalk /\ OthersChat(s)
    BY DEF D!Compose, OthersChat
<1>1. CASE D!Plain(s, "text", knows, "SendMessage", D!NoQuestion) /\ D!NoMail
    BY <1>0, <1>1, PlainEnds DEF D!NoMail
<1>2. CASE replies' = replies \cup {<<question[s].about, last[s]>>} /\ D!Play(s, question[s].rest)
    <2>1. question[s].kind = "message_compose"
        BY DEF D!Compose
    <2>2. Rightful(question[s], last[s], read)
        BY DEF DialogueInv, RightfulInv
    <2>3. Replied
        BY <1>2, <2>1, <2>2 DEF Replied, Rightful, Replying
    <2>4. QED BY <1>0, <1>2, <2>3, PlayKeeps
<1>3. QED BY <1>1, <1>2 DEF D!Compose

\* Every step of the dialogue keeps what is asked, read and replied together.
LEMMA DialogueInvStep == DialogueInv /\ [D!Next]_(D!vars) => DialogueInv'
<1> SUFFICES ASSUME DialogueInv, [D!Next]_(D!vars) PROVE DialogueInv'
    OBVIOUS
<1>1. CASE D!Create \/ (\E m \in D!Messages : D!Lit(m) \/ D!Dismiss(m)) \/ UNCHANGED D!vars
    BY <1>1, DialogueRests DEF D!Create, D!Lit, D!Dismiss, D!talk, D!vars, D!mailbox
<1>2. ASSUME NEW s \in Sources, D!Select(s) PROVE DialogueInv'
    BY <1>2, DialogueRests DEF D!Select
<1>3. ASSUME NEW s \in Sources, D!Delete(s) PROVE DialogueInv'
    BY <1>3, PlayKeeps DEF D!Delete, Replied
<1>4. ASSUME NEW s \in Sources, D!Lapse(s) PROVE DialogueInv'
    BY <1>4, QuestionEnds DEF D!Lapse, OthersChat
<1>5. ASSUME NEW s \in Sources, NEW knows \in BOOLEAN, D!Text(s, knows) PROVE DialogueInv'
    <2>1. CASE D!Parsing(s, "text", knows)
        BY <2>1, ParsingKeeps
    <2>2. ASSUME NEW verdict \in {"SMALLTALK", "NOT_ADDRESSED"}, D!Chatting(s, knows, verdict) PROVE DialogueInv'
        BY <2>2, AnswerLeaves DEF D!Chatting, D!NoMail, OthersChat
    <2>3. ASSUME NEW yes \in BOOLEAN, D!ConfirmPlayback(s, knows, yes) PROVE DialogueInv'
        BY <2>3, FetchKeeps, PlainEnds DEF D!ConfirmPlayback, D!NoMail, OthersChat
    <2>4. ASSUME NEW yes \in BOOLEAN, D!ReplyPrompt(s, yes) PROVE DialogueInv'
        BY <2>4, ReplyPromptKeeps
    <2>5. CASE D!Compose(s, knows)
        BY <2>5, ComposeKeeps
    <2>6. CASE D!MessageQuery(s, knows)
        BY <2>6, FetchKeeps DEF D!MessageQuery
    <2>7. CASE D!SendMessage(s, knows)
        <3>1. UNCHANGED D!mailbox /\ OthersChat(s) /\ "SendMessage" \in D!Untrailed
            BY <2>7 DEF D!SendMessage, D!Parsed, D!NoMail, D!Untrailed, OthersChat
        <3>2. \E kind : D!Answer(s, "text", knows, "SendMessage", TRUE, D!Question(kind, 0, <<>>))
            BY <2>7 DEF D!SendMessage, D!Plain, D!NoQuestion
        <3>3. QED BY <3>1, <3>2, AnswerAsks
    <2>8. QED BY <1>5, <2>1, <2>2, <2>3, <2>4, <2>5, <2>6, <2>7 DEF D!Text
<1>6. ASSUME NEW s \in Satellites, D!Parsing(s, "udp", FALSE) PROVE DialogueInv'
    BY <1>6, ParsingKeeps, ClientsAssumption
<1>7. QED BY <1>1, <1>2, <1>3, <1>4, <1>5, <1>6 DEF D!Next

\* A reply goes to the sender of the message that was read last to whoever
\* replies, and outside smalltalk mode "Was moechtest du ausrichten?" is never
\* talked over: for every number of sources, satellites and messages.
THEOREM MessagesStandAlways == Spec => []MessagesStand
<1>1. Init => DialogueInv
    <2>1. Init => DialogueType
        BY DEF Init, D!Init, DialogueType, IsQuestion, D!NoQuestion, D!Question
    <2>2. Init => RightfulInv
        BY NoticesAreNoReplies DEF Init, D!Init, RightfulInv
    <2>3. Init => MessagesStand
        BY DEF Init, D!Init, MessagesStand, D!MessagesStand, D!ComposeStands, D!ReplyIsToTheRead
    <2>4. QED BY <2>1, <2>2, <2>3 DEF DialogueInv
<1>2. DialogueInv /\ [Next]_vars => DialogueInv'
    BY DialogueInvStep, DialogueStep
<1>3. DialogueInv => MessagesStand
    BY DEF DialogueInv
<1>4. QED
    BY <1>1, <1>2, <1>3, PTL DEF Spec

-----------------------------------------------------------------------------
(* An alarm keeps its timer.                                                *)

\* A set of naturals has a least element.  The library's induction takes an
\* operator; this is the same from what it says of finite sets.
LEMMA Smallest ==
    ASSUME NEW T \in SUBSET Nat, T # {}
    PROVE  \E x \in T : \A y \in T : x <= y
<1>1. PICK n \in T : TRUE
    OBVIOUS
<1> DEFINE F == {0..x : x \in T \cap 0..n}
<1>2. F # {} /\ F \subseteq FiniteSubsetsOf(0..n)
    <2>1. n \in T \cap 0..n
        OBVIOUS
    <2>2. \A x \in T \cap 0..n : IsFiniteSet(0..x) /\ 0..x \subseteq 0..n
        BY FS_Interval
    <2>3. QED BY <2>1, <2>2 DEF FiniteSubsetsOf
<1>3. \E X \in F : \A Y \in F : <<Y, X>> \notin StrictSubsetOrdering(0..n)
    <2> HIDE DEF F
    <2>1. QED BY <1>2, FS_StrictSubsetOrderingWellFounded, WFMin, Zenon
<1>4. PICK x \in T \cap 0..n : \A y \in T \cap 0..n : <<0..y, 0..x>> \notin StrictSubsetOrdering(0..n)
    BY <1>3
<1>5. ASSUME NEW y \in T, y < x PROVE FALSE
    <2>1. y \in T \cap 0..n /\ 0..y \subseteq 0..x /\ 0..x \subseteq 0..n /\ x \in 0..x /\ x \notin 0..y
        BY <1>5
    <2>2. <<0..y, 0..x>> \in StrictSubsetOrdering(0..n)
        BY <2>1 DEF StrictSubsetOrdering
    <2>3. QED BY <1>4, <2>1, <2>2
<1>6. QED BY <1>5

\* A step of the run is a step of one of the two schedules or none.
LEMMA ScheduleStep ==
    [Next]_vars => /\ part' = part
                   /\ part = "serial" => [S!Next]_(S!vars)
                   /\ part = "overlap" => [O!Next]_(O!vars)
BY DEF Next, vars, Chat, Menu, Dialogue, Agent, Serial, Overlap, schedule, S!vars, O!vars

\* Days that differ are a day apart at least.
LEMMA DaysApart == \A L \in Nat \ {0}, d, e \in Int : d < e => d * L + L <= e * L
<1>1. \A k, m \in Nat : k * m \in Nat
    OBVIOUS
<1> SUFFICES ASSUME NEW L \in Nat \ {0}, NEW d \in Int, NEW e \in Int, d < e PROVE d * L + L <= e * L
    OBVIOUS
<1>2. (e - d - 1) * L \in Nat
    BY <1>1
<1>3. (e - d - 1) * L = e * L - d * L - L
    OBVIOUS
<1>4. d * L \in Int /\ e * L \in Int
    OBVIOUS
<1> QED BY <1>2, <1>3, <1>4

\* Every weekday comes within a week.
LEMMA WithinAWeek ==
    ASSUME NEW W \in Nat \ {0}, NEW w \in 0..W-1, NEW b \in Nat
    PROVE  \E d \in (b + 1)..(b + W) : d % W = w
<1> DEFINE r == (w - (b + 1)) % W
           q == (w - (b + 1)) \div W
           d == b + 1 + r
<1>1. r \in 0..W-1 /\ q \in Int /\ w - (b + 1) = W * q + r
    OBVIOUS
<1>2. d % W \in 0..W-1 /\ d \div W \in Int /\ d = W * (d \div W) + (d % W)
    BY <1>1
<1>3. d = w - W * q
    BY <1>1
<1>4. (d % W) - w = W * ((-q) - (d \div W))
    <2>1. PICK m \in Int, k \in Int : m = d % W /\ k = d \div W
        BY <1>2
    <2>2. m = -(W * q) - W * k + w
        BY <1>1, <1>2, <1>3, <2>1
    <2>3. W * ((-q) - k) = -(W * q) - W * k
        BY <1>1, <2>1
    <2>4. QED BY <2>1, <2>2, <2>3
<1>5. ASSUME NEW k \in Int, W * k < W, W * k > -W PROVE k = 0
    BY <1>5
<1>6. (-q) - (d \div W) = 0
    BY <1>1, <1>2, <1>4, <1>5
<1>7. d % W = w
    BY <1>2, <1>4, <1>6
<1>8. d \in (b + 1)..(b + W)
    BY <1>1
<1> HIDE DEF d
<1> QED BY <1>7, <1>8

\* A time is within its day.
LEMMA DayOf ==
    ASSUME NEW L \in Nat \ {0}, NEW t \in Nat
    PROVE  t \div L \in Nat /\ (t \div L) * L <= t /\ t < (t \div L) * L + L
<1>1. t = L * (t \div L) + (t % L) /\ t \div L \in Int /\ t % L \in 0..L-1
    OBVIOUS
<1>2. PICK k \in Int : k = t \div L
    BY <1>1
<1>3. L * k = k * L
    OBVIOUS
<1>4. k >= 0
    <2> SUFFICES ASSUME k <= -1 PROVE FALSE
        OBVIOUS
    <2>1. k * L + L <= 0 * L
        BY DaysApart
    <2>2. QED BY <1>1, <1>2, <1>3, <2>1
<1>5. QED BY <1>1, <1>2, <1>3, <1>4

\* So the days that are looked at hold every weekday, at a time still to come.
LEMMA DueWithinAWeek ==
    \A L, W \in Nat \ {0}, t \in Nat : \A time \in 0..L-1, w \in 0..W-1 :
        \E d \in (t \div L)..(t \div L + W) : d % W = w /\ d * L + time > t
<1> SUFFICES ASSUME NEW L \in Nat \ {0}, NEW W \in Nat \ {0}, NEW t \in Nat, NEW time \in 0..L-1, NEW w \in 0..W-1
             PROVE  \E d \in (t \div L)..(t \div L + W) : d % W = w /\ d * L + time > t
    OBVIOUS
<1>1. t \div L \in Nat /\ t < (t \div L) * L + L
    BY DayOf
<1>2. PICK b \in Nat : b = t \div L
    BY <1>1
<1>3. PICK d \in (b + 1)..(b + W) : d % W = w
    BY WithinAWeek
<1>4. b * L + L <= d * L /\ d * L \in Int /\ b * L \in Int
    BY <1>3, DaysApart
<1>5. d * L + time > t
    BY <1>1, <1>2, <1>4
<1>6. d \in (t \div L)..(t \div L + W)
    BY <1>2, <1>3
<1> QED BY <1>3, <1>5, <1>6

\* What a row may be, in the run that skips and in the one that does not.
LEMMA RowsOfSchedules ==
    /\ \A r \in S!Row : r.time \in 0..DayLen-1 /\ r.weekdays \subseteq 0..WeekLen-1
                        /\ r.one_shot_date \in 0..MaxDay
    /\ \A r \in O!RecurringRow({{}}) \cup O!OneOffRow :
            r.time \in 0..BusyDayLen-1 /\ r.weekdays \subseteq 0..WeekLen-1 /\ r.skip_dates = {}
<1>1. \A r \in S!RecurringRow(SUBSET S!Days) : r.time \in 0..DayLen-1 /\ r.weekdays \subseteq 0..WeekLen-1
                                               /\ r.one_shot_date = 0
    BY DEF S!RecurringRow
<1>2. \A r \in S!OneOffRow : r.time \in 0..DayLen-1 /\ r.weekdays = {} /\ r.one_shot_date \in 0..MaxDay
    BY DEF S!OneOffRow, S!Days
<1>3. \A r \in O!RecurringRow({{}}) : r.time \in 0..BusyDayLen-1 /\ r.weekdays \subseteq 0..WeekLen-1
                                       /\ r.skip_dates = {}
    BY DEF O!RecurringRow
<1>4. \A r \in O!OneOffRow : r.time \in 0..BusyDayLen-1 /\ r.weekdays = {} /\ r.skip_dates = {}
    BY DEF O!OneOffRow, O!Days
<1>5. MaxDay \in Nat
    BY AlarmsAssumption DEF S!AlarmScheduleAssumption
<1>6. ASSUME NEW r \in S!Row
      PROVE  r.time \in 0..DayLen-1 /\ r.weekdays \subseteq 0..WeekLen-1 /\ r.one_shot_date \in 0..MaxDay
    <2>1. CASE r \in S!RecurringRow(SUBSET S!Days)
        BY <1>1, <1>5, <2>1
    <2>2. CASE r \in S!OneOffRow
        BY <1>2, <2>2
    <2>3. QED BY <2>1, <2>2 DEF S!Row
<1>7. ASSUME NEW r \in O!RecurringRow({{}}) \cup O!OneOffRow
      PROVE  r.time \in 0..BusyDayLen-1 /\ r.weekdays \subseteq 0..WeekLen-1 /\ r.skip_dates = {}
    BY <1>3, <1>4
<1> QED BY <1>6, <1>7

\* A series that skips nothing always has a next time (_compute_next_fire).
LEMMA SeriesGoesOn ==
    /\ \A r \in S!Row : now \in Nat /\ r.weekdays # {} /\ r.skip_dates = {} => S!Upcoming(r, now) # {}
    /\ \A r \in O!RecurringRow({{}}) \cup O!OneOffRow :
            now \in Nat /\ r.weekdays # {} => O!Upcoming(r, now) # {}
<1>1. DayLen \in Nat \ {0} /\ BusyDayLen \in Nat \ {0} /\ WeekLen \in Nat \ {0}
    BY AlarmsAssumption DEF S!AlarmScheduleAssumption, O!AlarmScheduleAssumption
<1>2. ASSUME NEW r \in S!Row, now \in Nat, r.weekdays # {}, r.skip_dates = {} PROVE S!Upcoming(r, now) # {}
    <2>1. PICK w \in r.weekdays : w \in 0..WeekLen-1
        BY <1>2, RowsOfSchedules
    <2>2. PICK d \in (now \div DayLen)..(now \div DayLen + WeekLen) : d % WeekLen = w /\ d * DayLen + r.time > now
        <3>1. r.time \in 0..DayLen-1
            BY RowsOfSchedules
        <3>2. QED BY <1>1, <1>2, <2>1, <3>1, DueWithinAWeek
    <2>3. d \in {e \in S!Lookahead(now) : S!Weekday(e) \in r.weekdays /\ e \notin r.skip_dates}
        BY <1>2, <2>1, <2>2 DEF S!Lookahead, S!Weekday
    <2>4. S!FireTime(d, r) > now
        BY <2>2 DEF S!FireTime
    <2>5. QED BY <1>2, <2>3, <2>4 DEF S!Upcoming
<1>3. ASSUME NEW r \in O!RecurringRow({{}}) \cup O!OneOffRow, now \in Nat, r.weekdays # {}
      PROVE  O!Upcoming(r, now) # {}
    <2>1. PICK w \in r.weekdays : w \in 0..WeekLen-1
        BY <1>3, RowsOfSchedules
    <2>2. PICK d \in (now \div BusyDayLen)..(now \div BusyDayLen + WeekLen) :
                 d % WeekLen = w /\ d * BusyDayLen + r.time > now
        <3>1. r.time \in 0..BusyDayLen-1
            BY RowsOfSchedules
        <3>2. now \in Nat /\ w \in 0..WeekLen-1
            BY <1>3, <2>1
        <3>3. BusyDayLen \in Nat \ {0} /\ WeekLen \in Nat \ {0}
            BY <1>1
        <3>4. \A t \in Nat : \A time \in 0..BusyDayLen-1, v \in 0..WeekLen-1 :
                \E d \in (t \div BusyDayLen)..(t \div BusyDayLen + WeekLen) : d % WeekLen = v /\ d * BusyDayLen + time > t
            BY <3>3, DueWithinAWeek
        <3>5. QED BY <3>1, <3>2, <3>4
    <2>3. d \in {e \in O!Lookahead(now) : O!Weekday(e) \in r.weekdays /\ e \notin r.skip_dates}
        BY <1>3, <2>1, <2>2, RowsOfSchedules DEF O!Lookahead, O!Weekday
    <2>4. O!FireTime(d, r) > now
        BY <2>2 DEF O!FireTime
    <2>5. QED BY <1>3, <2>3, <2>4 DEF O!Upcoming
<1> QED BY <1>2, <1>3

\* A one-off has the one time.
LEMMA OneOffIsLookedUp ==
    /\ \A r : r.weekdays = {} => S!Upcoming(r, now) = S!After(r)
    /\ \A r : r.weekdays = {} => O!Upcoming(r, now) = O!After(r)
BY DEF S!Upcoming, S!After, S!Occurrences, O!Upcoming, O!After, O!Occurrences

\* What _compute_next_fire finds first is the row's next time, however far one
\* looks.
LEMMA FirstIsNext ==
    ASSUME NEW r \in S!Row, now \in 0..S!MaxNow, S!Upcoming(r, now) # {}
    PROVE  S!After(r) # {} /\ S!Min(S!Upcoming(r, now)) = S!Min(S!After(r))
<1>1. DayLen \in Nat \ {0} /\ WeekLen \in Nat \ {0} /\ MaxDay \in Nat
    BY AlarmsAssumption DEF S!AlarmScheduleAssumption
<1>2. CASE r.weekdays = {}
    BY <1>2, OneOffIsLookedUp
<1>3. CASE r.weekdays # {}
    <2>1. PICK b \in Nat : b = now \div DayLen /\ b * DayLen <= now /\ now < b * DayLen + DayLen
        BY <1>1, DayOf DEF S!MaxNow
    <2>2. b <= MaxDay
        <3> SUFFICES ASSUME MaxDay < b PROVE FALSE
            BY <1>1
        <3>1. MaxDay * DayLen + DayLen <= b * DayLen
            BY <1>1, DaysApart
        <3>2. MaxDay * DayLen \in Int /\ b * DayLen \in Int
            BY <1>1
        <3>3. QED BY <1>1, <2>1, <3>1, <3>2 DEF S!MaxNow
    <2>3. ASSUME NEW d \in b..(b + WeekLen) PROVE d \in 0..S!Horizon
        BY <1>1, <2>2 DEF S!Horizon
    <2> DEFINE days == {d \in b..(b + WeekLen) : S!Weekday(d) \in r.weekdays /\ d \notin r.skip_dates}
               all == {d \in 0..S!Horizon : S!Weekday(d) \in r.weekdays /\ d \notin r.skip_dates}
    <2>4. /\ S!Upcoming(r, now) = {f \in {S!FireTime(d, r) : d \in days} : f > now}
          /\ S!After(r) = {f \in {S!FireTime(d, r) : d \in all} : f > now}
        BY <1>3, <2>1 DEF S!Upcoming, S!Lookahead, S!After, S!Occurrences
    <2>5. S!Upcoming(r, now) \subseteq S!After(r)
        BY <2>3, <2>4
    <2>6. \A d \in Int : d * DayLen \in Int
        BY <1>1
    <2>7. r.time \in 0..DayLen-1 /\ S!Horizon \in Int
        BY <1>1, RowsOfSchedules DEF S!Horizon
    <2>8. S!After(r) \subseteq Nat
        BY <2>4, <2>6, <2>7 DEF S!FireTime, S!MaxNow
    <2>9. ASSUME NEW f \in S!After(r), NEW m \in S!Upcoming(r, now), f < m PROVE f \in S!Upcoming(r, now)
        <3>1. PICK e \in all : f = e * DayLen + r.time /\ f > now
            BY <2>4 DEF S!FireTime
        <3>2. PICK d \in days : m = d * DayLen + r.time
            BY <2>4 DEF S!FireTime
        <3>3. e \in Int /\ d \in Int /\ e * DayLen \in Int /\ d * DayLen \in Int /\ b * DayLen \in Int
            BY <2>1, <2>6, <2>7
        <3>4. ~(d < e)
            BY <1>1, <2>7, <2>9, <3>1, <3>2, <3>3, DaysApart
        <3>5. ~(e < b)
            BY <1>1, <2>1, <2>7, <3>1, <3>3, DaysApart
        <3>6. e \in days
            <4>1. d \in b..(b + WeekLen)
                OBVIOUS
            <4>2. e \in b..(b + WeekLen)
                BY <1>1, <3>3, <3>4, <3>5, <4>1
            <4>3. QED BY <4>2
        <3>7. QED BY <2>4, <3>1, <3>6 DEF S!FireTime
    <2> HIDE DEF days, all
    <2>10. PICK m \in S!Upcoming(r, now) : \A y \in S!Upcoming(r, now) : m <= y
        BY <2>5, <2>8, Smallest
    <2>11. m \in S!After(r) /\ \A y \in S!After(r) : m <= y
        BY <2>5, <2>8, <2>9, <2>10
    <2>12. S!Min(S!After(r)) = m /\ S!Min(S!Upcoming(r, now)) = m
        <3>1. ASSUME NEW T \in SUBSET Nat, m \in T, \A y \in T : m <= y PROVE S!Min(T) = m
            <4>1. S!Min(T) \in T /\ S!Min(T) <= m
                BY <3>1 DEF S!Min
            <4>2. PICK k \in T : k = S!Min(T)
                BY <4>1
            <4>3. k <= m /\ m <= k /\ k \in Nat /\ m \in Nat
                BY <3>1, <4>1, <4>2
            <4>4. QED BY <4>2, <4>3
        <3>2. QED BY <2>5, <2>8, <2>10, <2>11, <3>1
    <2>13. QED BY <2>11, <2>12
<1>4. QED BY <1>2, <1>3

Sleeping == {"free", "armed"}
TimersOf(R) == [pc : {"free", "armed", "started", "read", "acting", "rung"}, at : Nat, snap : R \cup {NoRow}]
CallsOf(R, days) == [pc : {"idle", "write", "cancel", "schedule", "skip", "drop", "delete"},
                        snap : R \cup {NoRow}, date : days]

SerialType ==
    /\ now \in 0..S!MaxNow /\ awake \in BOOLEAN
    /\ entry \in S!Row \cup {NoRow} /\ armed \in Timers \cup {NoTimer}
    /\ timers \in [Timers -> TimersOf(S!Row)]
    /\ edit \in [Callers -> CallsOf(S!Row, 0..MaxDay)]

\* Where calls wait for one another, one is under way or one timer fires; the
\* handle is of the timer that waits.
OneAtATime ==
    /\ \A c \in Callers : edit[c].pc = "idle" => edit[c] = S!Idle
    /\ \A c, d \in Callers : edit[c].pc # "idle" /\ edit[d].pc # "idle" => c = d
    /\ \A c \in Callers, t \in Timers : edit[c].pc # "idle" => timers[t].pc \in Sleeping
    /\ \A t, u \in Timers : timers[t].pc \notin Sleeping /\ timers[u].pc \notin Sleeping => t = u
    /\ \A t \in Timers : timers[t].pc \in {"armed", "started", "read"} => armed = t
    /\ \A t \in Timers : timers[t].pc \in {"acting", "rung"} => armed = NoTimer
    /\ ~awake => /\ \A c \in Callers : edit[c].pc = "idle"
                 /\ \A t \in Timers : timers[t].pc = "free"

\* What a call or a timer has read is still so.
ReadIsCurrent ==
    /\ \A c \in Callers :
        /\ edit[c].pc \in {"write", "cancel", "schedule", "skip"} => edit[c].snap \in S!Row
        /\ edit[c].pc \in {"write", "skip"} => entry # NoRow
        /\ edit[c].pc \in {"cancel", "schedule", "skip"} => entry = edit[c].snap
        /\ edit[c].pc = "skip" => entry.weekdays # {}
    /\ \A t \in Timers :
        /\ timers[t].pc \in {"read", "acting", "rung"} => timers[t].snap = entry
        /\ timers[t].pc \in {"acting", "rung"} => entry \in S!Row

SerialInv == SerialType /\ OneAtATime /\ ReadIsCurrent /\ S!NeverUnscheduled /\ S!TimerMatchesRow

\* Where they overlap, a live row that has a time to come has a timer, or somebody
\* is about to see to it.
PlainRow == O!RecurringRow({{}}) \cup O!OneOffRow
OverlapType ==
    /\ now \in 0..O!MaxNow /\ awake \in BOOLEAN
    /\ entry \in PlainRow \cup {NoRow} /\ armed \in Timers \cup {NoTimer}
    /\ timers \in [Timers -> TimersOf(PlainRow)]
    /\ edit \in [Callers -> CallsOf(PlainRow, 0..BusyMaxDay)]
    /\ \A c \in Callers :
        /\ edit[c].pc \in {"write", "cancel", "schedule"} => edit[c].snap \in PlainRow
        /\ edit[c].pc \in {"cancel", "schedule"} => entry \in {edit[c].snap, NoRow}
        /\ edit[c].pc # "skip"
    /\ \A t \in Timers : timers[t].pc \in {"acting", "rung"} => timers[t].snap \in PlainRow
SeenTo ==
    \/ \E t \in Timers : timers[t].pc \in {"armed", "started", "acting", "rung"}
    \/ \E t \in Timers : timers[t].pc = "read" /\ timers[t].snap # NoRow /\ timers[t].snap.enabled
    \/ \E c \in Callers : edit[c].pc \in {"cancel", "schedule", "delete"}
Covered == awake /\ O!Live /\ O!After(entry) # {} => SeenTo
OverlapInv == OverlapType /\ Covered

ScheduleInv == (part = "serial" => SerialInv) /\ (part = "overlap" => OverlapInv)

\* Every time that is found is a natural number.
LEMMA TimesFound ==
    /\ \A r \in S!Row : now \in Nat => S!Upcoming(r, now) \subseteq Nat
    /\ \A r \in PlainRow : now \in Nat => O!Upcoming(r, now) \subseteq Nat
<1>1. DayLen \in Nat \ {0} /\ BusyDayLen \in Nat \ {0} /\ WeekLen \in Nat \ {0} /\ MaxDay \in Nat /\ BusyMaxDay \in Nat
    BY AlarmsAssumption DEF S!AlarmScheduleAssumption, O!AlarmScheduleAssumption
<1>2. \A d \in Int : d * DayLen \in Int /\ d * BusyDayLen \in Int
    BY <1>1
<1>3. ASSUME NEW r \in S!Row, now \in Nat, NEW f \in S!Upcoming(r, now) PROVE f \in Nat
    <2>1. r.time \in Int /\ r.one_shot_date \in Int
        BY RowsOfSchedules
    <2>2. now \div DayLen \in Int
        BY <1>1, <1>3, DayOf
    <2>3. PICK d : f = S!FireTime(d, r) /\ f > now /\ (d = r.one_shot_date \/ d \in S!Lookahead(now))
        BY DEF S!Upcoming
    <2>4. d \in Int
        BY <1>1, <2>1, <2>2, <2>3 DEF S!Lookahead
    <2>5. QED BY <1>2, <1>3, <2>1, <2>3, <2>4 DEF S!FireTime
<1>4. ASSUME NEW r \in PlainRow, now \in Nat, NEW f \in O!Upcoming(r, now) PROVE f \in Nat
    <2>1. r.time \in Int /\ r.one_shot_date \in Int
        BY RowsOfSchedules DEF PlainRow, O!RecurringRow, O!OneOffRow, O!Days
    <2>2. now \div BusyDayLen \in Int
        BY <1>1, <1>4, DayOf
    <2>3. PICK d : f = O!FireTime(d, r) /\ f > now /\ (d = r.one_shot_date \/ d \in O!Lookahead(now))
        BY DEF O!Upcoming
    <2>4. d \in Int
        BY <1>1, <2>1, <2>2, <2>3 DEF O!Lookahead
    <2>5. QED BY <1>2, <1>4, <2>1, <2>3, <2>4 DEF O!FireTime
<1>5. QED BY <1>3, <1>4

\* The first of them is one of them.
LEMMA FirstFound ==
    \A T \in SUBSET Nat : T # {} => /\ S!Min(T) \in T /\ O!Min(T) \in T
                                   /\ \A y \in T : S!Min(T) <= y
BY Smallest DEF S!Min, O!Min

\* _schedule cancels the timer that waits and sets one at the next time there is.
LEMMA SerialSchedules ==
    ASSUME now \in Nat, armed \in Timers \cup {NoTimer},
           NEW f \in [Timers -> TimersOf(S!Row)], \A t \in Timers : f[t].pc = "armed" => armed = t,
           NEW r \in S!Row, S!Schedule(r, f)
    PROVE  /\ armed' \in Timers \cup {NoTimer} /\ timers' \in [Timers -> TimersOf(S!Row)]
           /\ \A t \in Timers : f[t].pc \in Sleeping => timers'[t].pc \in Sleeping
           /\ \A t \in Timers : timers'[t].pc = "armed" =>
                /\ armed' = t /\ S!Upcoming(r, now) # {} /\ timers'[t].at = S!Min(S!Upcoming(r, now))
           /\ S!Upcoming(r, now) # {} => \E t \in Timers : timers'[t].pc = "armed"
           /\ \A t \in Timers : f[t].pc \notin Sleeping => timers'[t] = f[t]
<1> DEFINE g == S!Cancelled(f)
<1>1. NoTimer \notin Timers
    BY AlarmsAssumption DEF S!AlarmScheduleAssumption
<1>2. S!Free \in TimersOf(S!Row) /\ S!Free.pc = "free"
    BY DEF S!Free, TimersOf
<1>3. /\ g \in [Timers -> TimersOf(S!Row)]
      /\ \A t \in Timers : g[t].pc # "armed" /\ (f[t].pc \in Sleeping => g[t].pc = "free")
      /\ \A t \in Timers : f[t].pc \notin Sleeping => g[t] = f[t]
    BY <1>1, <1>2 DEF S!Cancelled, TimersOf, Sleeping
<1> HIDE DEF g
<1>4. CASE S!Upcoming(r, now) = {}
    <2>1. armed' = NoTimer /\ timers' = g
        BY <1>4 DEF S!Schedule, g
    <2>2. QED BY <1>3, <1>4, <2>1 DEF Sleeping
<1>5. CASE S!Upcoming(r, now) # {}
    <2>1. PICK t \in Timers : /\ g[t].pc = "free" /\ armed' = t
                              /\ timers' = [g EXCEPT ![t] = [pc |-> "armed", at |-> S!Min(S!Upcoming(r, now)),
                                                             snap |-> NoRow]]
        BY <1>5 DEF S!Schedule, g
    <2>2. S!Min(S!Upcoming(r, now)) \in Nat
        BY <1>5, TimesFound, FirstFound
    <2>3. [pc |-> "armed", at |-> S!Min(S!Upcoming(r, now)), snap |-> NoRow] \in TimersOf(S!Row)
        BY <2>2 DEF TimersOf
    <2>4. timers' \in [Timers -> TimersOf(S!Row)]
        BY <1>3, <2>1, <2>3
    <2>5. QED BY <1>3, <1>5, <2>1, <2>4 DEF Sleeping
<1>6. QED BY <1>4, <1>5

\* The same where calls and firings overlap.
LEMMA OverlapSchedules ==
    ASSUME now \in Nat, armed \in Timers \cup {NoTimer},
           NEW f \in [Timers -> TimersOf(PlainRow)], NEW r \in PlainRow, O!Schedule(r, f)
    PROVE  /\ armed' \in Timers \cup {NoTimer} /\ timers' \in [Timers -> TimersOf(PlainRow)]
           /\ O!Upcoming(r, now) # {} => \E t \in Timers : timers'[t].pc = "armed"
           /\ \A t \in Timers : timers'[t].pc \notin Sleeping => timers'[t] = f[t]
<1> DEFINE g == O!Cancelled(f)
<1>1. O!Free \in TimersOf(PlainRow) /\ O!Free.pc = "free"
    BY DEF O!Free, TimersOf
<1>2. /\ g \in [Timers -> TimersOf(PlainRow)]
      /\ \A t \in Timers : g[t].pc \notin Sleeping => g[t] = f[t]
    BY <1>1 DEF O!Cancelled, TimersOf, Sleeping
<1> HIDE DEF g
<1>3. CASE O!Upcoming(r, now) = {}
    <2>1. armed' = NoTimer /\ timers' = g
        BY <1>3 DEF O!Schedule, g
    <2>2. QED BY <1>2, <1>3, <2>1
<1>4. CASE O!Upcoming(r, now) # {}
    <2>1. PICK t \in Timers : /\ g[t].pc = "free" /\ armed' = t
                              /\ timers' = [g EXCEPT ![t] = [pc |-> "armed", at |-> O!Min(O!Upcoming(r, now)),
                                                             snap |-> NoRow]]
        BY <1>4 DEF O!Schedule, g
    <2>2. O!Min(O!Upcoming(r, now)) \in Nat
        BY <1>4, TimesFound, FirstFound
    <2>3. [pc |-> "armed", at |-> O!Min(O!Upcoming(r, now)), snap |-> NoRow] \in TimersOf(PlainRow)
        BY <2>2 DEF TimersOf
    <2>4. timers' \in [Timers -> TimersOf(PlainRow)]
        BY <1>2, <2>1, <2>3
    <2>5. QED BY <1>2, <2>1, <2>4 DEF Sleeping
<1>5. QED BY <1>3, <1>4

\* A row's times that are still to come are among those that were.
LEMMA LessToCome ==
    ASSUME NEW n \in Nat, NEW m \in Nat, n <= m, NEW T \in SUBSET Nat,
           {f \in T : f > m} # {}
    PROVE  /\ {f \in T : f > n} # {}
           /\ S!Min({f \in T : f > n}) > m => S!Min({f \in T : f > m}) = S!Min({f \in T : f > n})
<1> DEFINE before == {f \in T : f > n}
           later == {f \in T : f > m}
<1>1. later \subseteq before /\ later \in SUBSET Nat /\ before \in SUBSET Nat
    <2>1. \A f \in T : f \in Nat /\ (f > m => f > n)
        OBVIOUS
    <2>2. QED BY <2>1
<1>2. PICK i \in before, j \in later : /\ i = S!Min(before) /\ j = S!Min(later)
                                      /\ (\A y \in before : i <= y) /\ (\A y \in later : j <= y)
    BY <1>1, FirstFound
<1>3. i > m => i \in later
    BY <1>2
<1>4. i > m => i = j
    BY <1>1, <1>2, <1>3
<1>5. QED BY <1>1, <1>2, <1>4

\* While a call or a firing is under way nothing is promised.
LEMMA NotQuiet ==
    ASSUME ~S!Quiet' PROVE S!NeverUnscheduled' /\ S!TimerMatchesRow'
BY DEF S!NeverUnscheduled, S!TimerMatchesRow, S!Quiet

\* What has just been scheduled is as promised.
LEMMA JustScheduled ==
    ASSUME SerialType, SerialType', now' = now, NEW r \in S!Row, entry' \in {r, NoRow},
           \A t \in Timers : timers'[t].pc = "armed" =>
                S!Upcoming(r, now) # {} /\ timers'[t].at = S!Min(S!Upcoming(r, now)),
           S!Upcoming(r, now) # {} => \E t \in Timers : timers'[t].pc = "armed"
    PROVE  S!NeverUnscheduled' /\ S!TimerMatchesRow'
<1>1. S!After(r)' = S!After(r)
    BY DEF S!After, S!Occurrences, S!FireTime, S!Weekday, S!Horizon
<1>2. now \in Nat /\ now \in 0..S!MaxNow
    BY DEF SerialType, S!MaxNow
<1>3. ASSUME entry' # NoRow, entry'.skip_dates = {}, S!After(entry)' # {} PROVE S!Upcoming(r, now) # {}
    <2>1. entry' = r /\ S!After(r) # {}
        BY <1>1, <1>3 DEF S!After, S!Occurrences
    <2>2. QED BY <1>2, <1>3, <2>1, SeriesGoesOn, OneOffIsLookedUp
<1>4. S!NeverUnscheduled'
    BY <1>3 DEF S!NeverUnscheduled, S!Live, S!Armed
<1>5. ASSUME NEW t \in S!Armed', entry' # NoRow
      PROVE  S!After(entry)' # {} /\ timers'[t].at = S!Min(S!After(entry)')
    <2>1. entry' = r /\ S!Upcoming(r, now) # {} /\ timers'[t].at = S!Min(S!Upcoming(r, now))
        BY <1>5 DEF S!Armed
    <2>2. S!After(r) # {} /\ S!Min(S!Upcoming(r, now)) = S!Min(S!After(r))
        BY <1>2, <2>1, FirstIsNext
    <2>3. S!After(entry)' = S!After(r)'
        BY <2>1 DEF S!After, S!Occurrences
    <2>4. QED BY <1>1, <2>1, <2>2, <2>3
<1>6. S!TimerMatchesRow'
    BY <1>5 DEF S!TimerMatchesRow
<1>7. QED BY <1>4, <1>6

\* Every time of a row is a natural number.
LEMMA AllTimes ==
    /\ \A r \in S!Row : S!Occurrences(r) \in SUBSET Nat
    /\ \A r \in PlainRow : O!Occurrences(r) \in SUBSET Nat
<1>1. /\ DayLen \in Nat \ {0} /\ WeekLen \in Nat \ {0} /\ MaxDay \in Nat
      /\ BusyDayLen \in Nat \ {0} /\ BusyMaxDay \in Nat
    BY AlarmsAssumption DEF S!AlarmScheduleAssumption, O!AlarmScheduleAssumption
<1>2. \A d \in Nat : d * DayLen \in Nat /\ d * BusyDayLen \in Nat
    BY <1>1
<1>3. S!Horizon \in Nat /\ O!Horizon \in Nat
    BY <1>1 DEF S!Horizon, O!Horizon
<1>4. ASSUME NEW r \in S!Row, NEW f \in S!Occurrences(r) PROVE f \in Nat
    <2>1. r.time \in Nat /\ r.one_shot_date \in Nat
        BY <1>1, RowsOfSchedules
    <2>2. PICK d : f = S!FireTime(d, r) /\ (d = r.one_shot_date \/ d \in 0..S!Horizon)
        BY DEF S!Occurrences
    <2>3. d \in Nat
        BY <1>3, <2>1, <2>2
    <2>4. QED BY <1>2, <2>1, <2>2, <2>3 DEF S!FireTime
<1>5. ASSUME NEW r \in PlainRow, NEW f \in O!Occurrences(r) PROVE f \in Nat
    <2>1. r.time \in Nat /\ r.one_shot_date \in Nat
        BY <1>1, RowsOfSchedules DEF PlainRow, O!RecurringRow, O!OneOffRow, O!Days
    <2>2. PICK d : f = O!FireTime(d, r) /\ (d = r.one_shot_date \/ d \in 0..O!Horizon)
        BY DEF O!Occurrences
    <2>3. d \in Nat
        BY <1>3, <2>1, <2>2
    <2>4. QED BY <1>2, <2>1, <2>2, <2>3 DEF O!FireTime
<1>6. QED BY <1>4, <1>5

\* Time goes on.
LEMMA TimePasses ==
    ASSUME SerialInv, now' = now + 1, UNCHANGED <<awake, entry, timers, edit>>
    PROVE  S!NeverUnscheduled' /\ S!TimerMatchesRow'
<1>1. now \in Nat /\ now + 1 \in Nat /\ now <= now + 1
    BY DEF SerialInv, SerialType, S!MaxNow
<1>2. S!Quiet' = S!Quiet /\ S!Armed' = S!Armed /\ S!Live' = S!Live
    BY DEF S!Quiet, S!Undisturbed, S!Armed, S!Live
<1>3. S!Occurrences(entry)' = S!Occurrences(entry)
    BY DEF S!Occurrences, S!FireTime, S!Weekday, S!Horizon
<1>4. ASSUME NEW t \in S!Armed, entry # NoRow PROVE timers[t].at \in Nat
    BY <1>4 DEF SerialInv, SerialType, TimersOf, S!Armed
<1>5. S!After(entry) = {f \in S!Occurrences(entry) : f > now}
      /\ S!After(entry)' = {f \in S!Occurrences(entry) : f > now + 1}
    BY <1>3 DEF S!After
<1>6. ASSUME entry # NoRow, S!After(entry)' # {}
      PROVE  S!After(entry) # {} /\ (S!Min(S!After(entry)) > now + 1 => S!Min(S!After(entry)') = S!Min(S!After(entry)))
    <2>1. S!Occurrences(entry) \in SUBSET Nat
        BY <1>6, AllTimes DEF SerialInv, SerialType
    <2> DEFINE T == S!Occurrences(entry)
    <2> HIDE DEF T
    <2>2. T \in SUBSET Nat /\ {f \in T : f > now + 1} # {}
        BY <1>5, <1>6, <2>1 DEF T
    <2>3. /\ {f \in T : f > now} # {}
          /\ S!Min({f \in T : f > now}) > now + 1 => S!Min({f \in T : f > now + 1}) = S!Min({f \in T : f > now})
        BY <1>1, <2>2, LessToCome
    <2>4. QED BY <1>5, <2>3 DEF T
<1>7. S!NeverUnscheduled'
    BY <1>2, <1>6 DEF SerialInv, S!NeverUnscheduled, S!Live
<1>8. ASSUME NEW t \in S!Armed, S!Quiet, entry # NoRow, timers[t].at > now + 1
      PROVE  S!After(entry)' # {} /\ timers[t].at = S!Min(S!After(entry)')
    <2>1. S!After(entry) # {} /\ timers[t].at = S!Min(S!After(entry))
        BY <1>1, <1>4, <1>8 DEF SerialInv, S!TimerMatchesRow
    <2>2. S!Occurrences(entry) \in SUBSET Nat
        BY <1>8, AllTimes DEF SerialInv, SerialType
    <2>3. timers[t].at \in S!After(entry)
        BY <1>5, <2>1, <2>2, FirstFound
    <2>4. timers[t].at \in S!After(entry)'
        BY <1>5, <1>8, <2>3
    <2>5. QED BY <1>6, <1>8, <2>1, <2>4
<1>9. S!TimerMatchesRow'
    BY <1>2, <1>8 DEF S!TimerMatchesRow
<1>10. QED BY <1>7, <1>9

\* A call begins, where nothing else is under way.
LEMMA SerialBegins ==
    ASSUME SerialInv, NEW c \in Callers, NEW r \in S!RecurringRow(SkipLists) \cup S!OneOffRow,
           \/ S!Create(c, r) \/ S!UpdateBegin(c, r) \/ S!DeleteBegin(c) \/ \E d \in SkipDates : S!SkipBegin(c, d)
    PROVE  SerialInv'
<1>1. r \in S!Row /\ SkipDates \subseteq 0..MaxDay
    BY AlarmsAssumption DEF S!AlarmScheduleAssumption, S!Row, S!RecurringRow, S!Days
<1>2. /\ S!Undisturbed /\ edit[c] = S!Idle /\ awake
      /\ UNCHANGED <<now, awake, armed, timers>>
    BY DEF S!Begin, S!Create, S!UpdateBegin, S!DeleteBegin, S!SkipBegin
<1>3. /\ entry' \in {entry, r} /\ edit'[c].pc \notin {"idle", "cancel", "delete"}
      /\ \E i \in CallsOf(S!Row, 0..MaxDay) : edit' = [edit EXCEPT ![c] = i]
      /\ edit'[c].pc \in {"write", "schedule", "skip"} => edit'[c].snap \in S!Row
      /\ edit'[c].pc \in {"write", "skip"} => entry' # NoRow
      /\ edit'[c].pc \in {"schedule", "skip"} => entry' = edit'[c].snap
      /\ edit'[c].pc = "skip" => entry'.weekdays # {}
    <2>1. S!Idle \in CallsOf(S!Row, 0..MaxDay)
        BY AlarmsAssumption DEF S!AlarmScheduleAssumption, S!Idle, CallsOf
    <2>2. CASE S!Create(c, r)
        BY <1>1, <1>2, <2>1, <2>2 DEF S!Create, SerialInv, SerialType, CallsOf, S!Idle
    <2>3. CASE S!UpdateBegin(c, r)
        BY <1>1, <1>2, <2>1, <2>3 DEF S!UpdateBegin, SerialInv, SerialType, CallsOf, S!Idle
    <2>4. CASE S!DeleteBegin(c)
        BY <1>1, <1>2, <2>1, <2>4 DEF S!DeleteBegin, SerialInv, SerialType, CallsOf, S!Idle
    <2>5. ASSUME NEW d \in SkipDates, S!SkipBegin(c, d)
          PROVE  /\ entry' = entry /\ entry # NoRow /\ entry.weekdays # {}
                 /\ [pc |-> "skip", snap |-> entry, date |-> d] \in CallsOf(S!Row, 0..MaxDay)
                 /\ edit' = [edit EXCEPT ![c] = [pc |-> "skip", snap |-> entry, date |-> d]]
        BY <1>1, <2>5 DEF S!SkipBegin, SerialInv, SerialType, CallsOf
    <2>6. CASE \E d \in SkipDates : S!SkipBegin(c, d)
        <3>1. PICK d \in SkipDates : S!SkipBegin(c, d)
            BY <2>6
        <3>2. PICK i \in CallsOf(S!Row, 0..MaxDay) : i = [pc |-> "skip", snap |-> entry, date |-> d]
            BY <2>5, <3>1
        <3>3. edit' = [edit EXCEPT ![c] = i] /\ edit'[c] = i /\ i.pc = "skip" /\ i.snap = entry
            BY <2>5, <3>1, <3>2 DEF SerialInv, SerialType
        <3>4. entry \in S!Row
            BY <2>5, <3>1 DEF SerialInv, SerialType
        <3>5. QED BY <2>5, <3>1, <3>3, <3>4
    <2>7. QED BY <2>2, <2>3, <2>4, <2>6
<1>4. PICK i \in CallsOf(S!Row, 0..MaxDay) : edit' = [edit EXCEPT ![c] = i]
    BY <1>3
<1>5. SerialType'
    BY <1>1, <1>2, <1>3, <1>4 DEF SerialInv, SerialType, S!MaxNow, S!Row, S!RecurringRow, S!OneOffRow, S!Days
<1>6. /\ \A d \in Callers : d # c => edit'[d] = edit[d] /\ edit[d].pc = "idle"
      /\ edit'[c] = i /\ i.pc # "idle"
      /\ \A t \in Timers : timers[t].pc \in Sleeping
    BY <1>2, <1>3, <1>4 DEF SerialInv, SerialType, S!Undisturbed, S!Idle, Sleeping
<1>7. OneAtATime'
    BY <1>2, <1>6 DEF SerialInv, OneAtATime, Sleeping
<1>8. ReadIsCurrent'
    BY <1>2, <1>3, <1>6 DEF SerialInv, ReadIsCurrent, Sleeping
<1>9. ~S!Quiet'
    BY <1>6 DEF S!Quiet, S!Undisturbed, S!Idle
<1>10. QED BY <1>5, <1>7, <1>8, <1>9, NotQuiet DEF SerialInv

\* cancel() leaves no timer waiting.
LEMMA SerialCancels ==
    ASSUME SerialInv
    PROVE  /\ S!Cancelled(timers) \in [Timers -> TimersOf(S!Row)]
           /\ \A t \in Timers : S!Cancelled(timers)[t].pc # "armed"
           /\ \A t \in Timers : timers[t].pc \in Sleeping => S!Cancelled(timers)[t].pc = "free"
<1>1. NoTimer \notin Timers
    BY AlarmsAssumption DEF S!AlarmScheduleAssumption
<1>2. S!Free \in TimersOf(S!Row) /\ S!Free.pc = "free"
    BY DEF S!Free, TimersOf
<1>3. timers \in [Timers -> TimersOf(S!Row)] /\ \A t \in Timers : timers[t].pc = "armed" => armed = t
    BY DEF SerialInv, SerialType, OneAtATime
<1>4. QED BY <1>1, <1>2, <1>3 DEF S!Cancelled, Sleeping

\* A call goes on, and nothing was done in between.
LEMMA SerialGoesOn ==
    ASSUME SerialInv, NEW c \in Callers,
           \/ S!UpdateWrite(c) \/ S!UpdateCancel(c) \/ S!CallSchedule(c)
           \/ S!SkipWrite(c) \/ S!DeleteCancel(c) \/ S!DeleteRow(c)
    PROVE  SerialInv'
<1>1. /\ edit \in [Callers -> CallsOf(S!Row, 0..MaxDay)] /\ timers \in [Timers -> TimersOf(S!Row)]
      /\ entry \in S!Row \cup {NoRow} /\ now \in Nat /\ now \in 0..S!MaxNow
    BY DEF SerialInv, SerialType, S!MaxNow
<1>2. edit[c].pc # "idle"
    BY DEF S!UpdateWrite, S!UpdateCancel, S!CallSchedule, S!SkipWrite, S!DeleteCancel, S!DeleteRow
<1>3. /\ \A d \in Callers : d # c => edit[d].pc = "idle"
      /\ \A t \in Timers : timers[t].pc \in Sleeping
      /\ awake
    BY <1>2 DEF SerialInv, OneAtATime
<1>4. S!Idle \in CallsOf(S!Row, 0..MaxDay)
    BY AlarmsAssumption DEF S!AlarmScheduleAssumption, S!Idle, CallsOf
<1>5. UNCHANGED <<now, awake>>
    BY DEF S!UpdateWrite, S!UpdateCancel, S!CallSchedule, S!SkipWrite, S!DeleteCancel, S!DeleteRow
\* What such a step has to leave behind.
<1> DEFINE Left(i) ==
        /\ i \in CallsOf(S!Row, 0..MaxDay) /\ edit' = [edit EXCEPT ![c] = i]
        /\ i.pc = "idle" => i = S!Idle
        /\ entry' \in S!Row \cup {NoRow}
        /\ armed' \in Timers \cup {NoTimer} /\ timers' \in [Timers -> TimersOf(S!Row)]
        /\ \A t \in Timers : timers'[t].pc \in Sleeping /\ (timers'[t].pc = "armed" => armed' = t)
        /\ i.pc \in {"write", "cancel", "schedule", "skip"} => i.snap \in S!Row
        /\ i.pc \in {"write", "skip"} => entry' # NoRow
        /\ i.pc \in {"cancel", "schedule", "skip"} => entry' = i.snap
        /\ i.pc = "skip" => entry'.weekdays # {}
        /\ i.pc = "idle" => S!NeverUnscheduled' /\ S!TimerMatchesRow'
<1>6. ASSUME NEW i, Left(i) PROVE SerialInv'
    <2>1. SerialType'
        BY <1>1, <1>3, <1>5, <1>6 DEF SerialType, S!MaxNow, S!Row, S!RecurringRow, S!OneOffRow, S!Days
    <2>2. edit'[c] = i /\ \A d \in Callers : d # c => edit'[d] = edit[d]
        BY <1>1, <1>6
    <2>3. OneAtATime'
        BY <1>3, <1>5, <1>6, <2>2 DEF SerialInv, OneAtATime, Sleeping
    <2>4. ReadIsCurrent'
        BY <1>3, <1>6, <2>2 DEF ReadIsCurrent, Sleeping
    <2>5. i.pc # "idle" => ~S!Quiet'
        BY <2>2 DEF S!Quiet, S!Undisturbed, S!Idle
    <2>6. QED BY <1>6, <2>1, <2>3, <2>4, <2>5, NotQuiet DEF SerialInv
<1>7. CASE S!UpdateWrite(c)
    <2>1. Left([edit[c] EXCEPT !.pc = "cancel"])
        BY <1>1, <1>3, <1>7 DEF S!UpdateWrite, SerialInv, SerialType, OneAtATime, ReadIsCurrent, CallsOf, Sleeping
    <2>2. QED BY <1>6, <2>1
<1>8. CASE S!UpdateCancel(c)
    <2> DEFINE i == IF edit[c].snap.enabled THEN [edit[c] EXCEPT !.pc = "schedule"] ELSE S!Idle
    <2>1. /\ armed' = NoTimer /\ timers' = S!Cancelled(timers) /\ entry' = entry /\ entry = edit[c].snap
          /\ entry \in S!Row /\ edit' = [edit EXCEPT ![c] = i]
        BY <1>1, <1>8 DEF S!UpdateCancel, SerialInv, ReadIsCurrent
    <2>2. \A t \in Timers : timers'[t].pc = "free"
        BY <1>3, <2>1, SerialCancels
    <2>3. ASSUME ~entry.enabled PROVE S!NeverUnscheduled' /\ S!TimerMatchesRow'
        BY <2>1, <2>2, <2>3 DEF S!NeverUnscheduled, S!TimerMatchesRow, S!Live, S!Armed
    <2>4. i \in CallsOf(S!Row, 0..MaxDay) /\ i.snap \in {edit[c].snap, NoRow} /\ i.pc \in {"schedule", "idle"}
          /\ (i.pc = "idle" => i = S!Idle /\ ~entry.enabled) /\ (i.pc = "schedule" => i.snap = entry)
        BY <1>1, <1>4, <2>1 DEF CallsOf, S!Idle
    <2> HIDE DEF i
    <2>5. Left(i)
        BY <1>1, <2>1, <2>2, <2>3, <2>4, SerialCancels DEF Sleeping
    <2>6. QED BY <1>6, <2>5
<1>9. CASE S!CallSchedule(c)
    <2>1. /\ S!Schedule(edit[c].snap, timers) /\ entry' = entry /\ entry = edit[c].snap /\ entry \in S!Row
          /\ edit' = [edit EXCEPT ![c] = S!Idle]
        BY <1>1, <1>9 DEF S!CallSchedule, SerialInv, ReadIsCurrent
    <2>2. armed \in Timers \cup {NoTimer} /\ \A t \in Timers : timers[t].pc = "armed" => armed = t
        BY DEF SerialInv, SerialType, OneAtATime
    <2>3. /\ armed' \in Timers \cup {NoTimer} /\ timers' \in [Timers -> TimersOf(S!Row)]
          /\ \A t \in Timers : timers'[t].pc \in Sleeping
          /\ \A t \in Timers : timers'[t].pc = "armed" =>
                armed' = t /\ S!Upcoming(entry, now) # {} /\ timers'[t].at = S!Min(S!Upcoming(entry, now))
          /\ S!Upcoming(entry, now) # {} => \E t \in Timers : timers'[t].pc = "armed"
        BY <1>1, <1>3, <2>1, <2>2, SerialSchedules
    <2>4. SerialType /\ SerialType'
        BY <1>1, <1>4, <1>5, <2>1, <2>3 DEF SerialInv, SerialType, S!MaxNow, S!Row, S!RecurringRow, S!OneOffRow, S!Days
    <2>5. S!NeverUnscheduled' /\ S!TimerMatchesRow'
        BY <1>5, <2>1, <2>3, <2>4, JustScheduled
    <2>6. Left(S!Idle)
        BY <1>4, <2>1, <2>3, <2>5 DEF S!Idle
    <2>7. QED BY <1>6, <2>6
<1>10. CASE S!SkipWrite(c)
    <2> DEFINE i == [edit[c] EXCEPT !.pc = "schedule", !.snap.skip_dates = S!Skipped(c)]
    <2>1. /\ entry # NoRow /\ entry = edit[c].snap /\ entry \in S!Row /\ entry.weekdays # {}
          /\ UNCHANGED <<armed, timers>>
        BY <1>1, <1>10 DEF S!SkipWrite, SerialInv, ReadIsCurrent
    <2>2. entry' = [entry EXCEPT !.skip_dates = S!Skipped(c)]
        BY <1>10, <2>1 DEF S!SkipWrite
    <2>3. edit' = [edit EXCEPT ![c] = i]
        BY <1>1, <1>10 DEF S!SkipWrite
    <2>4. S!Skipped(c) \in SUBSET S!Days /\ entry \in S!RecurringRow(SUBSET S!Days)
        BY <1>1, <2>1 DEF S!Skipped, S!Row, S!RecurringRow, S!OneOffRow, S!Days, CallsOf
    <2>5. entry' \in S!Row
        BY <2>2, <2>4 DEF S!Row, S!RecurringRow
    <2>6. i \in CallsOf(S!Row, 0..MaxDay) /\ i.pc = "schedule" /\ i.snap = entry'
        <3>1. edit[c] \in CallsOf(S!Row, 0..MaxDay)
            BY <1>1
        <3>2. i = [pc |-> "schedule", snap |-> entry', date |-> edit[c].date]
            <4>1. PICK e, X : e = edit[c] /\ X = S!Skipped(c)
                OBVIOUS
            <4>2. [e EXCEPT !.pc = "schedule", !.snap.skip_dates = X]
                    = [pc |-> "schedule", snap |-> [e.snap EXCEPT !.skip_dates = X], date |-> e.date]
                <5>1. PICK f : f = [e EXCEPT !.pc = "schedule", !.snap.skip_dates = X]
                    OBVIOUS
                <5>2. /\ f.snap = [e.snap EXCEPT !.skip_dates = X] /\ f.pc = "schedule" /\ f.date = e.date
                      /\ DOMAIN f = {"pc", "snap", "date"}
                    BY <3>1, <4>1, <5>1 DEF CallsOf
                <5>3. QED BY <5>1, <5>2
            <4>3. QED BY <2>1, <2>2, <4>1, <4>2
        <3>3. QED BY <2>5, <3>1, <3>2 DEF CallsOf
    <2> HIDE DEF i
    <2>7. Left(i)
        BY <1>1, <1>3, <2>1, <2>3, <2>5, <2>6 DEF SerialInv, SerialType, OneAtATime
    <2>8. QED BY <1>6, <2>7
<1>11. CASE S!DeleteCancel(c)
    <2>1. armed' = NoTimer /\ timers' = S!Cancelled(timers) /\ entry' = entry
        BY <1>11 DEF S!DeleteCancel
    <2>2. \A t \in Timers : timers'[t].pc = "free"
        BY <1>3, <2>1, SerialCancels
    <2>3. Left([edit[c] EXCEPT !.pc = "delete"])
        BY <1>1, <1>11, <2>1, <2>2, SerialCancels DEF S!DeleteCancel, CallsOf, Sleeping
    <2>4. QED BY <1>6, <2>3
<1>12. CASE S!DeleteRow(c)
    <2>1. entry' = NoRow /\ UNCHANGED <<armed, timers>> /\ edit' = [edit EXCEPT ![c] = S!Idle]
        BY <1>12 DEF S!DeleteRow
    <2>2. S!NeverUnscheduled' /\ S!TimerMatchesRow'
        BY <2>1 DEF S!NeverUnscheduled, S!TimerMatchesRow, S!Live
    <2>3. Left(S!Idle)
        BY <1>1, <1>3, <1>4, <2>1, <2>2 DEF SerialInv, SerialType, OneAtATime, S!Idle
    <2>4. QED BY <1>6, <2>3
<1>13. QED BY <1>7, <1>8, <1>9, <1>10, <1>11, <1>12

\* A timer fires, and nothing is done in between.
LEMMA SerialFires ==
    ASSUME SerialInv, NEW t \in Timers, S!TimerStep(t)
    PROVE  SerialInv'
<1>1. /\ timers \in [Timers -> TimersOf(S!Row)] /\ entry \in S!Row \cup {NoRow}
      /\ now \in Nat /\ now \in 0..S!MaxNow /\ NoTimer \notin Timers
    BY AlarmsAssumption DEF S!AlarmScheduleAssumption, SerialInv, SerialType, S!MaxNow
<1>2. /\ timers[t].pc # "free" /\ UNCHANGED <<now, awake, edit>>
      /\ timers[t].pc = "armed" => S!Undisturbed
    BY DEF S!TimerStep, S!TimerExpires, S!FireRead, S!FirePop, S!Ring, S!FireFinish
<1>3. /\ \A u \in Timers : u # t => timers[u].pc \in Sleeping
      /\ \A c \in Callers : edit[c].pc = "idle"
      /\ awake
    <2>1. CASE timers[t].pc \in Sleeping
        <3>1. timers[t].pc = "armed"
            BY <1>2, <2>1 DEF Sleeping
        <3>2. QED BY <1>2, <3>1 DEF SerialInv, OneAtATime, S!Undisturbed, S!Idle, Sleeping
    <2>2. CASE timers[t].pc \notin Sleeping
        BY <2>2 DEF SerialInv, OneAtATime, Sleeping
    <2>3. QED BY <2>1, <2>2
<1> DEFINE Left ==
        /\ entry' \in S!Row \cup {NoRow}
        /\ armed' \in Timers \cup {NoTimer} /\ timers' \in [Timers -> TimersOf(S!Row)]
        /\ \A u \in Timers : u # t => timers'[u].pc \in Sleeping
        /\ \A u \in Timers : timers'[u].pc \in {"armed", "started", "read"} => armed' = u
        /\ timers'[t].pc \in {"acting", "rung"} => armed' = NoTimer /\ entry' \in S!Row
        /\ timers'[t].pc \in {"read", "acting", "rung"} => timers'[t].snap = entry'
        /\ timers'[t].pc \in Sleeping => S!NeverUnscheduled' /\ S!TimerMatchesRow'
<1>4. ASSUME Left PROVE SerialInv'
    <2>1. SerialType'
        BY <1>1, <1>2, <1>4 DEF SerialInv, SerialType, S!MaxNow, S!Row, S!RecurringRow, S!OneOffRow, S!Days
    <2>2. OneAtATime'
        <3>1. \A u \in Timers : timers'[u].pc \notin Sleeping => u = t
            BY <1>4
        <3>2. \A u \in Timers : timers'[u].pc \in {"acting", "rung"} => armed' = NoTimer
            BY <1>4, <3>1 DEF Sleeping
        <3>3. QED BY <1>2, <1>3, <1>4, <3>1, <3>2 DEF SerialInv, OneAtATime, Sleeping
    <2>3. ReadIsCurrent'
        BY <1>2, <1>3, <1>4 DEF ReadIsCurrent, Sleeping
    <2>4. timers'[t].pc \notin Sleeping => ~S!Quiet'
        BY DEF S!Quiet, S!Undisturbed, Sleeping
    <2>5. QED BY <1>4, <2>1, <2>2, <2>3, <2>4, NotQuiet DEF SerialInv
<1>5. \A u \in Timers : u # t => timers[u].pc \notin {"started", "read", "acting", "rung"}
                              /\ (timers[u].pc = "armed" => armed = u)
    BY <1>1, <1>3 DEF SerialInv, OneAtATime, Sleeping
<1>6. CASE S!TimerExpires(t) \/ S!FireRead(t) \/ S!Ring(t)
    <2>1. ASSUME NEW i \in TimersOf(S!Row), timers' = [timers EXCEPT ![t] = i], UNCHANGED <<armed, entry>>,
                 \/ i.pc \in {"started", "read"} /\ armed = t /\ (i.pc = "read" => i.snap = entry)
                 \/ i.pc = "rung" /\ armed = NoTimer /\ i.snap = entry /\ entry \in S!Row
          PROVE  Left
        <3>1. timers'[t] = i /\ \A u \in Timers : u # t => timers'[u] = timers[u]
            BY <1>1, <2>1
        <3>2. timers' \in [Timers -> TimersOf(S!Row)] /\ armed \in Timers \cup {NoTimer}
            BY <1>1, <2>1 DEF SerialInv, SerialType
        <3>3. i.pc \notin Sleeping
            BY <2>1 DEF Sleeping
        <3>4. \A u \in Timers : timers'[u].pc \in {"armed", "started", "read"} => armed' = u
            BY <1>1, <1>3, <1>5, <2>1, <3>1 DEF Sleeping
        <3>5. QED BY <1>1, <1>3, <2>1, <3>1, <3>2, <3>3, <3>4
    <2> HIDE DEF Left
    <2>2. CASE S!TimerExpires(t)
        <3>1. armed = t /\ UNCHANGED <<armed, entry>> /\ timers' = [timers EXCEPT ![t] = [timers[t] EXCEPT !.pc = "started"]]
            BY <1>1, <2>2 DEF S!TimerExpires, SerialInv, OneAtATime
        <3>2. [timers[t] EXCEPT !.pc = "started"] \in TimersOf(S!Row)
            BY <1>1 DEF TimersOf
        <3>3. [timers[t] EXCEPT !.pc = "started"].pc = "started"
            BY <1>1 DEF TimersOf
        <3>4. QED BY <1>4, <2>1, <3>1, <3>2, <3>3
    <2>3. CASE S!FireRead(t)
        <3>1. PICK i : i = [timers[t] EXCEPT !.pc = "read", !.snap = entry]
            OBVIOUS
        <3>2. i \in TimersOf(S!Row) /\ i.pc = "read" /\ i.snap = entry
            BY <1>1, <3>1 DEF TimersOf
        <3>3. armed = t /\ UNCHANGED <<armed, entry>> /\ timers' = [timers EXCEPT ![t] = i]
            BY <1>1, <2>3, <3>1 DEF S!FireRead, SerialInv, OneAtATime
        <3>4. QED BY <1>4, <2>1, <3>2, <3>3
    <2>4. CASE S!Ring(t)
        <3>1. PICK i : i = [timers[t] EXCEPT !.pc = "rung"]
            OBVIOUS
        <3>2. i \in TimersOf(S!Row) /\ i.pc = "rung" /\ i.snap = timers[t].snap
            BY <1>1, <3>1 DEF TimersOf
        <3>3. /\ armed = NoTimer /\ timers[t].snap = entry /\ entry \in S!Row /\ UNCHANGED <<armed, entry>>
              /\ timers' = [timers EXCEPT ![t] = i]
            BY <1>1, <2>4, <3>1 DEF S!Ring, SerialInv, OneAtATime, ReadIsCurrent
        <3>4. QED BY <1>4, <2>1, <3>2, <3>3
    <2>5. QED BY <1>6, <2>2, <2>3, <2>4
<1>7. CASE S!FirePop(t)
    <2>1. /\ timers[t].pc = "read" /\ timers[t].snap = entry /\ armed = t /\ armed' = NoTimer /\ entry' = entry
          /\ timers' = [timers EXCEPT ![t] = IF entry = NoRow THEN S!Free
                                             ELSE IF entry.enabled THEN [timers[t] EXCEPT !.pc = "acting"] ELSE S!Free]
        BY <1>1, <1>7 DEF S!FirePop, SerialInv, ReadIsCurrent, OneAtATime
    <2>2. \A u \in Timers : u # t => timers'[u] = timers[u] /\ timers[u].pc = "free"
        BY <1>1, <1>3, <2>1 DEF SerialInv, OneAtATime, Sleeping
    <2>3. CASE entry # NoRow /\ entry.enabled
        <3>1. timers' = [timers EXCEPT ![t] = [timers[t] EXCEPT !.pc = "acting"]]
            BY <2>1, <2>3
        <3>2. Left
            BY <1>1, <2>1, <2>2, <2>3, <3>1 DEF TimersOf, Sleeping
        <3>3. QED BY <1>4, <3>2
    <2>4. CASE entry = NoRow \/ ~entry.enabled
        <3>1. timers' = [timers EXCEPT ![t] = S!Free]
            BY <2>1, <2>4
        <3>2. \A u \in Timers : timers'[u].pc = "free"
            BY <1>1, <2>2, <3>1 DEF S!Free
        <3>3. S!NeverUnscheduled' /\ S!TimerMatchesRow'
            BY <2>1, <2>4, <3>2 DEF S!NeverUnscheduled, S!TimerMatchesRow, S!Armed, S!Live
        <3>4. timers' \in [Timers -> TimersOf(S!Row)]
            BY <1>1, <3>1 DEF TimersOf, S!Free
        <3>5. Left
            BY <1>1, <2>1, <3>2, <3>3, <3>4 DEF Sleeping
        <3>6. QED BY <1>4, <3>5
    <2>5. QED BY <2>3, <2>4
<1>8. CASE S!FireFinish(t)
    <2> DEFINE f == [timers EXCEPT ![t] = S!Free]
    <2>1. /\ timers[t].pc = "rung" /\ timers[t].snap = entry /\ armed = NoTimer /\ entry \in S!Row
        BY <1>1, <1>8 DEF S!FireFinish, SerialInv, ReadIsCurrent, OneAtATime
    <2>2. f \in [Timers -> TimersOf(S!Row)] /\ \A u \in Timers : f[u].pc = "free"
        BY <1>1, <1>3, <2>1 DEF SerialInv, OneAtATime, TimersOf, S!Free, Sleeping
    <2>3. CASE entry.weekdays = {}
        <3>1. entry' = NoRow /\ timers' = f /\ armed' = NoTimer
            BY <1>8, <2>1, <2>3 DEF S!FireFinish
        <3>2. S!NeverUnscheduled' /\ S!TimerMatchesRow'
            BY <3>1 DEF S!NeverUnscheduled, S!TimerMatchesRow, S!Live
        <3> HIDE DEF f
        <3>3. Left
            BY <2>2, <3>1, <3>2 DEF Sleeping
        <3>4. QED BY <1>4, <3>3
    <2>4. CASE entry.weekdays # {}
        <3>1. S!Schedule(entry, f) /\ entry' = entry
            BY <1>8, <2>1, <2>4 DEF S!FireFinish
        <3> HIDE DEF f
        <3>2. /\ armed' \in Timers \cup {NoTimer} /\ timers' \in [Timers -> TimersOf(S!Row)]
              /\ \A u \in Timers : timers'[u].pc \in Sleeping
              /\ \A u \in Timers : timers'[u].pc = "armed" =>
                    armed' = u /\ S!Upcoming(entry, now) # {} /\ timers'[u].at = S!Min(S!Upcoming(entry, now))
              /\ S!Upcoming(entry, now) # {} => \E u \in Timers : timers'[u].pc = "armed"
            BY <1>1, <2>1, <2>2, <3>1, SerialSchedules DEF Sleeping
        <3>3. SerialType /\ SerialType'
            BY <1>1, <1>2, <3>1, <3>2 DEF SerialInv, SerialType, S!MaxNow, S!Row, S!RecurringRow, S!OneOffRow, S!Days
        <3>4. S!NeverUnscheduled' /\ S!TimerMatchesRow'
            BY <1>2, <2>1, <3>1, <3>2, <3>3, JustScheduled
        <3>5. Left
            BY <2>1, <3>1, <3>2, <3>4 DEF Sleeping
        <3>6. QED BY <1>4, <3>5
    <2>5. QED BY <2>3, <2>4
<1>9. QED BY <1>6, <1>7, <1>8 DEF S!TimerStep

\* Every step keeps what is promised.
LEMMA SerialInvStep == SerialInv /\ [S!Next]_(S!vars) => SerialInv'
<1> SUFFICES ASSUME SerialInv, [S!Next]_(S!vars) PROVE SerialInv'
    OBVIOUS
<1>1. /\ edit \in [Callers -> CallsOf(S!Row, 0..MaxDay)] /\ timers \in [Timers -> TimersOf(S!Row)]
      /\ entry \in S!Row \cup {NoRow} /\ now \in Nat /\ now \in 0..S!MaxNow
    BY DEF SerialInv, SerialType, S!MaxNow
<1>2. ASSUME NEW c \in Callers, S!CallStep(c) PROVE SerialInv'
    <2>1. ASSUME NEW r \in S!RecurringRow(SkipLists) \cup S!OneOffRow, S!Create(c, r) \/ S!UpdateBegin(c, r)
          PROVE  SerialInv'
        BY <2>1, SerialBegins
    <2>2. CASE S!DeleteBegin(c) \/ \E d \in SkipDates : S!SkipBegin(c, d)
        <3>1. [time |-> 0, weekdays |-> {}, skip_dates |-> {}, one_shot_date |-> 0, enabled |-> TRUE] \in S!OneOffRow
            BY AlarmsAssumption DEF S!AlarmScheduleAssumption, S!OneOffRow, S!Days
        <3>2. QED BY <2>2, <3>1, SerialBegins
    <2>3. QED BY <1>2, <2>1, <2>2, SerialGoesOn DEF S!CallStep
<1>3. ASSUME NEW t \in Timers, S!TimerStep(t) PROVE SerialInv'
    BY <1>3, SerialFires
<1>4. CASE S!Tick
    <2>1. now' = now + 1 /\ now < S!MaxNow /\ UNCHANGED <<awake, entry, born, armed, timers, edit>>
        BY <1>4 DEF S!Tick
    <2>2. SerialType'
        <3>1. S!MaxNow \in Int /\ S!MaxNow' = S!MaxNow /\ S!Row' = S!Row
            <4>1. \A k, m \in Nat : k * m \in Nat
                OBVIOUS
            <4>2. DayLen \in Nat /\ MaxDay \in Nat
                BY AlarmsAssumption DEF S!AlarmScheduleAssumption
            <4>3. QED BY <4>1, <4>2 DEF S!MaxNow, S!Row, S!RecurringRow, S!OneOffRow, S!Days
        <3>2. now' \in 0..S!MaxNow
            BY <1>1, <2>1, <3>1
        <3>3. QED BY <2>1, <3>1, <3>2 DEF SerialInv, SerialType
    <2>3. OneAtATime' /\ ReadIsCurrent'
        BY <2>1 DEF SerialInv, OneAtATime, ReadIsCurrent, S!Row, S!RecurringRow, S!OneOffRow, S!Days
    <2>4. QED BY <2>1, <2>2, <2>3, TimePasses DEF SerialInv
<1>5. CASE S!Stop
    <2>1. /\ ~awake' /\ armed' = NoTimer /\ timers' = [t \in Timers |-> S!Free] /\ edit' = [c \in Callers |-> S!Idle]
          /\ UNCHANGED <<now, entry>>
        BY <1>5 DEF S!Stop
    <2>2. S!Free \in TimersOf(S!Row) /\ S!Free.pc = "free" /\ S!Idle.pc = "idle" /\ S!Idle \in CallsOf(S!Row, 0..MaxDay)
        BY AlarmsAssumption DEF S!AlarmScheduleAssumption, TimersOf, CallsOf, S!Free, S!Idle
    <2>3. SerialType'
        BY <1>1, <1>5, <2>1, <2>2 DEF S!Stop, SerialType, S!MaxNow, S!Row, S!RecurringRow, S!OneOffRow, S!Days
    <2>4. OneAtATime' /\ ReadIsCurrent' /\ ~S!Quiet'
        BY <2>1, <2>2 DEF OneAtATime, ReadIsCurrent, S!Quiet, Sleeping
    <2>5. QED BY <2>3, <2>4, NotQuiet DEF SerialInv
<1>6. CASE S!Boot
    <2>1. /\ ~awake /\ awake' /\ UNCHANGED <<now, edit>> /\ armed \in Timers \cup {NoTimer}
          /\ \A t \in Timers : timers[t].pc = "free"
          /\ \A c \in Callers : edit[c].pc = "idle" /\ edit[c] = S!Idle
        BY <1>6 DEF S!Boot, SerialInv, SerialType, OneAtATime
    <2> DEFINE Left == /\ entry' \in S!Row \cup {NoRow} /\ armed' \in Timers \cup {NoTimer}
                       /\ timers' \in [Timers -> TimersOf(S!Row)]
                       /\ \A t \in Timers : timers'[t].pc \in Sleeping /\ (timers'[t].pc = "armed" => armed' = t)
    <2>2. ASSUME Left PROVE SerialType' /\ OneAtATime' /\ ReadIsCurrent'
        <3>1. SerialType'
            BY <1>1, <2>1, <2>2 DEF SerialType, S!MaxNow, S!Row, S!RecurringRow, S!OneOffRow, S!Days
        <3>2. OneAtATime'
            BY <2>1, <2>2 DEF OneAtATime, Sleeping
        <3>3. QED BY <2>1, <2>2, <3>1, <3>2 DEF ReadIsCurrent, Sleeping
    <2>3. CASE entry = NoRow \/ ~entry.enabled
        <3>1. UNCHANGED <<entry, armed, timers>>
            BY <1>6, <2>3 DEF S!Boot
        <3>2. Left
            BY <1>1, <2>1, <3>1 DEF Sleeping
        <3>3. S!NeverUnscheduled' /\ S!TimerMatchesRow'
            BY <2>1, <2>3, <3>1 DEF S!NeverUnscheduled, S!TimerMatchesRow, S!Live, S!Armed
        <3>4. QED BY <2>2, <3>2, <3>3 DEF SerialInv
    <2>4. CASE entry # NoRow /\ entry.enabled
        <3>1. S!Schedule(entry, timers) /\ entry \in S!Row /\ entry' \in {entry, NoRow}
            BY <1>1, <1>6, <2>4 DEF S!Boot
        <3>2. /\ armed' \in Timers \cup {NoTimer} /\ timers' \in [Timers -> TimersOf(S!Row)]
              /\ \A u \in Timers : timers'[u].pc \in Sleeping
              /\ \A u \in Timers : timers'[u].pc = "armed" =>
                    armed' = u /\ S!Upcoming(entry, now) # {} /\ timers'[u].at = S!Min(S!Upcoming(entry, now))
              /\ S!Upcoming(entry, now) # {} => \E u \in Timers : timers'[u].pc = "armed"
            BY <1>1, <2>1, <3>1, SerialSchedules DEF Sleeping
        <3>3. Left
            BY <3>1, <3>2
        <3>4. S!NeverUnscheduled' /\ S!TimerMatchesRow'
            BY <2>1, <2>2, <3>1, <3>2, <3>3, JustScheduled DEF SerialInv
        <3>5. QED BY <2>2, <3>3, <3>4 DEF SerialInv
    <2>5. QED BY <2>3, <2>4
<1>7. CASE UNCHANGED S!vars
    <2>1. UNCHANGED <<now, awake, entry, armed, timers, edit>>
        BY <1>7 DEF S!vars
    <2>2. SerialType' /\ OneAtATime' /\ ReadIsCurrent'
        BY <2>1 DEF SerialInv, SerialType, OneAtATime, ReadIsCurrent, S!MaxNow, S!Row, S!RecurringRow, S!OneOffRow, S!Days
    <2>3. S!NeverUnscheduled' /\ S!TimerMatchesRow'
        BY <2>1 DEF SerialInv, S!NeverUnscheduled, S!TimerMatchesRow, S!Quiet, S!Undisturbed, S!Live, S!Armed,
            S!After, S!Occurrences, S!FireTime, S!Weekday, S!Horizon
    <2>4. QED BY <2>2, <2>3 DEF SerialInv
<1>8. QED BY <1>2, <1>3, <1>4, <1>5, <1>6, <1>7 DEF S!Next

\* cancel() disturbs no timer that has fired.
LEMMA OverlapCancels ==
    ASSUME timers \in [Timers -> TimersOf(PlainRow)],
           \A t \in Timers : timers[t].pc \in {"acting", "rung"} => timers[t].snap \in PlainRow
    PROVE  /\ O!Cancelled(timers) \in [Timers -> TimersOf(PlainRow)]
           /\ \A t \in Timers : O!Cancelled(timers)[t].pc \in {"acting", "rung"}
                                => O!Cancelled(timers)[t].snap \in PlainRow
<1>1. O!Free \in TimersOf(PlainRow) /\ O!Free.pc = "free"
    BY DEF O!Free, TimersOf
<1>2. QED BY <1>1 DEF O!Cancelled

\* A row that has just been scheduled is seen to.
LEMMA OverlapCovers ==
    ASSUME NEW r \in PlainRow, now \in Nat, now' = now, entry' \in {r, NoRow},
           O!Upcoming(r, now) # {} => \E t \in Timers : timers'[t].pc = "armed"
    PROVE  Covered'
<1>1. CASE O!Upcoming(r, now) # {}
    BY <1>1 DEF Covered, SeenTo
<1>2. CASE O!Upcoming(r, now) = {}
    <2>1. O!After(r) = {}
        BY <1>2, SeriesGoesOn, OneOffIsLookedUp DEF PlainRow
    <2>2. entry' = r => O!After(entry)' = {}
        BY <2>1 DEF O!After, O!Occurrences, O!FireTime, O!Weekday, O!Horizon
    <2>3. QED BY <2>2 DEF Covered, O!Live
<1>3. QED BY <1>1, <1>2

\* A call, where calls and firings overlap but there is one caller.
LEMMA OverlapCalls ==
    ASSUME \A c, d \in Callers : c = d, OverlapInv, NEW c \in Callers, O!CallStep(c)
    PROVE  OverlapInv'
<1>1. /\ edit \in [Callers -> CallsOf(PlainRow, 0..BusyMaxDay)] /\ timers \in [Timers -> TimersOf(PlainRow)]
      /\ entry \in PlainRow \cup {NoRow} /\ now \in Nat /\ now \in 0..O!MaxNow /\ awake \in BOOLEAN
      /\ armed \in Timers \cup {NoTimer} /\ edit[c] \in CallsOf(PlainRow, 0..BusyMaxDay)
      /\ \A t \in Timers : timers[t].pc \in {"acting", "rung"} => timers[t].snap \in PlainRow
    BY DEF OverlapInv, OverlapType, O!MaxNow
<1>2. O!Idle \in CallsOf(PlainRow, 0..BusyMaxDay) /\ O!Idle.pc = "idle"
    BY AlarmsAssumption DEF O!AlarmScheduleAssumption, O!Idle, CallsOf
<1>3. UNCHANGED <<now, awake>>
    BY DEF O!CallStep, O!Create, O!UpdateBegin, O!UpdateWrite, O!UpdateCancel, O!CallSchedule, O!SkipBegin,
        O!SkipWrite, O!DeleteBegin, O!DeleteCancel, O!DeleteRow
\* What such a step has to leave behind.
<1> DEFINE Left(i) ==
        /\ i \in CallsOf(PlainRow, 0..BusyMaxDay) /\ edit' = [edit EXCEPT ![c] = i]
        /\ entry' \in PlainRow \cup {NoRow}
        /\ armed' \in Timers \cup {NoTimer} /\ timers' \in [Timers -> TimersOf(PlainRow)]
        /\ \A t \in Timers : timers'[t].pc \in {"acting", "rung"} => timers'[t].snap \in PlainRow
        /\ i.pc \in {"write", "cancel", "schedule"} => i.snap \in PlainRow
        /\ i.pc \in {"cancel", "schedule"} => entry' \in {i.snap, NoRow}
        /\ i.pc # "skip"
        /\ i.pc \in {"cancel", "schedule", "delete"} \/ Covered'
<1>4. ASSUME NEW i, Left(i) PROVE OverlapInv'
    <2>1. edit'[c] = i /\ \A d \in Callers : edit'[d] = i
        BY <1>1, <1>4
    <2>2. OverlapType'
        BY <1>1, <1>3, <1>4, <2>1 DEF OverlapType, PlainRow, O!MaxNow, O!RecurringRow, O!OneOffRow, O!Days
    <2>3. i.pc \in {"cancel", "schedule", "delete"} => Covered'
        BY <2>1 DEF Covered, SeenTo
    <2>4. QED BY <1>4, <2>2, <2>3 DEF OverlapInv
<1>5. ASSUME UNCHANGED <<entry, timers>>, edit[c].pc \notin {"cancel", "schedule", "delete"} PROVE Covered'
    <2>1. SeenTo => SeenTo'
        BY <1>5 DEF SeenTo
    <2>2. O!Live' = O!Live /\ O!After(entry)' = O!After(entry)
        BY <1>3, <1>5 DEF O!Live, O!After, O!Occurrences, O!FireTime, O!Weekday, O!Horizon
    <2>3. QED BY <1>3, <2>1, <2>2 DEF OverlapInv, Covered
<1>6. ASSUME NEW r \in PlainRow, O!Create(c, r) PROVE OverlapInv'
    <2>1. PICK i : i = [edit[c] EXCEPT !.pc = "schedule", !.snap = r]
        OBVIOUS
    <2>2. i \in CallsOf(PlainRow, 0..BusyMaxDay) /\ i.pc = "schedule" /\ i.snap = r
        BY <1>1, <2>1 DEF CallsOf
    <2>3. entry' = r /\ UNCHANGED <<armed, timers>> /\ edit' = [edit EXCEPT ![c] = i]
        BY <1>6, <2>1 DEF O!Create
    <2>4. QED BY <1>1, <1>4, <1>6, <2>2, <2>3
<1>7. ASSUME NEW r \in PlainRow, O!UpdateBegin(c, r) PROVE OverlapInv'
    <2>1. PICK i : i = [edit[c] EXCEPT !.pc = "write", !.snap = r]
        OBVIOUS
    <2>2. i \in CallsOf(PlainRow, 0..BusyMaxDay) /\ i.pc = "write" /\ i.snap = r
        BY <1>1, <2>1 DEF CallsOf
    <2>3. UNCHANGED <<entry, armed, timers>> /\ edit' = [edit EXCEPT ![c] = i] /\ edit[c].pc = "idle"
        BY <1>2, <1>7, <2>1 DEF O!UpdateBegin, O!Begin
    <2>4. QED BY <1>1, <1>4, <1>5, <2>2, <2>3
<1>8. CASE O!UpdateWrite(c)
    <2>1. PICK i : i = [edit[c] EXCEPT !.pc = "cancel"]
        OBVIOUS
    <2>2. i \in CallsOf(PlainRow, 0..BusyMaxDay) /\ i.pc = "cancel" /\ i.snap = edit[c].snap
        BY <1>1, <2>1 DEF CallsOf
    <2>3. edit[c].snap \in PlainRow /\ entry' \in {edit[c].snap, NoRow} /\ UNCHANGED <<armed, timers>>
          /\ edit' = [edit EXCEPT ![c] = i]
        BY <1>8, <2>1 DEF O!UpdateWrite, OverlapInv, OverlapType
    <2>4. QED BY <1>1, <1>4, <2>2, <2>3
<1>9. CASE O!UpdateCancel(c)
    <2>1. PICK i : i = IF edit[c].snap.enabled THEN [edit[c] EXCEPT !.pc = "schedule"] ELSE O!Idle
        OBVIOUS
    <2>2. i \in CallsOf(PlainRow, 0..BusyMaxDay) /\ (i.pc = "schedule" => i.snap = edit[c].snap)
          /\ (i.pc = "schedule" \/ (i.pc = "idle" /\ ~edit[c].snap.enabled))
        BY <1>1, <1>2, <2>1 DEF CallsOf
    <2>3. edit[c].snap \in PlainRow /\ entry \in {edit[c].snap, NoRow} /\ entry' = entry
        BY <1>9 DEF O!UpdateCancel, OverlapInv, OverlapType
    <2>4. armed' = NoTimer /\ timers' = O!Cancelled(timers) /\ edit' = [edit EXCEPT ![c] = i]
        BY <1>9, <2>1 DEF O!UpdateCancel
    <2>5. timers' \in [Timers -> TimersOf(PlainRow)]
          /\ \A t \in Timers : timers'[t].pc \in {"acting", "rung"} => timers'[t].snap \in PlainRow
        BY <1>1, <2>4, OverlapCancels
    <2>6. ~edit[c].snap.enabled => Covered'
        BY <2>3 DEF Covered, O!Live
    <2>7. QED BY <1>1, <1>4, <2>2, <2>3, <2>4, <2>5, <2>6
<1>10. CASE O!CallSchedule(c)
    <2>1. /\ O!Schedule(edit[c].snap, timers) /\ entry' = entry /\ edit' = [edit EXCEPT ![c] = O!Idle]
          /\ edit[c].snap \in PlainRow /\ entry \in {edit[c].snap, NoRow}
        BY <1>10 DEF O!CallSchedule, OverlapInv, OverlapType
    <2>2. PICK r \in PlainRow : r = edit[c].snap
        BY <2>1
    <2>3. /\ armed' \in Timers \cup {NoTimer} /\ timers' \in [Timers -> TimersOf(PlainRow)]
          /\ O!Upcoming(r, now) # {} => \E t \in Timers : timers'[t].pc = "armed"
          /\ \A t \in Timers : timers'[t].pc \notin Sleeping => timers'[t] = timers[t]
        BY <1>1, <2>1, <2>2, OverlapSchedules
    <2>4. Covered'
        BY <1>1, <1>3, <2>1, <2>2, <2>3, OverlapCovers
    <2>5. QED BY <1>1, <1>2, <1>4, <2>1, <2>3, <2>4 DEF Sleeping
<1>11. CASE O!DeleteBegin(c)
    <2>1. PICK i : i = [edit[c] EXCEPT !.pc = "drop"]
        OBVIOUS
    <2>2. i \in CallsOf(PlainRow, 0..BusyMaxDay) /\ i.pc = "drop"
        BY <1>1, <2>1 DEF CallsOf
    <2>3. UNCHANGED <<entry, armed, timers>> /\ edit' = [edit EXCEPT ![c] = i] /\ edit[c].pc = "idle"
        BY <1>2, <1>11, <2>1 DEF O!DeleteBegin, O!Begin
    <2>4. QED BY <1>1, <1>4, <1>5, <2>2, <2>3
<1>12. CASE O!DeleteCancel(c)
    <2>1. PICK i : i = [edit[c] EXCEPT !.pc = "delete"]
        OBVIOUS
    <2>2. i \in CallsOf(PlainRow, 0..BusyMaxDay) /\ i.pc = "delete"
        BY <1>1, <2>1 DEF CallsOf
    <2>3. armed' = NoTimer /\ timers' = O!Cancelled(timers) /\ edit' = [edit EXCEPT ![c] = i] /\ entry' = entry
        BY <1>12, <2>1 DEF O!DeleteCancel
    <2>4. timers' \in [Timers -> TimersOf(PlainRow)]
          /\ \A t \in Timers : timers'[t].pc \in {"acting", "rung"} => timers'[t].snap \in PlainRow
        BY <1>1, <2>3, OverlapCancels
    <2>5. QED BY <1>1, <1>4, <2>2, <2>3, <2>4
<1>13. CASE O!DeleteRow(c)
    <2>1. entry' = NoRow /\ UNCHANGED <<armed, timers>> /\ edit' = [edit EXCEPT ![c] = O!Idle]
        BY <1>13 DEF O!DeleteRow
    <2>2. Covered'
        BY <2>1 DEF Covered, O!Live
    <2>3. QED BY <1>1, <1>2, <1>4, <2>1, <2>2
<1>14. ~O!SkipWrite(c)
    BY DEF O!SkipWrite, OverlapInv, OverlapType
<1>15. QED BY <1>6, <1>7, <1>8, <1>9, <1>10, <1>11, <1>12, <1>13, <1>14 DEF O!CallStep, PlainRow

\* A timer fires, while a call may be under way.
LEMMA OverlapFires ==
    ASSUME OverlapInv, NEW t \in Timers, O!TimerStep(t)
    PROVE  OverlapInv'
<1>1. /\ edit \in [Callers -> CallsOf(PlainRow, 0..BusyMaxDay)] /\ timers \in [Timers -> TimersOf(PlainRow)]
      /\ entry \in PlainRow \cup {NoRow} /\ now \in Nat /\ now \in 0..O!MaxNow /\ awake \in BOOLEAN
      /\ armed \in Timers \cup {NoTimer} /\ timers[t] \in TimersOf(PlainRow)
      /\ \A u \in Timers : timers[u].pc \in {"acting", "rung"} => timers[u].snap \in PlainRow
    BY DEF OverlapInv, OverlapType, O!MaxNow
<1>2. UNCHANGED <<now, awake, edit>>
    BY DEF O!TimerStep, O!TimerExpires, O!FireRead, O!FirePop, O!Ring, O!FireFinish
<1>3. O!Free \in TimersOf(PlainRow) /\ O!Free.pc = "free"
    BY DEF O!Free, TimersOf
<1>4. ASSUME entry' \in {entry, NoRow}, armed' \in Timers \cup {NoTimer}, timers' \in [Timers -> TimersOf(PlainRow)],
             \A u \in Timers : timers'[u].pc \in {"acting", "rung"} => timers'[u].snap \in PlainRow,
             Covered'
      PROVE  OverlapInv'
    <2>1. OverlapType'
        BY <1>1, <1>2, <1>4 DEF OverlapInv, OverlapType, PlainRow, O!MaxNow, O!RecurringRow, O!OneOffRow, O!Days
    <2>2. QED BY <1>4, <2>1 DEF OverlapInv
\* The step concerns the one timer.
<1>5. ASSUME NEW i \in TimersOf(PlainRow), timers' = [timers EXCEPT ![t] = i], entry' = entry,
             armed' \in Timers \cup {NoTimer}, i.pc \in {"acting", "rung"} => i.snap \in PlainRow,
             \/ i.pc \in {"started", "acting", "rung"}
             \/ i.pc = "read" /\ i.snap = entry
             \/ timers[t].pc = "read" /\ (timers[t].snap # NoRow => ~timers[t].snap.enabled)
      PROVE  OverlapInv'
    <2>1. timers'[t] = i /\ \A u \in Timers : u # t => timers'[u] = timers[u]
        BY <1>1, <1>5
    <2>2. timers' \in [Timers -> TimersOf(PlainRow)]
          /\ \A u \in Timers : timers'[u].pc \in {"acting", "rung"} => timers'[u].snap \in PlainRow
        BY <1>1, <1>5, <2>1
    <2>3. O!Live' = O!Live /\ O!After(entry)' = O!After(entry)
        BY <1>2, <1>5 DEF O!Live, O!After, O!Occurrences, O!FireTime, O!Weekday, O!Horizon
    <2>4. CASE i.pc \in {"started", "acting", "rung"}
        <3>1. SeenTo'
            BY <2>1, <2>4 DEF SeenTo
        <3>2. QED BY <1>4, <1>5, <2>2, <3>1 DEF Covered
    <2>5. CASE i.pc = "read" /\ i.snap = entry
        <3>1. O!Live => SeenTo'
            BY <2>1, <2>5 DEF SeenTo, O!Live
        <3>2. QED BY <1>4, <1>5, <2>2, <2>3, <3>1 DEF Covered
    <2>6. CASE timers[t].pc = "read" /\ (timers[t].snap # NoRow => ~timers[t].snap.enabled)
        <3>1. SeenTo => SeenTo'
            BY <1>2, <2>1, <2>6 DEF SeenTo
        <3>2. Covered'
            BY <1>2, <2>3, <3>1 DEF OverlapInv, Covered
        <3>3. QED BY <1>4, <1>5, <2>2, <3>2
    <2>7. QED BY <1>5, <2>4, <2>5, <2>6
<1>6. CASE O!TimerExpires(t)
    <2>1. PICK i : i = [timers[t] EXCEPT !.pc = "started"]
        OBVIOUS
    <2>2. i \in TimersOf(PlainRow) /\ i.pc = "started"
        BY <1>1, <2>1 DEF TimersOf
    <2>3. QED BY <1>1, <1>5, <1>6, <2>1, <2>2 DEF O!TimerExpires
<1>7. CASE O!FireRead(t)
    <2>1. PICK i : i = [timers[t] EXCEPT !.pc = "read", !.snap = entry]
        OBVIOUS
    <2>2. i \in TimersOf(PlainRow) /\ i.pc = "read" /\ i.snap = entry
        BY <1>1, <2>1 DEF TimersOf
    <2>3. QED BY <1>1, <1>5, <1>7, <2>1, <2>2 DEF O!FireRead
<1>8. CASE O!FirePop(t)
    <2>1. PICK i : i = IF timers[t].snap = NoRow THEN O!Free
                       ELSE IF timers[t].snap.enabled THEN [timers[t] EXCEPT !.pc = "acting"] ELSE O!Free
        OBVIOUS
    <2>2. /\ i \in TimersOf(PlainRow)
          /\ \/ i.pc = "acting" /\ i.snap \in PlainRow
             \/ i.pc = "free" /\ (timers[t].snap # NoRow => ~timers[t].snap.enabled)
        BY <1>1, <1>3, <2>1 DEF TimersOf
    <2>3. timers[t].pc = "read" /\ armed' = NoTimer /\ entry' = entry /\ timers' = [timers EXCEPT ![t] = i]
        BY <1>8, <2>1 DEF O!FirePop
    <2>4. QED BY <1>5, <2>2, <2>3
<1>9. CASE O!Ring(t)
    <2>1. PICK i : i = [timers[t] EXCEPT !.pc = "rung"]
        OBVIOUS
    <2>2. i \in TimersOf(PlainRow) /\ i.pc = "rung" /\ i.snap = timers[t].snap
        BY <1>1, <2>1 DEF TimersOf
    <2>3. timers[t].snap \in PlainRow
        BY <1>1, <1>9 DEF O!Ring
    <2>4. QED BY <1>1, <1>5, <1>9, <2>1, <2>2, <2>3 DEF O!Ring
<1>10. CASE O!FireFinish(t)
    <2> DEFINE f == [timers EXCEPT ![t] = O!Free]
    <2>1. f \in [Timers -> TimersOf(PlainRow)]
          /\ \A u \in Timers : f[u].pc \in {"acting", "rung"} => f[u].snap \in PlainRow
        BY <1>1, <1>3
    <2>2. timers[t].snap \in PlainRow
        BY <1>1, <1>10 DEF O!FireFinish
    <2>3. CASE timers[t].snap.weekdays = {}
        <3>1. entry' = NoRow /\ timers' = f /\ armed' = armed
            BY <1>10, <2>3 DEF O!FireFinish
        <3>2. Covered'
            BY <3>1 DEF Covered, O!Live
        <3> HIDE DEF f
        <3>3. QED BY <1>1, <1>4, <2>1, <3>1, <3>2
    <2>4. CASE timers[t].snap.weekdays # {}
        <3>1. O!Schedule(timers[t].snap, f) /\ entry' = entry
            BY <1>10, <2>4 DEF O!FireFinish
        <3> HIDE DEF f
        <3>2. PICK r \in PlainRow : r = timers[t].snap
            BY <2>2
        <3>3. O!Upcoming(r, now) # {}
            BY <1>1, <2>4, <3>2, SeriesGoesOn DEF PlainRow
        <3>4. /\ armed' \in Timers \cup {NoTimer} /\ timers' \in [Timers -> TimersOf(PlainRow)]
              /\ \E u \in Timers : timers'[u].pc = "armed"
              /\ \A u \in Timers : timers'[u].pc \notin Sleeping => timers'[u] = f[u]
            BY <1>1, <2>1, <3>1, <3>2, <3>3, OverlapSchedules
        <3>5. Covered'
            BY <3>4 DEF Covered, SeenTo
        <3>6. \A u \in Timers : timers'[u].pc \in {"acting", "rung"} => timers'[u].snap \in PlainRow
            BY <2>1, <3>4 DEF Sleeping
        <3>7. QED BY <1>4, <3>1, <3>4, <3>5, <3>6
    <2>5. QED BY <2>3, <2>4
<1>11. QED BY <1>6, <1>7, <1>8, <1>9, <1>10 DEF O!TimerStep

\* So somebody always sees to the row.
LEMMA OverlapInvStep ==
    ASSUME \A c, d \in Callers : c = d, OverlapInv, [O!Next]_(O!vars)
    PROVE  OverlapInv'
<1>1. /\ edit \in [Callers -> CallsOf(PlainRow, 0..BusyMaxDay)] /\ timers \in [Timers -> TimersOf(PlainRow)]
      /\ entry \in PlainRow \cup {NoRow} /\ now \in Nat /\ now \in 0..O!MaxNow /\ awake \in BOOLEAN
      /\ armed \in Timers \cup {NoTimer}
      /\ \A u \in Timers : timers[u].pc \in {"acting", "rung"} => timers[u].snap \in PlainRow
    BY DEF OverlapInv, OverlapType, O!MaxNow
<1>2. O!MaxNow \in Int /\ O!MaxNow' = O!MaxNow /\ PlainRow' = PlainRow
    <2>1. \A k, m \in Nat : k * m \in Nat
        OBVIOUS
    <2>2. BusyDayLen \in Nat /\ BusyMaxDay \in Nat
        BY AlarmsAssumption DEF O!AlarmScheduleAssumption
    <2>3. QED BY <2>1, <2>2 DEF O!MaxNow, PlainRow, O!RecurringRow, O!OneOffRow, O!Days
<1>3. ASSUME NEW c \in Callers, O!CallStep(c) PROVE OverlapInv'
    BY <1>3, OverlapCalls
<1>4. ASSUME NEW t \in Timers, O!TimerStep(t) PROVE OverlapInv'
    BY <1>4, OverlapFires
<1>5. CASE O!Tick
    <2>1. now' = now + 1 /\ now < O!MaxNow /\ UNCHANGED <<awake, entry, armed, timers, edit>>
        BY <1>5 DEF O!Tick
    <2>2. now' \in 0..O!MaxNow
        BY <1>1, <1>2, <2>1
    <2>3. OverlapType'
        BY <1>2, <2>1, <2>2 DEF OverlapInv, OverlapType
    <2>4. O!Occurrences(entry)' = O!Occurrences(entry)
        BY <2>1 DEF O!Occurrences, O!FireTime, O!Weekday, O!Horizon
    <2>5. O!Live' = O!Live /\ SeenTo' = SeenTo
        BY <2>1 DEF O!Live, SeenTo
    <2>6. ASSUME entry \in PlainRow, O!After(entry)' # {} PROVE O!After(entry) # {}
        <3>1. PICK f \in O!Occurrences(entry) : f > now + 1
            BY <2>1, <2>4, <2>6 DEF O!After
        <3>2. f \in Nat
            BY <2>6, <3>1, AllTimes
        <3>3. f > now
            BY <1>1, <3>1, <3>2
        <3>4. QED BY <3>1, <3>3 DEF O!After
    <2>7. Covered'
        BY <1>1, <2>1, <2>5, <2>6 DEF OverlapInv, Covered, O!Live
    <2>8. QED BY <2>3, <2>7 DEF OverlapInv
<1>6. CASE O!Stop
    <2>1. /\ ~awake' /\ armed' = NoTimer /\ timers' = [t \in Timers |-> O!Free] /\ edit' = [c \in Callers |-> O!Idle]
          /\ UNCHANGED <<now, entry>> /\ awake' \in BOOLEAN
        BY <1>6 DEF O!Stop
    <2>2. O!Free \in TimersOf(PlainRow) /\ O!Free.pc = "free" /\ O!Idle.pc = "idle"
          /\ O!Idle \in CallsOf(PlainRow, 0..BusyMaxDay)
        BY AlarmsAssumption DEF O!AlarmScheduleAssumption, TimersOf, CallsOf, O!Free, O!Idle
    <2>3. OverlapType'
        BY <1>1, <1>2, <2>1, <2>2 DEF OverlapType
    <2>4. QED BY <2>1, <2>3 DEF OverlapInv, Covered
<1>7. CASE O!Boot
    <2>1. awake' /\ awake' \in BOOLEAN /\ UNCHANGED <<now, edit>>
        BY <1>7 DEF O!Boot
    <2>2. ASSUME entry' \in {entry, NoRow}, armed' \in Timers \cup {NoTimer}, timers' \in [Timers -> TimersOf(PlainRow)],
                 \A u \in Timers : timers'[u].pc \in {"acting", "rung"} => timers'[u].snap \in PlainRow
          PROVE  OverlapType'
        BY <1>1, <1>2, <2>1, <2>2 DEF OverlapInv, OverlapType
    <2>3. CASE entry = NoRow \/ ~entry.enabled
        <3>1. UNCHANGED <<entry, armed, timers>>
            BY <1>7, <2>3 DEF O!Boot
        <3>2. ~O!Live'
            BY <2>3, <3>1 DEF O!Live
        <3>3. QED BY <1>1, <2>2, <3>1, <3>2 DEF OverlapInv, Covered
    <2>4. CASE entry # NoRow /\ entry.enabled
        <3>1. O!Schedule(entry, timers) /\ entry \in PlainRow /\ entry' \in {entry, NoRow}
            BY <1>1, <1>7, <2>4 DEF O!Boot
        <3>2. PICK r \in PlainRow : r = entry
            BY <3>1
        <3>3. /\ armed' \in Timers \cup {NoTimer} /\ timers' \in [Timers -> TimersOf(PlainRow)]
              /\ O!Upcoming(r, now) # {} => \E u \in Timers : timers'[u].pc = "armed"
              /\ \A u \in Timers : timers'[u].pc \notin Sleeping => timers'[u] = timers[u]
            BY <1>1, <3>1, <3>2, OverlapSchedules
        <3>4. OverlapType'
            BY <1>1, <2>2, <3>1, <3>3 DEF Sleeping
        <3>5. Covered'
            BY <1>1, <2>1, <3>1, <3>2, <3>3, OverlapCovers
        <3>6. QED BY <3>4, <3>5 DEF OverlapInv
    <2>5. QED BY <2>3, <2>4
<1>8. CASE UNCHANGED O!vars
    <2>1. UNCHANGED <<now, awake, entry, armed, timers, edit>>
        BY <1>8 DEF O!vars
    <2>2. OverlapType'
        BY <1>2, <2>1 DEF OverlapInv, OverlapType
    <2>3. Covered'
        BY <2>1 DEF OverlapInv, Covered, SeenTo, O!Live, O!After, O!Occurrences, O!FireTime, O!Weekday, O!Horizon
    <2>4. QED BY <2>2, <2>3 DEF OverlapInv
<1>9. QED BY <1>3, <1>4, <1>5, <1>6, <1>7, <1>8 DEF O!Next

\* The run begins without an alarm.
LEMMA ScheduleInvInit == Init => ScheduleInv
<1> SUFFICES ASSUME Init PROVE ScheduleInv
    OBVIOUS
<1>1. /\ now = 0 /\ awake = TRUE /\ entry = NoRow /\ armed = NoTimer
      /\ timers = [t \in Timers |-> S!Free] /\ edit = [c \in Callers |-> S!Idle]
    BY DEF Init, S!Init
<1>2. \A m, n \in Nat : m * n \in Nat
    OBVIOUS
<1>3. DayLen \in Nat \ {0} /\ BusyDayLen \in Nat \ {0} /\ MaxDay \in Nat /\ BusyMaxDay \in Nat
    BY AlarmsAssumption DEF S!AlarmScheduleAssumption, O!AlarmScheduleAssumption
<1>4. now \in 0..S!MaxNow /\ now \in 0..O!MaxNow
    <2>1. MaxDay * DayLen \in Nat /\ BusyMaxDay * BusyDayLen \in Nat
        BY <1>2, <1>3
    <2>2. QED BY <1>1, <1>3, <2>1 DEF S!MaxNow, O!MaxNow
<1>5. /\ S!Free \in TimersOf(S!Row) /\ S!Free \in TimersOf(PlainRow) /\ S!Free.pc = "free"
      /\ S!Idle \in CallsOf(S!Row, 0..MaxDay) /\ S!Idle \in CallsOf(PlainRow, 0..BusyMaxDay) /\ S!Idle.pc = "idle"
    BY <1>3 DEF TimersOf, CallsOf, S!Free, S!Idle
<1>6. SerialType /\ OneAtATime /\ ReadIsCurrent
    BY <1>1, <1>4, <1>5 DEF SerialType, OneAtATime, ReadIsCurrent, Sleeping
<1>7. OverlapType /\ Covered
    BY <1>1, <1>4, <1>5 DEF OverlapType, Covered, O!Live
<1>8. S!NeverUnscheduled /\ S!TimerMatchesRow
    BY <1>1 DEF S!NeverUnscheduled, S!TimerMatchesRow, S!Live
<1>9. QED BY <1>6, <1>7, <1>8 DEF ScheduleInv, SerialInv, OverlapInv

\* Every step of the run keeps what is known of its alarm.
LEMMA ScheduleInvStep == (\A c, d \in Callers : c = d) /\ ScheduleInv /\ [Next]_vars => ScheduleInv'
BY ScheduleStep, SerialInvStep, OverlapInvStep DEF ScheduleInv

\* At rest that is what is promised: nobody is about to see to the row, so a timer
\* stands for it.
LEMMA ScheduleInvKeeps == ScheduleInv => NeverUnscheduled
<1>1. OverlapInv => O!NeverUnscheduled
    <2> SUFFICES ASSUME OverlapInv, O!Quiet, O!Live, O!After(entry) # {} PROVE O!Armed # {}
        BY DEF O!NeverUnscheduled
    <2>1. SeenTo
        BY DEF OverlapInv, Covered, O!Quiet
    <2>2. (\A t \in Timers : timers[t].pc \in Sleeping) /\ (\A c \in Callers : edit[c].pc = "idle")
        BY DEF O!Quiet, O!Undisturbed, O!Idle, Sleeping
    <2>3. \E t \in Timers : timers[t].pc = "armed"
        BY <2>1, <2>2 DEF SeenTo, Sleeping
    <2>4. QED BY <2>3 DEF O!Armed
<1>2. QED BY <1>1 DEF ScheduleInv, SerialInv, NeverUnscheduled

\* An alarm that is enabled and has a time to come keeps a timer, and without
\* overlaps the timer stands at the row's next time (alarms.py _schedule, _fire):
\* for days and weeks of any length, any skip dates where calls wait for one
\* another, any number of timers.  One caller: of two, one may see to the
\* timer as of a row that the other has changed since.
THEOREM NeverUnscheduledAlways ==
    ASSUME \A c, d \in Callers : c = d
    PROVE  Spec => []NeverUnscheduled
<1>1. Init => ScheduleInv
    BY ScheduleInvInit
<1>2. ScheduleInv /\ [Next]_vars => ScheduleInv'
    BY ScheduleInvStep
<1>3. ScheduleInv => NeverUnscheduled
    BY ScheduleInvKeeps
<1>4. QED BY <1>1, <1>2, <1>3, PTL DEF Spec
=============================================================================
