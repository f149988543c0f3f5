---------------------------- MODULE PlayDispatch ----------------------------
(***************************************************************************)
(* What a proxy plays: the chunks of announcements that come over the      *)
(* RegisterProxy stream go through one queue and one worker per device     *)
(* (proxy/internal/hannah/dispatcher.go), the answer to an utterance is    *)
(* sent by the goroutine that submitted it (cmd/proxy/main.go).  Streams   *)
(* follow one another; each has a dispatcher and a receiving goroutine,    *)
(* which nobody waits for when the stream is given up.                     *)
(***************************************************************************)
EXTENDS Naturals, Sequences

CONSTANTS Devices,
          Capacity,     \* queueCapacity
          SendFails,    \* whether a heartbeat's Send may notice a lost stream first
          MaxStreams, MaxChunks, MaxTalks   \* bounds

PlayDispatchAssumption ==
    /\ SendFails \in BOOLEAN
    /\ Capacity \in Nat \ {0} /\ MaxStreams \in Nat \ {0} /\ MaxChunks \in Nat /\ MaxTalks \in Nat

VARIABLES
    now,        \* the stream of runProxyOnce
    phase,      \* where RunProxy is: "open", "stopping" (the deferred stop), "waiting"
    broken,     \* the streams that are lost
    wire,       \* stream -> chunks that have come and were not read yet
    recv,       \* stream -> what the receiving goroutine is at
    table,      \* stream -> device -> its entry in d.queues, or 0
    chan,       \* channel -> the jobs in it
    closed,     \* channels that stop() has closed
    worker,     \* channel -> what its goroutine is at, if it was ever made
    panicked,   \* a goroutine has sent on a closed channel: the process is gone
    answer,     \* device -> the utterance's goroutine
    status,     \* device -> the status its satellite was sent last
    pushed,     \* device -> the number of the last chunk the Core pushed for it
    played,     \* history: device -> the jobs that were sent to it
    talks
vars == <<now, phase, broken, wire, recv, table, chan, closed, worker, panicked, answer, status, pushed,
          played, talks>>

Streams == 1..MaxStreams
\* A second channel of a stream's device is made after stop() emptied the table.
Channels == Streams \X Devices \X {1, 2}
\* isLast: the bound makes every second chunk the last of its announcement.
IsLast(job) == job[2] % 2 = 0
Reading == [at |-> "recv"]
Idle == [at |-> "idle"]

Init ==
    /\ now = 1 /\ phase = "open" /\ broken = {}
    /\ wire = [s \in Streams |-> <<>>] /\ recv = [s \in Streams |-> Reading]
    /\ table = [s \in Streams |-> [d \in Devices |-> 0]]
    /\ chan = [c \in Channels |-> <<>>] /\ closed = {}
    /\ worker = [c \in Channels |-> [at |-> "none"]] /\ panicked = FALSE
    /\ answer = [d \in Devices |-> "none"] /\ status = [d \in Devices |-> "idle"]
    /\ pushed = [d \in Devices |-> 0] /\ played = [d \in Devices |-> <<>>] /\ talks = 0

-----------------------------------------------------------------------------
(* The Core and the stream.                                                *)

\* stream_audio_to_proxy: one PlayAudioCommand for the stream that is registered.
Push(d) ==
    /\ phase = "open" /\ now \notin broken
    /\ \A e \in Devices \ {d} : pushed[d] + pushed[e] < MaxChunks
    /\ pushed' = [pushed EXCEPT ![d] = @ + 1]
    /\ wire' = [wire EXCEPT ![now] = Append(@, <<d, <<now, pushed'[d]>>>>)]
    /\ UNCHANGED <<now, phase, broken, recv, table, chan, closed, worker, panicked, answer, status, played, talks>>

\* What has come before the loss can still be read.
StreamLost ==
    /\ phase = "open" /\ now \notin broken /\ now < MaxStreams
    /\ broken' = broken \cup {now}
    /\ UNCHANGED <<now, phase, wire, recv, table, chan, closed, worker, panicked, answer, status, pushed, played,
                   talks>>

\* stream.Recv: a chunk, or the error that ends the goroutine.
Recv(s) ==
    /\ recv[s] = Reading
    /\ IF wire[s] # <<>>
       THEN /\ recv' = [recv EXCEPT ![s] = [at |-> "dispatch", device |-> Head(wire[s])[1], job |-> Head(wire[s])[2]]]
            /\ wire' = [wire EXCEPT ![s] = Tail(@)]
       ELSE s \in broken /\ recv' = [recv EXCEPT ![s] = [at |-> "ended"]] /\ UNCHANGED wire
    /\ UNCHANGED <<now, phase, broken, table, chan, closed, worker, panicked, answer, status, pushed, played, talks>>

-----------------------------------------------------------------------------
(* The dispatcher.                                                         *)

\* workerChan, under the lock: the device's channel, made with its worker on first use.
WorkerChan(s) ==
    /\ recv[s].at = "dispatch"
    /\ LET d == recv[s].device
           k == IF table[s][d] # 0 THEN table[s][d] ELSE IF s < now \/ phase # "open" THEN 2 ELSE 1
       IN /\ table' = [table EXCEPT ![s][d] = k]
          /\ worker' = [worker EXCEPT ![<<s, d, k>>] = IF table[s][d] = 0 THEN Idle ELSE @]
          /\ recv' = [recv EXCEPT ![s] = [at |-> "send", channel |-> <<s, d, k>>, job |-> @.job]]
    /\ UNCHANGED <<now, phase, broken, wire, chan, closed, panicked, answer, status, pushed, played, talks>>

\* Fault: a full queue swallows what does not fit.
SendOrDrop(s) ==
    /\ recv[s].at = "send"
    /\ LET c == recv[s].channel
       IN chan' = IF Len(chan[c]) < Capacity THEN [chan EXCEPT ![c] = Append(@, recv[s].job)] ELSE chan
    /\ recv' = [recv EXCEPT ![s] = Reading] /\ UNCHANGED panicked
    /\ UNCHANGED <<now, phase, broken, wire, table, closed, worker, answer, status, pushed, played, talks>>

\* ch <- job, without the lock: waits while the channel is full, panics when it is closed.
Send(s) ==
    /\ recv[s].at = "send"
    /\ LET c == recv[s].channel
       IN /\ Len(chan[c]) = Capacity => c \in closed
          /\ panicked' = (c \in closed)
          /\ chan' = IF c \in closed THEN chan ELSE [chan EXCEPT ![c] = Append(@, recv[s].job)]
    /\ recv' = [recv EXCEPT ![s] = Reading]
    /\ UNCHANGED <<now, phase, broken, wire, table, closed, worker, answer, status, pushed, played, talks>>

\* runWorker takes a job: SendStatus, then SendTTSChunk, which sleeps as long as the chunk sounds.
Play(c) ==
    /\ worker[c] = Idle /\ chan[c] # <<>>
    /\ worker' = [worker EXCEPT ![c] = [at |-> "playing", job |-> Head(chan[c])]]
    /\ chan' = [chan EXCEPT ![c] = Tail(@)]
    /\ played' = [played EXCEPT ![c[2]] = Append(@, Head(chan[c]))]
    /\ status' = [status EXCEPT ![c[2]] = "speaking"]
    /\ UNCHANGED <<now, phase, broken, wire, recv, table, closed, panicked, answer, pushed, talks>>

\* Fault: the status stays after the last chunk.
StatusKept(d, job) == status
\* After an announcement's last chunk: SendTTSEnd and SendStatus.
StatusAfter(d, job) == IF IsLast(job) THEN [status EXCEPT ![d] = "idle"] ELSE status

ChunkDone(c) ==
    /\ worker[c].at = "playing"
    /\ status' = StatusAfter(c[2], worker[c].job)
    /\ worker' = [worker EXCEPT ![c] = Idle]
    /\ UNCHANGED <<now, phase, broken, wire, recv, table, chan, closed, panicked, answer, pushed, played, talks>>

\* The range over a closed channel ends once it is drained.
WorkerEnds(c) ==
    /\ worker[c] = Idle /\ chan[c] = <<>> /\ c \in closed
    /\ worker' = [worker EXCEPT ![c] = [at |-> "gone"]]
    /\ UNCHANGED <<now, phase, broken, wire, recv, table, chan, closed, panicked, answer, status, pushed, played,
                   talks>>

-----------------------------------------------------------------------------
(* runProxyOnce returns, and RunProxy goes on.                             *)

\* The select takes recvErr, or a heartbeat cannot be sent.
GivenUp == recv[now].at = "ended" \/ (SendFails /\ now \in broken)

Entries(s) == {c \in Channels : c[1] = s /\ table[s][c[2]] = c[3]}

\* Fault: the queues are forgotten and not closed.
ClosedBy(s) == closed
\* stop, under the lock.
ClosedAll(s) == closed \cup Entries(s)

Stop ==
    /\ phase = "open" /\ GivenUp
    /\ phase' = "stopping"
    /\ closed' = ClosedAll(now)
    /\ table' = [table EXCEPT ![now] = [d \in Devices |-> 0]]
    /\ UNCHANGED <<now, broken, wire, recv, chan, worker, panicked, answer, status, pushed, played, talks>>

\* Fault: nobody waits for the workers.
NotAwaited(s) == TRUE
\* wg.Wait
Drained(s) == \A c \in Channels : c[1] = s => worker[c].at \in {"none", "gone"}

Stopped ==
    /\ phase = "stopping" /\ Drained(now)
    /\ phase' = "waiting"
    /\ UNCHANGED <<now, broken, wire, recv, table, chan, closed, worker, panicked, answer, status, pushed, played,
                   talks>>

\* Five seconds later.
Reconnect ==
    /\ phase = "waiting"
    /\ phase' = "open" /\ now' = now + 1
    /\ UNCHANGED <<broken, wire, recv, table, chan, closed, worker, panicked, answer, status, pushed, played, talks>>

-----------------------------------------------------------------------------
(* The answer to an utterance.                                             *)

Say(d, from, to, shown) ==
    /\ answer[d] = from
    /\ answer' = [answer EXCEPT ![d] = to] /\ status' = [status EXCEPT ![d] = shown]
    /\ UNCHANGED <<now, phase, broken, wire, recv, table, chan, closed, worker, panicked, pushed, played>>

\* OnSessionStart, then OnAudio.
Listen(d) == talks < MaxTalks /\ Say(d, "none", "listening", "listening") /\ talks' = talks + 1
Submit(d) == Say(d, "listening", "submitted", "processing") /\ UNCHANGED talks
\* SubmitSatelliteAudio failed, or there is nothing to say.
Unanswered(d) == Say(d, "submitted", "none", "idle") /\ UNCHANGED talks
\* SendTTS ...
Answered(d) == Say(d, "submitted", "speaking", "speaking") /\ UNCHANGED talks
\* ... and what follows it.
Spoken(d) == Say(d, "speaking", "none", "idle") /\ UNCHANGED talks

Receiver(s) == ~panicked /\ (Recv(s) \/ WorkerChan(s) \/ Send(s))
Worker(c) == ~panicked /\ (Play(c) \/ ChunkDone(c) \/ WorkerEnds(c))
RunProxy == ~panicked /\ (Stop \/ Stopped \/ Reconnect)

Next ==
    \/ RunProxy \/ \E s \in Streams : Receiver(s)
    \/ \E c \in Channels : Worker(c)
    \/ ~panicked /\ StreamLost
    \/ \E d \in Devices : ~panicked /\ (Push(d) \/ Listen(d) \/ Submit(d) \/ Unanswered(d) \/ Answered(d) \/ Spoken(d))

Spec == Init /\ [][Next]_vars

-----------------------------------------------------------------------------
(* Properties.                                                             *)

\* Each device is sent its chunks in their order: none is left out as long as
\* the stream holds, and none of an older stream after one of a newer.
PlayedInOrder ==
    \A d \in Devices : \A i \in 1..(Len(played[d]) - 1) :
        LET a == played[d][i]
            b == played[d][i + 1]
        IN \/ a[1] = b[1] /\ b[2] = a[2] + 1
           \/ a[1] < b[1] /\ a[2] < b[2]

\* Once nobody plays or answers, the satellite is shown idle, unless the
\* announcement was cut off by the loss of the stream.
AtRest(d) == /\ answer[d] = "none"
             /\ \A c \in Channels : c[2] = d => chan[c] = <<>> /\ worker[c].at # "playing"
IdleAtRest ==
    \A d \in Devices : AtRest(d) /\ (played[d] = <<>> \/ IsLast(played[d][Len(played[d])])) => status[d] = "idle"

SpeechIsInOrder == PlayedInOrder /\ IdleAtRest

\* A stream that was given up is followed by another: stop() leaves no worker
\* behind that it would wait for ("to avoid leaking worker goroutines across
\* reconnects", dispatcher.go:68-70).
StreamComesBack == phase = "stopping" ~> (phase = "open" \/ panicked)

\* In the end, when no stream is lost and nothing pushed any more, a stream
\* stands and every queue is played out.
PlaysOut == <>[](panicked \/ (phase = "open" /\ \A c \in Channels : chan[c] = <<>>))

\* Claimed at dispatcher.go:38-41: a full queue never stalls dispatch for other
\* devices.  Not so: one goroutine reads for all of them.
NeverStalled ==
    \A s \in Streams : ~ /\ recv[s].at = "send" /\ Len(chan[recv[s].channel]) = Capacity
                         /\ wire[s] # <<>> /\ Head(wire[s])[1] # recv[s].channel[2]
=============================================================================
