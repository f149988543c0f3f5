--------------------------- MODULE DeviceCommands ---------------------------
(***************************************************************************)
(* A command to several devices and its confirmation: the caller registers *)
(* what it expects of each device, writes, and takes the registration back *)
(* when the write did not go out; the adapter's stream confirms, a sweep   *)
(* ends what stays unanswered.  A satellite is told when its last device   *)
(* was counted, a text caller waits.                                       *)
(***************************************************************************)
EXTENDS Naturals, Sequences, FiniteSets

CONSTANTS Satellites,  \* callers that are told by speech when all is confirmed
          Texts,       \* callers that wait for the confirmation
          Devices,
          TargetsOf,   \* caller -> the devices its intent resolves to, in order
          Denied,      \* pairs <<caller, device>> the trust level forbids
          MaxFlips,    \* somebody at the device changes it
          MaxLosses    \* the adapter's stream breaks

None == "none"
Callers == Satellites \cup Texts
Values == {"on", "off"}
CommandsAssumption == /\ None \notin Callers /\ Satellites \cap Texts = {}
                      /\ TargetsOf \in [Callers -> Seq(Devices)]
Want(c) == IF c \in Satellites THEN "on" ELSE "off"

VARIABLES
    pc,       \* caller -> "idle", "register", "send", "note", "await" or "over"
    left,     \* caller -> the targets not handled yet
    awaited,  \* caller -> the written devices it waits for
    due,      \* the callers whose deadline has passed
    pending,  \* _pending: device -> the satellite that expects a value of it
    waiter,   \* _confirm_waiters: device -> [by, done, success], by None if there is none
    stream,   \* the adapter's stream thread: what it still has to do with an update
    sweep,    \* _timeout_loop: the expired entries it has not reported yet
    heard,    \* satellite -> what its feedback said: subset of {"ok", "failed"}
    offline,  \* text caller -> the devices reported as not answering
    up,       \* an adapter is connected
    queue,    \* the writes on their way to it
    echoes,   \* its updates on their way to Core
    actual,   \* device -> its real state
    value,    \* the registry's value of the device's slot
    rolled,   \* history: satellites that took a registration back
    silent,   \* history: pairs <<satellite, device>> ended by the sweep
    flips, losses

caller == <<pc, left, awaited>>
confirm == <<pending, waiter, stream, sweep, heard, offline, due>>
adapter == <<up, queue, echoes, actual>>
history == <<rolled, silent>>
vars == <<caller, confirm, adapter, value, history, flips, losses>>

NoWaiter == [by |-> None, done |-> FALSE, success |-> FALSE]
Idle == [at |-> "idle", d |-> None, v |-> None, sat |-> None]
Remaining(s) == {d \in Devices : pending[d] = s}

TypeOK ==
    /\ pc \in [Callers -> {"idle", "register", "send", "note", "await", "over"}]
    /\ left \in [Callers -> Seq(Devices)] /\ awaited \in [Callers -> SUBSET Devices] /\ due \subseteq Callers
    /\ pending \in [Devices -> Satellites \cup {None}]
    /\ waiter \in [Devices -> [by : Texts \cup {None}, done : BOOLEAN, success : BOOLEAN]]
    /\ stream \in [at : {"idle", "pop", "count", "wake"}, d : Devices \cup {None}, v : Values \cup {None},
                   sat : Satellites \cup {None}]
    /\ sweep \subseteq Satellites \X Devices /\ silent \subseteq Satellites \X Devices
    /\ heard \in [Satellites -> SUBSET {"ok", "failed"}] /\ offline \in [Texts -> SUBSET Devices]
    /\ up \in BOOLEAN /\ queue \in Seq(Devices \X Values) /\ echoes \in Seq(Devices \X Values)
    /\ actual \in [Devices -> Values] /\ value \in [Devices -> Values] /\ rolled \subseteq Satellites
    /\ flips \in 0..MaxFlips /\ losses \in 0..MaxLosses

Init ==
    /\ pc = [c \in Callers |-> "idle"] /\ left = [c \in Callers |-> <<>>] /\ awaited = [c \in Callers |-> {}] /\ due = {}
    /\ pending = [d \in Devices |-> None] /\ waiter = [d \in Devices |-> NoWaiter]
    /\ stream = Idle /\ sweep = {} /\ heard = [s \in Satellites |-> {}] /\ offline = [t \in Texts |-> {}]
    /\ up = TRUE /\ queue = <<>> /\ echoes = <<>>
    /\ actual = [d \in Devices |-> "off"] /\ value = actual
    /\ rolled = {} /\ silent = {} /\ flips = 0 /\ losses = 0

-----------------------------------------------------------------------------
(* execute, on the caller's thread *)

Execute(c) ==
    /\ pc[c] = "idle"
    /\ left' = [left EXCEPT ![c] = TargetsOf[c]] /\ pc' = [pc EXCEPT ![c] = "register"]
    /\ UNCHANGED <<awaited, confirm, adapter, value, history, flips, losses>>

\* Before the write, so that a fast answer finds somebody; one entry per
\* device: a later command takes the place of an earlier one.
Register(c) ==
    /\ pc[c] = "register" /\ left[c] # <<>>
    /\ LET d == Head(left[c]) IN
       IF c \in Texts THEN waiter' = [waiter EXCEPT ![d] = [by |-> c, done |-> FALSE, success |-> FALSE]] /\ UNCHANGED pending
       ELSE pending' = [pending EXCEPT ![d] = c] /\ UNCHANGED waiter
    /\ pc' = [pc EXCEPT ![c] = "send"]
    /\ UNCHANGED <<left, awaited, stream, sweep, heard, offline, due, adapter, value, history, flips, losses>>

\* Fault: the registration of a write that did not go out stays.
KeepRegistration(c, d) == UNCHANGED <<pending, waiter>>

\* Whoever's entry is there now is taken away.
RollBack(c, d) ==
    IF c \in Texts THEN waiter' = [waiter EXCEPT ![d] = NoWaiter] /\ UNCHANGED pending
    ELSE pending' = [pending EXCEPT ![d] = None] /\ UNCHANGED waiter

\* DeviceController.set_slot: the trust level first, then the adapter, if one
\* is connected; what went out is noted in the registry at once, afterwards.
Send(c) ==
    /\ pc[c] = "send"
    /\ LET d == Head(left[c]) IN
       IF up /\ <<c, d>> \notin Denied
       THEN /\ queue' = Append(queue, <<d, Want(c)>>) /\ pc' = [pc EXCEPT ![c] = "note"]
            /\ UNCHANGED <<left, pending, waiter, rolled>>
       ELSE /\ RollBack(c, d) /\ left' = [left EXCEPT ![c] = Tail(@)] /\ pc' = [pc EXCEPT ![c] = "register"]
            /\ rolled' = rolled \cup ({c} \cap Satellites) /\ UNCHANGED queue
    /\ UNCHANGED <<awaited, stream, sweep, heard, offline, due, up, echoes, actual, value, silent, flips, losses>>

Note(c) ==
    /\ pc[c] = "note"
    /\ LET d == Head(left[c]) IN
       /\ value' = [value EXCEPT ![d] = Want(c)]
       /\ awaited' = [awaited EXCEPT ![c] = @ \cup ({d} \cap (IF c \in Texts THEN Devices ELSE {}))]
    /\ left' = [left EXCEPT ![c] = Tail(@)] /\ pc' = [pc EXCEPT ![c] = "register"]
    /\ UNCHANGED <<confirm, adapter, history, flips, losses>>

Written(c) ==
    /\ pc[c] = "register" /\ left[c] = <<>>
    /\ pc' = [pc EXCEPT ![c] = IF awaited[c] = {} THEN "over" ELSE "await"]
    /\ UNCHANGED <<left, awaited, confirm, adapter, value, history, flips, losses>>

\* The event is the caller's own; whose waiter it takes away, and reads the
\* result from, is whoever registered last (a text caller per device here).
Await(c, d) ==
    /\ pc[c] = "await" /\ d \in awaited[c]
    /\ c \in due \/ waiter[d].done
    /\ offline' = [offline EXCEPT ![c] = IF waiter[d].success THEN @ ELSE @ \cup {d}]
    /\ waiter' = [waiter EXCEPT ![d] = NoWaiter]
    /\ awaited' = [awaited EXCEPT ![c] = @ \ {d}] /\ pc' = [pc EXCEPT ![c] = IF awaited[c] = {d} THEN "over" ELSE "await"]
    /\ UNCHANGED <<left, pending, stream, sweep, heard, due, adapter, value, history, flips, losses>>

\* Three seconds after execute, long after its writes are queued.
Deadline(c) ==
    /\ pc[c] \in {"await", "over"} /\ c \notin due
    /\ due' = due \cup {c}
    /\ UNCHANGED <<caller, pending, waiter, stream, sweep, heard, offline, adapter, value, history, flips, losses>>

-----------------------------------------------------------------------------
(* The updates, on the stream's thread: registry, pending entry, count, waiter *)

Update ==
    /\ stream.at = "idle" /\ echoes # <<>>
    /\ value' = [value EXCEPT ![Head(echoes)[1]] = Head(echoes)[2]]
    /\ stream' = [Idle EXCEPT !.at = "pop", !.d = Head(echoes)[1], !.v = Head(echoes)[2]]
    /\ echoes' = Tail(echoes)
    /\ UNCHANGED <<caller, pending, waiter, sweep, heard, offline, due, up, queue, actual, history, flips, losses>>

\* A wrong value is reported at once, a right one after counting the rest.
ConfirmPending ==
    /\ stream.at = "pop"
    /\ LET s == pending[stream.d] IN
       /\ pending' = [pending EXCEPT ![stream.d] = None]
       /\ IF s = None THEN stream' = [stream EXCEPT !.at = "wake"] /\ UNCHANGED heard
          ELSE IF stream.v # Want(s)
          THEN stream' = [stream EXCEPT !.at = "wake"] /\ heard' = [heard EXCEPT ![s] = @ \cup {"failed"}]
          ELSE stream' = [stream EXCEPT !.at = "count", !.sat = s] /\ UNCHANGED heard
    /\ UNCHANGED <<caller, waiter, sweep, offline, due, adapter, value, history, flips, losses>>

\* Fault: the device just confirmed is still counted.
CountPendingItself ==
    /\ stream.at = "count" /\ stream' = [stream EXCEPT !.at = "wake"]
    /\ UNCHANGED <<caller, pending, waiter, sweep, heard, offline, due, adapter, value, history, flips, losses>>

\* _count_pending takes the lock anew: the sweep or another command may have
\* changed the entries since.
CountPending ==
    /\ stream.at = "count"
    /\ heard' = IF Remaining(stream.sat) # {} THEN heard ELSE [heard EXCEPT ![stream.sat] = @ \cup {"ok"}]
    /\ stream' = [stream EXCEPT !.at = "wake"]
    /\ UNCHANGED <<caller, pending, waiter, sweep, offline, due, adapter, value, history, flips, losses>>

Wake ==
    /\ stream.at = "wake"
    /\ waiter' = IF waiter[stream.d].by = None THEN waiter
                 ELSE [waiter EXCEPT ![stream.d] = [@ EXCEPT !.done = TRUE, !.success = (stream.v = Want(waiter[stream.d].by))]]
    /\ stream' = Idle
    /\ UNCHANGED <<caller, pending, sweep, heard, offline, due, adapter, value, history, flips, losses>>

\* Fault: the sweep removes one expired entry at a time.
SweepOne ==
    \E d \in Devices :
      /\ sweep = {} /\ pending[d] # None /\ pending[d] \in due
      /\ sweep' = {<<pending[d], d>>} /\ silent' = silent \cup sweep' /\ pending' = [pending EXCEPT ![d] = None]
      /\ UNCHANGED <<caller, waiter, stream, heard, offline, due, adapter, value, rolled, flips, losses>>

\* _timeout_loop: everything due is removed together, then reported.
SweepDue ==
    LET over == {d \in Devices : pending[d] # None /\ pending[d] \in due} IN
    /\ sweep = {} /\ over # {}
    /\ sweep' = {<<pending[d], d>> : d \in over} /\ silent' = silent \cup sweep'
    /\ pending' = [d \in Devices |-> IF d \in over THEN None ELSE pending[d]]
    /\ UNCHANGED <<caller, waiter, stream, heard, offline, due, adapter, value, rolled, flips, losses>>

SweepReports(s, d) ==
    /\ <<s, d>> \in sweep
    /\ heard' = IF Remaining(s) # {} THEN heard ELSE [heard EXCEPT ![s] = @ \cup {"failed"}]
    /\ sweep' = sweep \ {<<s, d>>}
    /\ UNCHANGED <<caller, pending, waiter, stream, offline, due, adapter, value, history, flips, losses>>

-----------------------------------------------------------------------------
(* The adapter and the devices *)

\* The device obeys and the adapter reports it, or nothing happens.
Apply(obeys) ==
    /\ up /\ queue # <<>>
    /\ queue' = Tail(queue)
    /\ IF obeys THEN actual' = [actual EXCEPT ![Head(queue)[1]] = Head(queue)[2]] /\ echoes' = Append(echoes, Head(queue))
       ELSE UNCHANGED <<actual, echoes>>
    /\ UNCHANGED <<caller, confirm, up, value, history, flips, losses>>

Flip(d, v) ==
    /\ up /\ flips < MaxFlips /\ v # actual[d]
    /\ flips' = flips + 1 /\ actual' = [actual EXCEPT ![d] = v] /\ echoes' = Append(echoes, <<d, v>>)
    /\ UNCHANGED <<caller, confirm, up, queue, value, history, losses>>

\* The stream ends: what was queued for the adapter is dropped, what it sent
\* and was not read is lost.
Lose ==
    /\ up /\ losses < MaxLosses /\ losses' = losses + 1
    /\ up' = FALSE /\ queue' = <<>> /\ echoes' = <<>>
    /\ UNCHANGED <<caller, confirm, actual, value, history, flips>>

\* Its first message is the snapshot, which replaces the devices' values.
Reconnect ==
    /\ ~up /\ stream.at = "idle" /\ up' = TRUE /\ value' = actual
    /\ UNCHANGED <<caller, confirm, queue, echoes, actual, history, flips, losses>>

CallerStep(c) == Register(c) \/ Send(c) \/ Note(c) \/ Written(c) \/ Deadline(c) \/ \E d \in Devices : Await(c, d)
StreamStep == Update \/ ConfirmPending \/ CountPending \/ Wake
SweepStep == SweepDue \/ \E s \in Satellites, d \in Devices : SweepReports(s, d)
Next ==
    \/ \E c \in Callers : Execute(c) \/ CallerStep(c)
    \/ StreamStep \/ SweepStep
    \/ \E obeys \in BOOLEAN : Apply(obeys)
    \/ \E d \in Devices, v \in Values : Flip(d, v)
    \/ Lose \/ Reconnect

\* Threads are scheduled and deadlines pass; the adapter owes nothing.
Fairness == WF_vars(StreamStep) /\ WF_vars(SweepStep) /\ \A c \in Callers : WF_vars(CallerStep(c))
Spec == Init /\ [][Next]_vars /\ Fairness

-----------------------------------------------------------------------------
\* A satellite that commanded (once here), and whose writes all went out, is told something in the end,
\* whichever of its devices answer, and however the stream and the sweep
\* interleave (iobroker.py:645).
NobodyIsLeftWaiting ==
    \A s \in Satellites : []<>(pc[s] = "idle" \/ heard[s] # {} \/ s \in rolled)

\* set_feedback_handler: called "wenn alle States bestaetigt wurden oder der
\* Timeout ablaeuft", so for every command of which a write went out
\* (iobroker.py:211).
FeedbackAlwaysComes ==
    \A s \in Satellites : (\E i \in 1..Len(TargetsOf[s]) : pending[TargetsOf[s][i]] = s /\ Len(TargetsOf[s]) - Len(left[s]) >= i
                              /\ pc[s] # "idle") ~> (heard[s] # {})

\* When a command is over and swept, a device that never answered was spoken
\* of: a confirmation of another device does not cover it up.
SilenceIsReported ==
    \A s \in Satellites : (\E d \in Devices : <<s, d>> \in silent) /\ pc[s] = "over" /\ Remaining(s) = {} /\ sweep = {}
                            => "failed" \in heard[s]

\* Every registration has somebody who will take it away: a waiter its caller,
\* a pending entry the stream or the sweep; after a write that did not go out
\* none is left.
RegistrationsEnd ==
    /\ \A d \in Devices : waiter[d].by # None =>
          \/ d \in awaited[waiter[d].by]
          \/ pc[waiter[d].by] \in {"send", "note"} /\ d = Head(left[waiter[d].by])
    /\ \A c \in Texts : pc[c] = "over" => \A d \in Devices : waiter[d].by # c
=============================================================================
