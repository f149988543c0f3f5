------------------------------ MODULE Triggers ------------------------------
(***************************************************************************)
(* One trigger of the TriggerEngine that waits ("for"): it fires when its  *)
(* state turns "on" or at its time of day, its delay runs in the external  *)
(* Timer Service, cancel_when (the state turns "off") withdraws it.  The   *)
(* agent's stream, the tick loop and the reader of the timer stream are    *)
(* threads; the engine's lock covers single steps only.  The Core may      *)
(* restart; the state cache survives in a file.                            *)
(***************************************************************************)
EXTENDS Naturals, Sequences, FiniteSets

CONSTANTS Cooldown,   \* in ticks
          Instant,    \* a timer may expire before its id was recorded
          Boot,       \* the host's uptime at the start, at most Cooldown
          MaxChanges, MaxDue, MaxRestarts, None

TriggersAssumption == Cooldown \in Nat /\ Boot \in 0..Cooldown /\ Instant \in BOOLEAN

Values == {"on", "off"}
Firers == {"agent", "tick"}
MaxTimers == MaxChanges + MaxDue
Timers == 1..MaxTimers

VARIABLES real, changes, rises,  \* the state in ioBroker, its changes, those to "on"
          updates,               \* messages of the agent: [kind, value]
          cache, saved,          \* _state_cache and its file, None: unknown
          job,                   \* thread -> what it does next
          fired,                 \* ticks since _last_fired, None: not in this process
          uptime,                \* time.monotonic(), saturated at Cooldown
          recorded,              \* _delay_timers[trigger]: a timer id or None
          link, commands, events, \* the timer stream and what is under way on it
          timers,                \* in the Timer Service
          created, firings, due, restarts

vars == <<real, changes, rises, updates, cache, saved, job, fired, uptime, recorded, link,
          commands, events, timers, created, firings, due, restarts>>
world == <<real, changes, rises>>
states == <<updates, cache, saved>>
stream == <<link, commands, events, timers>>
clocks == <<fired, uptime>>
counts == <<created, firings, due, restarts>>

Idle == [pc |-> "idle"]
Doing(pc) == [pc |-> pc]
With(pc, id) == [pc |-> pc, id |-> id]

TypeOK == /\ real \in Values /\ cache \in Values \cup {None} /\ saved \in Values \cup {None}
          /\ fired \in 0..Cooldown \cup {None} /\ uptime \in 0..Cooldown
          /\ recorded \in Timers \cup {None} /\ timers \subseteq Timers /\ link \in BOOLEAN

-----------------------------------------------------------------------------
\* The device changes; the adapter may also repeat what it already said.
Change(v) == /\ v # real /\ changes < MaxChanges /\ changes' = changes + 1
             /\ real' = v /\ rises' = rises + (IF v = "on" THEN 1 ELSE 0)
             /\ updates' = Append(updates, [kind |-> "update", value |-> v])
             /\ UNCHANGED <<cache, saved, job, clocks, recorded, stream, counts>>
Repeat == /\ updates = <<>> /\ updates' = <<[kind |-> "update", value |-> real]>>
          /\ UNCHANGED <<world, cache, saved, job, clocks, recorded, stream, counts>>

\* on_state_update and seed_state: the cache tells a transition from a repetition.
TakeUpdate ==
    /\ updates # <<>> /\ job["agent"] = Idle
    /\ LET u == Head(updates) IN
         /\ updates' = Tail(updates) /\ cache' = u.value
         /\ job' = [job EXCEPT !["agent"] = IF cache = u.value THEN Idle
                                            ELSE [pc |-> "save", kind |-> u.kind, value |-> u.value]]
    /\ UNCHANGED <<world, saved, clocks, recorded, stream, counts>>

\* _save_state_cache, of the copy taken under the lock; then the conditions.
SaveCache ==
    /\ job["agent"].pc = "save" /\ saved' = job["agent"].value
    /\ job' = [job EXCEPT !["agent"] = IF @.kind = "seed" THEN Idle
                                       ELSE IF @.value = "off" THEN Doing("cancel") ELSE Doing("fire")]
    /\ UNCHANGED <<world, updates, cache, clocks, recorded, stream, counts>>

Send(c) == commands' = IF link THEN Append(commands, c) ELSE commands

\* Fault: the timer is cancelled, its record stays.
CancelKeepsRecord ==
    /\ job["agent"].pc = "cancel"
    /\ job' = [job EXCEPT !["agent"] = IF recorded = None THEN Idle ELSE With("withdraw", recorded)]
    /\ UNCHANGED <<world, states, clocks, recorded, stream, counts>>

CancelDelay ==
    /\ job["agent"].pc = "cancel" /\ recorded' = None
    /\ job' = [job EXCEPT !["agent"] = IF recorded = None THEN Idle ELSE With("withdraw", recorded)]
    /\ UNCHANGED <<world, states, clocks, stream, counts>>
Withdraw == /\ job["agent"].pc = "withdraw" /\ Send([cmd |-> "cancel", id |-> job["agent"].id])
            /\ job' = [job EXCEPT !["agent"] = Idle]
            /\ UNCHANGED <<world, states, clocks, recorded, link, events, timers, counts>>

\* _check_time_triggers: a time that is due, with the state as its "also".
TimeIsDue == /\ job["tick"] = Idle /\ due < MaxDue /\ due' = due + 1
             /\ job' = [job EXCEPT !["tick"] = IF cache = "on" THEN Doing("fire") ELSE Idle]
             /\ UNCHANGED <<world, states, clocks, recorded, stream, created, firings, restarts>>

\* _fire: a trigger that has not fired yet counts as fired at monotonic 0.
Since == IF fired = None THEN uptime ELSE fired
Fire(t) ==
    /\ job[t].pc = "fire"
    /\ IF Since < Cooldown THEN job' = [job EXCEPT ![t] = Idle] /\ UNCHANGED <<fired, firings>>
       ELSE job' = [job EXCEPT ![t] = Doing("delay")] /\ fired' = 0 /\ firings' = firings + 1
    /\ UNCHANGED <<world, states, uptime, recorded, stream, created, due, restarts>>

\* _schedule_delay: nothing if a timer is recorded, ...
ScheduleDelay(t) ==
    /\ job[t].pc = "delay"
    /\ IF recorded # None THEN job' = [job EXCEPT ![t] = Idle] /\ UNCHANGED created
       ELSE job' = [job EXCEPT ![t] = With("create", created + 1)] /\ created' = created + 1
    /\ UNCHANGED <<world, states, clocks, recorded, stream, firings, due, restarts>>
\* ... else it is sent, whether or not a Timer Service is there, ...
CreateTimer(t) ==
    /\ job[t].pc = "create" /\ Send([cmd |-> "create", id |-> job[t].id])
    /\ job' = [job EXCEPT ![t] = With("record", @.id)]
    /\ UNCHANGED <<world, states, clocks, recorded, link, events, timers, counts>>
\* ... and recorded in a second critical section.
RecordTimer(t) ==
    /\ job[t].pc = "record" /\ recorded' = job[t].id /\ job' = [job EXCEPT ![t] = Idle]
    /\ UNCHANGED <<world, states, clocks, stream, counts>>

-----------------------------------------------------------------------------
\* The Timer Service obeys, and reports what has expired.
Obey == /\ commands # <<>> /\ commands' = Tail(commands)
        /\ LET c == Head(commands) IN
             /\ timers' = CASE c.cmd = "create" -> timers \cup {c.id}
                            [] c.cmd = "cancel" -> timers \ {c.id}
                            [] c.cmd = "list" -> timers
             /\ events' = IF c.cmd = "list" THEN Append(events, [event |-> "list", ids |-> timers]) ELSE events
        /\ UNCHANGED <<world, states, job, clocks, recorded, link, counts>>
Expire(id) ==
    /\ link /\ id \in timers /\ (Instant \/ \A t \in Firers : job[t] # With("record", id))
    /\ timers' = timers \ {id} /\ events' = Append(events, [event |-> "fired", ids |-> {id}])
    /\ UNCHANGED <<world, states, job, clocks, recorded, link, commands, counts>>

\* fire_delayed: whatever timer is recorded is taken, the action follows.
FireDelayed == /\ job["drain"] = Idle /\ events # <<>> /\ Head(events).event = "fired"
               /\ events' = Tail(events) /\ recorded' = None
               /\ UNCHANGED <<world, states, job, clocks, link, commands, timers, counts>>

\* reconcile_timers looks at the cache, then restores or cancels.
Reconcile == /\ job["drain"] = Idle /\ events # <<>> /\ Head(events).event = "list"
             /\ events' = Tail(events)
             /\ job' = [job EXCEPT !["drain"] =
                   [pc |-> IF cache = "off" THEN "drop" ELSE "restore", ids |-> Head(events).ids]]
             /\ UNCHANGED <<world, states, clocks, recorded, link, commands, timers, counts>>
ReconcileOne ==
    /\ job["drain"].pc \in {"drop", "restore"}
    /\ LET ids == job["drain"].ids IN
       IF ids = {} THEN job' = [job EXCEPT !["drain"] = Idle] /\ UNCHANGED <<recorded, commands>>
       ELSE \E id \in ids :
              /\ job' = [job EXCEPT !["drain"].ids = ids \ {id}]
              /\ IF job["drain"].pc = "restore" THEN recorded' = id /\ UNCHANGED commands
                 ELSE Send([cmd |-> "cancel", id |-> id]) /\ UNCHANGED recorded
    /\ UNCHANGED <<world, states, clocks, link, events, timers, counts>>

\* TimerConnect ends and begins; the new stream asks for the list.
LinkDown == /\ link /\ link' = FALSE /\ commands' = <<>> /\ events' = <<>>
            /\ UNCHANGED <<world, states, job, clocks, recorded, timers, counts>>
LinkUp == /\ ~link /\ link' = TRUE /\ commands' = <<[cmd |-> "list"]>>
          /\ UNCHANGED <<world, states, job, clocks, recorded, events, timers, counts>>

Pass == /\ fired' = IF fired \in 0..Cooldown - 1 THEN fired + 1 ELSE fired
        /\ uptime' = IF uptime < Cooldown THEN uptime + 1 ELSE uptime
        /\ UNCHANGED <<world, states, job, recorded, stream, counts>>

\* Fault: the cache starts empty.
RestartEmpty ==
    /\ restarts < MaxRestarts /\ restarts' = restarts + 1
    /\ cache' = None /\ updates' = <<>> /\ job' = [t \in DOMAIN job |-> Idle]
    /\ fired' = None /\ recorded' = None
    /\ link' = FALSE /\ commands' = <<>> /\ events' = <<>>
    /\ UNCHANGED <<world, saved, uptime, timers, created, firings, due>>

\* The Core restarts: the cache comes from its file; once the adapter is
\* back, it says what the state is now (AgentStateUpdate.initial).
Restart ==
    /\ restarts < MaxRestarts /\ restarts' = restarts + 1
    /\ cache' = saved /\ updates' = <<>> /\ job' = [t \in DOMAIN job |-> Idle]
    /\ fired' = None /\ recorded' = None
    /\ link' = FALSE /\ commands' = <<>> /\ events' = <<>>
    /\ UNCHANGED <<world, saved, uptime, timers, created, firings, due>>
Initial == /\ restarts > 0 /\ updates = <<>> /\ cache # real
           /\ updates' = <<[kind |-> "seed", value |-> real]>>
           /\ UNCHANGED <<world, cache, saved, job, clocks, recorded, stream, counts>>

Init == /\ real = "off" /\ changes = 0 /\ rises = 0 /\ updates = <<>>
        /\ cache \in {None, "off"} /\ saved = cache /\ job = [t \in Firers \cup {"drain"} |-> Idle]
        /\ fired = None /\ uptime = Boot /\ recorded = None
        /\ link = TRUE /\ commands = <<>> /\ events = <<>> /\ timers = {}
        /\ created = 0 /\ firings = 0 /\ due = 0 /\ restarts = 0

Firing(t) == Fire(t) \/ ScheduleDelay(t) \/ CreateTimer(t) \/ RecordTimer(t)
Agent == TakeUpdate \/ SaveCache \/ CancelDelay \/ Withdraw
Drain == FireDelayed \/ Reconcile \/ ReconcileOne
Next == \/ \E v \in Values : Change(v)
        \/ Repeat \/ Initial \/ Agent \/ TimeIsDue \/ Drain \/ Obey \/ Pass
        \/ LinkDown \/ LinkUp \/ Restart
        \/ \E t \in Firers : Firing(t)
        \/ \E id \in Timers : Expire(id)

\* Threads that run go on; a connected Timer Service obeys and lets timers expire.
Fairness == /\ WF_vars(Agent) /\ WF_vars(Drain) /\ WF_vars(Obey)
            /\ \A t \in Firers : WF_vars(Firing(t))
            /\ \A id \in Timers : WF_vars(Expire(id))

Spec == Init /\ [][Next]_vars /\ Fairness

-----------------------------------------------------------------------------
\* "One firing per transition" across restarts (trigger_engine.py:809): the
\* trigger fires no more often than its state rose or its time came, however
\* often the adapter repeats a value and wherever the Core stops.
FiresOnlyOnTransition == firings <= rises + due

\* While the Timer Service stays connected, a delay that began ends: its timer
\* expires or is withdrawn, and the trigger can be delayed again.
DelayEnds == [](link) => []<>(recorded = None)

\* "for: a waiting time before the action, in the Timer Service"
\* (trigger_engine.py:71): a recorded timer exists, is on its way there, or
\* its event is on its way back.
RecordedExists ==
    recorded # None => \/ recorded \in timers
                       \/ \E i \in 1..Len(commands) : commands[i].cmd = "create" /\ commands[i].id = recorded
                       \/ \E i \in 1..Len(events) : recorded \in events[i].ids

\* "cooldown: minimum distance between two firings" (trigger_engine.py:73): a
\* trigger that never fired is not held back by it.
FirstFiringIsFree ==
    [][\A t \in Firers : job[t].pc = "fire" /\ job'[t] = Idle /\ restarts' = restarts => firings > 0]_vars
=============================================================================
