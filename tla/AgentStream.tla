---------------------------- MODULE AgentStream -----------------------------
(***************************************************************************)
(* The streams of the ioBroker adapters.  A connecting adapter is told     *)
(* which states the triggers refer to; it sends its devices, of which the  *)
(* v1 path builds a new map in place, without a lock, on the thread of its *)
(* stream, which may outlive the stream; and the first devices release the *)
(* Timer Service, which may connect before or after them.                  *)
(***************************************************************************)
EXTENDS Naturals, FiniteSets

CONSTANTS Adapters, Generation, \* adapter -> "v1" (states) or "v2" (typed devices)
          Editors, Reloading,   \* threads that edit triggers; the tick thread reloads them, too
          States, Devices,
          MaxChanges, MaxConnects


VARIABLES
    rows, triggers,     \* the states the triggers refer to: in the table, in _triggers
    edit,               \* editor, "tick" -> [at, ids]: its step and what it has read
    undone,             \* history: states that a late _load took out of force again
    stream,             \* adapter -> "off", "attached", "read", "up"
    ids,                \* adapter -> the states its handler has read
    watched,            \* adapter -> the states it was asked to watch
    installed,          \* the devices ioBroker has
    devices,            \* _devices_by_id and devices, in place
    drain,              \* adapter -> the thread that reads its (last) stream
    load,               \* thread -> [todo, at]: the devices it has still to fill in
    newest,             \* the thread that emptied the map last
    begun, beside,      \* history: its devices; what others had still to fill in then
    ready,              \* _iobroker_ready
    housed,             \* history: some adapter's devices were taken in
    timer, told,        \* TimerConnect: "off", "queued", "up"; TimerReady is in its queue
    changes, connects

tables == <<rows, triggers, edit, undone>>
adapters == <<stream, ids, watched>>
loading == <<devices, load, newest, begun, beside>>
house == <<installed, drain, loading, ready, housed>>
timers == <<timer, told>>
vars == <<tables, adapters, house, timers, changes, connects>>

Threads == Editors \cup {"tick"}
Drains == 1..MaxConnects
NoLoad == [todo |-> {}, at |-> "none"]
Filling(l) == load[l].at = "fill"

TypeOK ==
    /\ rows \subseteq States /\ triggers \subseteq States
    /\ edit \in [Threads -> [at : {"idle", "select", "publish", "collect", "push"}, ids : SUBSET States]]
    /\ stream \in [Adapters -> {"off", "attached", "read", "up"}]
    /\ ids \in [Adapters -> SUBSET States] /\ watched \in [Adapters -> SUBSET States]
    /\ undone \subseteq States /\ installed \subseteq Devices /\ devices \subseteq Devices
    /\ drain \in [Adapters -> 0..MaxConnects] /\ newest \in 0..MaxConnects
    /\ begun \subseteq Devices /\ beside \subseteq Devices
    /\ load \in [Drains -> [todo : SUBSET Devices, at : {"none", "fill", "ready", "send", "dead"}]]
    /\ ready \in BOOLEAN /\ housed \in BOOLEAN
    /\ timer \in {"off", "queued", "up"} /\ told \in BOOLEAN
    /\ changes \in 0..MaxChanges /\ connects \in 0..MaxConnects

Init ==
    /\ rows = {} /\ triggers = {} /\ edit = [t \in Threads |-> [at |-> "idle", ids |-> {}]]
    /\ stream = [a \in Adapters |-> "off"]
    /\ ids = [a \in Adapters |-> {}] /\ watched = [a \in Adapters |-> {}]
    /\ installed = {} /\ devices = {} /\ begun = {} /\ beside = {} /\ undone = {}
    /\ drain = [a \in Adapters |-> 0] /\ load = [l \in Drains |-> NoLoad] /\ newest = 0
    /\ ready = FALSE /\ housed = FALSE /\ timer = "off" /\ told = FALSE
    /\ changes = 0 /\ connects = 0

-----------------------------------------------------------------------------
(* Triggers: stored, loaded, and announced to the adapters *)

Step(t, at, what) == edit' = [edit EXCEPT ![t] = [at |-> at, ids |-> what]]

\* create_trigger, update_trigger and the sources of the presence.
Store(t) ==
    /\ t \in Editors /\ edit[t].at = "idle" /\ changes < MaxChanges /\ changes' = changes + 1
    /\ \E s \in States \ rows : rows' = rows \cup {s}
    /\ Step(t, "select", {}) /\ UNCHANGED <<triggers, undone, adapters, house, timers, connects>>

\* _load selects without the lock.  The tick thread does so once a minute.
Select(t) ==
    /\ \/ edit[t].at = "select"
       \/ t = "tick" /\ Reloading /\ edit[t].at = "idle" /\ triggers # rows
    /\ Step(t, "publish", rows) /\ UNCHANGED <<rows, triggers, undone, adapters, house, timers, changes, connects>>
Publish(t) ==
    /\ edit[t].at = "publish" /\ triggers' = edit[t].ids /\ undone' = undone \cup (triggers \ edit[t].ids)
    /\ Step(t, IF t = "tick" THEN "idle" ELSE "collect", {})
    /\ UNCHANGED <<rows, adapters, house, timers, changes, connects>>

\* _refresh_watch_more: the states are collected under the lock and pushed after it.
Collect(t) ==
    /\ edit[t].at = "collect" /\ Step(t, "push", triggers)
    /\ UNCHANGED <<rows, triggers, undone, adapters, house, timers, changes, connects>>

\* Fault: a stream is registered once its adapter was told what to watch.
SessionsTold == {a \in Adapters : stream[a] = "up"}
Sessions == {a \in Adapters : stream[a] # "off"}

\* agent_watch_more, to every session.
WatchMore(what) == watched' = [a \in Adapters |-> IF a \in Sessions THEN watched[a] \cup what ELSE watched[a]]

Push(t) ==
    /\ edit[t].at = "push" /\ WatchMore(edit[t].ids) /\ Step(t, "idle", {})
    /\ UNCHANGED <<rows, triggers, undone, stream, ids, house, timers, changes, connects>>

-----------------------------------------------------------------------------
(* run_agent_stream *)

Attach(a) ==
    /\ stream[a] = "off" /\ connects < MaxConnects /\ connects' = connects + 1
    /\ stream' = [stream EXCEPT ![a] = "attached"] /\ watched' = [watched EXCEPT ![a] = {}]
    /\ drain' = [drain EXCEPT ![a] = connects + 1]
    /\ UNCHANGED <<tables, ids, installed, loading, ready, housed, timers, changes>>

\* _on_agent_connect
ReadIds(a) ==
    /\ stream[a] = "attached" /\ stream' = [stream EXCEPT ![a] = "read"]
    /\ ids' = [ids EXCEPT ![a] = triggers]
    /\ UNCHANGED <<tables, watched, house, timers, changes, connects>>
Welcome(a) ==
    /\ stream[a] = "read" /\ stream' = [stream EXCEPT ![a] = "up"]
    /\ watched' = [b \in Adapters |-> IF b = a \/ b \in Sessions THEN watched[b] \cup ids[a] ELSE watched[b]]
    /\ ids' = [ids EXCEPT ![a] = {}] /\ UNCHANGED <<tables, house, timers, changes, connects>>

\* The queue goes with the stream; its thread, joined for two seconds, goes on
\* loading, beside the threads of later streams.
Detach(a) ==
    /\ stream[a] # "off" /\ stream' = [stream EXCEPT ![a] = "off"]
    /\ ids' = [ids EXCEPT ![a] = {}] /\ watched' = [watched EXCEPT ![a] = {}]
    /\ UNCHANGED <<tables, house, timers, changes, connects>>

-----------------------------------------------------------------------------
(* The devices *)

Install ==
    /\ changes < MaxChanges /\ changes' = changes + 1
    /\ \E d \in Devices : installed' = (installed \ {d}) \cup ({d} \ installed)
    /\ UNCHANGED <<tables, adapters, drain, loading, ready, housed, timers, connects>>

Reads(a) == stream[a] = "up" /\ load[drain[a]].at = "none"
Phase(l, at) == load' = [load EXCEPT ![l].at = at]

\* Fault: the map is not emptied.
MapKept == devices
\* _finalize_loading puts an empty map in place for all threads, and fills it:
\* whoever is still filling goes on in the new one.
MapAtFirst == {}

LegacySnapshot(a) ==
    /\ Reads(a) /\ Generation[a] = "v1"
    /\ devices' = MapAtFirst /\ newest' = drain[a] /\ begun' = installed
    /\ beside' = UNION {load[l].todo : l \in {m \in Drains : Filling(m)}}
    /\ load' = [load EXCEPT ![drain[a]] = [todo |-> installed, at |-> "fill"]]
    /\ UNCHANGED <<tables, adapters, installed, drain, ready, housed, timers, changes, connects>>
FillOne(l, d) ==
    /\ Filling(l) /\ d \in load[l].todo /\ devices' = devices \cup {d}
    /\ load' = [load EXCEPT ![l].todo = @ \ {d}]
    /\ UNCHANGED <<tables, adapters, installed, drain, newest, begun, beside, ready, housed, timers, changes, connects>>
\* The room it was filling is no longer there (KeyError): the thread ends.
Torn(l) ==
    /\ Filling(l) /\ l # newest /\ Phase(l, "dead")
    /\ UNCHANGED <<tables, adapters, installed, drain, devices, newest, begun, beside, ready, housed, timers, changes, connects>>
Loaded(l) ==
    /\ Filling(l) /\ load[l].todo = {} /\ Phase(l, "ready") /\ housed' = TRUE
    /\ UNCHANGED <<tables, adapters, installed, drain, devices, newest, begun, beside, ready, timers, changes, connects>>

\* _on_agent_device_snapshot: first the flag, then the Timer Service, if it is there.
SetReady(l) ==
    /\ load[l].at = "ready" /\ ready' = TRUE /\ Phase(l, "send")
    /\ UNCHANGED <<tables, adapters, installed, drain, devices, newest, begun, beside, housed, timers, changes, connects>>
\* Fault: the queue is put in place when the Core has answered the connect.
LineTaken == timer = "up"
Line == timer # "off"
SendReady(l) ==
    /\ load[l].at = "send" /\ Phase(l, "none") /\ told' = (told \/ Line)
    /\ UNCHANGED <<tables, adapters, installed, drain, devices, newest, begun, beside, ready, housed, timer, changes, connects>>

\* handle_typed_snapshot: the registry takes a v2 adapter's devices; nobody else learns of them.
TypedSnapshot(a) ==
    /\ Reads(a) /\ Generation[a] = "v2" /\ ~housed /\ housed' = TRUE
    /\ UNCHANGED <<tables, adapters, installed, drain, loading, ready, timers, changes, connects>>

-----------------------------------------------------------------------------
(* TimerConnect *)

TimerConnect ==
    /\ timer = "off" /\ connects < MaxConnects /\ connects' = connects + 1
    /\ timer' = "queued" /\ told' = FALSE /\ UNCHANGED <<tables, adapters, house, changes>>
\* _on_timer_connected
TimerAnswered ==
    /\ timer = "queued" /\ timer' = "up" /\ told' = (told \/ ready)
    /\ UNCHANGED <<tables, adapters, house, changes, connects>>
TimerGone ==
    /\ timer = "up" /\ timer' = "off" /\ told' = FALSE /\ UNCHANGED <<tables, adapters, house, changes, connects>>

Next ==
    \/ \E t \in Threads : Store(t) \/ Select(t) \/ Publish(t) \/ Collect(t) \/ Push(t)
    \/ \E a \in Adapters : Attach(a) \/ ReadIds(a) \/ Welcome(a) \/ Detach(a) \/ LegacySnapshot(a) \/ TypedSnapshot(a)
    \/ \E l \in Drains : (\E d \in Devices : FillOne(l, d)) \/ Torn(l) \/ Loaded(l) \/ SetReady(l) \/ SendReady(l)
    \/ Install \/ TimerConnect \/ TimerAnswered \/ TimerGone
Spec == Init /\ [][Next]_vars

-----------------------------------------------------------------------------
\* Whatever crosses the connect of an adapter, once nobody edits, an adapter
\* that was welcomed watches every state the triggers in force refer to (a
\* trigger is stored before it is announced, a stream registered before the
\* triggers are read); but a state that a _load overtaken by an edit took out of
\* force again, and the tick brought back without a word to the adapters.
TriggersAreWatched ==
    (\A t \in Threads : edit[t].at = "idle") =>
        \A a \in Adapters : stream[a] = "up" => triggers \ undone \subseteq watched[a]

\* Claimed at core/hannah/trigger_engine.py:263: the adapter is told of all
\* states the triggers refer to.
AllAreWatched ==
    (\A t \in Threads : edit[t].at = "idle") => \A a \in Adapters : stream[a] = "up" => triggers \subseteq watched[a]

\* Between loads the house is the snapshot whose load began last: none of its
\* devices is missing, and nothing else is there but what other threads had
\* still to fill in when it began.  So it is that snapshot when loads do not overlap.
HouseIsOneSnapshot ==
    (\A l \in Drains : ~Filling(l)) => begun \subseteq devices /\ devices \subseteq begun \cup beside

\* Stated, and refuted: nothing of an older snapshot stays.
NothingStays == (\A l \in Drains : ~Filling(l)) => devices = begun

\* A Timer Service that is connected has been released once an adapter's
\* devices were taken in, whichever of the two came first (the promise of
\* TimerReady).
TimerIsReleased == housed /\ (\A l \in Drains : load[l].at \notin {"ready", "send"}) /\ timer = "up" => told

\* Stated, and refuted: a device that stays installed never leaves the house.
NoDeviceBlinks == [][\A d \in devices : d \in devices' \/ d \notin installed]_vars
=============================================================================
