------------------------------ MODULE Presence ------------------------------
(***************************************************************************)
(* Whether one user is at home: PresenceManager fuses raw signals into a   *)
(* decision, the residents adapter reports the same person from outside,   *)
(* and satellites that want to update their firmware wait until nobody is  *)
(* there.  Fusion runs on three threads (agent stream, MQTT, periodic      *)
(* tick); it decides under its lock and writes the user after it.  The     *)
(* handlers of a resident's events run on threads of their own.            *)
(***************************************************************************)
EXTENDS Naturals, FiniteSets, FiniteSetsExt

CONSTANTS States, Tags,          \* sources: iobroker_state and ble_tag
          HomeConf, AwayConf,    \* source -> confidence
          Grace, Stale,          \* grace_period_seconds, ble_staleness_seconds
          Handlers, Devices, MaxSignals, None

Sources == States \cup Tags
Fusers == {"agent", "mqtt", "tick"}
Threads == Fusers \cup Handlers
UserStates == {"away", "home", "asleep"}

ConfidenceAssumption == HomeConf \in [Sources -> Nat] /\ AwayConf \in [Sources -> Nat]
TimesAssumption == Grace \in Nat /\ Stale \in Nat
ThreadsAssumption == Fusers \cap Handlers = {}

VARIABLES raw,       \* source -> its last value, "none", "home" or "away" (_raw)
          seenAge,   \* source -> time since then, saturated at Stale + 1
          pending,   \* time since _pending_away_since, or None
          sinceHome, \* time since a fusion last found the user at home (history)
          user,      \* user.presence_state
          resident,  \* the Resident's presence_state, None: never reported
          job,       \* thread -> what it is about to do
          waiting, released,  \* _ota_pending and the satellites told to update
          signals    \* signals and reports so far

vars == <<raw, seenAge, pending, sinceHome, user, resident, job, waiting, released, signals>>
presence == <<raw, seenAge, pending, sinceHome>>
ota == <<waiting, released>>

Idle == [pc |-> "idle"]
Doing(pc) == [pc |-> pc]
Writing(pc, state) == [pc |-> pc, to |-> state]

TypeOK == /\ raw \in [Sources -> {"none", "home", "away"}] /\ seenAge \in [Sources -> 0..Stale + 1]
          /\ pending \in 0..Grace \cup {None} /\ sinceHome \in 0..Grace
          /\ user \in UserStates /\ resident \in UserStates \cup {None}
          /\ waiting \subseteq Devices /\ released \subseteq Devices /\ signals \in 0..MaxSignals

-----------------------------------------------------------------------------
Strongest(S, conf) == Max({0} \cup {conf[s] : s \in S})
Heard == {s \in Sources : raw[s] # "none"}
CountsHome == {s \in Heard : raw[s] = "home" /\ ~(s \in Tags /\ seenAge[s] > Stale)}
HomeWins == Strongest(CountsHome, HomeConf) >= Strongest(Heard \ CountsHome, AwayConf)

\* on_state_update: the value of a level triggered source.
StateUpdate(s, value) ==
    /\ job["agent"] = Idle /\ signals < MaxSignals /\ signals' = signals + 1
    /\ raw' = [raw EXCEPT ![s] = value] /\ seenAge' = [seenAge EXCEPT ![s] = 0]
    /\ job' = [job EXCEPT !["agent"] = Doing("fuse")]
    /\ UNCHANGED <<pending, sinceHome, user, resident, ota>>

\* on_ble_sighting: every tag source of the user is fresh.
Sighting ==
    /\ job["mqtt"] = Idle /\ Tags # {} /\ signals < MaxSignals /\ signals' = signals + 1
    /\ raw' = [s \in Sources |-> IF s \in Tags THEN "home" ELSE raw[s]]
    /\ seenAge' = [s \in Sources |-> IF s \in Tags THEN 0 ELSE seenAge[s]]
    /\ job' = [job EXCEPT !["mqtt"] = Doing("fuse")]
    /\ UNCHANGED <<pending, sinceHome, user, resident, ota>>

Tick ==
    /\ job["tick"] = Idle /\ job' = [job EXCEPT !["tick"] = Doing("fuse")]
    /\ UNCHANGED <<presence, user, resident, ota, signals>>

\* Fault: a home signal does not end the grace period that runs.
FuseKeepsPending(t) ==
    /\ job[t] = Doing("fuse")
    /\ IF HomeWins
       THEN /\ UNCHANGED pending /\ sinceHome' = 0
            /\ job' = [job EXCEPT ![t] = Writing("apply", "home")]
       ELSE /\ pending' = IF pending = None THEN 0 ELSE pending
            /\ job' = [job EXCEPT ![t] = IF pending # None /\ pending >= Grace THEN Writing("apply", "away") ELSE Idle]
            /\ UNCHANGED sinceHome
    /\ UNCHANGED <<raw, seenAge, user, resident, ota, signals>>

\* Fault: every fusion that finds the user away starts the grace period anew.
FuseRestartsGrace(t) ==
    /\ job[t] = Doing("fuse")
    /\ IF HomeWins
       THEN /\ pending' = None /\ sinceHome' = 0
            /\ job' = [job EXCEPT ![t] = Writing("apply", "home")]
       ELSE /\ pending' = 0
            /\ job' = [job EXCEPT ![t] = IF pending # None /\ pending >= Grace THEN Writing("apply", "away") ELSE Idle]
            /\ UNCHANGED sinceHome
    /\ UNCHANGED <<raw, seenAge, user, resident, ota, signals>>

\* Fault: "home" is only decided when it ends a grace period.
FuseEdgesOnly(t) ==
    /\ job[t] = Doing("fuse")
    /\ IF HomeWins
       THEN /\ pending' = None /\ sinceHome' = 0
            /\ job' = [job EXCEPT ![t] = IF pending = None THEN Idle ELSE Writing("apply", "home")]
       ELSE /\ pending' = IF pending = None THEN 0 ELSE pending
            /\ job' = [job EXCEPT ![t] = IF pending # None /\ pending >= Grace THEN Writing("apply", "away") ELSE Idle]
            /\ UNCHANGED sinceHome
    /\ UNCHANGED <<raw, seenAge, user, resident, ota, signals>>

\* _run_fusion, under the lock.
Fuse(t) ==
    /\ job[t] = Doing("fuse")
    /\ IF HomeWins
       THEN /\ pending' = None /\ sinceHome' = 0
            /\ job' = [job EXCEPT ![t] = Writing("apply", "home")]
       ELSE /\ pending' = IF pending = None THEN 0 ELSE pending
            /\ job' = [job EXCEPT ![t] = IF pending # None /\ pending >= Grace THEN Writing("apply", "away") ELSE Idle]
            /\ UNCHANGED sinceHome
    /\ UNCHANGED <<raw, seenAge, user, resident, ota, signals>>

\* _apply, without the lock: the user is looked at, then written.
Apply(t) ==
    /\ job[t].pc = "apply"
    /\ job' = [job EXCEPT ![t] = IF user = "asleep" \/ user = @.to THEN Idle ELSE Writing("write", @.to)]
    /\ UNCHANGED <<presence, user, resident, ota, signals>>

\* The assignment to user.presence_state, by fusion or by a handler.
Write(t) ==
    /\ job[t].pc = "write" /\ user' = job[t].to
    /\ job' = [job EXCEPT ![t] = Idle]
    /\ UNCHANGED <<presence, resident, ota, signals>>

-----------------------------------------------------------------------------
\* Resident.update on the agent's stream: every edge starts a handler thread.
\* The first report ever has nothing to compare with and starts none.
IsHome(state) == state # "away"      \* is_home of a roomie without a report is TRUE
Edges(old, new) ==
    IF old = None THEN {}
    ELSE (IF IsHome(old) # IsHome(new) THEN {IF IsHome(new) THEN "arrival" ELSE "departure"} ELSE {})
         \cup (IF (old = "asleep") # (new = "asleep") THEN {"sleep"} ELSE {})

ResidentReport(state) ==
    /\ job["agent"] = Idle /\ signals < MaxSignals /\ signals' = signals + 1
    /\ resident' = state
    /\ \E run \in [Edges(resident, state) -> {h \in Handlers : job[h] = Idle}] :
          /\ \A e, f \in DOMAIN run : e # f => run[e] # run[f]
          /\ job' = [t \in Threads |-> IF \E e \in DOMAIN run : run[e] = t
                                       THEN Doing(CHOOSE e \in DOMAIN run : run[e] = t) ELSE job[t]]
    /\ UNCHANGED <<presence, user, ota>>

\* _user_presence_state: every handler takes the whole state the resident has now.
HandlerReads(h) ==
    /\ job[h].pc \in {"arrival", "departure", "sleep"}
    /\ job' = [job EXCEPT ![h] = [pc |-> "handle", to |-> resident, departs |-> job[h].pc = "departure"]]
    /\ UNCHANGED <<presence, user, resident, ota, signals>>

HandlerWrites(h) ==
    /\ job[h].pc = "handle" /\ user' = job[h].to
    /\ job' = [job EXCEPT ![h] = IF @.departs THEN Doing("release") ELSE Idle]
    /\ UNCHANGED <<presence, resident, ota, signals>>

\* The end of _on_resident_departure: _release_ota_updates if all are away.
ReleaseOta(h) ==
    /\ job[h] = Doing("release") /\ job' = [job EXCEPT ![h] = Idle]
    /\ IF IsHome(resident) THEN UNCHANGED ota
       ELSE released' = released \cup waiting /\ waiting' = {}
    /\ UNCHANGED <<presence, user, resident, signals>>

\* _on_ota_pending asks whether anybody is there ...
OtaPending(d) ==
    /\ job["mqtt"] = Idle /\ d \notin waiting \cup released
    /\ IF IsHome(resident) THEN job' = [job EXCEPT !["mqtt"] = [pc |-> "queue", device |-> d]] /\ UNCHANGED ota
       ELSE released' = released \cup {d} /\ UNCHANGED <<waiting, job>>
    /\ UNCHANGED <<presence, user, resident, signals>>

\* ... and queues the satellite if so.
QueueOta ==
    /\ job["mqtt"].pc = "queue" /\ waiting' = waiting \cup {job["mqtt"].device}
    /\ job' = [job EXCEPT !["mqtt"] = Idle]
    /\ UNCHANGED <<presence, user, resident, released, signals>>

Pass ==
    /\ seenAge' = [s \in Sources |-> IF s \in Tags /\ seenAge[s] <= Stale THEN seenAge[s] + 1 ELSE seenAge[s]]
    /\ pending' = IF pending = None \/ pending = Grace THEN pending ELSE pending + 1
    /\ sinceHome' = IF sinceHome = Grace THEN Grace ELSE sinceHome + 1
    /\ UNCHANGED <<raw, user, resident, job, ota, signals>>

Init == /\ raw = [s \in Sources |-> "none"] /\ seenAge = [s \in Sources |-> 0]
        /\ pending = None /\ sinceHome = 0 /\ user = "away" /\ resident = None
        /\ job = [t \in Threads |-> Idle] /\ waiting = {} /\ released = {} /\ signals = 0

Work(t) == Fuse(t) \/ Apply(t) \/ Write(t)
Handle(h) == HandlerReads(h) \/ HandlerWrites(h) \/ ReleaseOta(h)
Next == \/ \E s \in States, v \in {"home", "away"} : StateUpdate(s, v)
        \/ Sighting \/ Tick \/ Pass \/ QueueOta
        \/ \E t \in Fusers : Work(t)
        \/ \E h \in Handlers : Handle(h)
        \/ \E state \in UserStates : ResidentReport(state)
        \/ \E d \in Devices : OtaPending(d)

\* The tick loop runs for ever, time passes, threads that run go on.
Fairness == /\ WF_vars(Tick) /\ WF_vars(Pass) /\ WF_vars(QueueOta)
            /\ \A t \in Fusers : WF_vars(Work(t))
            /\ \A h \in Handlers : WF_vars(Handle(h))

Spec == Init /\ [][Next]_vars /\ Fairness

-----------------------------------------------------------------------------
\* Hysteresis (presence_manager.py:20): fusion decides "away" only if no
\* fusion on any thread found the user at home for the whole grace period.
AwayNeedsGrace ==
    [][\A t \in Fusers : job[t].pc = "fuse" /\ job'[t].pc = "apply" /\ job'[t].to = "away"
           => sinceHome = Grace]_vars

\* A decision may be overtaken between lock and write (presence_manager.py:169),
\* and a handler may write what the resident was before: the next tick heals
\* it.  A user whose signals say home for good ends up at home ...
HomeInTheEnd == <>[]HomeWins => <>[](user \in {"home", "asleep"})

\* ... and one whose signals say away for good ends up away, unless asleep.
AwayInTheEnd == <>[](~HomeWins) => <>[](user \in {"away", "asleep"})

\* So the presence of a user comes to be what the signals say.
PresenceSettles == HomeInTheEnd /\ AwayInTheEnd

\* "Queues the device and releases all pending updates when the last resident
\* leaves" (CHANGELOG.md:2822): nothing waits in an empty house.
NothingWaitsWhenAway ==
    (resident = "away" /\ \A t \in Threads : job[t] = Idle) => waiting = {}
=============================================================================
