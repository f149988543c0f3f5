------------------------------- MODULE MCHome -------------------------------
(* One run for what the house does (part): a trigger that waits, the        *)
(* conditions of triggers, the confirmation of commands and the typed       *)
(* devices.                                                                 *)
EXTENDS Integers, Sequences, FiniteSets, SequenceTheorems, FiniteSetTheorems, TLAPS
CONSTANTS Cooldown, Instant, Boot, MaxChanges, MaxDue, MaxRestarts, Unset, StateIds,
          Satellites, Texts, Devices, Forbidden, MaxFlips, MaxLosses, MaxStates, Percents, Parts
VARIABLES part, broke,   \* history: the Timer Service was disconnected once
          real, changes, rises, updates, cache, saved, job, fired, uptime, recorded, link, commands, events,
          timers, created, firings, due, restarts,
          when, known,
          pc, left, awaited, expired, pending, waiter, stream, sweep, heard, offline, up, queue, echoes,
          actual, value, rolled, silent, flips, losses,
          states, cover, wire

T == INSTANCE Triggers WITH None <- Unset
C == INSTANCE TriggerConditions WITH cache <- known, Absent <- Unset
\* The satellite commands both devices, the text caller one of them.
TargetsOf == [c \in Satellites \cup Texts |-> IF c \in Satellites THEN <<"lamp", "blind">> ELSE <<"blind">>]
Denied == Satellites \X Forbidden
D == INSTANCE DeviceCommands WITH due <- expired
M == INSTANCE DeviceModel
ASSUME ConstantsOK == T!TriggersAssumption /\ C!ConditionsAssumption /\ D!CommandsAssumption /\ M!PercentsAssumption

delay == <<real, changes, rises, updates, cache, saved, job, fired, uptime, recorded, link, commands, events,
           timers, created, firings, due, restarts>>
conditions == <<when, known>>
confirming == <<pc, left, awaited, expired, pending, waiter, stream, sweep, heard, offline, up, queue, echoes,
                actual, value, rolled, silent, flips, losses>>
model == <<states, cover, wire>>
vars == <<part, broke, delay, conditions, confirming, model>>
\* The Core restarts or the Timer Service is lost, a stream breaks or somebody
\* is at a device: one of the two in a behaviour (bounds).
Delay(A) == /\ part = "delay" /\ A /\ broke' = (broke \/ (link /\ ~link' /\ restarts' = restarts))
            /\ ~(broke' /\ restarts' > 0)
            /\ UNCHANGED <<part, conditions, confirming, model>>
Conditions(A) == part = "conditions" /\ A /\ UNCHANGED <<part, broke, delay, confirming, model>>
Commands(A) == part = "commands" /\ A /\ flips' + losses' <= 1 /\ UNCHANGED <<part, broke, delay, conditions, model>>
Model(A) == part = "model" /\ A /\ UNCHANGED <<part, broke, delay, conditions, confirming>>
Init == /\ part \in Parts /\ broke = FALSE /\ T!Init /\ D!Init
        /\ part = "delay" \/ cache = Unset
        /\ IF part = "conditions" THEN C!Init ELSE when = {} /\ known = <<>>
        /\ IF part = "model" THEN M!Init ELSE states = <<>> /\ cover = "none" /\ wire = M!Unsent
Next == Delay(T!Next) \/ Conditions(C!Next) \/ Commands(D!Next) \/ Model(M!Next)
Fairness ==
    /\ WF_vars(Delay(T!Agent)) /\ WF_vars(Delay(T!Drain)) /\ WF_vars(Delay(T!Obey))
    /\ \A t \in T!Firers : WF_vars(Delay(T!Firing(t)))
    /\ \A id \in T!Timers : WF_vars(Delay(T!Expire(id)))
    /\ WF_vars(Commands(D!StreamStep)) /\ WF_vars(Commands(D!SweepStep))
    /\ \A c \in D!Callers : WF_vars(Commands(D!CallerStep(c)))
Spec == Init /\ [][Next]_vars /\ Fairness

\* Triggers, TriggerConditions, DeviceCommands and DeviceModel state these properties.
\* One firing per transition, across restarts.
FiresOnlyOnTransition == T!FiresOnlyOnTransition
\* Joining times and states to one list keeps what a trigger asks for.
ConditionsJoin == part = "conditions" => C!ConditionsJoin
\* A satellite that commanded is told something in the end.
NobodyIsLeftWaiting == D!NobodyIsLeftWaiting
\* A typed device is the adapter's device; one that does not answer a command
\* is spoken of, and leaves no registration behind.
DevicesAsReported == (part = "model" => M!DevicesAsReported) /\ D!SilenceIsReported /\ D!RegistrationsEnd
\* A delay that began ends: Triggers' DelayEnds, its premise []link as the history says it.
DelayEnds == []<>(recorded = Unset \/ broke \/ restarts > 0)

-----------------------------------------------------------------------------
(* What the run checks of a trigger is proved here for every number of      *)
(* changes, of times and of restarts, whatever the cooldown.                *)

\* A step of the run is a step of the trigger or leaves it alone.
LEMMA DelayStep == [Next]_vars => [T!Next]_(T!vars)
BY DEF Next, vars, Delay, Conditions, Commands, Model, delay, T!vars

\* The values that the cache takes on, one after the other, until it has read
\* all that the agent sent; a rise is a transition that lets the trigger fire.
Value(i) == IF i = 0 THEN cache ELSE updates[i].value
Rise(a, b) == a # "on" /\ b = "on"
\* Whether a thread is on its way to a firing.
AgentOwes == IF job["agent"].pc = "fire" \/ (job["agent"].pc = "save" /\ job["agent"].value = "on") THEN 1 ELSE 0
TickOwes == IF job["tick"].pc = "fire" THEN 1 ELSE 0

DelayType ==
    /\ real \in T!Values /\ rises \in Nat /\ due \in Nat /\ firings \in Nat
    /\ updates \in Seq([kind : {"update", "seed"}, value : T!Values])
    /\ job = [t \in T!Firers \cup {"drain"} |-> job[t]]

\* The file follows the cache before the trigger fires.
SavedInv ==
    IF job["agent"].pc = "save" THEN job["agent"].value = cache /\ cache \in T!Values ELSE saved = cache

\* A count n of rises can be given to each of these values, such that it goes
\* up with every rise from an earlier to a later one, the first covers what has
\* fired or will, and none has more than there were.
Counted(n) ==
    /\ firings + AgentOwes + TickOwes <= n[0] + due
    /\ \A i, j \in 0..Len(updates) : i < j => n[i] <= n[j] /\ (Rise(Value(i), Value(j)) => n[i] + 1 <= n[j])
    /\ \A i \in 0..Len(updates) : n[i] <= rises /\ (Rise(Value(i), real) => n[i] + 1 <= rises)
DelayInv == DelayType /\ SavedInv /\ \E n \in [0..Len(updates) -> Int] : Counted(n)

\* Owing is a number.
LEMMA Owing == AgentOwes \in Nat /\ TickOwes \in Nat /\ AgentOwes' \in Nat /\ TickOwes' \in Nat
BY DEF AgentOwes, TickOwes

\* Steps that touch neither the values nor the threads' ways to a firing.
LEMMA Aside ==
    ASSUME DelayInv, UNCHANGED <<real, rises, updates, cache, saved, firings, due>>,
           job' = [t \in T!Firers \cup {"drain"} |-> job'[t]],
           \/ job'["agent"] = job["agent"]
           \/ job["agent"].pc \notin {"fire", "save"} /\ job'["agent"].pc \notin {"fire", "save"},
           job["tick"].pc = "fire" <=> job'["tick"].pc = "fire"
    PROVE  DelayInv'
<1>1. AgentOwes' = AgentOwes /\ TickOwes' = TickOwes
    BY DEF AgentOwes, TickOwes
<1>2. DelayType' /\ SavedInv'
    BY DEF DelayInv, DelayType, SavedInv
<1>3. \A i : Value(i)' = Value(i)
    BY DEF Value
<1>4. PICK n \in [0..Len(updates) -> Int] : Counted(n)
    BY DEF DelayInv
<1>5. Counted(n)'
    BY <1>1, <1>3, <1>4 DEF Counted
<1>6. QED BY <1>2, <1>4, <1>5 DEF DelayInv

\* What the adapter says now comes after all it has said, with all rises.
LEMMA Said ==
    ASSUME DelayInv, NEW u \in [kind : {"update", "seed"}, value : T!Values],
           updates' = Append(updates, u), u.value = real', real' \in T!Values,
           rises' \in Nat, rises <= rises', real' # real /\ real' = "on" => rises + 1 <= rises',
           updates = <<>> \/ real' # real,
           UNCHANGED <<cache, saved, job, firings, due>>
    PROVE  DelayInv'
<1> DEFINE k == Len(updates)
<1>1. /\ updates' \in Seq([kind : {"update", "seed"}, value : T!Values]) /\ Len(updates') = k + 1
      /\ \A i \in 1..k : updates'[i] = updates[i]
      /\ updates'[k + 1] = u /\ k \in Nat
    BY AppendProperties DEF DelayInv, DelayType
<1>2. DelayType' /\ SavedInv'
    BY <1>1 DEF DelayInv, DelayType, SavedInv
<1>3. PICK n \in [0..k -> Int] : Counted(n)
    BY DEF DelayInv
<1> HIDE DEF k
<1>4. (\A i \in 0..k : Value(i)' = Value(i)) /\ (\A i : i = k + 1 => Value(i)' = real')
    <2>1. k + 1 # 0 /\ \A i \in 0..k : i # 0 => i \in 1..k
        BY <1>1
    <2>2. QED BY <1>1, <2>1 DEF Value
<1>13. PICK m \in [0..(k + 1) -> Int] : m[k + 1] = rises' /\ \A i \in 0..k : m[i] = n[i]
    <2> DEFINE l == [i \in 0..(k + 1) |-> IF i = k + 1 THEN rises' ELSE n[i]]
    <2>1. k + 1 \in 0..(k + 1) /\ \A i \in 0..k : i \in 0..(k + 1) /\ i # k + 1
        BY <1>1
    <2>2. \A i \in 0..(k + 1) : i \in 0..k \/ i = k + 1
        BY <1>1
    <2>3. \A i \in 0..k : n[i] \in Int
        BY <1>3
    <2>4. l \in [0..(k + 1) -> Int]
        BY <2>2, <2>3
    <2>5. l[k + 1] = rises' /\ \A i \in 0..k : l[i] = n[i]
        BY <2>1
    <2>6. QED BY <2>4, <2>5
<1>5. /\ m[k + 1] = rises' /\ \A i \in 0..k : m[i] = n[i] /\ n[i] \in Int
      /\ \A i \in 0..(k + 1) : i \in 0..k \/ i = k + 1
      /\ \A i, j \in 0..(k + 1) : i < j => i \in 0..k
      /\ 0 \in 0..k
    BY <1>1, <1>3, <1>13
<1>6. rises \in Nat
    BY DEF DelayInv, DelayType
<1>7. ASSUME NEW i \in 0..k
      PROVE  n[i] <= rises' /\ (Rise(Value(i), real') => n[i] + 1 <= rises')
    <2>1. n[i] <= rises /\ (Rise(Value(i), real) => n[i] + 1 <= rises)
        BY <1>3 DEF Counted, k
    <2>2. n[i] <= rises'
        BY <1>5, <1>6, <2>1
    <2>3. ASSUME Rise(Value(i), real') PROVE n[i] + 1 <= rises'
        <3>1. CASE real' = real
            BY <1>5, <1>6, <2>1, <2>3, <3>1
        <3>2. CASE real' # real
            BY <1>5, <1>6, <2>1, <2>3, <3>2 DEF Rise
        <3>3. QED BY <3>1, <3>2
    <2>4. QED BY <2>2, <2>3
<1>8. firings' + AgentOwes' + TickOwes' <= m[0] + due'
    <2>1. AgentOwes' = AgentOwes /\ TickOwes' = TickOwes
        BY DEF AgentOwes, TickOwes
    <2>2. QED BY <1>3, <1>5, <2>1 DEF Counted
<1>9. \A i, j \in 0..(k + 1) : i < j => m[i] <= m[j] /\ (Rise(Value(i)', Value(j)') => m[i] + 1 <= m[j])
    <2>1. SUFFICES ASSUME NEW i \in 0..(k + 1), NEW j \in 0..(k + 1), i < j
                   PROVE  m[i] <= m[j] /\ (Rise(Value(i)', Value(j)') => m[i] + 1 <= m[j])
        OBVIOUS
    <2>2. i \in 0..k
        BY <1>5, <2>1
    <2>3. CASE j \in 0..k
        BY <1>3, <1>4, <1>5, <2>1, <2>2, <2>3 DEF Counted, k
    <2>4. CASE j = k + 1
        BY <1>4, <1>5, <1>7, <2>2, <2>4
    <2>5. QED BY <1>5, <2>3, <2>4
<1>10. \A i \in 0..(k + 1) : m[i] <= rises' /\ (Rise(Value(i)', real') => m[i] + 1 <= rises')
    <2>1. SUFFICES ASSUME NEW i \in 0..(k + 1)
                   PROVE  m[i] <= rises' /\ (Rise(Value(i)', real') => m[i] + 1 <= rises')
        OBVIOUS
    <2>2. CASE i \in 0..k
        BY <1>4, <1>5, <1>7, <2>2
    <2>3. CASE i = k + 1
        BY <1>4, <1>5, <2>3 DEF Rise
    <2>4. QED BY <1>5, <2>2, <2>3
<1>11. Counted(m)'
    BY <1>1, <1>8, <1>9, <1>10 DEF Counted
<1>12. QED BY <1>1, <1>2, <1>5, <1>11 DEF DelayInv

\* The device changes, or the adapter says again what it said.
LEMMA SaysStep ==
    ASSUME DelayInv, (\E v \in T!Values : T!Change(v)) \/ T!Repeat \/ T!Initial PROVE DelayInv'
<1>1. real \in T!Values /\ rises \in Nat
    BY DEF DelayInv, DelayType
<1>2. ASSUME NEW v \in T!Values, T!Change(v) PROVE DelayInv'
    <2> DEFINE u == [kind |-> "update", value |-> v]
    <2>1. u \in [kind : {"update", "seed"}, value : T!Values] /\ u.value = v
        OBVIOUS
    <2>2. /\ updates' = Append(updates, u) /\ real' = v /\ v # real
          /\ rises' = rises + (IF v = "on" THEN 1 ELSE 0)
          /\ UNCHANGED <<cache, saved, job, firings, due>>
        BY <1>2 DEF T!Change, T!clocks, T!counts
    <2> HIDE DEF u
    <2>3. rises' \in Nat /\ rises <= rises' /\ (v = "on" => rises + 1 <= rises')
        BY <1>1, <2>2
    <2>4. QED BY <2>1, <2>2, <2>3, Said
<1>3. ASSUME T!Repeat \/ T!Initial PROVE DelayInv'
    <2>1. PICK u \in [kind : {"update", "seed"}, value : T!Values] :
              updates = <<>> /\ updates' = <<u>> /\ u.value = real
        BY <1>1, <1>3 DEF T!Repeat, T!Initial
    <2>2. UNCHANGED <<real, rises, cache, saved, job, firings, due>>
        BY <1>3 DEF T!Repeat, T!Initial, T!world, T!clocks, T!counts
    <2>3. updates' = Append(updates, u)
        BY <2>1
    <2>4. rises <= rises
        BY <1>1
    <2>5. QED BY <1>1, <2>1, <2>2, <2>3, <2>4, Said
<1>4. QED BY <1>2, <1>3

\* The engine takes the next value into its cache, a transition leads on.
LEMMA TakeStep == ASSUME DelayInv, T!TakeUpdate PROVE DelayInv'
<1> DEFINE u == Head(updates)
           k == Len(updates)
<1>1. /\ updates # <<>> /\ job["agent"] = T!Idle /\ updates' = Tail(updates) /\ cache' = u.value
      /\ job' = [job EXCEPT !["agent"] = IF cache = u.value THEN T!Idle
                                         ELSE [pc |-> "save", kind |-> u.kind, value |-> u.value]]
      /\ UNCHANGED <<real, rises, saved, firings, due>>
    BY DEF T!TakeUpdate, T!world, T!clocks, T!counts
<1>2. /\ u \in [kind : {"update", "seed"}, value : T!Values] /\ u = updates[1]
      /\ updates' \in Seq([kind : {"update", "seed"}, value : T!Values]) /\ Len(updates') = k - 1
      /\ \A i \in 1..(k - 1) : updates'[i] = updates[i + 1]
      /\ k \in Nat /\ k # 0
    <2>1. updates \in Seq([kind : {"update", "seed"}, value : T!Values]) /\ k \in Nat /\ k # 0
        BY <1>1, LenProperties, EmptySeq DEF DelayInv, DelayType
    <2>2. u = updates[1]
        BY <1>1, <2>1
    <2> HIDE DEF k
    <2>3. Len(Tail(updates)) = k - 1 /\ \A i \in 1..(k - 1) : Tail(updates)[i] = updates[i + 1]
        BY <1>1, <2>1, HeadTailProperties DEF k
    <2>4. u \in [kind : {"update", "seed"}, value : T!Values] /\ Tail(updates) \in Seq([kind : {"update", "seed"}, value : T!Values])
        BY <1>1, <2>1, HeadTailProperties
    <2>5. QED BY <1>1, <2>1, <2>2, <2>3, <2>4
<1> DEFINE agent == IF cache = u.value THEN T!Idle ELSE [pc |-> "save", kind |-> u.kind, value |-> u.value]
<1>3. job' = [t \in T!Firers \cup {"drain"} |-> job'[t]] /\ job'["agent"] = agent /\ job'["tick"] = job["tick"]
    BY <1>1 DEF DelayInv, DelayType, T!Firers
<1>4. DelayType'
    BY <1>1, <1>2, <1>3 DEF DelayInv, DelayType
<1>5. SavedInv'
    <2>1. saved = cache
        BY <1>1 DEF DelayInv, SavedInv, T!Idle
    <2>2. u.value \in T!Values
        BY <1>2
    <2>3. QED BY <1>1, <1>3, <2>1, <2>2 DEF SavedInv, T!Idle
<1>6. PICK n \in [0..k -> Int] : Counted(n)
    BY DEF DelayInv
<1> HIDE DEF u
<1>7. AgentOwes = 0 /\ TickOwes' = TickOwes
    BY <1>1, <1>3 DEF AgentOwes, TickOwes, T!Idle
<1>8. AgentOwes' = IF Rise(cache, u.value) THEN 1 ELSE 0
    BY <1>3 DEF AgentOwes, Rise, T!Idle
<1> HIDE DEF k, agent
<1>9. /\ \A i \in 0..(k - 1) : i + 1 \in 0..k /\ i + 1 # 0
      /\ \A i, j \in 0..(k - 1) : i < j => i + 1 < j + 1
      /\ 0 \in 0..(k - 1) /\ 0 \in 0..k /\ 1 \in 0..k /\ 0 < 1 /\ 0 + 1 = 1
    BY <1>2
<1>17. PICK m \in [0..(k - 1) -> Int] : \A i \in 0..(k - 1) : m[i] = n[i + 1]
    <2> DEFINE l == [i \in 0..(k - 1) |-> n[i + 1]]
    <2>1. l \in [0..(k - 1) -> Int] /\ \A i \in 0..(k - 1) : l[i] = n[i + 1]
        BY <1>6, <1>9
    <2>2. QED BY <2>1
<1>10. m[0] = n[1] /\ \A i \in 0..(k - 1) : m[i] = n[i + 1]
    BY <1>9, <1>17
<1>11. \A i \in 0..(k - 1) : Value(i)' = Value(i + 1)
    <2>1. \A i \in 0..(k - 1) : i # 0 => i \in 1..(k - 1)
        BY <1>2
    <2>2. QED BY <1>1, <1>2, <1>9, <2>1 DEF Value
<1>12. firings' + AgentOwes' + TickOwes' <= m[0] + due'
    <2>1. Value(0) = cache /\ Value(1) = u.value
        BY <1>2 DEF Value
    <2>2. firings + 0 + TickOwes <= n[0] + due /\ n[0] <= n[1] /\ (Rise(cache, u.value) => n[0] + 1 <= n[1])
        BY <1>6, <1>7, <1>9, <2>1 DEF Counted, k
    <2>3. n[0] \in Int /\ n[1] \in Int /\ firings \in Nat /\ due \in Nat /\ TickOwes \in Nat
        BY <1>6, <1>9, Owing DEF DelayInv, DelayType
    <2>4. CASE Rise(cache, u.value)
        BY <1>1, <1>7, <1>8, <1>10, <2>2, <2>3, <2>4
    <2>5. CASE ~Rise(cache, u.value)
        BY <1>1, <1>7, <1>8, <1>10, <2>2, <2>3, <2>5
    <2>6. QED BY <2>4, <2>5
<1>13. \A i, j \in 0..(k - 1) : i < j => m[i] <= m[j] /\ (Rise(Value(i)', Value(j)') => m[i] + 1 <= m[j])
    BY <1>6, <1>9, <1>10, <1>11 DEF Counted, k
<1>14. \A i \in 0..(k - 1) : m[i] <= rises' /\ (Rise(Value(i)', real') => m[i] + 1 <= rises')
    BY <1>1, <1>6, <1>9, <1>10, <1>11 DEF Counted, k
<1>15. Counted(m)'
    BY <1>2, <1>12, <1>13, <1>14 DEF Counted
<1>16. QED BY <1>2, <1>4, <1>5, <1>10, <1>15 DEF DelayInv

\* A step towards a firing, or away from it, that the count covers.
LEMMA Onward ==
    ASSUME DelayInv, UNCHANGED <<real, rises, updates, cache>>, DelayType', SavedInv',
           firings' + AgentOwes' + TickOwes' + due <= firings + AgentOwes + TickOwes + due'
    PROVE  DelayInv'
<1>1. PICK n \in [0..Len(updates) -> Int] : Counted(n)
    BY DEF DelayInv
<1>2. n[0] \in Int
    BY <1>1, LenProperties DEF DelayInv, DelayType
<1>3. firings' + AgentOwes' + TickOwes' <= n[0] + due'
    BY SMTT(30), <1>1, <1>2, Owing DEF Counted, DelayInv, DelayType
<1>4. \A i : Value(i)' = Value(i)
    BY DEF Value
<1>5. Counted(n)'
    BY <1>1, <1>3, <1>4 DEF Counted
<1>6. QED BY <1>1, <1>5 DEF DelayInv

\* The cache is written to its file, then the trigger looks at the value.
LEMMA SaveStep == ASSUME DelayInv, T!SaveCache PROVE DelayInv'
<1> DEFINE agent == job["agent"]
           next == IF agent.kind = "seed" THEN T!Idle ELSE IF agent.value = "off" THEN T!Doing("cancel") ELSE T!Doing("fire")
<1>1. /\ agent.pc = "save" /\ saved' = agent.value
      /\ job' = [job EXCEPT !["agent"] = next]
      /\ UNCHANGED <<real, rises, updates, cache, firings, due>>
    BY DEF T!SaveCache, T!world, T!clocks, T!counts, DelayInv, DelayType, T!Firers
<1>2. job' = [t \in T!Firers \cup {"drain"} |-> job'[t]] /\ job'["agent"] = next /\ job'["tick"] = job["tick"]
    BY <1>1 DEF DelayInv, DelayType, T!Firers
<1>3. agent.value = cache /\ cache \in {"on", "off"}
    BY <1>1 DEF DelayInv, SavedInv, T!Values
<1>4. next.pc \in {"idle", "cancel", "fire"} /\ (next.pc = "fire" => agent.value = "on")
    BY <1>3 DEF T!Idle, T!Doing
<1> HIDE DEF next
<1>5. DelayType' /\ SavedInv'
    BY <1>1, <1>2, <1>3, <1>4 DEF DelayInv, DelayType, SavedInv
<1>6. AgentOwes' <= AgentOwes /\ TickOwes' = TickOwes
    BY <1>1, <1>2, <1>4 DEF AgentOwes, TickOwes
<1>7. firings \in Nat /\ due \in Nat /\ firings' = firings /\ due' = due
    BY <1>1 DEF DelayInv, DelayType
<1>8. firings' + AgentOwes' + TickOwes' + due <= firings + AgentOwes + TickOwes + due'
    <2> DEFINE a == AgentOwes
               b == AgentOwes'
               c == TickOwes
               d == TickOwes'
    <2>1. a \in Nat /\ b \in Nat /\ c \in Nat /\ d \in Nat /\ b <= a /\ d = c
        BY <1>6, Owing
    <2> HIDE DEF a, b, c, d
    <2>2. firings' + b + d + due <= firings + a + c + due'
        BY <1>7, <2>1
    <2>3. QED BY <2>2 DEF a, b, c, d
<1>9. QED BY <1>1, <1>5, <1>8, Onward

\* A time is due: it may let the trigger fire once.
LEMMA DueStep == ASSUME DelayInv, T!TimeIsDue PROVE DelayInv'
<1>1. /\ job["tick"] = T!Idle /\ due' = due + 1
      /\ job' = [job EXCEPT !["tick"] = IF cache = "on" THEN T!Doing("fire") ELSE T!Idle]
      /\ UNCHANGED <<real, rises, updates, cache, saved, firings>>
    BY DEF T!TimeIsDue, T!world, T!states
<1>2. job' = [t \in T!Firers \cup {"drain"} |-> job'[t]] /\ job'["agent"] = job["agent"]
    BY <1>1 DEF DelayInv, DelayType, T!Firers
<1>3. firings \in Nat /\ due \in Nat /\ firings' = firings /\ due' = due + 1
    BY <1>1 DEF DelayInv, DelayType
<1>4. DelayType' /\ SavedInv'
    BY <1>1, <1>2, <1>3 DEF DelayInv, DelayType, SavedInv
<1>5. AgentOwes' = AgentOwes /\ TickOwes = 0 /\ TickOwes' <= 1
    BY <1>1, <1>2 DEF AgentOwes, TickOwes, T!Idle
<1>6. firings' + AgentOwes' + TickOwes' + due <= firings + AgentOwes + TickOwes + due'
    <2> DEFINE a == AgentOwes
               b == AgentOwes'
               c == TickOwes
               d == TickOwes'
    <2>1. a \in Nat /\ b \in Nat /\ c \in Nat /\ d \in Nat /\ b = a /\ c = 0 /\ d <= 1
        BY <1>5, Owing
    <2> HIDE DEF a, b, c, d
    <2>2. firings' + b + d + due <= firings + a + c + due'
        BY <1>3, <2>1
    <2>3. QED BY <2>2 DEF a, b, c, d
<1>7. QED BY <1>1, <1>4, <1>6, Onward

\* A thread that owes a firing fires, or finds the cooldown running.
LEMMA FireStep == ASSUME DelayInv, NEW t \in T!Firers, T!Fire(t) PROVE DelayInv'
<1>1. /\ job[t].pc = "fire" /\ t \in {"agent", "tick"}
      /\ UNCHANGED <<real, rises, updates, cache, saved, due>>
      /\ firings' = firings \/ firings' = firings + 1
      /\ job' = [job EXCEPT ![t] = T!Idle] \/ job' = [job EXCEPT ![t] = T!Doing("delay")]
    BY DEF T!Fire, T!world, T!states, T!Firers
<1>2. /\ job' = [r \in T!Firers \cup {"drain"} |-> job'[r]] /\ job'[t].pc \in {"idle", "delay"}
      /\ \A r \in T!Firers \ {t} : job'[r] = job[r]
    BY <1>1 DEF DelayInv, DelayType, T!Firers, T!Idle, T!Doing
<1>3. firings \in Nat /\ due \in Nat /\ firings' \in Nat /\ firings' <= firings + 1 /\ due' = due
    BY <1>1 DEF DelayInv, DelayType
<1>4. DelayType'
    BY <1>1, <1>2, <1>3 DEF DelayInv, DelayType
<1>5. CASE t = "agent"
    <2>1. job'["agent"].pc \in {"idle", "delay"} /\ job'["tick"] = job["tick"] /\ job["agent"].pc = "fire"
        BY <1>1, <1>2, <1>5 DEF T!Firers
    <2>2. SavedInv'
        BY <1>1, <2>1 DEF DelayInv, SavedInv
    <2>3. AgentOwes = 1 /\ AgentOwes' = 0 /\ TickOwes' = TickOwes
        BY <2>1 DEF AgentOwes, TickOwes
    <2>4. firings' + AgentOwes' + TickOwes' + due <= firings + AgentOwes + TickOwes + due'
        <3> DEFINE a == AgentOwes
                   b == AgentOwes'
                   c == TickOwes
                   d == TickOwes'
        <3>1. a \in Nat /\ b \in Nat /\ c \in Nat /\ d \in Nat /\ a = 1 /\ b = 0 /\ d = c
            BY <2>3, Owing
        <3> HIDE DEF a, b, c, d
        <3>2. firings' + b + d + due <= firings + a + c + due'
            <4> DEFINE f == firings
                       g == firings'
                       e == due
            <4>1. f \in Nat /\ g \in Nat /\ e \in Nat /\ g <= f + 1 /\ due' = e
                BY <1>3
            <4> HIDE DEF e, f, g
            <4>2. g + b + d + e <= f + a + c + e
                BY <3>1, <4>1
            <4>3. QED BY <4>1, <4>2 DEF e, f, g
        <3>3. QED BY <3>2 DEF a, b, c, d
    <2>5. QED BY <1>1, <1>4, <2>2, <2>4, Onward
<1>6. CASE t = "tick"
    <2>1. job'["tick"].pc \in {"idle", "delay"} /\ job'["agent"] = job["agent"] /\ job["tick"].pc = "fire"
        BY <1>1, <1>2, <1>6 DEF T!Firers
    <2>2. SavedInv'
        BY <1>1, <2>1 DEF DelayInv, SavedInv
    <2>3. TickOwes = 1 /\ TickOwes' = 0 /\ AgentOwes' = AgentOwes
        BY <2>1 DEF AgentOwes, TickOwes
    <2>4. firings' + AgentOwes' + TickOwes' + due <= firings + AgentOwes + TickOwes + due'
        <3> DEFINE a == AgentOwes
                   b == AgentOwes'
                   c == TickOwes
                   d == TickOwes'
        <3>1. a \in Nat /\ b \in Nat /\ c \in Nat /\ d \in Nat /\ c = 1 /\ d = 0 /\ b = a
            BY <2>3, Owing
        <3> HIDE DEF a, b, c, d
        <3>2. firings' + b + d + due <= firings + a + c + due'
            <4> DEFINE f == firings
                       g == firings'
                       e == due
            <4>1. f \in Nat /\ g \in Nat /\ e \in Nat /\ g <= f + 1 /\ due' = e
                BY <1>3
            <4> HIDE DEF e, f, g
            <4>2. g + b + d + e <= f + a + c + e
                BY <3>1, <4>1
            <4>3. QED BY <4>1, <4>2 DEF e, f, g
        <3>3. QED BY <3>2 DEF a, b, c, d
    <2>5. QED BY <1>1, <1>4, <2>2, <2>4, Onward
<1>7. QED BY <1>1, <1>5, <1>6

\* What a thread does before and after, and the timers, neither fire nor owe.
LEMMA AsideStep ==
    ASSUME DelayInv,
           \/ T!CancelDelay \/ T!Withdraw \/ T!Drain \/ T!Obey \/ T!Pass \/ T!LinkDown \/ T!LinkUp
           \/ \E id \in T!Timers : T!Expire(id)
           \/ \E t \in T!Firers : T!ScheduleDelay(t) \/ T!CreateTimer(t) \/ T!RecordTimer(t)
    PROVE  DelayInv'
<1>1. job = [t \in T!Firers \cup {"drain"} |-> job[t]]
    BY DEF DelayInv, DelayType
<1>2. ASSUME T!CancelDelay \/ T!Withdraw PROVE DelayInv'
    <2>1. /\ job["agent"].pc \in {"cancel", "withdraw"} /\ UNCHANGED <<real, rises, updates, cache, saved, firings, due>>
          /\ \/ job' = [job EXCEPT !["agent"] = T!Idle]
             \/ job' = [job EXCEPT !["agent"] = T!With("withdraw", recorded)]
        BY <1>1, <1>2 DEF T!CancelDelay, T!Withdraw, T!world, T!states, T!clocks, T!counts
    <2>2. /\ job' = [t \in T!Firers \cup {"drain"} |-> job'[t]] /\ job'["tick"] = job["tick"]
          /\ job'["agent"].pc \in {"idle", "withdraw"}
        BY <1>1, <2>1 DEF T!Firers, T!Idle, T!With
    <2>3. QED BY <2>1, <2>2, Aside
<1>3. ASSUME T!Drain PROVE DelayInv'
    <2>1. /\ UNCHANGED <<real, rises, updates, cache, saved, firings, due>>
          /\ job' = [t \in T!Firers \cup {"drain"} |-> job'[t]] /\ job'["tick"] = job["tick"] /\ job'["agent"] = job["agent"]
        BY <1>1, <1>3 DEF T!Drain, T!FireDelayed, T!Reconcile, T!ReconcileOne, T!world, T!states, T!clocks, T!counts, T!Firers
    <2>2. QED BY <2>1, Aside
<1>4. ASSUME T!Obey \/ T!Pass \/ T!LinkDown \/ T!LinkUp \/ \E id \in T!Timers : T!Expire(id) PROVE DelayInv'
    <2>1. UNCHANGED <<real, rises, updates, cache, saved, firings, due, job>>
        BY <1>4 DEF T!Obey, T!Pass, T!LinkDown, T!LinkUp, T!Expire, T!world, T!states, T!clocks, T!counts
    <2>2. QED BY <1>1, <2>1, Aside
<1>5. ASSUME NEW t \in T!Firers, T!ScheduleDelay(t) \/ T!CreateTimer(t) \/ T!RecordTimer(t) PROVE DelayInv'
    <2>1. /\ job[t].pc \in {"delay", "create", "record"} /\ UNCHANGED <<real, rises, updates, cache, saved, firings, due>>
          /\ \/ job' = [job EXCEPT ![t] = T!Idle]
             \/ job' = [job EXCEPT ![t] = T!With("create", created + 1)]
             \/ job' = [job EXCEPT ![t] = T!With("record", job[t].id)]
        BY <1>1, <1>5 DEF T!ScheduleDelay, T!CreateTimer, T!RecordTimer, T!world, T!states, T!clocks, T!counts
    <2>2. /\ job' = [r \in T!Firers \cup {"drain"} |-> job'[r]] /\ job'[t].pc \in {"idle", "create", "record"}
          /\ \A r \in T!Firers \ {t} : job'[r] = job[r]
        BY <1>1, <2>1 DEF T!Idle, T!With
    <2>3. CASE t = "agent"
        <3>1. job'["tick"] = job["tick"] /\ job'["agent"].pc \notin {"fire", "save"} /\ job["agent"].pc \notin {"fire", "save"}
            BY <2>1, <2>2, <2>3 DEF T!Firers
        <3>2. QED BY <2>1, <2>2, <3>1, Aside
    <2>4. CASE t = "tick"
        <3>1. job'["agent"] = job["agent"] /\ job'["tick"].pc # "fire" /\ job["tick"].pc # "fire"
            BY <2>1, <2>2, <2>4 DEF T!Firers
        <3>2. QED BY <2>1, <2>2, <3>1, Aside
    <2>5. QED BY <2>3, <2>4 DEF T!Firers
<1>6. QED BY <1>2, <1>3, <1>4, <1>5

\* The Core restarts from the file: a rise that was not in it has not been
\* answered by a firing yet.
LEMMA RestartStep == ASSUME DelayInv, T!Restart PROVE DelayInv'
<1> DEFINE agent == job["agent"]
           lost == agent.pc = "save" /\ agent.value = "on"
<1>1. /\ cache' = saved /\ updates' = <<>> /\ job' = [t \in DOMAIN job |-> T!Idle]
      /\ UNCHANGED <<real, rises, saved, firings, due>>
    BY DEF T!Restart, T!world
<1>2. /\ job = [t \in T!Firers \cup {"drain"} |-> job[t]] /\ real \in T!Values
      /\ rises \in Nat /\ firings \in Nat /\ due \in Nat
    BY DEF DelayInv, DelayType
<1>3. DOMAIN job = T!Firers \cup {"drain"} /\ job' = [t \in T!Firers \cup {"drain"} |-> T!Idle]
    BY <1>1, <1>2
<1>4. /\ job' = [t \in T!Firers \cup {"drain"} |-> job'[t]]
      /\ job'["agent"].pc = "idle" /\ job'["tick"].pc = "idle"
    BY <1>3 DEF T!Firers, T!Idle
<1>5. DelayType' /\ SavedInv'
    BY <1>1, <1>2, <1>4 DEF DelayType, SavedInv
<1>6. AgentOwes' = 0 /\ TickOwes' = 0 /\ (lost => AgentOwes = 1)
    BY <1>4 DEF AgentOwes, TickOwes
<1>7. PICK n \in [0..Len(updates) -> Int] : Counted(n)
    BY DEF DelayInv
<1>8. 0 \in 0..Len(updates)
    BY LenProperties DEF DelayInv, DelayType
<1> DEFINE c == n[0]
<1>9. /\ firings + AgentOwes + TickOwes <= c + due /\ c \in Int
      /\ c <= rises /\ (Rise(cache, real) => c + 1 <= rises)
    BY <1>7, <1>8 DEF Counted, Value
<1>10. \E x \in Int : firings <= x + due /\ x <= rises /\ (Rise(saved, real) => x + 1 <= rises)
    <2> HIDE DEF c
    <2>1. firings + 0 <= c + due /\ (lost => firings + 1 <= c + due)
        <3> DEFINE a == AgentOwes
                   b == TickOwes
        <3>1. a \in Nat /\ b \in Nat /\ firings + a + b <= c + due /\ (lost => a = 1)
            BY <1>6, <1>9, Owing
        <3> HIDE DEF a, b, lost
        <3>2. QED BY <1>2, <1>9, <3>1
    <2>2. CASE lost
        <3>1. c - 1 \in Int /\ firings <= (c - 1) + due /\ c - 1 <= rises /\ (c - 1) + 1 <= rises
            BY <1>2, <1>9, <2>1, <2>2
        <3>2. QED BY <3>1
    <2>3. CASE ~lost
        <3>1. Rise(saved, real) => Rise(cache, real)
            BY <2>3 DEF DelayInv, SavedInv, Rise
        <3>2. c \in Int /\ firings <= c + due /\ c <= rises /\ (Rise(saved, real) => c + 1 <= rises)
            BY <1>2, <1>9, <2>1, <3>1
        <3>3. QED BY <3>2
    <2>4. QED BY <2>2, <2>3
<1>11. PICK x \in Int : firings <= x + due /\ x <= rises /\ (Rise(saved, real) => x + 1 <= rises)
    BY <1>10
<1> DEFINE m == [i \in 0..0 |-> x]
<1>12. m \in [0..0 -> Int] /\ m[0] = x /\ Len(<<>>) = 0 /\ 0..0 = {0}
    OBVIOUS
<1> HIDE DEF m
<1>13. Value(0)' = saved
    BY <1>1 DEF Value
<1>14. firings' + AgentOwes' + TickOwes' <= m[0] + due'
    BY <1>1, <1>2, <1>6, <1>11, <1>12
<1>15. \A i \in 0..0 : i = 0 /\ m[i] <= rises' /\ (Rise(saved, real') => m[i] + 1 <= rises')
    BY <1>1, <1>11, <1>12
<1>16. \A i \in 0..0 : m[i] <= rises' /\ (Rise(Value(i)', real') => m[i] + 1 <= rises')
    BY <1>13, <1>15
<1>17. \A i, j \in 0..0 : ~ (i < j)
    BY <1>12
<1>18. Len(updates') = 0
    BY <1>1, <1>12
<1>19. Counted(m)'
    BY <1>14, <1>16, <1>17, <1>18 DEF Counted
<1>20. QED BY <1>5, <1>12, <1>18, <1>19 DEF DelayInv

\* Every step of the trigger keeps the invariant.
LEMMA DelayInvStep == DelayInv /\ [T!Next]_(T!vars) => DelayInv'
<1> SUFFICES ASSUME DelayInv, [T!Next]_(T!vars) PROVE DelayInv'
    OBVIOUS
<1>1. CASE (\E v \in T!Values : T!Change(v)) \/ T!Repeat \/ T!Initial
    BY <1>1, SaysStep
<1>2. CASE T!Agent
    BY <1>2, TakeStep, SaveStep, AsideStep DEF T!Agent
<1>3. CASE T!TimeIsDue \/ T!Restart
    BY <1>3, DueStep, RestartStep
<1>4. CASE T!Drain \/ T!Obey \/ T!Pass \/ T!LinkDown \/ T!LinkUp \/ \E id \in T!Timers : T!Expire(id)
    BY <1>4, AsideStep
<1>5. CASE \E t \in T!Firers : T!Firing(t)
    BY <1>5, FireStep, AsideStep DEF T!Firing
<1>6. CASE UNCHANGED T!vars
    <2>1. UNCHANGED <<real, rises, updates, cache, saved, firings, due, job>>
        BY <1>6 DEF T!vars
    <2>2. job' = [t \in T!Firers \cup {"drain"} |-> job'[t]]
        BY <2>1 DEF DelayInv, DelayType
    <2>3. QED BY <2>1, <2>2, Aside
<1>7. QED BY <1>1, <1>2, <1>3, <1>4, <1>5, <1>6 DEF T!Next

\* At first the state is off and the cache may not know it.
LEMMA DelayInit == Init => DelayInv
<1> SUFFICES ASSUME Init PROVE DelayInv
    OBVIOUS
<1>1. /\ real = "off" /\ rises = 0 /\ updates = <<>> /\ saved = cache
      /\ job = [t \in T!Firers \cup {"drain"} |-> T!Idle] /\ firings = 0 /\ due = 0
    BY DEF Init, T!Init
<1>2. job["agent"].pc = "idle" /\ job["tick"].pc = "idle" /\ job = [t \in T!Firers \cup {"drain"} |-> job[t]]
    BY <1>1 DEF T!Idle, T!Firers
<1>3. DelayType /\ SavedInv
    BY <1>1, <1>2 DEF DelayType, SavedInv, T!Values
<1> DEFINE m == [i \in 0..0 |-> 0]
<1>4. m \in [0..0 -> Int] /\ (\A i \in 0..0 : m[i] = 0) /\ 0..0 = {0} /\ Len(updates) = 0
    BY <1>1
<1> HIDE DEF m
<1>5. AgentOwes = 0 /\ TickOwes = 0
    BY <1>2 DEF AgentOwes, TickOwes
<1>6. Counted(m)
    BY <1>1, <1>4, <1>5 DEF Counted, Rise
<1>7. QED BY <1>3, <1>4, <1>6 DEF DelayInv

\* The trigger fires no more often than its state rose or its time came, for
\* every number of changes, repetitions, times and restarts, wherever the Core
\* stops, and whatever the Timer Service does.
THEOREM FiresOnlyOnTransitionAlways == Spec => []FiresOnlyOnTransition
<1>1. DelayInv /\ [Next]_vars => DelayInv'
    BY DelayInvStep, DelayStep
<1>2. DelayInv => FiresOnlyOnTransition
    <2> SUFFICES ASSUME DelayInv PROVE firings <= rises + due
        BY DEF FiresOnlyOnTransition, T!FiresOnlyOnTransition
    <2>1. PICK n \in [0..Len(updates) -> Int] : Counted(n)
        BY DEF DelayInv
    <2>2. 0 \in 0..Len(updates) /\ firings \in Nat /\ rises \in Nat /\ due \in Nat
        BY LenProperties DEF DelayInv, DelayType
    <2> DEFINE c == n[0]
               a == AgentOwes
               b == TickOwes
    <2>3. c \in Int /\ a \in Nat /\ b \in Nat /\ firings + a + b <= c + due /\ c <= rises
        BY <2>1, <2>2, Owing DEF Counted
    <2> HIDE DEF a, b, c
    <2>4. QED BY <2>2, <2>3
<1>3. QED
    BY <1>1, <1>2, DelayInit, PTL DEF Spec

-----------------------------------------------------------------------------
(* The conditions of a trigger, proved for every number of states and of    *)
(* conditions in a trigger.                                                 *)

\* What a condition is: its parts, and that it is joined to nothing yet.
LEMMA ConditionParts ==
    ASSUME NEW c \in C!Conditions
    PROVE  /\ c.and = C!NoGroup
           /\ c.also = C!NoGroup \/ c.also.op = "or" \/ (c.also.op = "and" /\ c.also.ids # {})
           /\ c.time \in C!Times \cup {Unset} /\ c.state \in StateIds \cup {Unset}
           /\ c.also.ids \subseteq StateIds /\ c.unless \subseteq StateIds
           /\ \A g : /\ [c EXCEPT !.and = g].and = g /\ [c EXCEPT !.and = g].also = c.also
                     /\ [c EXCEPT !.and = g].unless = c.unless /\ [c EXCEPT !.and = g].time = c.time
                     /\ [c EXCEPT !.and = g].state = c.state /\ [c EXCEPT !.and = g].phrase = c.phrase
BY DEF C!Conditions, C!Condition, C!Alsos, C!Unlesses, C!Group, C!NoGroup

\* What the states beside a time are joined to.
Joined == C!Group("or", {d.state : d \in C!Stated(when)})

\* Beside a time no state condition stays, and every time has the states as its group.
LEMMA ListsJoined ==
    ASSUME when \subseteq C!Conditions, C!Timed(when) # {}, C!Stated(when) # {}
    PROVE  /\ C!Timed(C!AsOrList(when)) = {[c EXCEPT !.and = Joined] : c \in C!Timed(when)}
           /\ \A c \in C!AsOrList(when) : c.state # Unset => c \in C!Timed(C!AsOrList(when))
<1> DEFINE times == {[c EXCEPT !.and = Joined] : c \in C!Timed(when)}
           others == {c \in when : c.time = Unset /\ c.state = Unset}
<1>1. \A c \in times : c.time # Unset
    <2>1. SUFFICES ASSUME NEW d \in C!Timed(when) PROVE [d EXCEPT !.and = Joined].time # Unset
        OBVIOUS
    <2>2. d \in C!Conditions /\ d.time # Unset
        BY DEF C!Timed
    <2>3. QED BY <2>2, ConditionParts
<1>2. C!AsOrList(when) = times \cup others
    BY DEF C!AsOrList, Joined
<1>3. \A c \in others : c.time = Unset /\ c.state = Unset
    OBVIOUS
<1> HIDE DEF times, others
<1>4. C!Timed(C!AsOrList(when)) = times
    BY <1>1, <1>2, <1>3 DEF C!Timed
<1>5. QED BY <1>2, <1>3, <1>4 DEF times

\* Without a time or without a state of its own the list stays as it is.
LEMMA ListsApart ==
    ASSUME C!Timed(when) = {} \/ C!Stated(when) = {}
    PROVE  C!AsOrList(when) = when
BY DEF C!AsOrList

\* A joined time holds if it held before and one of the states is as asked for.
LEMMA JoinedHolds ==
    ASSUME when \subseteq C!Conditions, C!Stated(when) # {}, NEW c \in C!Timed(when), NEW k
    PROVE  C!Holds([c EXCEPT !.and = Joined], k)
             <=> C!Holds(c, k) /\ \E d \in C!Stated(when) : k[d.state] = "match"
<1>1. /\ C!GroupHolds(Joined, k) <=> \E d \in C!Stated(when) : k[d.state] = "match"
      /\ Joined # C!NoGroup
    BY DEF C!GroupHolds, C!Group, C!NoGroup, Joined
<1>2. c \in C!Conditions /\ c.and = C!NoGroup
    BY ConditionParts DEF C!Timed
<1>3. /\ [c EXCEPT !.and = Joined].and = Joined /\ [c EXCEPT !.and = Joined].also = c.also
      /\ [c EXCEPT !.and = Joined].unless = c.unless
    BY <1>2, ConditionParts
<1>4. QED BY <1>1, <1>2, <1>3 DEF C!Holds

\* Time and state conditions are never alternatives.
LEMMA JoinedStands == when \subseteq C!Conditions => C!TimeAndState
<1> SUFFICES ASSUME when \subseteq C!Conditions, C!Timed(when) # {}, C!Stated(when) # {}
             PROVE  /\ \A now \in SUBSET C!Times : C!FiresAtTime(now, known) <=>
                          /\ \E c \in C!Timed(when) : c.time \in now /\ C!Holds(c, known)
                          /\ \E d \in C!Stated(when) : known[d.state] = "match"
                    /\ \A changed \in StateIds :
                          C!FiresOnUpdate(changed, known) => \E c \in C!Timed(when) : c.state = changed
    BY DEF C!TimeAndState
<1>1. /\ C!Timed(C!AsOrList(when)) = {[c EXCEPT !.and = Joined] : c \in C!Timed(when)}
      /\ \A c \in C!AsOrList(when) : c.state # Unset => c \in C!Timed(C!AsOrList(when))
    BY ListsJoined
<1>2. \A c \in C!Timed(when) : [c EXCEPT !.and = Joined].time = c.time /\ [c EXCEPT !.and = Joined].state = c.state
    BY ConditionParts DEF C!Timed
<1>3. ASSUME NEW now \in SUBSET C!Times
      PROVE  C!FiresAtTime(now, known) <=> /\ \E c \in C!Timed(when) : c.time \in now /\ C!Holds(c, known)
                                           /\ \E d \in C!Stated(when) : known[d.state] = "match"
    <2>1. C!FiresAtTime(now, known) <=> \E c \in C!Timed(when) :
              [c EXCEPT !.and = Joined].time \in now /\ C!Holds([c EXCEPT !.and = Joined], known)
        BY <1>1 DEF C!FiresAtTime
    <2>2. QED BY <1>2, <2>1, JoinedHolds
<1>4. ASSUME NEW changed \in StateIds, NEW c \in C!AsOrList(when), c.state = changed
      PROVE  \E d \in C!Timed(when) : d.state = changed
    <2>1. c \in C!Timed(C!AsOrList(when))
        BY <1>1, <1>4, ConstantsOK DEF C!ConditionsAssumption
    <2>2. PICK d \in C!Timed(when) : c = [d EXCEPT !.and = Joined]
        BY <1>1, <2>1
    <2>3. d.state = changed
        BY <1>2, <1>4, <2>2
    <2>4. QED BY <2>3
<1>5. \A changed \in StateIds : C!FiresOnUpdate(changed, known) => \E d \in C!Timed(when) : d.state = changed
    BY <1>4 DEF C!FiresOnUpdate
<1>6. QED BY <1>3, <1>5

\* What is unknown blocks nothing and proves nothing.
LEMMA UnknownProvesNothing == when \subseteq C!Conditions => C!UnknownIsNeutral
<1> SUFFICES ASSUME when \subseteq C!Conditions, \A id \in StateIds : known[id] = "unknown", NEW now \in SUBSET C!Times
             PROVE  C!FiresAtTime(now, known) <=> /\ C!Stated(when) = {}
                                                  /\ \E c \in C!Timed(when) : c.time \in now /\ c.also = C!NoGroup
    BY DEF C!UnknownIsNeutral
<1>1. \A c \in C!Timed(when) : C!Holds(c, known) <=> c.also = C!NoGroup
    <2> SUFFICES ASSUME NEW c \in C!Conditions PROVE C!Holds(c, known) <=> c.also = C!NoGroup
        BY DEF C!Timed
    <2>1. /\ c.and = C!NoGroup
          /\ c.also = C!NoGroup \/ c.also.op = "or" \/ (c.also.op = "and" /\ c.also.ids # {})
          /\ c.also.ids \subseteq StateIds /\ c.unless \subseteq StateIds
        BY ConditionParts
    <2>2. C!Unblocked(c.unless, known) /\ (c.also = C!NoGroup \/ ~C!GroupHolds(c.also, known))
        BY <2>1 DEF C!Unblocked, C!GroupHolds
    <2>3. QED BY <2>1, <2>2 DEF C!Holds
<1>2. CASE C!Stated(when) = {}
    BY <1>1, <1>2, ListsApart DEF C!FiresAtTime
<1>3. CASE C!Stated(when) # {} /\ C!Timed(when) # {}
    <2>1. \A d \in C!Stated(when) : known[d.state] # "match"
        BY ConditionParts DEF C!Stated
    <2>2. QED BY <1>3, <2>1, JoinedStands DEF C!TimeAndState
<1>4. CASE C!Timed(when) = {}
    BY <1>4, ListsApart DEF C!FiresAtTime
<1>5. QED BY <1>2, <1>3, <1>4

\* Whether a condition holds rests on the states collected from it, if they are
\* what it was joined from.
LEMMA HoldsByItsStates ==
    ASSUME NEW c, NEW k, \A id \in C!StatesOf(c) : k[id] = known[id]
    PROVE  C!Holds(c, k) <=> C!Holds(c, known)
<1>1. \A id \in c.unless \cup c.also.ids \cup c.and.ids : k[id] = known[id]
    BY DEF C!StatesOf
<1>2. C!GroupHolds(c.also, k) <=> C!GroupHolds(c.also, known)
    BY <1>1 DEF C!GroupHolds
<1>3. C!GroupHolds(c.and, k) <=> C!GroupHolds(c.and, known)
    BY <1>1 DEF C!GroupHolds
<1>4. C!Unblocked(c.unless, k) <=> C!Unblocked(c.unless, known)
    BY <1>1 DEF C!Unblocked
<1>5. QED BY <1>2, <1>3, <1>4 DEF C!Holds

\* What is not watched makes no difference.
LEMMA WatchedIsEnough == C!WatchesWhatItAsks
<1> SUFFICES ASSUME NEW k \in C!Caches, \A id \in C!Watched(when) : k[id] = known[id]
             PROVE  /\ \A now \in SUBSET C!Times : C!FiresAtTime(now, k) <=> C!FiresAtTime(now, known)
                    /\ \A changed \in StateIds : C!FiresOnUpdate(changed, k) <=> C!FiresOnUpdate(changed, known)
                    /\ C!AnswersPhrase(k) <=> C!AnswersPhrase(known)
    BY DEF C!WatchesWhatItAsks
<1>1. \A c \in C!AsOrList(when) : \A id \in C!StatesOf(c) : k[id] = known[id]
    BY DEF C!Watched
<1>2. \A c \in C!AsOrList(when) : C!Holds(c, k) <=> C!Holds(c, known)
    BY <1>1, HoldsByItsStates
<1>3. ASSUME NEW now \in SUBSET C!Times PROVE C!FiresAtTime(now, k) <=> C!FiresAtTime(now, known)
    BY <1>2 DEF C!FiresAtTime, C!Timed
<1>4. \A changed \in StateIds : \A c \in C!AsOrList(when) : c.state = changed => k[changed] = known[changed]
    BY <1>1, ConstantsOK DEF C!StatesOf, C!ConditionsAssumption
<1>5. ASSUME NEW changed \in StateIds PROVE C!FiresOnUpdate(changed, k) <=> C!FiresOnUpdate(changed, known)
    BY <1>2, <1>4 DEF C!FiresOnUpdate
<1>6. C!AnswersPhrase(k) <=> C!AnswersPhrase(known)
    BY <1>2 DEF C!AnswersPhrase
<1>7. QED BY <1>3, <1>5, <1>6

\* However the conditions of a trigger are put together, times and states in
\* one dict or in several, and whatever is known of the states: a time fires
\* beside state conditions only with one of them, an update only where a
\* time's own dict names the state, an unknown state neither fires nor blocks,
\* and what the adapter is not told to watch changes no decision
\* (trigger_engine.py:250-263, 330-353).
THEOREM ConditionsJoinAlways == Spec => []ConditionsJoin
<1> DEFINE Known == part = "conditions" => when \subseteq C!Conditions
<1>1. Init => Known
    BY DEF Init, C!Init
<1>2. Known /\ [Next]_vars => Known'
    BY DEF Next, vars, Delay, Conditions, Commands, Model, conditions, C!Next, C!AddCondition
<1>3. Known => ConditionsJoin
    BY JoinedStands, UnknownProvesNothing, WatchedIsEnough DEF ConditionsJoin, C!ConditionsJoin
<1>4. QED
    BY <1>1, <1>2, <1>3, PTL DEF Spec

-----------------------------------------------------------------------------
(* Commands and their confirmation, proved for every number of callers and  *)
(* devices, writes, changes at the devices and losses of the adapter.       *)

\* A step of the run is a step of the commands or leaves them alone.
LEMMA CommandStep == [Next]_vars => [D!Next]_(D!vars)
BY DEF Next, vars, Delay, Conditions, Commands, Model, confirming, D!vars, D!caller, D!confirm, D!adapter, D!history

CallerType ==
    /\ pc \in [D!Callers -> {"idle", "register", "send", "note", "await", "over"}]
    /\ left \in [D!Callers -> Seq(Devices)] /\ awaited \in [D!Callers -> SUBSET Devices]
    /\ expired \subseteq D!Callers
    /\ \A c \in D!Callers : pc[c] \in {"send", "note"} => left[c] # << >>
    /\ \A c \in D!Callers : (pc[c] = "over" => awaited[c] = {}) /\ (pc[c] = "await" => awaited[c] # {})
    /\ \A s \in Satellites : awaited[s] = {} /\ (s \in expired => pc[s] = "over")

\* The first target of a caller that is at it is a device.
LEMMA FirstTarget ==
    ASSUME CallerType, NEW c \in D!Callers, left[c] # << >>
    PROVE  Head(left[c]) \in Devices /\ Tail(left[c]) \in Seq(Devices)
BY HeadTailProperties DEF CallerType

\* A satellite has nothing to wait for, so its deadline comes when it is through.
LEMMA CallerTypeStep == CallerType /\ [D!Next]_(D!vars) => CallerType'
<1> SUFFICES ASSUME CallerType, [D!Next]_(D!vars) PROVE CallerType'
    OBVIOUS
<1> USE DEF CallerType
<1>0. Satellites \cap Texts = {} /\ D!Callers = Satellites \cup Texts /\ TargetsOf \in [D!Callers -> Seq(Devices)]
    BY ConstantsOK DEF D!CommandsAssumption, D!Callers
<1>1. ASSUME NEW c \in D!Callers, D!Execute(c) PROVE CallerType'
    BY <1>0, <1>1 DEF D!Execute, D!confirm
<1>2. ASSUME NEW c \in D!Callers, D!Register(c) PROVE CallerType'
    BY <1>0, <1>2 DEF D!Register
<1>3. ASSUME NEW c \in D!Callers, D!Send(c) PROVE CallerType'
    <2>1. left[c] # << >> /\ Tail(left[c]) \in Seq(Devices)
        BY <1>3, FirstTarget DEF D!Send
    <2>2. /\ awaited' = awaited /\ expired' = expired
          /\ \/ left' = left /\ pc' = [pc EXCEPT ![c] = "note"]
             \/ left' = [left EXCEPT ![c] = Tail(@)] /\ pc' = [pc EXCEPT ![c] = "register"]
        BY <1>3 DEF D!Send
    <2>3. pc[c] = "send"
        BY <1>3 DEF D!Send
    <2>4. CASE left' = left /\ pc' = [pc EXCEPT ![c] = "note"]
        BY <1>0, <2>1, <2>2, <2>3, <2>4
    <2>5. CASE left' = [left EXCEPT ![c] = Tail(@)] /\ pc' = [pc EXCEPT ![c] = "register"]
        BY <1>0, <2>1, <2>2, <2>3, <2>5
    <2>6. QED BY <2>2, <2>4, <2>5
<1>4. ASSUME NEW c \in D!Callers, D!Note(c) PROVE CallerType'
    <2>1. pc[c] = "note" /\ Head(left[c]) \in Devices /\ Tail(left[c]) \in Seq(Devices)
        BY <1>4, FirstTarget DEF D!Note
    <2>2. /\ pc' = [pc EXCEPT ![c] = "register"] /\ left' = [left EXCEPT ![c] = Tail(@)] /\ expired' = expired
          /\ awaited' = [awaited EXCEPT ![c] = @ \cup ({Head(left[c])} \cap (IF c \in Texts THEN Devices ELSE {}))]
        BY <1>4 DEF D!Note, D!confirm
    <2>3. QED BY <1>0, <2>1, <2>2
<1>5. ASSUME NEW c \in D!Callers, D!Written(c) PROVE CallerType'
    BY <1>0, <1>5 DEF D!Written, D!confirm
<1>6. ASSUME NEW c \in D!Callers, NEW d \in Devices, D!Await(c, d) PROVE CallerType'
    BY <1>0, <1>6 DEF D!Await
<1>7. ASSUME NEW c \in D!Callers, D!Deadline(c) PROVE CallerType'
    BY <1>0, <1>7 DEF D!Deadline, D!caller
<1>8. CASE UNCHANGED <<pc, left, awaited, expired>>
    BY <1>8
<1>9. QED
    BY <1>1, <1>2, <1>3, <1>4, <1>5, <1>6, <1>7, <1>8 DEF D!Next, D!vars, D!caller, D!confirm, D!CallerStep,
       D!StreamStep, D!Update, D!ConfirmPending, D!CountPending, D!Wake, D!SweepStep, D!SweepDue,
       D!SweepReports, D!Apply, D!Flip, D!Lose, D!Reconnect

\* Whoever waits is at the device or has it among what it waits for.
WaiterInv ==
    /\ waiter \in [Devices -> [by : Texts \cup {D!None}, done : BOOLEAN, success : BOOLEAN]]
    /\ \A d \in Devices : waiter[d].by # D!None =>
          \/ d \in awaited[waiter[d].by]
          \/ pc[waiter[d].by] \in {"send", "note"} /\ d = Head(left[waiter[d].by])

\* A waiter is taken away by whoever it is for, or replaced by the next.
LEMMA WaiterStep == CallerType /\ WaiterInv /\ [D!Next]_(D!vars) => WaiterInv'
<1> SUFFICES ASSUME CallerType, WaiterInv, [D!Next]_(D!vars) PROVE WaiterInv'
    OBVIOUS
<1> USE DEF WaiterInv
<1>0. /\ Satellites \cap Texts = {} /\ D!Callers = Satellites \cup Texts /\ D!None \notin Texts
      /\ pc \in [D!Callers -> {"idle", "register", "send", "note", "await", "over"}]
      /\ left \in [D!Callers -> Seq(Devices)] /\ awaited \in [D!Callers -> SUBSET Devices]
      /\ \A s \in Satellites : awaited[s] = {}
    BY ConstantsOK DEF D!CommandsAssumption, D!Callers, CallerType
<1>1. ASSUME NEW c \in D!Callers, D!Execute(c) PROVE WaiterInv'
    BY <1>0, <1>1 DEF D!Execute, D!confirm
<1>2. ASSUME NEW c \in D!Callers, D!Register(c) PROVE WaiterInv'
    <2>1. Head(left[c]) \in Devices
        BY <1>2, FirstTarget DEF D!Register
    <2>2. /\ pc[c] = "register" /\ pc' = [pc EXCEPT ![c] = "send"] /\ left' = left /\ awaited' = awaited
          /\ \/ c \in Texts /\ waiter' = [waiter EXCEPT ![Head(left[c])] = [by |-> c, done |-> FALSE, success |-> FALSE]]
             \/ waiter' = waiter
        BY <1>2 DEF D!Register
    <2>3. CASE c \in Texts /\ waiter' = [waiter EXCEPT ![Head(left[c])] = [by |-> c, done |-> FALSE, success |-> FALSE]]
        <3>1. waiter' \in [Devices -> [by : Texts \cup {D!None}, done : BOOLEAN, success : BOOLEAN]]
            BY <2>1, <2>3
        <3>2. \A d \in Devices : waiter'[d].by = waiter[d].by \/ (d = Head(left[c]) /\ waiter'[d].by = c)
            BY <2>1, <2>3
        <3>3. QED BY <1>0, <2>1, <2>2, <3>1, <3>2
    <2>4. CASE waiter' = waiter
        BY <1>0, <2>2, <2>4
    <2>5. QED BY <2>2, <2>3, <2>4
<1>3. ASSUME NEW c \in D!Callers, D!Send(c) PROVE WaiterInv'
    <2>1. Head(left[c]) \in Devices
        BY <1>3, FirstTarget DEF D!Send, CallerType
    <2>2. pc[c] = "send" /\ awaited' = awaited
        BY <1>3 DEF D!Send
    <2>3. \/ left' = left /\ waiter' = waiter /\ pc' = [pc EXCEPT ![c] = "note"]
          \/ /\ left' = [left EXCEPT ![c] = Tail(@)] /\ pc' = [pc EXCEPT ![c] = "register"]
             /\ \/ c \in Texts /\ waiter' = [waiter EXCEPT ![Head(left[c])] = D!NoWaiter]
                \/ c \notin Texts /\ waiter' = waiter
        BY <1>3 DEF D!Send, D!RollBack
    <2>4. CASE left' = left /\ waiter' = waiter /\ pc' = [pc EXCEPT ![c] = "note"]
        BY <1>0, <2>2, <2>4
    <2>5. CASE left' = [left EXCEPT ![c] = Tail(@)] /\ pc' = [pc EXCEPT ![c] = "register"]
        <3>1. /\ waiter' \in [Devices -> [by : Texts \cup {D!None}, done : BOOLEAN, success : BOOLEAN]]
              /\ \A d \in Devices : /\ waiter'[d].by = waiter[d].by \/ waiter'[d].by = D!None
                                    /\ waiter[d].by = c /\ d = Head(left[c]) => waiter'[d].by = D!None
            <4>1. CASE c \in Texts
                <5>1. waiter' = [waiter EXCEPT ![Head(left[c])] = D!NoWaiter]
                    <6>1. pc'[c] = "register"
                        BY <1>0, <2>5
                    <6>2. QED BY <1>0, <2>3, <4>1, <6>1
                <5>2. D!NoWaiter \in [by : Texts \cup {D!None}, done : BOOLEAN, success : BOOLEAN] /\ D!NoWaiter.by = D!None
                    BY DEF D!NoWaiter
                <5>3. QED BY <2>1, <5>1, <5>2
            <4>2. CASE c \notin Texts
                <5>1. \A d \in Devices : waiter[d].by # c
                    BY <1>0, <4>2, ConstantsOK DEF D!CommandsAssumption
                <5>2. QED BY <2>2, <2>3, <2>5, <4>2, <5>1
            <4>3. QED BY <4>1, <4>2
        <3>2. SUFFICES ASSUME NEW d \in Devices, waiter'[d].by # D!None
                       PROVE  \/ d \in awaited'[waiter'[d].by]
                              \/ pc'[waiter'[d].by] \in {"send", "note"} /\ d = Head(left'[waiter'[d].by])
            BY <3>1
        <3>3. waiter'[d].by = waiter[d].by /\ waiter[d].by \in Texts /\ waiter[d].by \in D!Callers
            <4>1. waiter'[d].by = waiter[d].by
                <5>1. waiter'[d].by = waiter[d].by \/ waiter'[d].by = D!None
                    BY <3>1
                <5>2. QED BY <3>2, <5>1
            <4>2. waiter[d].by \in Texts \cup {D!None} /\ waiter[d].by # D!None
                BY <3>2, <4>1
            <4>3. QED BY <1>0, <4>1, <4>2
        <3>4. CASE waiter[d].by = c
            BY <2>2, <3>1, <3>2, <3>3, <3>4
        <3>5. CASE waiter[d].by # c
            BY <1>0, <2>2, <2>5, <3>2, <3>3, <3>5
        <3>6. QED BY <3>4, <3>5
    <2>6. QED BY <2>3, <2>4, <2>5
<1>4. ASSUME NEW c \in D!Callers, D!Note(c) PROVE WaiterInv'
    <2>1. Head(left[c]) \in Devices
        BY <1>4, FirstTarget DEF D!Note, CallerType
    <2>2. /\ pc[c] = "note" /\ waiter' = waiter
          /\ pc' = [pc EXCEPT ![c] = "register"] /\ left' = [left EXCEPT ![c] = Tail(@)]
          /\ awaited' = [awaited EXCEPT ![c] = @ \cup ({Head(left[c])} \cap (IF c \in Texts THEN Devices ELSE {}))]
        BY <1>4 DEF D!Note, D!confirm
    <2>3. QED BY <1>0, <2>1, <2>2
<1>5. ASSUME NEW c \in D!Callers, D!Written(c) PROVE WaiterInv'
    BY <1>0, <1>5 DEF D!Written, D!confirm
<1>6. ASSUME NEW c \in D!Callers, NEW d \in Devices, D!Await(c, d) PROVE WaiterInv'
    BY <1>0, <1>6 DEF D!Await, D!NoWaiter
<1>7. CASE D!Wake
    <2>1. waiter' \in [Devices -> [by : Texts \cup {D!None}, done : BOOLEAN, success : BOOLEAN]]
        <3>1. ASSUME NEW d \in Devices, NEW b \in BOOLEAN
              PROVE  [waiter[d] EXCEPT !.done = TRUE, !.success = b] \in [by : Texts \cup {D!None}, done : BOOLEAN, success : BOOLEAN]
            OBVIOUS
        <3>2. \/ waiter' = waiter
              \/ \E b \in BOOLEAN : waiter' = [waiter EXCEPT ![stream.d] = [waiter[stream.d] EXCEPT !.done = TRUE, !.success = b]]
            BY <1>7 DEF D!Wake
        <3>3. ASSUME NEW b \in BOOLEAN,
                     waiter' = [waiter EXCEPT ![stream.d] = [waiter[stream.d] EXCEPT !.done = TRUE, !.success = b]]
              PROVE  waiter' \in [Devices -> [by : Texts \cup {D!None}, done : BOOLEAN, success : BOOLEAN]]
            <4>1. CASE stream.d \in Devices
                BY <3>1, <3>3, <4>1
            <4>2. CASE stream.d \notin Devices
                BY <3>3, <4>2
            <4>3. QED BY <4>1, <4>2
        <3>4. QED BY <3>2, <3>3
    <2>2. \A d \in Devices : waiter'[d].by = waiter[d].by
        BY <1>0, <1>7 DEF D!Wake
    <2>3. UNCHANGED <<pc, left, awaited>>
        BY <1>7 DEF D!Wake, D!caller
    <2>4. QED BY <2>1, <2>2, <2>3
<1>8. CASE UNCHANGED <<pc, left, awaited, waiter>>
    BY <1>8
<1>9. QED
    BY <1>1, <1>2, <1>3, <1>4, <1>5, <1>6, <1>7, <1>8 DEF D!Next, D!vars, D!caller, D!confirm, D!CallerStep, D!Deadline,
       D!StreamStep, D!Update, D!ConfirmPending, D!CountPending, D!SweepStep, D!SweepDue,
       D!SweepReports, D!Apply, D!Flip, D!Lose, D!Reconnect

\* Whoever was passed over in silence is through and has no entry left; it has
\* been told, or the sweep is still about to tell it.
SilenceInv ==
    /\ pending \in [Devices -> Satellites \cup {D!None}] /\ heard \in [Satellites -> SUBSET {"ok", "failed"}]
    /\ sweep \subseteq silent /\ silent \subseteq Satellites \X Devices
    /\ \A s \in Satellites, d \in Devices : <<s, d>> \in silent =>
          /\ s \in expired /\ \A e \in Devices : pending[e] # s
          /\ "failed" \in heard[s] \/ \E e \in Devices : <<s, e>> \in sweep

\* No entry comes back for a satellite whose time is over, and the sweep takes
\* all of them together, so that the last one it reports finds none left.
LEMMA SilenceStep == CallerType /\ SilenceInv /\ [D!Next]_(D!vars) => SilenceInv'
<1> SUFFICES ASSUME CallerType, SilenceInv, [D!Next]_(D!vars) PROVE SilenceInv'
    OBVIOUS
<1> USE DEF SilenceInv
<1>0. /\ Satellites \cap Texts = {} /\ D!Callers = Satellites \cup Texts /\ D!None \notin Satellites
      /\ \A s \in Satellites : s \in expired => pc[s] = "over"
    BY ConstantsOK DEF D!CommandsAssumption, D!Callers, CallerType
<1>1. ASSUME NEW c \in D!Callers, D!Register(c) PROVE SilenceInv'
    <2>1. /\ pc[c] = "register" /\ UNCHANGED <<sweep, heard, expired, silent>>
          /\ \/ c \in Satellites /\ pending' = [pending EXCEPT ![Head(left[c])] = c]
             \/ pending' = pending
        BY <1>0, <1>1 DEF D!Register, D!history
    <2>2. c \notin expired \/ c \notin Satellites
        BY <1>0, <2>1
    <2>3. CASE c \in Satellites /\ pending' = [pending EXCEPT ![Head(left[c])] = c]
        <3>1. /\ pending' \in [Devices -> Satellites \cup {D!None}]
              /\ \A e \in Devices : pending'[e] = pending[e] \/ pending'[e] = c
            BY <2>3
        <3>2. c \notin expired
            BY <2>2, <2>3
        <3>3. QED BY <2>1, <3>1, <3>2
    <2>4. CASE pending' = pending
        BY <2>1, <2>4
    <2>5. QED BY <2>1, <2>3, <2>4
<1>2. ASSUME NEW c \in D!Callers, D!Send(c) PROVE SilenceInv'
    <2>1. /\ UNCHANGED <<sweep, heard, expired, silent>>
          /\ \/ pending' = [pending EXCEPT ![Head(left[c])] = D!None]
             \/ pending' = pending
        BY <1>2 DEF D!Send, D!RollBack
    <2>2. QED BY <1>0, <2>1
<1>3. ASSUME NEW c \in D!Callers, D!Deadline(c) PROVE SilenceInv'
    <2>1. expired' = expired \cup {c} /\ UNCHANGED <<pending, sweep, heard, silent>>
        BY <1>3 DEF D!Deadline, D!history
    <2>2. QED BY <2>1
<1>4. CASE D!ConfirmPending
    <2>1. /\ UNCHANGED <<sweep, expired, silent>> /\ pending' = [pending EXCEPT ![stream.d] = D!None]
          /\ \/ heard' = heard
             \/ heard' = [heard EXCEPT ![pending[stream.d]] = @ \cup {"failed"}]
        BY <1>4 DEF D!ConfirmPending, D!history
    <2>2. heard' \in [Satellites -> SUBSET {"ok", "failed"}] /\ \A s \in Satellites : heard[s] \subseteq heard'[s]
        BY <2>1
    <2>3. /\ pending' \in [Devices -> Satellites \cup {D!None}]
          /\ \A e \in Devices : pending'[e] = pending[e] \/ pending'[e] = D!None
        BY <2>1
    <2>4. QED BY <1>0, <2>1, <2>2, <2>3
<1>5. CASE D!CountPending
    <2>1. /\ UNCHANGED <<pending, sweep, expired, silent>>
          /\ \/ heard' = heard
             \/ heard' = [heard EXCEPT ![stream.sat] = @ \cup {"ok"}]
        BY <1>5 DEF D!CountPending, D!history
    <2>2. heard' \in [Satellites -> SUBSET {"ok", "failed"}] /\ \A s \in Satellites : heard[s] \subseteq heard'[s]
        BY <2>1
    <2>3. QED BY <2>1, <2>2
<1>6. CASE D!SweepDue
    <2> DEFINE over == {d \in Devices : pending[d] # D!None /\ pending[d] \in expired}
    <2>1. /\ sweep = {} /\ sweep' = {<<pending[d], d>> : d \in over} /\ silent' = silent \cup sweep'
          /\ pending' = [d \in Devices |-> IF d \in over THEN D!None ELSE pending[d]]
          /\ UNCHANGED <<expired, heard>>
        BY <1>6 DEF D!SweepDue
    <2>2. \A d \in over : pending[d] \in Satellites /\ pending[d] \in expired /\ d \in Devices
        OBVIOUS
    <2>3. \A s \in Satellites, d \in Devices : <<s, d>> \in sweep' => s \in expired
        BY <2>1, <2>2
    <2>4. \A s \in Satellites, d \in Devices : <<s, d>> \in silent' => s \in expired
        BY <2>1, <2>3
    <2>5. \A s \in Satellites, e \in Devices : s \in expired => pending'[e] # s
        BY <1>0, <2>1
    <2>6. sweep' \subseteq Satellites \X Devices
        BY <2>1, <2>2
    <2>7. QED BY <2>1, <2>4, <2>5, <2>6
<1>7. ASSUME NEW s \in Satellites, NEW d \in Devices, D!SweepReports(s, d) PROVE SilenceInv'
    <2>1. /\ <<s, d>> \in sweep /\ sweep' = sweep \ {<<s, d>>} /\ UNCHANGED <<pending, expired, silent>>
          /\ heard' = IF D!Remaining(s) # {} THEN heard ELSE [heard EXCEPT ![s] = @ \cup {"failed"}]
        BY <1>7 DEF D!SweepReports, D!history
    <2>2. D!Remaining(s) = {}
        BY <2>1 DEF D!Remaining
    <2>3. heard' = [heard EXCEPT ![s] = @ \cup {"failed"}]
        BY <2>1, <2>2
    <2>4. /\ heard' \in [Satellites -> SUBSET {"ok", "failed"}] /\ "failed" \in heard'[s]
          /\ \A t \in Satellites : t # s => heard'[t] = heard[t]
        BY <2>3
    <2>5. \A t \in Satellites, e \in Devices : t # s /\ <<t, e>> \in sweep => <<t, e>> \in sweep'
        BY <2>1
    <2>6. QED BY <2>1, <2>4, <2>5
<1>8. CASE UNCHANGED <<pending, heard, sweep, silent, expired>>
    BY <1>8
<1>9. QED
    BY <1>1, <1>2, <1>3, <1>4, <1>5, <1>6, <1>7, <1>8 DEF D!Next, D!vars, D!caller, D!confirm, D!history, D!CallerStep,
       D!Execute, D!Note, D!Written, D!Await, D!StreamStep, D!Update, D!Wake, D!SweepStep, D!Apply, D!Flip, D!Lose, D!Reconnect

CommandsInv == CallerType /\ WaiterInv /\ SilenceInv

\* No command has begun.
LEMMA CommandsInit == Init => CommandsInv
<1>1. D!None \notin Texts /\ D!Callers = Satellites \cup Texts
    BY ConstantsOK DEF D!CommandsAssumption, D!Callers
<1>2. << >> \in Seq(Devices)
    BY EmptySeq
<1>3. QED
    BY <1>1, <1>2 DEF Init, D!Init, D!NoWaiter, CommandsInv, CallerType, WaiterInv, SilenceInv

\* Every step of a caller, of the adapter's stream and of the sweep keeps it.
LEMMA CommandsSound == CommandsInv => D!SilenceIsReported /\ D!RegistrationsEnd
<1> SUFFICES ASSUME CommandsInv PROVE D!SilenceIsReported /\ D!RegistrationsEnd
    OBVIOUS
<1>1. D!SilenceIsReported
    BY DEF CommandsInv, SilenceInv, D!SilenceIsReported
<1>2. D!RegistrationsEnd
    <2>1. D!None \notin Texts /\ D!Callers = Satellites \cup Texts
        BY ConstantsOK DEF D!CommandsAssumption, D!Callers
    <2>2. \A c \in Texts : pc[c] = "over" => \A d \in Devices : waiter[d].by # c
        BY <2>1 DEF CommandsInv, CallerType, WaiterInv
    <2>3. QED BY <2>2 DEF CommandsInv, WaiterInv, D!RegistrationsEnd
<1>3. QED BY <1>1, <1>2

-----------------------------------------------------------------------------
(* Typed devices, proved for every number of states.                        *)

\* A set of naturals has a least element.  The library's induction takes an
\* operator; this is the same from what it says of finite sets.
LEMMA Least ==
    ASSUME NEW S \in SUBSET Nat, S # {}
    PROVE  \E x \in S : \A y \in S : x <= y
<1>1. PICK n \in S : TRUE
    OBVIOUS
<1> DEFINE F == {0..x : x \in S \cap 0..n}
<1>2. F # {} /\ F \subseteq FiniteSubsetsOf(0..n)
    <2>1. n \in S \cap 0..n
        OBVIOUS
    <2>2. \A x \in S \cap 0..n : IsFiniteSet(0..x) /\ 0..x \subseteq 0..n
        BY FS_Interval
    <2>3. QED BY <2>1, <2>2 DEF FiniteSubsetsOf
<1>3. \E X \in F : \A Y \in F : <<Y, X>> \notin StrictSubsetOrdering(0..n)
    <2> HIDE DEF F
    <2>1. QED BY <1>2, FS_StrictSubsetOrderingWellFounded, WFMin, Zenon
<1>4. PICK x \in S \cap 0..n : \A y \in S \cap 0..n : <<0..y, 0..x>> \notin StrictSubsetOrdering(0..n)
    BY <1>3
<1>5. ASSUME NEW y \in S, y < x PROVE FALSE
    <2>1. y \in S \cap 0..n /\ 0..y \subseteq 0..x /\ 0..x \subseteq 0..n /\ x \in 0..x /\ x \notin 0..y
        BY <1>5
    <2>2. <<0..y, 0..x>> \in StrictSubsetOrdering(0..n)
        BY <2>1 DEF StrictSubsetOrdering
    <2>3. QED BY <1>4, <2>1, <2>2
<1>6. QED BY <1>5

\* The slot of a state, given those of the states before it.
Slot(s, i, before) == IF M!KindOf(s, i) # "none" THEN <<M!KindOf(s, i), 1>> ELSE <<s[i].suffix, M!FreeId(s, i, before)>>

\* The slots are what they are defined by: each from those before it.
LEMMA SlotsExist ==
    ASSUME NEW s, Len(s) \in Nat
    PROVE  M!SlotIds(s) = [i \in 1..Len(s) |-> Slot(s, i, {M!SlotIds(s)[j] : j \in 1..(i - 1)})]
<1> DEFINE Good(m) == \E f : f = [i \in 1..m |-> Slot(s, i, {f[j] : j \in 1..(i - 1)})]
           Bad == {m \in Nat : ~Good(m)}
<1>1. Good(0)
    <2>1. << >> = [i \in 1..0 |-> Slot(s, i, {<< >>[j] : j \in 1..(i - 1)})]
        OBVIOUS
    <2>2. QED BY <2>1
<1>2. ASSUME NEW m \in Nat, Good(m) PROVE Good(m + 1)
    <2>1. PICK f : f = [i \in 1..m |-> Slot(s, i, {f[j] : j \in 1..(i - 1)})]
        BY <1>2
    <2> DEFINE g == [i \in 1..(m + 1) |-> IF i = m + 1 THEN Slot(s, m + 1, {f[j] : j \in 1..m}) ELSE f[i]]
    <2>2. \A i \in 1..(m + 1) : {g[j] : j \in 1..(i - 1)} = {f[j] : j \in 1..(i - 1)}
        <3>1. \A i \in 1..(m + 1) : \A j \in 1..(i - 1) : j \in 1..(m + 1) /\ j # m + 1
            OBVIOUS
        <3>2. \A j \in 1..(m + 1) : j # m + 1 => g[j] = f[j]
            OBVIOUS
        <3> HIDE DEF g
        <3>3. QED BY <3>1, <3>2
    <2>3. \A i \in 1..(m + 1) : g[i] = Slot(s, i, {g[j] : j \in 1..(i - 1)})
        <3>1. g[m + 1] = Slot(s, m + 1, {f[j] : j \in 1..((m + 1) - 1)})
            <4>1. (m + 1) - 1 = m /\ m + 1 \in 1..(m + 1)
                OBVIOUS
            <4>2. QED BY <4>1
        <3>2. \A i \in 1..m : g[i] = Slot(s, i, {f[j] : j \in 1..(i - 1)})
            <4>1. \A i \in 1..m : g[i] = f[i]
                OBVIOUS
            <4>2. \A i \in 1..m : f[i] = Slot(s, i, {f[j] : j \in 1..(i - 1)})
                BY <2>1
            <4>3. QED BY <4>1, <4>2
        <3>3. \A i \in 1..(m + 1) : i \in 1..m \/ i = m + 1
            OBVIOUS
        <3> HIDE DEF g
        <3>4. QED BY <2>2, <3>1, <3>2, <3>3
    <2>4. g = [i \in 1..(m + 1) |-> Slot(s, i, {g[j] : j \in 1..(i - 1)})]
        BY <2>3
    <2> HIDE DEF g
    <2>5. QED BY <2>4
<1> HIDE DEF Good
<1>3. Bad = {}
    <2>1. SUFFICES ASSUME Bad # {} PROVE FALSE
        OBVIOUS
    <2>2. PICK m \in Bad : \A k \in Bad : m <= k
        <3>1. Bad \in SUBSET Nat
            OBVIOUS
        <3> HIDE DEF Bad
        <3>2. QED BY <2>1, <3>1, Least
    <2>3. m \in Nat /\ m # 0 /\ m - 1 \in Nat /\ (m - 1) + 1 = m
        BY <1>1, <2>2
    <2>4. Good(m - 1)
        BY <2>2, <2>3
    <2>5. QED BY <1>2, <2>2, <2>3, <2>4
<1>4. Good(Len(s))
    BY <1>3
<1>5. QED
    BY <1>4 DEF Good, M!SlotIds, Slot

\* A free number is found among the first: the slots before and the standard
\* slots are together fewer than the numbers tried.
LEMMA FreeIdIsFree ==
    ASSUME NEW s \in Seq(M!Reports), NEW i \in 1..Len(s), NEW ids
    PROVE  LET taken == {ids[j] : j \in 1..(i - 1)} IN
           <<s[i].suffix, M!FreeId(s, i, taken)>> \notin taken \cup {<<k, 1>> : k \in M!Kinds(s)}
<1> DEFINE used == {ids[j] : j \in 1..(i - 1)} \cup {<<k, 1>> : k \in M!Kinds(s)}
           x == s[i].suffix
<1>0. PICK l \in Nat : l = Len(s) /\ DOMAIN s = 1..l /\ i \in 1..l
    BY LenProperties
<1>1. ASSUME \A n \in 1..(2 * l + 1) : <<x, n>> \in used PROVE FALSE
    <2>1. \A n \in 1..(2 * l + 1) : \E p \in 1..(2 * l) :
             IF p <= l THEN ids[p] = <<x, n>> ELSE <<M!KindOf(s, p - l), 1>> = <<x, n>>
        <3>1. SUFFICES ASSUME NEW n \in 1..(2 * l + 1)
                       PROVE \E p \in 1..(2 * l) : IF p <= l THEN ids[p] = <<x, n>> ELSE <<M!KindOf(s, p - l), 1>> = <<x, n>>
            OBVIOUS
        <3>2. CASE \E j \in 1..(i - 1) : ids[j] = <<x, n>>
            <4>1. PICK j \in 1..(i - 1) : ids[j] = <<x, n>>
                BY <3>2
            <4>2. j \in 1..(2 * l) /\ j <= l
                BY <1>0
            <4>3. QED BY <4>1, <4>2
        <3>3. CASE \E k \in M!Kinds(s) : <<k, 1>> = <<x, n>>
            <4>1. PICK j \in 1..l : <<M!KindOf(s, j), 1>> = <<x, n>>
                BY <1>0, <3>3 DEF M!Kinds
            <4>2. l + j \in 1..(2 * l) /\ ~(l + j <= l) /\ (l + j) - l = j
                BY <1>0
            <4>3. QED BY <4>1, <4>2
        <3>4. QED BY <1>1, <3>2, <3>3
    <2> DEFINE f == [n \in 1..(2 * l + 1) |-> CHOOSE p \in 1..(2 * l) :
                        IF p <= l THEN ids[p] = <<x, n>> ELSE <<M!KindOf(s, p - l), 1>> = <<x, n>>]
    <2>2. \A n \in 1..(2 * l + 1) : f[n] \in 1..(2 * l) /\ (IF f[n] <= l THEN ids[f[n]] = <<x, n>> ELSE <<M!KindOf(s, f[n] - l), 1>> = <<x, n>>)
        BY <2>1
    <2>3. f \in [1..(2 * l + 1) -> 1..(2 * l)]
        BY <2>2
    <2> HIDE DEF f, x
    <2>4. \A n, m \in 1..(2 * l + 1) : f[n] = f[m] => n = m
        BY <2>2
    <2>5. /\ IsFiniteSet(1..(2 * l + 1)) /\ IsFiniteSet(1..(2 * l))
          /\ Cardinality(1..(2 * l)) < Cardinality(1..(2 * l + 1))
        <3>1. 1 \in Int /\ 2 * l \in Int /\ 2 * l + 1 \in Int /\ 2 * l \in Nat
            BY <1>0
        <3>2. IsFiniteSet(1..(2 * l + 1)) /\ Cardinality(1..(2 * l + 1)) = 2 * l + 1
            BY <3>1, FS_Interval
        <3>3. IsFiniteSet(1..(2 * l)) /\ Cardinality(1..(2 * l)) = 2 * l
            BY <1>0, <3>1, FS_Interval
        <3>4. QED BY <3>1, <3>2, <3>3
    <2>6. \E n, m \in 1..(2 * l + 1) : n # m /\ f[n] = f[m]
        BY <2>3, <2>5, FS_PigeonHole
    <2>7. QED BY <2>4, <2>6
<1>2. \E n \in 1..(2 * l + 1) : <<x, n>> \notin used /\ \A h \in 1..(n - 1) : <<x, h>> \in used
    <2> DEFINE Free == {n \in 1..(2 * l + 1) : <<x, n>> \notin used}
    <2> HIDE DEF used, x
    <2>1. Free # {} /\ Free \in SUBSET Nat
        <3>1. \E n \in 1..(2 * l + 1) : <<x, n>> \notin used
            BY <1>1
        <3>2. 1..(2 * l + 1) \subseteq Nat
            OBVIOUS
        <3>3. QED BY <3>1, <3>2
    <2>2. PICK n \in Free : \A h \in Free : n <= h
        <3> HIDE DEF Free
        <3>1. QED BY <2>1, Least
    <2>3. \A h \in 1..(n - 1) : h \in 1..(2 * l + 1) /\ ~(n <= h)
        BY <2>2
    <2>4. QED BY <2>2, <2>3
<1>3. M!FreeId(s, i, {ids[j] : j \in 1..(i - 1)})
        = CHOOSE n \in 1..(2 * l + 1) : <<x, n>> \notin used /\ \A h \in 1..(n - 1) : <<x, h>> \in used
    BY <1>0 DEF M!FreeId
<1>4. <<x, M!FreeId(s, i, {ids[j] : j \in 1..(i - 1)})>> \notin used
    <2> HIDE DEF used, x
    <2>1. QED BY <1>2, <1>3
<1>5. QED BY <1>4

\* A standard slot has one state.
LEMMA KindIsOnce ==
    ASSUME NEW s, NEW i \in DOMAIN s, NEW j \in DOMAIN s, M!KindOf(s, i) # "none", M!KindOf(s, i) = M!KindOf(s, j)
    PROVE  i = j
<1> DEFINE k == M!Preliminary(s[i], M!Hints(s))
           same(kind) == {h \in DOMAIN s : M!Preliminary(s[h], M!Hints(s)) = kind}
<1>1. M!KindOf(s, i) = k /\ M!Preliminary(s[j], M!Hints(s)) = k
    BY DEF M!KindOf
<1>2. same(k) = {i} \/ {h \in same(k) : s[h].suffix \notin M!Excluded} = {i}
    BY DEF M!KindOf
<1>3. same(k) = {j} \/ {h \in same(k) : s[h].suffix \notin M!Excluded} = {j}
    BY <1>1 DEF M!KindOf
<1>4. i \in same(k) /\ j \in same(k)
    BY <1>1
<1> HIDE DEF k
<1>5. QED BY <1>2, <1>3, <1>4

\* Two states never share a slot, so there are as many slots as states.
LEMMA NothingLost == states \in Seq(M!Reports) => M!NothingIsLost
<1> SUFFICES ASSUME states \in Seq(M!Reports) PROVE M!NothingIsLost
    OBVIOUS
<1> DEFINE ids == M!SlotIds(states)
<1>0. PICK l \in Nat : l = Len(states) /\ DOMAIN states = 1..l
    BY LenProperties
<1>1. ids = [i \in 1..l |-> Slot(states, i, {ids[j] : j \in 1..(i - 1)})]
    BY <1>0, SlotsExist
<1> HIDE DEF ids
<1>2. ASSUME NEW i \in 1..l, NEW j \in 1..l, j < i PROVE ids[i] # ids[j]
    <2> DEFINE taken == {ids[h] : h \in 1..(i - 1)}
               before == {ids[h] : h \in 1..(j - 1)}
    <2>1. ids[j] \in taken /\ i \in 1..Len(states) /\ j \in 1..Len(states) /\ i \in DOMAIN states /\ j \in DOMAIN states
        BY <1>0, <1>2
    <2>2. ids[i] = Slot(states, i, taken) /\ ids[j] = Slot(states, j, before)
        BY <1>1
    <2>3. <<states[i].suffix, M!FreeId(states, i, taken)>> \notin taken \cup {<<k, 1>> : k \in M!Kinds(states)}
        BY <2>1, FreeIdIsFree
    <2>4. <<states[j].suffix, M!FreeId(states, j, before)>> \notin before \cup {<<k, 1>> : k \in M!Kinds(states)}
        BY <2>1, FreeIdIsFree
    <2> HIDE DEF taken, before
    <2>5. CASE M!KindOf(states, i) = "none"
        BY <2>1, <2>2, <2>3, <2>5 DEF Slot
    <2>6. CASE M!KindOf(states, i) # "none" /\ M!KindOf(states, j) # "none"
        <3>1. M!KindOf(states, i) # M!KindOf(states, j)
            BY <1>2, <2>1, <2>6, KindIsOnce
        <3>2. QED BY <2>2, <2>6, <3>1 DEF Slot
    <2>7. CASE M!KindOf(states, i) # "none" /\ M!KindOf(states, j) = "none"
        <3>1. M!KindOf(states, i) \in M!Kinds(states)
            BY <2>1, <2>7 DEF M!Kinds
        <3>2. ids[i] \in {<<k, 1>> : k \in M!Kinds(states)}
            BY <2>2, <2>7, <3>1 DEF Slot
        <3>3. QED BY <2>2, <2>4, <2>7, <3>2 DEF Slot
    <2>8. QED BY <2>5, <2>6, <2>7
<1>3. \A i, j \in 1..l : ids[i] = ids[j] => i = j
    BY <1>2
<1>4. DOMAIN ids = 1..l /\ M!ToSet(ids) = {ids[i] : i \in 1..l}
    BY <1>1 DEF M!ToSet
<1>5. ids \in Bijection(1..l, M!ToSet(ids))
    <2>1. ids \in [1..l -> M!ToSet(ids)]
        BY <1>1, <1>4
    <2>2. QED BY <1>3, <1>4, <2>1 DEF Bijection, Injection, Surjection, IsInjective
<1>6. IsFiniteSet(1..l) /\ Cardinality(1..l) = l
    BY FS_Interval
<1>7. Cardinality(M!ToSet(ids)) = l
    BY <1>5, <1>6, FS_Bijection DEF ExistsBijection
<1>8. Cardinality(M!ToSet(M!SlotIds(states))) = Len(states)
    BY <1>0, <1>7 DEF ids
<1>9. \A S : M!Cardinality(S) = Cardinality(S)
    BY DEF M!Cardinality, Cardinality
<1>10. QED BY <1>8, <1>9 DEF M!NothingIsLost

\* The list turned around has the same states, each with the kind it had.
LEMMA Turned ==
    ASSUME states \in Seq(M!Reports)
    PROVE  /\ \A i \in DOMAIN states : M!KindOf(M!Reverse(states), Len(states) + 1 - i) = M!KindOf(states, i)
           /\ M!Hints(M!Reverse(states)) = M!Hints(states)
           /\ M!Kinds(M!Reverse(states)) = M!Kinds(states)
           /\ \A k : M!Writable(M!Reverse(states), k) = M!Writable(states, k)
<1> DEFINE t == M!Reverse(states)
<1>0. PICK l \in Nat : l = Len(states) /\ DOMAIN states = 1..l
    BY LenProperties
<1>1. /\ DOMAIN t = 1..l
      /\ \A i \in 1..l : l + 1 - i \in 1..l /\ l + 1 - (l + 1 - i) = i /\ t[i] = states[l + 1 - i]
    <2>1. \A i \in 1..l : l + 1 - i \in 1..l /\ l + 1 - (l + 1 - i) = i /\ (l - i) + 1 = l + 1 - i
        OBVIOUS
    <2>2. t = [i \in 1..l |-> states[(l - i) + 1]]
        BY <1>0 DEF M!Reverse
    <2> HIDE DEF t
    <2>3. QED BY <2>1, <2>2
<1> HIDE DEF t
<1>2. \A i \in 1..l : t[l + 1 - i] = states[i]
    BY <1>1
<1>3. M!Hints(t) = M!Hints(states)
    BY <1>0, <1>1, <1>2 DEF M!Hints
<1>4. ASSUME NEW i \in 1..l PROVE M!KindOf(t, l + 1 - i) = M!KindOf(states, i)
    <2> DEFINE p == l + 1 - i
               k == M!Preliminary(states[i], M!Hints(states))
               same == {j \in 1..l : M!Preliminary(states[j], M!Hints(states)) = k}
               turned == {j \in 1..l : M!Preliminary(t[j], M!Hints(states)) = k}
               plain == {j \in same : states[j].suffix \notin M!Excluded}
               turnedPlain == {j \in turned : t[j].suffix \notin M!Excluded}
    <2>1. p \in 1..l /\ t[p] = states[i]
        BY <1>1, <1>2
    <2>2. \A j \in 1..l : l + 1 - j \in 1..l /\ (l + 1 - j = p <=> j = i)
        BY <1>1
    <2> HIDE DEF p
    <2>3. \A j \in 1..l : (l + 1 - j \in turned <=> j \in same) /\ (l + 1 - j \in turnedPlain <=> j \in plain)
        <3> HIDE DEF k
        <3>1. QED BY <1>1, <1>2
    <2>4. \A j \in 1..l : \E h \in 1..l : j = l + 1 - h
        BY <1>1
    <2>5. (turned = {p} <=> same = {i}) /\ (turnedPlain = {p} <=> plain = {i})
        <3>1. turned \subseteq 1..l /\ same \subseteq 1..l /\ turnedPlain \subseteq 1..l /\ plain \subseteq 1..l
            OBVIOUS
        <3>2. ASSUME NEW A \in SUBSET (1..l), NEW B \in SUBSET (1..l), \A j \in 1..l : l + 1 - j \in A <=> j \in B
              PROVE  A = {p} <=> B = {i}
            <4>1. l + 1 - i = p
                BY <2>2
            <4>2. ASSUME A = {p} PROVE B = {i}
                <5>1. i \in B
                    BY <3>2, <4>1, <4>2
                <5>2. \A j \in B : j = i
                    BY <2>2, <3>2, <4>2
                <5>3. QED BY <5>1, <5>2
            <4>3. ASSUME B = {i} PROVE A = {p}
                <5>1. p \in A
                    BY <3>2, <4>1, <4>3
                <5>2. ASSUME NEW j \in A PROVE j = p
                    <6>1. PICK h \in 1..l : j = l + 1 - h
                        BY <2>4
                    <6>2. h = i
                        BY <3>2, <4>3, <6>1
                    <6>3. QED BY <4>1, <6>1, <6>2
                <5>3. QED BY <5>1, <5>2
            <4>4. QED BY <4>2, <4>3
        <3> HIDE DEF turned, same, turnedPlain, plain
        <3>3. QED BY <2>3, <3>1, <3>2
    <2>6. M!KindOf(t, p) = IF k # "none" /\ (turned = {p} \/ (k = "target_temperature" /\ turnedPlain = {p})) THEN k ELSE "none"
        BY <1>1, <1>3, <2>1 DEF M!KindOf
    <2>7. M!KindOf(states, i) = IF k # "none" /\ (same = {i} \/ (k = "target_temperature" /\ plain = {i})) THEN k ELSE "none"
        BY <1>0 DEF M!KindOf
    <2> HIDE DEF turned, same, turnedPlain, plain, k
    <2>8. M!KindOf(t, p) = M!KindOf(states, i)
        BY <2>5, <2>6, <2>7
    <2>9. QED BY <2>8 DEF p
<1>5. M!Kinds(t) = M!Kinds(states)
    <2>1. \A i \in 1..l : M!KindOf(t, i) = M!KindOf(states, l + 1 - i)
        BY <1>1, <1>4
    <2>2. QED BY <1>0, <1>1, <1>4, <2>1 DEF M!Kinds
<1>6. ASSUME NEW k PROVE M!Writable(t, k) = M!Writable(states, k)
    <2>1. ASSUME NEW i \in 1..l PROVE M!KindOf(t, i) = M!KindOf(states, l + 1 - i) /\ t[i] = states[l + 1 - i]
        BY <1>1, <1>4
    <2>2. ASSUME NEW i \in 1..l PROVE M!KindOf(t, l + 1 - i) = M!KindOf(states, i) /\ t[l + 1 - i] = states[i]
        BY <1>2, <1>4
    <2>3. (\E i \in 1..l : M!KindOf(t, i) = k /\ t[i].writable) => \E i \in 1..l : M!KindOf(states, i) = k /\ states[i].writable
        BY <1>1, <2>1
    <2>4. (\E i \in 1..l : M!KindOf(states, i) = k /\ states[i].writable) => \E i \in 1..l : M!KindOf(t, i) = k /\ t[i].writable
        BY <1>1, <2>2
    <2>5. QED BY <1>0, <1>1, <2>3, <2>4 DEF M!Writable
<1>7. QED BY <1>0, <1>3, <1>4, <1>5, <1>6 DEF t

ModelInv ==
    part = "model" =>
        /\ states \in Seq(M!Reports) /\ wire \in {M!Unsent, M!WireValue(cover)}
        /\ cover \in [inverted : BOOLEAN, closing : {FALSE}, said : Percents]
                     \cup [inverted : BOOLEAN, closing : {TRUE}, said : {0, 100}]

\* A mirror twice is none.
LEMMA CoverSaid == part = "model" /\ ModelInv => M!CoverAsSaid
<1> SUFFICES ASSUME part = "model", ModelInv, wire = M!WireValue(cover)
             PROVE  /\ ~cover.closing => wire = cover.said
                    /\ cover.closing /\ cover.said = 100 => wire = (IF cover.inverted THEN 0 ELSE 100)
                    /\ M!ReadBack(cover, wire) = M!SlotValue(cover)
    BY DEF ModelInv, M!CoverAsSaid
<1>1. cover.said \in Int /\ cover.inverted \in BOOLEAN /\ cover.closing \in BOOLEAN
    <2>1. Percents \subseteq Int
        BY ConstantsOK DEF M!PercentsAssumption
    <2>2. CASE cover \in [inverted : BOOLEAN, closing : {FALSE}, said : Percents]
        BY <2>1, <2>2
    <2>3. CASE cover \in [inverted : BOOLEAN, closing : {TRUE}, said : {0, 100}]
        <3>1. cover.said \in {0, 100}
            BY <2>3
        <3>2. cover.said \in Int
            BY <3>1
        <3>3. cover.inverted \in BOOLEAN
            BY <2>3
        <3>4. cover.closing \in {TRUE}
            BY <2>3
        <3>5. cover.closing \in BOOLEAN
            BY <3>4, Zenon
        <3>6. QED BY <3>2, <3>3, <3>5
    <2>4. QED BY <2>2, <2>3 DEF ModelInv
<1>2. QED BY <1>1 DEF M!WireValue, M!ReadBack, M!SlotValue, M!Mirrored

\* A typed device is the adapter's device, for every number of states in every
\* order, and a visualisation shows a cover as it was told; a device that never
\* answered a command is spoken of when it is over, and no registration is left
\* behind, whatever the callers, the stream and the sweep do in between
\* (typed_devices.py, iobroker.py:645).
THEOREM DevicesAsReportedAlways == Spec => []DevicesAsReported
<1>1. Init => ModelInv
    <2>1. << >> \in Seq(M!Reports)
        BY EmptySeq
    <2>2. Init /\ part = "model" => M!Init
        BY DEF Init
    <2>3. QED BY <2>1, <2>2 DEF M!Init, ModelInv
<1>2. ModelInv /\ [Next]_vars => ModelInv'
    <2> SUFFICES ASSUME ModelInv, [Next]_vars, part' = "model" PROVE ModelInv'
        BY DEF ModelInv
    <2>1. part = "model" /\ (M!Next \/ UNCHANGED model)
        BY DEF Next, vars, Delay, Conditions, Commands, Model
    <2>2. CASE M!Move
        BY <2>1, <2>2 DEF M!Move, ModelInv, M!WireValue, M!SlotValue, M!Mirrored
    <2>3. ASSUME NEW st \in M!Reports, M!Report(st) PROVE ModelInv'
        BY <2>1, <2>3, AppendProperties DEF M!Report, ModelInv, M!WireValue, M!SlotValue, M!Mirrored
    <2>4. CASE UNCHANGED model
        BY <2>1, <2>4 DEF model, ModelInv, M!WireValue, M!SlotValue, M!Mirrored
    <2>5. QED BY <2>1, <2>2, <2>3, <2>4 DEF M!Next
<1>3. part = "model" /\ ModelInv => M!DevicesAsReported
    <2> SUFFICES ASSUME part = "model", ModelInv PROVE M!DevicesAsReported
        OBVIOUS
    <2>1. states \in Seq(M!Reports)
        BY DEF ModelInv
    <2>2. M!Class(M!Reverse(states)) = M!Class(states)
        BY <2>1, Turned DEF M!Class
    <2>3. M!OrderFree
        BY <2>1, <2>2, Turned DEF M!OrderFree
    <2>4. QED BY <2>1, <2>3, NothingLost, CoverSaid DEF M!DevicesAsReported
<1>4. CommandsInv /\ [Next]_vars => CommandsInv'
    BY CallerTypeStep, WaiterStep, SilenceStep, CommandStep DEF CommandsInv
<1>5. ModelInv /\ CommandsInv => DevicesAsReported
    BY <1>3, CommandsSound DEF DevicesAsReported
<1>6. QED
    BY <1>1, <1>2, <1>4, <1>5, CommandsInit, PTL DEF Spec
=============================================================================
