----------------------------- MODULE MCRegistry -----------------------------
(* One run for what the Core holds to be there (part): the log collectors   *)
(* and the feed about them, the components with their heartbeats, the       *)
(* presence of a user and the place of a tag.                               *)
EXTENDS Naturals, SequenceTheorems, TLAPS
CONSTANTS Conns, Names, Receivers, Subscribers, Fallbacks, Timers, MaxFailures,
          Instances, Stayers, Streams, Entries, Window, MaxComponents, Workers,
          wlan, tag, States, Tags, Grace, Handlers, Devices, MaxSignals,
          Satellites, Strengths, Interval, Stale, None, Parts
VARIABLES part,
          entries, stream, name, closed, view, queue, collectors, fallback, last, fromCollector, topic,
          thread, timer, failures, changes,
          alive, listed, owner, open, age, checked, call, handle,
          raw, seenAge, pending, sinceHome, user, resident, job, waiting, released, signals,
          rssi, heardAge, lastSat, evaluation

Conf(w, t) == [s \in States \cup Tags |-> IF s = wlan THEN w ELSE t]
I == INSTANCE Infrastructure WITH MaxChanges <- 1
T == INSTANCE ComponentTracker
P == INSTANCE Presence WITH HomeConf <- Conf(2, 3), AwayConf <- Conf(3, 1)
B == INSTANCE BleLocation WITH age <- heardAge, timer <- evaluation
ASSUME ConstantsOK ==
    /\ I!NamesAssumption /\ I!ReceiversAssumption /\ I!NoneAssumption /\ T!StayersAssumption /\ T!LimitsAssumption
    /\ P!ConfidenceAssumption /\ P!TimesAssumption /\ P!ThreadsAssumption /\ B!BleAssumption

infrastructure == <<entries, stream, name, closed, view, queue, collectors, fallback, last, fromCollector,
                    topic, thread, timer, failures, changes>>
components == <<alive, listed, owner, open, age, checked, call, handle>>
fusion == <<raw, seenAge, pending, sinceHome, user, resident, job, waiting, released, signals>>
place == <<rssi, heardAge, lastSat, evaluation>>
vars == <<part, infrastructure, components, fusion, place>>
InInfra(A) == part = "infrastructure" /\ A /\ UNCHANGED <<part, components, fusion, place>>
InList(A) == part = "components" /\ A /\ UNCHANGED <<part, infrastructure, fusion, place>>
InFusion(A) == part = "fusion" /\ A /\ UNCHANGED <<part, infrastructure, components, place>>
InPlace(A) == part = "place" /\ A /\ UNCHANGED <<part, infrastructure, components, fusion>>
\* One initial fallback is enough where nobody asks for it.
Init == /\ part \in Parts /\ I!Init /\ T!Init /\ P!Init /\ B!Init
        /\ part = "infrastructure" \/ fallback = CHOOSE f \in Fallbacks : TRUE
Next == InInfra(I!Next) \/ InList(T!Next) \/ InFusion(P!Next) \/ InPlace(B!Next)
Fairness ==
    /\ \A t \in Timers : WF_vars(InInfra(I!TimerElapses(t))) /\ WF_vars(InInfra(I!FallbackDue(t)))
    /\ \A c \in Conns : WF_vars(InInfra(I!DisplacedEnds(c)))
    /\ WF_vars(InList(T!Tick)) /\ \A i \in Stayers : SF_vars(InList(~checked /\ T!Heartbeat(i)))
    /\ \A s \in Streams : WF_vars(InList(T!StreamOpens(s))) /\ WF_vars(InList(T!BrokenStreamCloses(s)))
    /\ WF_vars(InFusion(P!Tick)) /\ WF_vars(InFusion(P!Pass)) /\ WF_vars(InFusion(P!QueueOta))
    /\ \A t \in P!Fusers : WF_vars(InFusion(P!Work(t)))
    /\ \A h \in Handlers : WF_vars(InFusion(P!Handle(h)))
Spec == Init /\ [][Next]_vars /\ Fairness

\* Infrastructure, ComponentTracker, Presence and BleLocation state these properties.
\* A subscriber's copy runs through what the registry was, and the registry
\* lists every stream that nobody displaced.
FeedIsFaithful == I!FeedIsFaithful /\ []I!RegisteredIsListed
\* hannah/syslog comes to name the collector, else the fallback, and never
\* names the fallback while there is a collector.
SyslogSettles == I!SyslogSettles /\ I!FallbackOnlyWithout
\* The list of components comes to be the list of those that run.
ListSettles == T!ListSettles /\ []T!CountsAgree
\* The place of a tag is the best that is known.
PlaceIsSound == B!PlaceIsSound
\* The presence of a user comes to be what the signals say, and is never away
\* before the grace period is over.  HomeInTheEnd is asked only where the threads of fusion run.
PresenceSettles == /\ <>[](part = "fusion" /\ P!HomeWins) => <>[](user \in {"home", "asleep"})
                   /\ P!AwayInTheEnd /\ P!AwayNeedsGrace

-----------------------------------------------------------------------------
(* The feed and the list of collectors, proved for every number of streams, *)
(* names and subscribers, and for queues of any length.                     *)

\* A step of the run is a step of the registry or leaves it alone.
LEMMA InfraStep == [Next]_vars => [I!Next]_(I!vars)
BY DEF Next, vars, InInfra, InList, InFusion, InPlace, infrastructure, I!vars, I!registryVars, I!syslogVars

Deltas == Names \X (Conns \cup {None})
FeedType ==
    /\ entries \in I!Endpoints /\ name \in [Conns -> Names \cup {None}]
    /\ view \in [Subscribers -> I!Endpoints \cup {None}] /\ queue \in [Subscribers -> Seq(Deltas)]

\* Whoever has no copy has nothing queued, and a copy with all that is queued is
\* the registry.  Of the deltas about a name one is the last; that this goes on
\* to hold needs no induction over the queue.
CopyInv(s) ==
    /\ view[s] = None => queue[s] = << >>
    /\ view[s] # None => I!After(s, Len(queue[s])) = entries
    /\ \A n \in Names, k \in 0..Len(queue[s]) :
          I!About(s, n, k) = {} \/ \E j \in I!About(s, n, k) : \A i \in I!About(s, n, k) : i <= j
FeedInv == FeedType /\ \A s \in Subscribers : CopyInv(s)

\* What the registry changes every subscriber is told, in the same step.
Told(n, c) ==
    /\ entries' = [entries EXCEPT ![n] = c] /\ UNCHANGED view
    /\ queue' = [s \in Subscribers |-> IF view[s] = None THEN queue[s] ELSE Append(queue[s], <<n, c>>)]

\* The largest of some numbers is Max.
LEMMA MaxIs ==
    ASSUME NEW S \in SUBSET Nat, NEW j \in S, \A i \in S : i <= j
    PROVE  I!Max(S) = j
<1>1. \A x \in S : (\A y \in S : x >= y) <=> x = j
    OBVIOUS
<1>2. I!Max(S) \in S /\ \A y \in S : I!Max(S) >= y
    <2>1. \E x \in S : \A y \in S : x >= y
        BY <1>1
    <2>2. QED BY <2>1 DEF I!Max
<1>3. QED BY <1>1, <1>2

\* A change, then, is a change of the original with its delta queued; every
\* other step is a subscriber's own.
LEMMA TellingStep ==
    ASSUME FeedInv, [I!Next]_(I!vars)
    PROVE  \/ \E n \in Names, c \in Conns \cup {None} : Told(n, c)
           \/ UNCHANGED <<entries, view, queue>>
           \/ \E s \in Subscribers : I!Subscribe(s) \/ I!Deliver(s) \/ I!Unsubscribe(s)
<1>1. ASSUME NEW c \in Conns, I!Unregister(c), UNCHANGED view
      PROVE  \/ \E n \in Names : Told(n, None)
             \/ UNCHANGED <<entries, view, queue>>
    <2>1. CASE name[c] # None /\ entries[name[c]] = c
        <3>1. name[c] \in Names
            BY <2>1 DEF FeedInv, FeedType
        <3>2. Told(name[c], None)
            BY <1>1, <2>1 DEF I!Unregister, I!Notify, Told
        <3>3. QED BY <3>1, <3>2
    <2>2. CASE ~(name[c] # None /\ entries[name[c]] = c)
        BY <1>1, <2>2 DEF I!Unregister, I!Quiet
    <2>3. QED BY <2>1, <2>2
<1>2. CASE \E c \in Conns : I!Rename(c) \/ I!StreamEnds(c)
    BY <1>1, <1>2 DEF I!Rename, I!StreamEnds
<1>3. ASSUME NEW c \in Conns, NEW n \in Names, I!Register(c, n) PROVE Told(n, c)
    BY <1>3 DEF I!Register, I!Notify, Told
<1>4. CASE \E t \in Timers : I!TimerElapses(t) \/ I!FallbackDue(t)
    BY <1>4 DEF I!TimerElapses, I!FallbackDue, I!registryVars
<1>5. CASE \E f \in Fallbacks : I!ChangeFallback(f)
    BY <1>5 DEF I!ChangeFallback, I!registryVars
<1>6. CASE UNCHANGED I!vars
    BY <1>6 DEF I!vars, I!registryVars
<1>7. QED BY <1>2, <1>3, <1>4, <1>5, <1>6 DEF I!Next

\* What the last delta about a name is, in terms of the deltas themselves.
LEMMA LastOf ==
    ASSUME NEW s \in Subscribers, FeedInv, NEW n \in Names, NEW k \in 0..Len(queue[s]), I!About(s, n, k) # {}
    PROVE  /\ I!Max(I!About(s, n, k)) \in I!About(s, n, k)
           /\ I!Max(I!About(s, n, k)) \in 1..k
           /\ \A i \in I!About(s, n, k) : i <= I!Max(I!About(s, n, k))
<1>1. PICK j \in I!About(s, n, k) : \A i \in I!About(s, n, k) : i <= j
    BY DEF FeedInv, CopyInv
<1>2. Len(queue[s]) \in Nat
    BY LenProperties DEF FeedInv, FeedType
<1>3. I!About(s, n, k) \subseteq 1..k /\ I!About(s, n, k) \in SUBSET Nat
    BY <1>2 DEF I!About
<1>4. I!Max(I!About(s, n, k)) = j
    BY <1>1, <1>3, MaxIs
<1>5. QED BY <1>1, <1>3, <1>4

\* A delta more: what was known after each of the others stays, and after this
\* one it is the registry as it has become.
LEMMA ToldStep ==
    ASSUME FeedInv, NEW n \in Names, NEW c \in Conns \cup {None}, Told(n, c),
           NEW s \in Subscribers, view[s] # None
    PROVE  /\ \A k \in 0..Len(queue[s]) : I!After(s, k)' = I!After(s, k)
           /\ Len(queue'[s]) = Len(queue[s]) + 1
           /\ I!After(s, Len(queue[s]))' = entries'
           /\ CopyInv(s)'
<1>0. PICK l \in Nat : l = Len(queue[s])
    BY LenProperties DEF FeedInv, FeedType
<1>1. /\ queue'[s] = Append(queue[s], <<n, c>>) /\ queue[s] \in Seq(Deltas) /\ <<n, c>> \in Deltas
      /\ view'[s] = view[s]
    BY DEF Told, FeedInv, FeedType, Deltas
<1>2. /\ l \in Nat /\ Len(queue'[s]) = l + 1
      /\ \A i \in 1..l : queue'[s][i] = queue[s][i]
      /\ queue'[s][l + 1] = <<n, c>>
    BY <1>0, <1>1, AppendProperties
<1>3. \A m \in Names, k \in 0..l : I!About(s, m, k)' = I!About(s, m, k)
    <2> SUFFICES ASSUME NEW m \in Names, NEW k \in 0..l PROVE I!About(s, m, k)' = I!About(s, m, k)
        OBVIOUS
    <2>1. \A j \in 1..k : queue'[s][j] = queue[s][j]
        BY <1>2
    <2>2. QED BY <2>1 DEF I!About
<1>4. \A m \in Names, k \in 0..l : I!After(s, k)[m]' = I!After(s, k)[m]
    <2> SUFFICES ASSUME NEW m \in Names, NEW k \in 0..l PROVE I!After(s, k)[m]' = I!After(s, k)[m]
        OBVIOUS
    <2>1. I!About(s, m, k)' = I!About(s, m, k)
        BY <1>3
    <2>2. CASE I!About(s, m, k) = {}
        BY <1>1, <2>1, <2>2 DEF I!After
    <2>3. CASE I!About(s, m, k) # {}
        <3>1. I!Max(I!About(s, m, k)) \in 1..l
            BY <1>0, <1>2, <2>3, LastOf
        <3>2. QED BY <1>2, <2>1, <2>3, <3>1 DEF I!After
    <2>4. QED BY <2>2, <2>3
<1>5. \A k \in 0..l : I!After(s, k)' = I!After(s, k)
    BY <1>4 DEF I!After
<1>6. \A m \in Names : I!About(s, m, l + 1)' = IF m = n THEN I!About(s, m, l) \cup {l + 1} ELSE I!About(s, m, l)
    <2> SUFFICES ASSUME NEW m \in Names
                 PROVE I!About(s, m, l + 1)' = IF m = n THEN I!About(s, m, l) \cup {l + 1} ELSE I!About(s, m, l)
        OBVIOUS
    <2>1. 1..(l + 1) = 1..l \cup {l + 1}
        BY <1>2
    <2>2. queue'[s][l + 1][1] = n
        BY <1>2
    <2>3. QED BY <1>2, <2>1, <2>2 DEF I!About
<1>7. \A m \in Names, k \in 0..(l + 1) :
          I!About(s, m, k)' = {} \/ \E j \in I!About(s, m, k)' : \A i \in I!About(s, m, k)' : i <= j
    <2> SUFFICES ASSUME NEW m \in Names, NEW k \in 0..(l + 1)
                 PROVE  I!About(s, m, k)' = {} \/ \E j \in I!About(s, m, k)' : \A i \in I!About(s, m, k)' : i <= j
        OBVIOUS
    <2>1. \A i \in 0..l : I!About(s, m, i) = {} \/ \E j \in I!About(s, m, i) : \A h \in I!About(s, m, i) : h <= j
        BY <1>0 DEF FeedInv, CopyInv
    <2>2. CASE k \in 0..l
        BY <1>3, <2>1, <2>2
    <2>3. CASE k = l + 1 /\ m # n
        <3>1. I!About(s, m, k)' = I!About(s, m, l)
            BY <1>6, <2>3
        <3>2. l \in 0..l
            BY <1>2
        <3>3. QED BY <2>1, <3>1, <3>2
    <2>4. CASE k = l + 1 /\ m = n
        <3>1. I!About(s, m, k)' = I!About(s, m, l) \cup {l + 1}
            BY <1>6, <2>4
        <3>2. I!About(s, m, l) \subseteq 1..l
            BY DEF I!About
        <3>3. \A i \in I!About(s, m, l) \cup {l + 1} : i <= l + 1
            BY <1>2, <3>2
        <3>4. QED BY <3>1, <3>3
    <2>5. QED BY <1>2, <2>2, <2>3, <2>4
<1>8. I!After(s, l + 1)' = entries'
    <2>1. entries \in [Names -> Conns \cup {None}] /\ entries' = [entries EXCEPT ![n] = c] /\ I!After(s, l) = entries
        BY <1>0 DEF FeedInv, FeedType, CopyInv, Told, I!Endpoints
    <2>2. ASSUME NEW m \in Names, m # n PROVE I!After(s, l + 1)[m]' = entries[m]
        <3>1. I!About(s, m, l + 1)' = I!About(s, m, l)
            BY <1>6, <2>2
        <3>2. l \in 0..l /\ I!About(s, m, l)' = I!About(s, m, l)
            BY <1>2, <1>3
        <3>3. I!After(s, l + 1)[m]' = I!After(s, l)[m]'
            BY <3>1, <3>2 DEF I!After
        <3>4. QED BY <1>4, <2>1, <3>2, <3>3
    <2>3. I!After(s, l + 1)[n]' = c
        <3>1. I!About(s, n, l + 1)' = I!About(s, n, l) \cup {l + 1} /\ I!About(s, n, l) \subseteq 1..l
            BY <1>6 DEF I!About
        <3>2. I!Max(I!About(s, n, l + 1)') = l + 1
            <4>1. I!About(s, n, l + 1)' \in SUBSET Nat /\ l + 1 \in I!About(s, n, l + 1)'
                BY <1>2, <3>1
            <4>2. \A i \in I!About(s, n, l + 1)' : i <= l + 1
                BY <1>2, <3>1
            <4>3. QED BY <4>1, <4>2, MaxIs
        <3>3. queue'[s][l + 1][2] = c /\ I!About(s, n, l + 1)' # {}
            BY <1>2, <3>1
        <3>4. QED BY <3>2, <3>3 DEF I!After
    <2>4. I!After(s, l + 1)' = [m \in Names |-> I!After(s, l + 1)[m]']
        BY DEF I!After
    <2>5. QED BY <2>1, <2>2, <2>3, <2>4
<1>9. CopyInv(s)'
    BY <1>1, <1>2, <1>7, <1>8 DEF CopyInv
<1>10. QED BY <1>0, <1>2, <1>5, <1>8, <1>9

\* A delta less: what was known after the first is known now, and of the others
\* each is one further to the front.
LEMMA DeliverStep ==
    ASSUME FeedInv, NEW s \in Subscribers, I!Deliver(s)
    PROVE  /\ \A k \in 0..Len(queue[s]) : k + 1 <= Len(queue[s]) => I!After(s, k)' = I!After(s, k + 1)
           /\ Len(queue'[s]) = Len(queue[s]) - 1
           /\ view'[s] = I!After(s, 1)
           /\ CopyInv(s)'
<1>1. /\ view[s] # None /\ queue[s] # << >> /\ queue[s] \in Seq(Deltas)
      /\ view' = [view EXCEPT ![s][Head(queue[s])[1]] = Head(queue[s])[2]]
      /\ queue' = [queue EXCEPT ![s] = Tail(@)]
      /\ view \in [Subscribers -> I!Endpoints \cup {None}] /\ queue \in [Subscribers -> Seq(Deltas)]
      /\ entries' = entries
    BY DEF I!Deliver, FeedInv, FeedType
<1>2. PICK l \in Nat \ {0} : l = Len(queue[s])
    BY <1>1, EmptySeq
<1>3. /\ Len(queue'[s]) = l - 1
      /\ \A i \in 1..(l - 1) : queue'[s][i] = queue[s][i + 1]
    BY <1>1, <1>2, HeadTailProperties
<1>4. PICK n \in Names, c \in Conns \cup {None} : queue[s][1] = <<n, c>>
    <2>1. queue[s][1] \in Deltas
        BY <1>1, <1>2, ElementOfSeq
    <2>2. QED BY <2>1 DEF Deltas
<1>5. view[s] \in [Names -> Conns \cup {None}] /\ view'[s] = [view[s] EXCEPT ![n] = c]
    <2>1. Head(queue[s]) = queue[s][1]
        BY <1>1
    <2>2. view[s] \in [Names -> Conns \cup {None}]
        BY <1>1 DEF I!Endpoints
    <2>3. Head(queue[s])[1] = n /\ Head(queue[s])[2] = c
        BY <1>4, <2>1
    <2>4. view'[s] = [view[s] EXCEPT ![n] = c]
        BY <1>1, <2>3
    <2>5. QED BY <2>2, <2>4
<1>6. ASSUME NEW m \in Names, NEW k \in 0..(l - 1)
      PROVE  /\ \A i : i \in I!About(s, m, k)' <=> i \in 1..k /\ i + 1 \in I!About(s, m, k + 1)
             /\ I!About(s, m, k + 1) = {} \/ \E j \in I!About(s, m, k + 1) : \A i \in I!About(s, m, k + 1) : i <= j
             /\ 1 \in I!About(s, m, k + 1) <=> m = n
             /\ k \in Nat /\ k + 1 \in 0..l /\ I!About(s, m, k + 1) \subseteq 1..(k + 1)
    <2>1. \A i \in 1..k : queue'[s][i] = queue[s][i + 1] /\ i + 1 \in 1..(k + 1)
        BY <1>3
    <2>2. k + 1 \in 0..l /\ 1 \in 1..(k + 1) /\ k \in Nat
        BY <1>2
    <2>3. \A i : i \in I!About(s, m, k)' <=> i \in 1..k /\ i + 1 \in I!About(s, m, k + 1)
        BY <2>1 DEF I!About
    <2>4. 1 \in I!About(s, m, k + 1) <=> m = n
        BY <1>4, <2>2 DEF I!About
    <2>5. I!About(s, m, k + 1) = {} \/ \E j \in I!About(s, m, k + 1) : \A i \in I!About(s, m, k + 1) : i <= j
        BY <1>2, <2>2 DEF FeedInv, CopyInv
    <2>6. QED BY <2>2, <2>3, <2>4, <2>5 DEF I!About
<1>7. ASSUME NEW m \in Names, NEW k \in 0..(l - 1), I!About(s, m, k)' # {}
      PROVE  \E j \in I!About(s, m, k)' :
                /\ \A i \in I!About(s, m, k)' : i <= j
                /\ I!Max(I!About(s, m, k)') = j /\ I!Max(I!About(s, m, k + 1)) = j + 1
                /\ I!About(s, m, k + 1) # {} /\ j \in 1..(l - 1)
    <2>1. PICK i \in I!About(s, m, k)' : TRUE
        BY <1>7
    <2>2. i \in 1..k /\ i + 1 \in I!About(s, m, k + 1)
        BY <1>6, <2>1
    <2>3. PICK j \in I!About(s, m, k + 1) : \A h \in I!About(s, m, k + 1) : h <= j
        BY <1>6, <2>2
    <2>4. j \in 1..(k + 1) /\ i + 1 <= j /\ k \in Nat
        BY <1>6, <2>2, <2>3
    <2>5. j - 1 \in 1..k /\ (j - 1) + 1 = j /\ j - 1 \in 1..(l - 1)
        BY <1>2, <2>2, <2>4
    <2>6. j - 1 \in I!About(s, m, k)'
        BY <1>6, <2>3, <2>5
    <2>7. \A h \in I!About(s, m, k)' : h <= j - 1
        <3>1. SUFFICES ASSUME NEW h \in I!About(s, m, k)' PROVE h <= j - 1
            OBVIOUS
        <3>2. h \in 1..k /\ h + 1 \in I!About(s, m, k + 1)
            BY <1>6
        <3>3. h + 1 <= j
            BY <2>3, <3>2
        <3>4. QED BY <2>4, <3>2, <3>3
    <2>8. I!About(s, m, k)' \in SUBSET Nat /\ I!About(s, m, k + 1) \in SUBSET Nat
        <3>1. I!About(s, m, k)' \subseteq 1..k
            BY <1>6
        <3>2. 1..k \subseteq Nat /\ 1..(k + 1) \subseteq Nat
            BY <2>4
        <3>3. QED BY <1>6, <3>1, <3>2
    <2>9. I!Max(I!About(s, m, k)') = j - 1 /\ I!Max(I!About(s, m, k + 1)) = j
        BY <2>3, <2>6, <2>7, <2>8, MaxIs
    <2>10. QED BY <2>2, <2>5, <2>6, <2>7, <2>9
<1>8. ASSUME NEW m \in Names, NEW k \in 0..(l - 1) PROVE I!After(s, k)[m]' = I!After(s, k + 1)[m]
    <2>1. CASE I!About(s, m, k)' # {}
        <3>1. PICK j \in 1..(l - 1) : /\ I!Max(I!About(s, m, k)') = j /\ I!Max(I!About(s, m, k + 1)) = j + 1
                                      /\ I!About(s, m, k + 1) # {}
            BY <1>7, <2>1
        <3>2. QED BY <1>3, <2>1, <3>1 DEF I!After
    <2>2. CASE I!About(s, m, k)' = {} /\ m = n
        <3>1. I!About(s, m, k + 1) = {1}
            <4>1. ASSUME NEW i \in I!About(s, m, k + 1) PROVE i = 1
                <5>1. i \in 1..(k + 1) /\ k \in Nat
                    BY <1>6, <4>1
                <5>2. CASE i # 1
                    <6>1. i - 1 \in 1..k /\ (i - 1) + 1 = i
                        BY <5>1, <5>2
                    <6>2. i - 1 \in I!About(s, m, k)'
                        BY <1>6, <4>1, <6>1
                    <6>3. QED BY <2>2, <6>2
                <5>3. QED BY <5>2
            <4>2. QED BY <1>6, <2>2, <4>1
        <3>2. I!Max({1}) = 1
            BY MaxIs
        <3>3. I!After(s, k + 1)[m] = c
            <4>1. I!After(s, k + 1)[m] = queue[s][I!Max(I!About(s, m, k + 1))][2]
                BY <3>1 DEF I!After
            <4>2. I!After(s, k + 1)[m] = queue[s][1][2]
                BY <3>1, <3>2, <4>1
            <4>3. QED BY <1>4, <4>2
        <3>4. I!After(s, k)[m]' = view'[s][m]
            BY <2>2 DEF I!After
        <3>5. QED BY <1>5, <2>2, <3>3, <3>4
    <2>3. CASE I!About(s, m, k)' = {} /\ m # n
        <3>1. I!About(s, m, k + 1) = {}
            <4>1. ASSUME NEW i \in I!About(s, m, k + 1) PROVE FALSE
                <5>1. i \in 1..(k + 1) /\ k \in Nat /\ i # 1
                    BY <1>6, <2>3, <4>1
                <5>2. i - 1 \in 1..k /\ (i - 1) + 1 = i
                    BY <5>1
                <5>3. i - 1 \in I!About(s, m, k)'
                    BY <1>6, <4>1, <5>2
                <5>4. QED BY <2>3, <5>3
            <4>2. QED BY <4>1
        <3>2. QED BY <1>5, <2>3, <3>1 DEF I!After
    <2>4. QED BY <2>1, <2>2, <2>3
<1>9. \A k \in 0..(l - 1) : I!After(s, k)' = I!After(s, k + 1)
    BY <1>8 DEF I!After
<1>10. view'[s] = I!After(s, 1)
    <2>1. 0 \in 0..(l - 1) /\ 0 + 1 = 1
        BY <1>2
    <2>2. I!After(s, 0)' = I!After(s, 1)
        BY <1>9, <2>1
    <2>3. \A m \in Names : I!About(s, m, 0)' = {}
        BY DEF I!About
    <2>4. I!After(s, 0)' = [m \in Names |-> view'[s][m]]
        BY <2>3 DEF I!After
    <2>5. QED BY <1>5, <2>2, <2>4
<1>11. CopyInv(s)'
    <2>1. view'[s] # None
        BY <1>5, ConstantsOK DEF I!NoneAssumption
    <2>2. I!After(s, l - 1)' = entries'
        <3>1. l - 1 \in 0..(l - 1) /\ (l - 1) + 1 = l
            BY <1>2
        <3>2. I!After(s, l) = entries
            BY <1>1, <1>2 DEF FeedInv, CopyInv
        <3>3. QED BY <1>1, <1>9, <3>1, <3>2
    <2>3. \A m \in Names, k \in 0..(l - 1) :
             I!About(s, m, k)' = {} \/ \E j \in I!About(s, m, k)' : \A i \in I!About(s, m, k)' : i <= j
        BY <1>7
    <2>4. QED BY <1>3, <2>1, <2>2, <2>3 DEF CopyInv
<1>12. QED
    <2>1. \A k \in 0..l : k + 1 <= l => k \in 0..(l - 1)
        BY <1>2
    <2>2. QED BY <1>2, <1>3, <1>9, <1>10, <1>11, <2>1

\* What is on its way to a subscriber, as the abstract feed has it.
Lag(s) == [k \in 1..Len(queue[s]) |-> I!After(s, k)]

\* A delta that is queued is one more value on its way, one that is delivered the first less.
LEMMA LagStep ==
    ASSUME FeedInv, NEW s \in Subscribers
    PROVE  /\ \A n \in Names, c \in Conns \cup {None} :
                 Told(n, c) /\ view[s] # None => Lag(s)' = Append(Lag(s), entries')
           /\ I!Deliver(s) => Lag(s) # << >> /\ view'[s] = Head(Lag(s)) /\ Lag(s)' = Tail(Lag(s))
           /\ queue[s] = << >> => Lag(s) = << >>
           /\ queue'[s] = << >> => Lag(s)' = << >>
<1>0. PICK l \in Nat : l = Len(queue[s])
    BY LenProperties DEF FeedInv, FeedType
<1> DEFINE S == {I!After(s, k) : k \in 0..l} \cup {entries'}
<1>1. Lag(s) = [k \in 1..l |-> I!After(s, k)] /\ Lag(s) \in [1..l -> S]
    BY <1>0 DEF Lag
<1>2. Lag(s) \in Seq(S)
    BY <1>1, SeqDef
<1> HIDE DEF S
<1>3. Len(Lag(s)) = l
    BY <1>0, <1>1, <1>2, LenProperties
<1>4. ASSUME NEW n \in Names, NEW c \in Conns \cup {None}, Told(n, c), view[s] # None
      PROVE  Lag(s)' = Append(Lag(s), entries')
    <2>1. /\ \A k \in 0..l : I!After(s, k)' = I!After(s, k)
          /\ Len(queue'[s]) = l + 1 /\ I!After(s, l + 1)' = entries'
        BY <1>0, <1>4, ToldStep
    <2>2. Lag(s)' = [k \in 1..(l + 1) |-> I!After(s, k)']
        BY <2>1 DEF Lag
    <2>3. \A k \in 1..(l + 1) : k \in 1..l \/ k = l + 1
        OBVIOUS
    <2>4. \A k \in 1..l : k \in 0..l /\ k # l + 1
        OBVIOUS
    <2>5. Lag(s)' \in [1..(l + 1) -> S]
        BY <2>1, <2>2, <2>3, <2>4 DEF S
    <2>6. Lag(s)' \in Seq(S) /\ Len(Lag(s)') = l + 1
        <3>1. Lag(s)' \in Seq(S) /\ l + 1 \in Nat
            BY <2>5, SeqDef
        <3>2. QED BY <2>5, <3>1, LenProperties
    <2>7. entries' \in S
        BY DEF S
    <2>8. /\ Append(Lag(s), entries') \in Seq(S) /\ Len(Append(Lag(s), entries')) = l + 1
          /\ Append(Lag(s), entries')[l + 1] = entries'
          /\ \A k \in 1..l : Append(Lag(s), entries')[k] = Lag(s)[k]
        BY <1>2, <1>3, <2>7, AppendProperties
    <2>9. \A k \in 1..(l + 1) : Lag(s)'[k] = Append(Lag(s), entries')[k]
        BY <1>1, <2>1, <2>2, <2>3, <2>4, <2>8
    <2>10. QED BY <2>6, <2>8, <2>9, SeqEqual
<1>5. ASSUME I!Deliver(s) PROVE Lag(s) # << >> /\ view'[s] = Head(Lag(s)) /\ Lag(s)' = Tail(Lag(s))
    <2>1. /\ \A k \in 0..l : k + 1 <= l => I!After(s, k)' = I!After(s, k + 1)
          /\ Len(queue'[s]) = l - 1 /\ view'[s] = I!After(s, 1) /\ l # 0
        <3>1. l # 0
            BY <1>0, <1>5, EmptySeq DEF I!Deliver, FeedInv, FeedType
        <3>2. QED BY <1>0, <1>5, <3>1, DeliverStep
    <2>2. Lag(s) # << >>
        BY <1>3, <2>1, EmptySeq
    <2>3. view'[s] = Head(Lag(s))
        <3>1. 1 \in 1..l
            BY <2>1
        <3>2. Lag(s)[1] = I!After(s, 1)
            BY <1>1, <3>1
        <3>3. QED BY <1>2, <2>1, <2>2, <3>2
    <2>4. Lag(s)' = [k \in 1..(l - 1) |-> I!After(s, k)']
        BY <2>1 DEF Lag
    <2>5. l - 1 \in Nat /\ \A k \in 1..(l - 1) : k \in 0..l /\ k + 1 <= l /\ k + 1 \in 0..l /\ k + 1 \in 1..l
        BY <2>1
    <2>6. \A k \in 1..(l - 1) : Lag(s)'[k] = I!After(s, k + 1) /\ Lag(s)'[k] = Lag(s)[k + 1]
        BY <1>1, <2>1, <2>4, <2>5
    <2>7. Lag(s)' \in [1..(l - 1) -> S]
        BY <2>4, <2>5, <2>6 DEF S
    <2>8. Lag(s)' \in Seq(S) /\ Len(Lag(s)') = l - 1
        <3>1. Lag(s)' \in Seq(S)
            BY <2>5, <2>7, SeqDef
        <3>2. QED BY <2>5, <2>7, <3>1, LenProperties
    <2>9. /\ Tail(Lag(s)) \in Seq(S) /\ Len(Tail(Lag(s))) = l - 1
          /\ \A k \in 1..(l - 1) : Tail(Lag(s))[k] = Lag(s)[k + 1]
        BY <1>2, <1>3, <2>2, HeadTailProperties
    <2>10. Lag(s)' = Tail(Lag(s))
        BY <2>6, <2>8, <2>9, SeqEqual
    <2>11. QED BY <2>2, <2>3, <2>10
<1>6. ASSUME queue[s] = << >> PROVE Lag(s) = << >>
    BY <1>6, EmptySeq DEF Lag
<1>7. ASSUME queue'[s] = << >> PROVE Lag(s)' = << >>
    BY <1>7, EmptySeq DEF Lag
<1>8. QED BY <1>4, <1>5, <1>6, <1>7

\* A step of the registry is one of the abstract feed or none, for each of them.
LEMMA FeedStep ==
    ASSUME FeedInv, [I!Next]_(I!vars), NEW s \in Subscribers
    PROVE  CopyInv(s)' /\ [I!Feed(s)!Next]_(I!Feed(s)!vars)
<1>1. ASSUME UNCHANGED <<entries, view[s], queue[s]>> PROVE CopyInv(s)' /\ UNCHANGED <<entries, view[s], Lag(s)>>
    <2>1. \A m, k : I!About(s, m, k)' = I!About(s, m, k)
        BY <1>1 DEF I!About
    <2>2. \A k : I!After(s, k)' = I!After(s, k)
        BY <1>1, <2>1 DEF I!After
    <2>3. QED BY <1>1, <2>1, <2>2 DEF FeedInv, CopyInv, Lag
<1>2. ASSUME UNCHANGED <<entries, view[s], queue[s]>> PROVE CopyInv(s)' /\ [I!Feed(s)!Next]_(I!Feed(s)!vars)
    BY <1>1, <1>2 DEF I!Feed!vars, Lag
<1>3. ASSUME queue'[s] = << >>, view'[s] = None \/ (view'[s] = entries' /\ entries' \in I!Endpoints) PROVE CopyInv(s)'
    <2>1. \A m \in Names, k \in 0..0 : I!About(s, m, k)' = {}
        BY DEF I!About
    <2>2. I!After(s, 0)' = [m \in Names |-> view'[s][m]]
        BY <2>1 DEF I!After
    <2>3. view'[s] # None => I!After(s, 0)' = entries'
        BY <1>3, <2>2 DEF I!Endpoints
    <2>4. QED BY <1>3, <2>1, <2>3 DEF CopyInv
<1>4. entries \in I!Endpoints /\ view \in [Subscribers -> I!Endpoints \cup {None}] /\ queue \in [Subscribers -> Seq(Deltas)]
    BY DEF FeedInv, FeedType
<1>5. ASSUME NEW n \in Names, NEW c \in Conns \cup {None}, Told(n, c)
      PROVE  CopyInv(s)' /\ [I!Feed(s)!Next]_(I!Feed(s)!vars)
    <2>1. entries' \in I!Endpoints /\ view' = view
        BY <1>4, <1>5 DEF Told, I!Endpoints
    <2>2. CASE view[s] = None
        <3>1. queue[s] = << >> /\ queue'[s] = << >>
            BY <1>4, <1>5, <2>2 DEF Told, FeedInv, CopyInv
        <3>2. CopyInv(s)' /\ Lag(s)' = Lag(s)
            BY <1>3, <2>1, <2>2, <3>1, LagStep
        <3>3. I!Feed(s)!Change
            BY <2>1, <2>2, <3>2 DEF I!Feed!Change, Lag
        <3>4. QED BY <3>2, <3>3 DEF I!Feed!Next
    <2>3. CASE view[s] # None
        <3>1. CopyInv(s)' /\ Lag(s)' = Append(Lag(s), entries')
            BY <1>5, <2>3, ToldStep, LagStep
        <3>2. I!Feed(s)!Change
            BY <2>1, <2>3, <3>1 DEF I!Feed!Change, Lag
        <3>3. QED BY <3>1, <3>2 DEF I!Feed!Next
    <2>4. QED BY <2>2, <2>3
<1>6. CASE I!Subscribe(s)
    <2>1. view[s] = None /\ view'[s] = entries /\ queue'[s] = << >> /\ entries' = entries
        BY <1>4, <1>6 DEF I!Subscribe
    <2>2. CopyInv(s)' /\ Lag(s)' = << >>
        BY <1>3, <1>4, <2>1, LagStep
    <2>3. I!Feed(s)!Attach
        BY <2>1, <2>2 DEF I!Feed!Attach, Lag
    <2>4. QED BY <2>2, <2>3 DEF I!Feed!Next
<1>7. CASE I!Deliver(s)
    <2>1. CopyInv(s)' /\ Lag(s) # << >> /\ view'[s] = Head(Lag(s)) /\ Lag(s)' = Tail(Lag(s)) /\ entries' = entries
        BY <1>7, DeliverStep, LagStep DEF I!Deliver
    <2>2. I!Feed(s)!Deliver
        BY <2>1 DEF I!Feed!Deliver, Lag
    <2>3. QED BY <2>1, <2>2 DEF I!Feed!Next
<1>8. CASE I!Unsubscribe(s)
    <2>1. view'[s] = None /\ queue'[s] = << >> /\ entries' = entries
        BY <1>4, <1>8 DEF I!Unsubscribe
    <2>2. CopyInv(s)' /\ Lag(s)' = << >>
        BY <1>3, <2>1, LagStep
    <2>3. I!Feed(s)!Detach
        BY <2>1, <2>2 DEF I!Feed!Detach, Lag
    <2>4. QED BY <2>2, <2>3 DEF I!Feed!Next
<1>9. ASSUME NEW t \in Subscribers, t # s, I!Subscribe(t) \/ I!Deliver(t) \/ I!Unsubscribe(t)
      PROVE  CopyInv(s)' /\ [I!Feed(s)!Next]_(I!Feed(s)!vars)
    <2>1. UNCHANGED <<entries, view[s], queue[s]>>
        BY <1>4, <1>9 DEF I!Subscribe, I!Deliver, I!Unsubscribe
    <2>2. QED BY <1>2, <2>1
<1>10. CASE UNCHANGED <<entries, view, queue>>
    BY <1>2, <1>10
<1>11. QED BY <1>5, <1>6, <1>7, <1>8, <1>9, <1>10, TellingStep

\* The types of the feed hold after every step.
LEMMA FeedTypeStep == FeedInv /\ [I!Next]_(I!vars) => FeedType'
<1> SUFFICES ASSUME FeedInv, [I!Next]_(I!vars) PROVE FeedType'
    OBVIOUS
<1> USE DEF FeedType, I!Endpoints
<1>1. FeedType
    BY DEF FeedInv
<1>2. name' \in [Conns -> Names \cup {None}]
    BY <1>1 DEF I!Next, I!vars, I!registryVars, I!Rename, I!StreamEnds, I!Register, I!Subscribe, I!Deliver,
       I!Unsubscribe, I!TimerElapses, I!FallbackDue, I!ChangeFallback
<1>3. ASSUME NEW n \in Names, NEW c \in Conns \cup {None}, Told(n, c) PROVE FeedType'
    <2>1. \A s \in Subscribers : Append(queue[s], <<n, c>>) \in Seq(Deltas)
        BY <1>1, AppendProperties DEF Deltas
    <2>2. QED BY <1>1, <1>2, <1>3, <2>1 DEF Told
<1>4. ASSUME NEW s \in Subscribers, I!Deliver(s) PROVE FeedType'
    <2>1. queue[s] \in Seq(Deltas) /\ queue[s] # << >> /\ view[s] # None
        BY <1>1, <1>4 DEF I!Deliver
    <2>2. Tail(queue[s]) \in Seq(Deltas) /\ Head(queue[s]) \in Deltas
        BY <2>1, HeadTailProperties
    <2>3. [view[s] EXCEPT ![Head(queue[s])[1]] = Head(queue[s])[2]] \in [Names -> Conns \cup {None}]
        BY <1>1, <2>1, <2>2 DEF Deltas
    <2>4. QED BY <1>1, <1>2, <1>4, <2>2, <2>3 DEF I!Deliver
<1>5. ASSUME NEW s \in Subscribers, I!Subscribe(s) \/ I!Unsubscribe(s) PROVE FeedType'
    <2>1. << >> \in Seq(Deltas)
        BY EmptySeq
    <2>2. /\ entries' = entries /\ queue' = [queue EXCEPT ![s] = << >>]
          /\ view' = [view EXCEPT ![s] = entries] \/ view' = [view EXCEPT ![s] = None]
        BY <1>5 DEF I!Subscribe, I!Unsubscribe
    <2>3. QED BY <1>1, <1>2, <2>1, <2>2
<1>6. CASE UNCHANGED <<entries, view, queue>>
    BY <1>1, <1>2, <1>6
<1>7. QED BY <1>3, <1>4, <1>5, <1>6, TellingStep

\* Whoever is entered is up under this name, and whoever is up and not told to
\* end is entered.
ListInv ==
    /\ stream \in [Conns -> {"new", "up", "renaming", "ended"}]
    /\ \A c \in Conns : stream[c] = "up" => name[c] \in Names
    /\ \A n \in Names : entries[n] # None => stream[entries[n]] = "up" /\ name[entries[n]] = n
    /\ I!RegisteredIsListed

\* A stream that registers displaces whoever is entered under its name and is
\* entered nowhere else; one that leaves takes only itself out.
LEMMA ListStep == FeedInv /\ ListInv /\ [I!Next]_(I!vars) => ListInv'
<1> SUFFICES ASSUME FeedInv, ListInv, [I!Next]_(I!vars) PROVE ListInv'
    OBVIOUS
<1> USE DEF ListInv, I!RegisteredIsListed
<1>1. /\ entries \in [Names -> Conns \cup {None}] /\ name \in [Conns -> Names \cup {None}]
      /\ None \notin Conns /\ None \notin Names
    BY ConstantsOK DEF FeedInv, FeedType, I!Endpoints, I!NoneAssumption
<1>2. ASSUME NEW c \in Conns, stream[c] = "up", I!Unregister(c), UNCHANGED <<name, closed>>,
             NEW to \in {"renaming", "ended"}, stream' = [stream EXCEPT ![c] = to]
      PROVE  ListInv'
    <2>1. CASE entries[name[c]] = c
        <3>1. entries' = [entries EXCEPT ![name[c]] = None]
            BY <1>1, <1>2, <2>1 DEF I!Unregister
        <3>2. QED BY <1>1, <1>2, <2>1, <3>1
    <2>2. CASE entries[name[c]] # c
        <3>1. entries' = entries
            BY <1>2, <2>2 DEF I!Unregister
        <3>2. QED BY <1>1, <1>2, <2>2, <3>1
    <2>3. QED BY <2>1, <2>2
<1>3. CASE \E c \in Conns : I!Rename(c) \/ I!StreamEnds(c)
    BY <1>2, <1>3 DEF I!Rename, I!StreamEnds
<1>4. ASSUME NEW c \in Conns, NEW n \in Names, I!Register(c, n) PROVE ListInv'
    <2>1. /\ stream[c] \in {"new", "renaming"} /\ stream' = [stream EXCEPT ![c] = "up"]
          /\ name' = [name EXCEPT ![c] = n] /\ entries' = [entries EXCEPT ![n] = c]
          /\ closed' = closed \cup ({entries[n]} \ {None, c})
        BY <1>4 DEF I!Register
    <2>2. \A m \in Names : entries[m] # c
        BY <1>1, <2>1
    <2>3. QED BY <1>1, <2>1, <2>2
<1>5. CASE UNCHANGED <<entries, stream, name, closed>>
    BY <1>5
<1>6. QED
    BY <1>3, <1>4, <1>5 DEF I!Next, I!vars, I!registryVars, I!Subscribe, I!Deliver,
       I!Unsubscribe, I!TimerElapses, I!FallbackDue, I!ChangeFallback

\* A subscriber's copy is, from its snapshot on, what the registry was, each value
\* in its order and none twice, whoever registers, leaves or is displaced; and
\* the registry lists every stream nobody displaced (grpc_server.py:2210-2246).
THEOREM FeedIsFaithfulAlways == Spec => FeedIsFaithful
<1> DEFINE Step == \A s \in Subscribers : [I!Feed(s)!Next]_(I!Feed(s)!vars)
<1>1. Init => FeedInv /\ ListInv /\ \A s \in Subscribers : I!Feed(s)!Init
    <2> SUFFICES ASSUME Init PROVE FeedInv /\ ListInv /\ \A s \in Subscribers : I!Feed(s)!Init
        OBVIOUS
    <2>1. /\ entries = [n \in Names |-> None] /\ name = [c \in Conns |-> None]
          /\ stream = [c \in Conns |-> "new"]
          /\ view = [s \in Subscribers |-> None] /\ queue = [s \in Subscribers |-> << >>]
        BY DEF Init, I!Init, I!Nothing
    <2>2. FeedType
        BY <2>1, EmptySeq DEF FeedType, I!Endpoints
    <2>3. ListInv
        BY <2>1 DEF ListInv, I!RegisteredIsListed
    <2>4. \A s \in Subscribers : CopyInv(s)
        BY <2>1 DEF CopyInv, I!About
    <2>5. \A s \in Subscribers : I!Feed(s)!Init
        <3> SUFFICES ASSUME NEW s \in Subscribers PROVE I!Feed(s)!Init
            OBVIOUS
        <3>1. FeedInv /\ Lag(s) = << >>
            BY <2>1, <2>2, <2>4, LagStep DEF FeedInv
        <3>2. QED BY <2>1, <2>2, <3>1 DEF I!Feed!Init, Lag, FeedType
    <2>6. QED BY <2>2, <2>3, <2>4, <2>5 DEF FeedInv
<1>2. FeedInv /\ ListInv /\ [Next]_vars => FeedInv' /\ ListInv' /\ Step
    BY InfraStep, FeedStep, FeedTypeStep, ListStep DEF FeedInv
<1>3. ListInv => I!RegisteredIsListed
    BY DEF ListInv
<1> HIDE DEF Step
<1>4. Spec => []I!RegisteredIsListed /\ [][Step]_(I!vars)
    BY <1>1, <1>2, <1>3, PTL DEF Spec
<1>5. Init => \A s \in Subscribers : I!Feed(s)!Init
    BY <1>1
<1>6. QED
    BY <1>4, <1>5, PTL DEF Spec, FeedIsFaithful, I!FeedIsFaithful, Step

-----------------------------------------------------------------------------
(* The place of a tag, proved for every number of satellites and strengths.  *)

\* The place rests on a report that was fresh when it was last looked at, by the
\* timer or by a report, and on the strongest of those that still are.
PlaceInv ==
    /\ rssi \in [Satellites -> Strengths \cup {None}] /\ heardAge \in [Satellites -> Nat]
    /\ evaluation \in 0..Interval /\ lastSat \in Satellites \cup {None}
    /\ lastSat # None => heardAge[lastSat] < Stale + evaluation
    /\ B!PlaceIsStrongest

\* Whoever is chosen is fresh and the strongest.
LEMMA Chosen ==
    ASSUME NEW r \in [Satellites -> Strengths \cup {None}], NEW a \in [Satellites -> Nat], B!Evaluate(r, a)
    PROVE  /\ lastSat' \in Satellites \cup {None}
           /\ lastSat' # None => a[lastSat'] < Stale
           /\ \A s \in B!Fresh(r, a) : lastSat' \in B!Fresh(r, a) => r[s] <= r[lastSat']
BY DEF B!Evaluate, B!Fresh

\* Reports choose anew, the timer does, and a report that ages is chosen by nobody.
LEMMA PlaceInvStep == PlaceInv /\ [B!Next]_(B!vars) => PlaceInv'
<1> SUFFICES ASSUME PlaceInv, [B!Next]_(B!vars) PROVE PlaceInv'
    OBVIOUS
<1>c. Strengths \subseteq Nat /\ Stale \in Nat /\ Interval \in Nat \ {0}
    BY ConstantsOK DEF B!BleAssumption
<1>1. CASE B!TimerRuns
    <2>1. B!Evaluate(rssi, heardAge) /\ UNCHANGED <<rssi, heardAge>> /\ evaluation' = 0
        BY <1>1 DEF B!TimerRuns
    <2>2. /\ lastSat' \in Satellites \cup {None}
          /\ lastSat' # None => heardAge[lastSat'] < Stale
          /\ \A s \in B!Fresh(rssi, heardAge) : lastSat' \in B!Fresh(rssi, heardAge) => rssi[s] <= rssi[lastSat']
        BY <2>1, Chosen DEF PlaceInv
    <2>3. QED BY <1>c, <2>1, <2>2 DEF PlaceInv, B!PlaceIsStrongest, B!Fresh
<1>2. CASE B!Pass
    <2>1. /\ evaluation' = evaluation + 1 /\ evaluation < Interval /\ UNCHANGED <<rssi, lastSat>>
          /\ heardAge' = [s \in Satellites |-> IF heardAge[s] = B!Longest THEN B!Longest ELSE heardAge[s] + 1]
        BY <1>2 DEF B!Pass
    <2>2. \A s \in Satellites : heardAge'[s] \in Nat /\ heardAge'[s] >= heardAge[s] /\ heardAge'[s] <= heardAge[s] + 1
        BY <1>c, <2>1 DEF PlaceInv, B!Longest
    <2>3. heardAge' \in [Satellites -> Nat]
        BY <2>1, <2>2
    <2>4. B!Fresh(rssi, heardAge)' \subseteq B!Fresh(rssi, heardAge)
        BY <1>c, <2>1, <2>2 DEF B!Fresh, PlaceInv
    <2>5. B!PlaceIsStrongest'
        BY <2>1, <2>4 DEF PlaceInv, B!PlaceIsStrongest
    <2>6. lastSat' # None => heardAge'[lastSat'] < Stale + evaluation'
        BY <1>c, <2>1, <2>2 DEF PlaceInv
    <2>7. QED BY <1>c, <2>1, <2>3, <2>5, <2>6 DEF PlaceInv
<1>3. ASSUME NEW s \in Satellites, NEW strength \in Strengths, B!Report(s, strength) PROVE PlaceInv'
    <2>1. /\ rssi' = [rssi EXCEPT ![s] = strength] /\ heardAge' = [heardAge EXCEPT ![s] = 0]
          /\ B!Evaluate(rssi', heardAge') /\ evaluation' = evaluation
        BY <1>3 DEF B!Report
    <2>2. rssi' \in [Satellites -> Strengths \cup {None}] /\ heardAge' \in [Satellites -> Nat]
        BY <2>1 DEF PlaceInv
    <2>3. /\ lastSat' \in Satellites \cup {None}
          /\ lastSat' # None => heardAge'[lastSat'] < Stale
          /\ \A t \in B!Fresh(rssi', heardAge') :
                lastSat' \in B!Fresh(rssi', heardAge') => rssi'[t] <= rssi'[lastSat']
        BY <2>1, <2>2, Chosen
    <2>4. B!PlaceIsStrongest'
        BY <2>3 DEF B!PlaceIsStrongest, B!Fresh
    <2>5. lastSat' # None => heardAge'[lastSat'] < Stale + evaluation'
        BY <1>c, <2>1, <2>2, <2>3 DEF PlaceInv
    <2>6. QED BY <2>1, <2>2, <2>3, <2>4, <2>5 DEF PlaceInv
<1>4. CASE UNCHANGED B!vars
    BY <1>4 DEF B!vars, PlaceInv, B!PlaceIsStrongest, B!Fresh
<1>5. QED BY <1>1, <1>2, <1>3, <1>4 DEF B!Next

\* A step of the run is a step of the location or none.
LEMMA PlaceStep == [Next]_vars => [B!Next]_(B!vars)
BY DEF Next, vars, InInfra, InList, InFusion, InPlace, place, B!vars

\* The place in use never rests on a report older than the timeout and one timer
\* interval, and no fresh report is stronger than its own: for every number of
\* satellites, strengths and times.
THEOREM PlaceIsSoundAlways == Spec => []PlaceIsSound
<1>1. Init => PlaceInv
    BY ConstantsOK DEF Init, B!Init, PlaceInv, B!PlaceIsStrongest, B!Fresh, B!BleAssumption
<1>2. PlaceInv /\ [Next]_vars => PlaceInv'
    BY PlaceInvStep, PlaceStep
<1>3. PlaceInv => PlaceIsSound
    BY ConstantsOK DEF PlaceInv, PlaceIsSound, B!PlaceIsSound, B!PlaceIsRecent, B!BleAssumption
<1>4. QED
    BY <1>1, <1>2, <1>3, PTL DEF Spec
=============================================================================
