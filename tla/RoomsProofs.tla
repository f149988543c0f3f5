---------------------------- MODULE RoomsProofs -----------------------------
(* Proofs about a room and its satellite, for every number of servers,      *)
(* satellites, frames, announcements, questions, restarts and commands.     *)
(* Each part's inductive invariant holds because a step of the run is a     *)
(* step of that part or leaves its variables alone.                         *)
EXTENDS MCRooms, Sequences, SequenceTheorems, TLAPS

\* A step of the run is a step of the satellite's voice or none.
LEMMA VoiceStep == [Next]_vars => [V!Next]_(V!vars)
BY DEF Next, vars, Client, Voice, Row, Reports, Playing, Enrolling, Conversing, voice,
       V!vars, V!recording, V!core, V!player

\* A step of the run is a step of the rows of satellites or none.
LEMMA RowStep == [Next]_vars => [R!Next]_(R!vars)
BY DEF Next, vars, Client, Voice, Row, Reports, Playing, Enrolling, Conversing, provisioning, R!vars

\* A step of the run is a step of a satellite's reports or none.
LEMMA ReportStep == [Next]_vars => [S!Next]_(S!vars)
BY DEF Next, vars, Client, Voice, Row, Reports, Playing, Enrolling, Conversing, report,
       S!vars, S!led, S!firmware

\* A step of the run is a step of what is played or none.
LEMMA PlaybackStep == [Next]_vars => [P!Next]_(P!vars)
BY DEF Next, vars, Client, Voice, Row, Reports, Playing, Enrolling, Conversing, playback,
       P!vars, P!gate, P!satellite, P!room

\* A step of the run is a step of the enrolment or none.
LEMMA EnrollmentStep == [Next]_vars => [E!Next]_(E!vars)
BY DEF Next, vars, Client, Voice, Row, Reports, Playing, Enrolling, Conversing, enrollment, E!vars

\* A step of the run is a step of the conversation or none.
LEMMA ConversationStep == [Next]_vars => [M!Next]_(M!vars)
BY DEF Next, vars, Client, Voice, Row, Reports, Playing, Enrolling, Conversing, conversation, M!vars

-----------------------------------------------------------------------------
(* The enrolment takes audio only while somebody is asking.                 *)

WaiterIsAsked ==
    /\ waiter # 0 => at = "waiting"
    /\ at # "idle" => active
    /\ ~swallowed

\* As long as a question can be spoken, a waiter is always being asked
\* (_ask_and_wait, voice_enrollment.py:138).
LEMMA WaiterStep == ASSUME ~AskFails PROVE WaiterIsAsked /\ [E!Next]_(E!vars) => WaiterIsAsked'
<1> SUFFICES ASSUME ~AskFails, WaiterIsAsked, [E!Next]_(E!vars) PROVE WaiterIsAsked'
    OBVIOUS
<1> USE DEF WaiterIsAsked
<1>1. CASE E!Start \/ E!Enough \/ E!Finish \/ E!Consume \/ UNCHANGED E!vars \/ \E i \in E!Ids : E!Timeout(i)
    BY <1>1 DEF E!Start, E!Enough, E!Finish, E!Consume, E!Timeout, E!vars
<1>2. CASE E!Ask
    BY <1>2 DEF E!Ask
<1>3. CASE E!Collect
    BY <1>3 DEF E!Collect
<1>4. CASE E!Utter
    BY <1>4, Zenon DEF E!Utter
<1>5. QED
    BY <1>1, <1>2, <1>3, <1>4 DEF E!Next, E!Dialogue

\* Audio is kept from the speech recognition only while an enrolment runs,
\* where speaking a question does not raise (the run's AskFails; with it the
\* waiter stays, see MCRooms).
THEOREM HeardOtherwiseAlways == ASSUME ~AskFails PROVE Spec => []HeardOtherwise
<1>1. Init => WaiterIsAsked
    BY DEF Init, E!Init, WaiterIsAsked
<1>2. WaiterIsAsked /\ [Next]_vars => WaiterIsAsked'
    BY WaiterStep, EnrollmentStep
<1>3. WaiterIsAsked => HeardOtherwise
    BY DEF WaiterIsAsked, HeardOtherwise, E!HeardOtherwise
<1>4. QED
    BY <1>1, <1>2, <1>3, PTL DEF Spec

-----------------------------------------------------------------------------
(* A seed pairs one satellite.                                              *)

SeedsAreSpent ==
    /\ \A m \in Macs : call[m].at = "pair" => call[m].seed \in Seeds
    /\ \A i \in R!Ids : rows[i].seed \in Seeds => rows[i].seed = i
    /\ \A s \in Seeds : paired[s] # {} => rows[s].seed # s
    /\ \A s \in Seeds : \A m, n \in paired[s] : m = n

SeedInv == R!TypeOK /\ SeedsAreSpent

\* pair_satellite takes the seed's own row away, so that no row holds a seed
\* that was paired; every other operation leaves seeds where they are, or
\* makes the row of the seed anew.
LEMMA SeedInvStep == SeedInv /\ [R!Next]_(R!vars) => SeedInv'
<1> SUFFICES ASSUME SeedInv, [R!Next]_(R!vars) PROVE SeedInv'
    OBVIOUS
<1> USE RoomsAssumption DEF SeedInv, SeedsAreSpent, R!TypeOK, R!Ids, R!None
<1> DEFINE RowType == [seed: Seeds \cup {"none"}, name: Names \cup {"none"}, paired: BOOLEAN, exists: BOOLEAN]
           CallType == [at: {"idle", "upsert", "pair", "answer"}, seed: Seeds \cup {"none"}, ok: BOOLEAN]
<1>1. ASSUME NEW m \in Macs, R!Register(m) PROVE SeedInv'
    BY <1>1 DEF R!Register, R!Idle
<1>2. ASSUME NEW m \in Macs, R!Upsert(m) PROVE SeedInv'
    <2> DEFINE r == IF rows[m].exists THEN rows[m] ELSE R!NewRow
    <2>1. r \in RowType /\ (r.seed \in Seeds => r.seed = rows[m].seed)
        BY DEF R!NewRow, R!NoRow
    <2>2. rows' = [rows EXCEPT ![m] = r] /\ UNCHANGED <<flash, packet, stale, paired>>
        BY <1>2 DEF R!Upsert
    <2>3. call' \in [Macs -> CallType] /\ \A n \in Macs : call'[n].at = "pair" => call'[n].seed \in Seeds
        BY <1>2 DEF R!Upsert
    <2>4. QED BY <2>1, <2>2, <2>3
<1>3. ASSUME NEW m \in Macs, R!Pair(m) PROVE SeedInv'
    <2> DEFINE s == call[m].seed
    <2>1. s \in Seeds /\ call[m].at = "pair" /\ UNCHANGED <<flash, packet, stale>>
        BY <1>3 DEF R!Pair
    <2>2. R!Confirmed(m, s) \in BOOLEAN
        BY DEF R!Confirmed
    <2>3. call' \in [Macs -> CallType] /\ \A n \in Macs : call'[n].at = "pair" => call'[n].seed \in Seeds
        <3>2. call' = [call EXCEPT ![m].at = "answer", ![m].ok = R!Confirmed(m, s)]
            BY <1>3 DEF R!Pair
        <3>3. call[m] \in CallType
            OBVIOUS
        <3>4. call'[m] \in CallType /\ call'[m].at = "answer"
            <4> DEFINE ok == R!Confirmed(m, s)
            <4>1. [call[m] EXCEPT !.at = "answer", !.ok = ok] \in CallType
                <5>1. ok \in BOOLEAN
                    BY <2>2
                <5> HIDE DEF SeedInv, SeedsAreSpent, R!TypeOK, R!Ids, ok
                <5> QED BY <5>1, <3>3
            <4>2. QED BY <4>1, <3>2
        <3>5. QED BY <3>2, <3>4
    <2>4. CASE R!Seeded(s) = {}
        <3>1. UNCHANGED <<rows, paired>>
            BY <1>3, <2>4 DEF R!Pair
        <3>2. QED BY <2>1, <2>3, <3>1
    <2>5. CASE R!Seeded(s) # {}
        <3>1. R!Seeded(s) = {s} /\ s \in R!Ids /\ rows[s].seed = s
            BY <2>1, <2>5 DEF R!Seeded
        <3> DEFINE of == IF rows[m].exists THEN rows[m] ELSE rows[s]
                   new == [of EXCEPT !.seed = "none", !.paired = TRUE]
        <3>2. new \in RowType /\ new.seed = "none"
            <4>1. of \in RowType
                BY <3>1
            <4>2. QED
                <5> HIDE DEF SeedInv, SeedsAreSpent, R!TypeOK, R!Ids, of
                <5> QED BY <4>1
        <3>3. rows' = [rows EXCEPT ![s] = R!NoRow, ![m] = new] /\ paired' = [paired EXCEPT ![s] = @ \cup {m}]
            BY <1>3, <2>5, <3>1 DEF R!Pair, R!PairedRows
        <3>4. R!NoRow \in RowType /\ R!NoRow.seed = "none"
            BY DEF R!NoRow
        <3>5. rows' \in [R!Ids -> RowType]
            BY <3>2, <3>3, <3>4
        <3>6. \A i \in R!Ids : rows'[i].seed = rows[i].seed \/ rows'[i].seed = "none"
            BY <3>2, <3>3, <3>4
        <3>7. rows'[s].seed = "none"
            BY <3>1, <3>2, <3>3, <3>4
        <3>8. paired[s] = {}
            BY <2>1, <3>1
        <3>9. paired' \in [Seeds -> SUBSET Macs] /\ paired'[s] = {m} /\ \A z \in Seeds \ {s} : paired'[z] = paired[z]
            BY <2>1, <3>3, <3>8
        <3> HIDE DEF s, of, new
        <3>10. R!TypeOK'
            BY <2>1, <2>3, <3>5, <3>9
        <3>11. SeedsAreSpent'
            <4>1. \A i \in R!Ids : rows'[i].seed \in Seeds => rows'[i].seed = i
                BY <3>6
            <4>2. \A z \in Seeds : paired'[z] # {} => rows'[z].seed # z
                BY <2>1, <3>6, <3>7, <3>9
            <4>3. \A z \in Seeds : \A k, n \in paired'[z] : k = n
                BY <3>9
            <4>4. QED BY <2>3, <4>1, <4>2, <4>3
        <3>12. QED BY <3>10, <3>11
    <2>6. QED BY <2>4, <2>5
<1>4. ASSUME NEW m \in Macs, R!Answer(m) PROVE SeedInv'
    BY <1>4 DEF R!Answer, R!Idle
<1>5. ASSUME NEW m \in Macs, R!Receive(m) \/ R!Lose(m) PROVE SeedInv'
    BY <1>5 DEF R!Receive, R!Lose
<1>6. ASSUME NEW m \in Macs, NEW s \in Seeds, R!Flash(m, s) PROVE SeedInv'
    BY <1>6 DEF R!Flash
<1>7. ASSUME NEW s \in Seeds, NEW n \in Names, R!ProvisionSatellite(s, n) PROVE SeedInv'
    <2> DEFINE r == [rows[s] EXCEPT !.seed = s, !.name = n, !.exists = TRUE]
    <2>1. r \in RowType /\ r.seed = s
        <3>1. rows[s] \in RowType
            OBVIOUS
        <3>2. QED
            <4> HIDE DEF SeedInv, SeedsAreSpent, R!TypeOK, R!Ids
            <4> QED BY <3>1
    <2>2. rows' = [rows EXCEPT ![s] = r] /\ paired' = [paired EXCEPT ![s] = {}] /\ UNCHANGED <<call, flash, packet, stale>>
        BY <1>7 DEF R!ProvisionSatellite
    <2> HIDE DEF r
    <2>3. QED BY <2>1, <2>2
<1>8. ASSUME NEW m \in Macs, NEW n \in Names, R!SetSatelliteDisplayName(m, n) PROVE SeedInv'
    <2> DEFINE r == [rows[m] EXCEPT !.name = n, !.exists = TRUE]
    <2>1. r \in RowType /\ r.seed = rows[m].seed
        <3>1. rows[m] \in RowType
            OBVIOUS
        <3>2. QED
            <4> HIDE DEF SeedInv, SeedsAreSpent, R!TypeOK, R!Ids
            <4> QED BY <3>1
    <2>2. rows' = [rows EXCEPT ![m] = r] /\ UNCHANGED <<call, flash, packet, stale, paired>>
        BY <1>8 DEF R!SetSatelliteDisplayName
    <2> HIDE DEF r
    <2>3. QED BY <2>1, <2>2
<1>9. ASSUME NEW i \in R!Ids, R!DeleteSatellite(i) PROVE SeedInv'
    BY <1>9 DEF R!DeleteSatellite, R!NoRow
<1>10. ASSUME NEW old \in SUBSET R!Ids, R!SelectStale(old) PROVE SeedInv'
    BY <1>10 DEF R!SelectStale
<1>11. CASE R!DeleteStale
    BY <1>11 DEF R!DeleteStale, R!NoRow
<1>12. CASE UNCHANGED R!vars
    BY <1>12 DEF R!vars
<1>13. QED
    BY <1>1, <1>2, <1>3, <1>4, <1>5, <1>6, <1>7, <1>8, <1>9, <1>10, <1>11, <1>12 DEF R!Next, R!Call

\* A seed is for one satellite, until a row is made for it again: for every
\* number of satellites, seeds, lost confirmations, renamings and deletions.
THEOREM SeedPairsOnceAlways == Spec => []SeedPairsOnce
<1>1. Init => SeedInv
    BY RoomsAssumption DEF Init, R!Init, SeedInv, SeedsAreSpent, R!TypeOK, R!NoRow, R!Idle, R!None, R!Ids
<1>2. SeedInv /\ [Next]_vars => SeedInv'
    BY SeedInvStep, RowStep
<1>3. SeedInv => SeedPairsOnce
    BY DEF SeedInv, SeedsAreSpent, SeedPairsOnce, R!SeedPairsOnce
<1>4. QED
    BY <1>1, <1>2, <1>3, PTL DEF Spec

-----------------------------------------------------------------------------
(* No announcement over another one, as long as nobody raced for the gate.  *)

GateType ==
    /\ pc \in [P!Threads -> {"idle", "check", "begin", "await", "record"}]
    /\ assets \in Nat /\ acks \in {0, 1}

OneAtTheGate ==
    /\ playing \subseteq releaser
    /\ \A t, u \in releaser : t = u
    /\ releaser # {} => busy
    /\ \A t, u \in P!Threads : pc[t] = "begin" /\ pc[u] = "begin" => t = u
    /\ \A t \in P!Threads : pc[t] = "begin" => ~busy
    /\ acks = 1 => busy /\ playing = {}
    /\ done /\ busy => playing = {} /\ acks = 0

GateInv == GateType /\ (~raced /\ assets = 0 => OneAtTheGate)

\* Every step leaves the loudspeaker to the one announcement whose thread waits
\* to free the satellite, unless a second thread found it free before the first
\* took it (raced) or a tone passed the gate (assets).
LEMMA GateStep == GateInv /\ [P!Next]_(P!vars) => GateInv'
<1> SUFFICES ASSUME GateInv, [P!Next]_(P!vars) PROVE GateInv'
    OBVIOUS
<1> USE DEF GateInv, GateType, OneAtTheGate, P!gate, P!satellite, P!room
<1>1. ASSUME NEW t \in P!Threads, P!Announce(t) PROVE GateInv'
    BY <1>1 DEF P!Announce
<1>2. ASSUME NEW t \in P!Threads, P!Check(t) PROVE GateInv'
    BY <1>2 DEF P!Check, P!After
<1>3. ASSUME NEW t \in P!Threads, P!Begin(t) PROVE GateInv'
    BY <1>3 DEF P!Begin, P!After
<1>4. ASSUME NEW t \in P!Threads, P!Listen(t) \/ P!Record(t) PROVE GateInv'
    BY <1>4 DEF P!Listen, P!Record
<1>5. ASSUME NEW t \in P!Threads, P!Release(t) PROVE GateInv'
    BY <1>5 DEF P!Release, P!WaitedEnough
<1>6. ASSUME NEW x \in P!Threads \cup {"asset"}, P!Finish(x) PROVE GateInv'
    BY <1>6 DEF P!Finish
<1>7. ASSUME NEW q \in Questions, P!Elapse(q) \/ P!Expire(q) PROVE GateInv'
    BY <1>7 DEF P!Elapse, P!Expire
<1>8. CASE P!PlayAsset
    BY <1>8 DEF P!PlayAsset
<1>9. CASE P!PlaybackDone
    BY <1>9 DEF P!PlaybackDone
<1>10. CASE P!LoseAck \/ P!Reboot \/ P!Utter \/ UNCHANGED P!vars
    BY <1>10 DEF P!LoseAck, P!Reboot, P!Utter, P!vars
<1>11. QED
    BY <1>1, <1>2, <1>3, <1>4, <1>5, <1>6, <1>7, <1>8, <1>9, <1>10
    DEF P!Next, P!ThreadStep, P!Released, P!Heard, P!TimerStep

\* The busy flag, the playback_done event and the time-out keep announcements
\* apart, whatever is lost and whoever restarts: the two steps of is_busy and
\* mark_busy (main.py:1463) are the only gap, for every number of threads.
THEOREM OverlaidOnlyAfterRaceAlways == Spec => []OverlaidOnlyAfterRace
<1>1. Init => GateInv
    BY DEF Init, P!Init, GateInv, GateType, OneAtTheGate, P!Threads
<1>2. GateInv /\ [Next]_vars => GateInv'
    BY GateStep, PlaybackStep
<1>3. GateInv => OverlaidOnlyAfterRace
    BY DEF GateInv, OneAtTheGate, OverlaidOnlyAfterRace, P!OverlaidOnlyAfterRace, P!NeverOverlaid
<1>4. QED
    BY <1>1, <1>2, <1>3, PTL DEF Spec

-----------------------------------------------------------------------------
(* A follow-up inherits from the running conversation.                      *)

Words == {"none", "kitchen", "hall", "lamp", "light", "on"}
Item == [is : Words, from : Nat]
Context == [room : Item, device : Item, category : Item, action : Item, history : Seq(Nat)]
Fields == {"room", "device", "category", "action"}

ContextInv ==
    /\ ctx \in Context /\ filled.by \in Context
    /\ commands \in Nat /\ started \in Nat /\ started <= commands /\ alive \in BOOLEAN
    /\ M!InheritsOnlyCurrent /\ M!DoesNotMix

\* A context that is empty has nothing in its fields.
LEMMA EmptyContext == /\ M!Empty \in Context
                      /\ \A f \in Fields : M!Empty[f] = M!Nothing
                      /\ M!Nothing \in Item
<1>1. M!Nothing \in Item
    BY DEF M!Nothing, M!Of, M!None, Item, Words
<1> DEFINE n == M!Nothing
<1> HIDE DEF n
<1>2. M!Empty = [room |-> n, device |-> n, category |-> n, action |-> n, history |-> <<>>]
    BY DEF M!Empty, n
<1>3. n \in Item
    BY <1>1 DEF n
<1>4. QED
    BY <1>2, <1>3 DEF Context, Fields, n

\* What a sentence inherits is of the context, or nothing.
LEMMA FillInherits ==
    ASSUME ctx \in Context, NEW s \in M!Sayings, NEW at0 \in BOOLEAN
    PROVE  LET by == M!WithAction(s, M!Fill(s, at0)) IN
           /\ by \in Context
           /\ \A f \in Fields : by[f] = M!Nothing \/ by[f] = ctx[f]
           /\ by.device # M!Nothing => s.room = M!None /\ s.category = M!None /\ ~at0
           /\ by.category # M!Nothing => s.device = M!None /\ by.device = M!Nothing
           /\ by.room # M!Nothing => ~at0
<1> DEFINE fill == M!Fill(s, at0)
           by == M!WithAction(s, fill)
<1>1. /\ fill \in Context /\ fill.action = M!Nothing
      /\ \A f \in Fields \ {"action"} : fill[f] = M!Nothing \/ fill[f] = ctx[f]
      /\ fill.device # M!Nothing => s.room = M!None /\ s.category = M!None /\ ~at0
      /\ fill.category # M!Nothing => s.device = M!None /\ fill.device = M!Nothing
      /\ fill.room # M!Nothing => ~at0
    BY EmptyContext DEF M!Fill, Context, Fields
<1>2. by = fill \/ by = [fill EXCEPT !.action = ctx.action]
    BY DEF M!WithAction
<1>3. ctx.action \in Item
    BY DEF Context
<1> HIDE DEF fill, by
<1>4. /\ by \in Context /\ by.room = fill.room /\ by.device = fill.device /\ by.category = fill.category
      /\ by.action = M!Nothing \/ by.action = ctx.action
    BY <1>1, <1>2, <1>3 DEF Context
<1>5. \A f \in Fields : by[f] = M!Nothing \/ by[f] = ctx[f]
    BY <1>1, <1>4 DEF Fields
<1>6. QED
    BY <1>1, <1>4, <1>5 DEF by, fill

\* _ensure keeps the fields of a living context and forgets those of another.
LEMMA EnsureForgets ==
    ASSUME ctx \in Context
    PROVE  /\ M!Ensure \in Context
           /\ \A f \in Fields : M!Ensure[f] = IF alive THEN ctx[f] ELSE M!Nothing
<1>1. CASE alive
    BY <1>1 DEF M!Ensure
<1>2. CASE ~alive
    <2> DEFINE e == M!Empty
    <2>1. M!Ensure = [e EXCEPT !.history = ctx.history]
        BY <1>2 DEF M!Ensure
    <2>2. e \in Context /\ \A f \in Fields : e[f] = M!Nothing
        BY EmptyContext
    <2> HIDE DEF e
    <2>3. QED
        BY <1>2, <2>1, <2>2 DEF Context, Fields
<1>3. QED BY <1>1, <1>2

\* What the parser found is made of words.
LEMMA SayingsAreWords == \A s \in M!Sayings : \A f \in Fields : s[f] \in Words
BY DEF M!Sayings, M!Said, M!None, Words, Fields

\* A command is filled from the living context only, and what it leaves there
\* is its own or of the conversation it belongs to.
LEMMA CommandKeeps ==
    ASSUME ContextInv, NEW s \in M!Sayings, NEW at0 \in BOOLEAN, M!Command(s, at0)
    PROVE  ContextInv'
<1> DEFINE by == IF alive THEN M!WithAction(s, M!Fill(s, at0)) ELSE M!Empty
           n == commands + 1
           keep(f) == IF s[f] # M!None THEN M!Of(s[f], n) ELSE IF by[f] # M!Nothing THEN by[f] ELSE M!Ensure[f]
           acts == s.action # M!None \/ by.action # M!Nothing
           next == [room |-> keep("room"), device |-> keep("device"), category |-> keep("category"),
                    action |-> keep("action"), history |-> M!Ensure.history]
<1>1. /\ ctx \in Context /\ commands \in Nat /\ started \in Nat /\ started <= commands /\ alive \in BOOLEAN
      /\ M!InheritsOnlyCurrent
    BY DEF ContextInv
<1>2. /\ commands' = n
      /\ filled' = [said |-> s, at |-> at0, by |-> by, since |-> started]
      /\ \/ acts /\ ctx' = next /\ alive' = TRUE /\ started' = IF alive THEN started ELSE n
         \/ UNCHANGED <<ctx, alive, started>>
    BY Zenon DEF M!Command
<1>3. /\ by \in Context
      /\ \A f \in Fields : by[f] = M!Nothing \/ (alive /\ by[f] = ctx[f])
      /\ by.device # M!Nothing => s.room = M!None /\ s.category = M!None /\ ~at0
      /\ by.category # M!Nothing => s.device = M!None /\ by.device = M!Nothing
      /\ by.room # M!Nothing => ~at0
    <2>1. CASE alive
        BY <1>1, <2>1, FillInherits
    <2>2. CASE ~alive
        BY <2>2, EmptyContext DEF Fields
    <2>3. QED BY <2>1, <2>2
<1>4. \A f \in Fields : ctx[f] \in Item /\ by[f] \in Item /\ M!Ensure[f] \in Item /\ s[f] \in Words
    BY <1>1, <1>3, EnsureForgets, SayingsAreWords DEF Context, Fields
<1>5. \A f \in Fields : alive /\ ctx[f] # M!Nothing => ctx[f].from >= started
    BY <1>1 DEF M!InheritsOnlyCurrent, Fields
<1>6. \A f \in Fields : by[f] # M!Nothing => by[f].from >= started
    BY <1>3, <1>5
<1>7. ASSUME NEW f \in Fields
      PROVE  /\ keep(f) \in Item
             /\ keep(f) # M!Nothing => keep(f).from >= IF alive THEN started ELSE n
    <2>1. CASE s[f] # M!None
        BY <1>1, <1>4, <2>1 DEF M!Of, Item
    <2>2. CASE s[f] = M!None /\ by[f] # M!Nothing
        BY <1>3, <1>4, <1>6, <2>2
    <2>3. CASE s[f] = M!None /\ by[f] = M!Nothing
        BY <1>1, <1>4, <1>5, <2>3, EnsureForgets
    <2>4. QED BY <2>1, <2>2, <2>3
<1>8. M!Ensure.history \in Seq(Nat)
    BY <1>1, EnsureForgets DEF Context
<1> HIDE DEF keep, by, acts
<1>9. next \in Context /\ \A f \in Fields : next[f] = keep(f)
    BY <1>7, <1>8 DEF Context, Fields
<1> HIDE DEF next
<1>10. M!DoesNotMix'
    BY <1>2, <1>3 DEF M!DoesNotMix
<1>11. M!InheritsOnlyCurrent'
    BY <1>1, <1>2, <1>5, <1>6, <1>7, <1>9 DEF M!InheritsOnlyCurrent, Fields
<1>12. filled'.by \in Context /\ ctx' \in Context
    BY <1>1, <1>2, <1>3, <1>9
<1>13. commands' \in Nat /\ started' \in Nat /\ started' <= commands' /\ alive' \in BOOLEAN
    <2>1. commands' = commands + 1 /\ started' \in {started, commands + 1} /\ alive' \in {TRUE, alive}
        BY <1>2, Zenon
    <2>2. alive' \in BOOLEAN
        BY <1>1, <2>1, Zenon
    <2>3. started' \in Nat /\ commands' \in Nat /\ started' <= commands'
        BY <1>1, <2>1
    <2>4. QED BY <2>2, <2>3
<1>14. QED
    BY <1>10, <1>11, <1>12, <1>13 DEF ContextInv

\* So do what the language model was told, the expiry loop and time itself.
LEMMA ContextStep == ContextInv /\ [M!Next]_(M!vars) => ContextInv'
<1> SUFFICES ASSUME ContextInv, [M!Next]_(M!vars) PROVE ContextInv'
    OBVIOUS
<1>1. ASSUME NEW s \in M!Sayings, NEW at0 \in BOOLEAN, M!Command(s, at0) PROVE ContextInv'
    BY <1>1, CommandKeeps
<1>2. CASE M!Exchange
    <2> DEFINE all == Append(M!Ensure.history, IF alive THEN started ELSE commands + 1)
               new == IF Len(all) > MaxMessages THEN Tail(all) ELSE all
               e == M!Ensure
    <2>1. /\ e \in Context /\ \A f \in Fields : e[f] = IF alive THEN ctx[f] ELSE M!Nothing
        BY EnsureForgets DEF ContextInv
    <2>2. all \in Seq(Nat) /\ new \in Seq(Nat)
        <3>1. e.history \in Seq(Nat) /\ (IF alive THEN started ELSE commands + 1) \in Nat
            BY <2>1 DEF Context, ContextInv
        <3> DEFINE h == e.history
                   x == IF alive THEN started ELSE commands + 1
        <3>2. all = Append(h, x)
            BY DEF e
        <3> HIDE DEF all, h, x, e
        <3>3. h \in Seq(Nat) /\ x \in Nat
            BY <3>1 DEF h, x
        <3>4. all \in Seq(Nat) /\ all # <<>>
            BY <3>2, <3>3
        <3>5. QED BY <3>4
    <2>3. ctx' = [e EXCEPT !.history = new] /\ alive' = TRUE /\ commands' = commands + 1 /\ filled' = filled
          /\ started' = IF alive THEN started ELSE commands + 1
        BY <1>2 DEF M!Exchange
    <2> HIDE DEF e, new, all
    <2>4. ctx' \in Context /\ \A f \in Fields : ctx'[f] = e[f]
        BY <2>1, <2>2, <2>3 DEF Context, Fields
    <2>5. M!InheritsOnlyCurrent'
        BY <2>1, <2>3, <2>4 DEF ContextInv, M!InheritsOnlyCurrent, Fields
    <2>6. M!DoesNotMix'
        BY <2>3 DEF ContextInv, M!DoesNotMix
    <2>7. commands' \in Nat /\ started' \in Nat /\ started' <= commands' /\ alive' \in BOOLEAN
        BY <2>3 DEF ContextInv
    <2>8. QED
        BY <2>3, <2>4, <2>5, <2>6, <2>7 DEF ContextInv
<1>3. CASE M!Lapse
    BY <1>3 DEF M!Lapse, ContextInv, M!InheritsOnlyCurrent, M!DoesNotMix
<1>4. CASE M!ExpiryLoop
    <2>1. ctx \in Context /\ ctx' = [ctx EXCEPT !.history = <<>>] /\ UNCHANGED <<alive, commands, started, filled>>
        BY <1>4 DEF M!ExpiryLoop, ContextInv
    <2> DEFINE none == <<>>
    <2>2. ctx' \in Context /\ \A f \in Fields : ctx'[f] = ctx[f]
        <3>1. none \in Seq(Nat)
            OBVIOUS
        <3>2. ctx' = [ctx EXCEPT !.history = none]
            BY <2>1
        <3> HIDE DEF none
        <3>3. QED BY <2>1, <3>1, <3>2 DEF Context, Fields
    <2>3. M!InheritsOnlyCurrent'
        BY <2>1, <2>2 DEF ContextInv, M!InheritsOnlyCurrent, Fields
    <2>4. QED
        BY <2>1, <2>2, <2>3 DEF ContextInv, M!DoesNotMix
<1>5. CASE UNCHANGED M!vars
    BY <1>5 DEF M!vars, ContextInv, M!InheritsOnlyCurrent, M!DoesNotMix
<1>6. QED
    BY <1>1, <1>2, <1>3, <1>4, <1>5 DEF M!Next

\* What a follow-up inherits was said in the running conversation (#423) and
\* contradicts nothing of the sentence (#354, #355, #370), for every number of
\* commands and messages.
THEOREM ContextIsCurrentAlways == Spec => []ContextIsCurrent
<1>1. Init => ContextInv
    <2> SUFFICES ASSUME Init PROVE ContextInv
        OBVIOUS
    <2>1. /\ ctx = M!Empty /\ alive = FALSE /\ commands = 0 /\ started = 0
          /\ filled.by = M!Empty /\ filled.since = 0
        BY DEF Init, M!Init
    <2>2. M!InheritsOnlyCurrent /\ M!DoesNotMix
        BY <2>1, EmptyContext DEF M!InheritsOnlyCurrent, M!DoesNotMix, Fields
    <2>3. commands \in Nat /\ started \in Nat /\ started <= commands
        BY <2>1
    <2>4. alive \in BOOLEAN
        BY <2>1, Zenon
    <2>5. QED
        BY <2>1, <2>2, <2>3, <2>4, EmptyContext DEF ContextInv
<1>2. ContextInv /\ [Next]_vars => ContextInv'
    BY ContextStep, ConversationStep
<1>3. ContextInv => ContextIsCurrent
    BY DEF ContextInv, ContextIsCurrent, M!ContextIsCurrent
<1>4. QED
    BY <1>1, <1>2, <1>3, PTL DEF Spec

-----------------------------------------------------------------------------
(* What is said at a satellite is heard whole.                              *)

Packet == [type : {"chunk", "end"}, of : Nat]

VoiceType ==
    /\ mic \in {"listening", "pling", "recording"} /\ talk \in Nat /\ recorded \in 0..MaxFrames
    /\ silence \in 0..SilenceFrames /\ calm \in Nat /\ unheard \in Nat
    /\ session \in Seq(Nat) /\ handed \in Seq(Nat) /\ chunks \in Seq(Nat) /\ played \in Seq(Nat)
    /\ answers \in Seq(Packet)

\* Silence that counts came after the shortest recording, and so did the calm.
SilenceIsCalm == silence <= calm /\ (silence > 0 => recorded >= MinFrames)

\* The Core's session holds the running recording only.
SessionIsTalk ==
    /\ \A i \in 1..Len(session) : session[i] = talk
    /\ mic # "recording" => session = <<>>

\* The packets on their way are whole answers but for the first, whose
\* beginning is what the satellite has gathered.
AnswersAreWhole ==
    /\ \A i \in 1..(Len(answers) - 1) : answers[i].type = "chunk" => answers[i + 1].of = answers[i].of
    /\ answers # <<>> => answers[Len(answers)].type = "end"
    /\ chunks # <<>> => answers # <<>>
    /\ \A i \in 1..Len(chunks) : chunks[i] = answers[1].of

VoiceInv ==
    /\ VoiceType /\ SilenceIsCalm
    /\ unheard = 0 => SessionIsTalk /\ AnswersAreWhole /\ V!Uniform(handed) /\ V!Uniform(played)

\* Where the entries of a concatenation are from.
LEMMA ConcatEntries ==
    ASSUME NEW s \in Seq(Packet), NEW a \in Seq(Packet)
    PROVE  /\ s \o a \in Seq(Packet)
           /\ Len(s) \in Nat /\ Len(a) \in Nat /\ Len(s \o a) = Len(s) + Len(a)
           /\ \A i \in 1..Len(s) : (s \o a)[i] = s[i]
           /\ \A i \in 1..Len(a) : (s \o a)[Len(s) + i] = a[i]
<1>1. s \o a \in Seq(Packet) /\ Len(s) \in Nat /\ Len(a) \in Nat
    OBVIOUS
<1>2. Len(s \o a) = Len(s) + Len(a)
    BY ConcatProperties
<1>3. ASSUME NEW i \in 1..Len(s) PROVE (s \o a)[i] = s[i]
    BY <1>1, ConcatProperties
<1>4. ASSUME NEW i \in 1..Len(a) PROVE (s \o a)[Len(s) + i] = a[i]
    <2>1. Len(s) + i \in 1..(Len(s) + Len(a)) /\ ~(Len(s) + i <= Len(s)) /\ Len(s) + i - Len(s) = i
        BY <1>1
    <2>2. QED BY <2>1, ConcatProperties
<1>5. QED BY <1>1, <1>2, <1>3, <1>4

\* An answer is two packets and the end, all of one recording.
LEMMA AnswerIsWhole ==
    ASSUME talk \in Nat
    PROVE  /\ V!Answer \in Seq(Packet) /\ Len(V!Answer) = 3
           /\ \A i \in 1..3 : V!Answer[i].of = talk
           /\ V!Answer[3].type = "end"
<1> DEFINE c == [type |-> "chunk", of |-> talk]
           e == [type |-> "end", of |-> talk]
           s == V!Times(2, c)
<1>1. c \in Packet /\ e \in Packet /\ c.of = talk /\ e.of = talk /\ e.type = "end"
    BY DEF Packet
<1>2. V!Answer = s \o <<e>>
    BY DEF V!Answer
<1> HIDE DEF c, e
<1>3. s \in Seq(Packet) /\ Len(s) = 2 /\ s[1] = c /\ s[2] = c
    BY <1>1 DEF V!Times
<1> DEFINE l == <<e>>
<1>4. l \in Seq(Packet) /\ Len(l) = 1 /\ l[1] = e
    BY <1>1
<1> HIDE DEF s, l
<1>5. V!Answer = s \o l
    BY <1>2 DEF l
<1>6. s \in Seq(Packet) /\ l \in Seq(Packet)
    BY <1>3, <1>4
<1>7. s \o l \in Seq(Packet)
    BY <1>6, ConcatEntries
<1>8. Len(s \o l) = Len(s) + Len(l)
    BY <1>6, ConcatEntries
<1>9. \A i \in 1..Len(s) : (s \o l)[i] = s[i]
    BY <1>6, ConcatEntries
<1>10. \A i \in 1..Len(l) : (s \o l)[Len(s) + i] = l[i]
    BY <1>6, ConcatEntries
<1>11. QED
    BY <1>1, <1>3, <1>4, <1>5, <1>7, <1>8, <1>9, <1>10

\* A whole answer behind whole answers leaves them whole.
LEMMA WholeAnswers ==
    ASSUME talk \in Nat, answers \in Seq(Packet), chunks \in Seq(Nat), AnswersAreWhole,
           answers' = answers \o V!Answer, chunks' = chunks
    PROVE  answers' \in Seq(Packet) /\ AnswersAreWhole'
<1> DEFINE a == V!Answer
<1>1. /\ a \in Seq(Packet) /\ Len(a) = 3
      /\ a[1].of = talk /\ a[2].of = talk /\ a[3].of = talk /\ a[3].type = "end"
    BY AnswerIsWhole
<1> HIDE DEF a
<1>2. /\ answers' \in Seq(Packet) /\ Len(answers') = Len(answers) + 3
      /\ \A i \in 1..Len(answers) : answers'[i] = answers[i]
      /\ answers'[Len(answers) + 1] = a[1] /\ answers'[Len(answers) + 2] = a[2]
      /\ answers'[Len(answers) + 3] = a[3]
    <2>1. answers' = answers \o a
        BY DEF a
    <2>2. answers \o a \in Seq(Packet)
        BY <1>1, ConcatEntries
    <2>3. Len(answers \o a) = Len(answers) + Len(a)
        BY <1>1, ConcatEntries
    <2>4. \A i \in 1..Len(answers) : (answers \o a)[i] = answers[i]
        BY <1>1, ConcatEntries
    <2>5. \A i \in 1..Len(a) : (answers \o a)[Len(answers) + i] = a[i]
        BY <1>1, ConcatEntries
    <2>6. QED
        BY <1>1, <2>1, <2>2, <2>3, <2>4, <2>5
<1>3. ASSUME NEW i \in 1..(Len(answers') - 1), answers'[i].type = "chunk"
      PROVE  answers'[i + 1].of = answers'[i].of
    <2>1. CASE i < Len(answers)
        BY <1>2, <1>3, <2>1 DEF AnswersAreWhole
    <2>2. CASE i = Len(answers)
        BY <1>2, <1>3, <2>2 DEF AnswersAreWhole
    <2>3. CASE i > Len(answers)
        BY SMTT(30), <1>1, <1>2, <2>3
    <2>4. QED BY <1>2, <2>1, <2>2, <2>3
<1>4. answers'[Len(answers')].type = "end"
    BY <1>1, <1>2
<1>5. \A i \in 1..Len(chunks') : chunks'[i] = answers'[1].of
    BY <1>2 DEF AnswersAreWhole
<1>6. QED
    BY <1>2, <1>3, <1>4, <1>5 DEF AnswersAreWhole

\* Wake words, frames, ends of recordings and packets of answers, lost or not.
LEMMA VoiceInvStep == VoiceInv /\ [V!Next]_(V!vars) => VoiceInv'
<1> SUFFICES ASSUME VoiceInv, [V!Next]_(V!vars) PROVE VoiceInv'
    OBVIOUS
<1>0. VoiceType /\ SilenceIsCalm
    BY DEF VoiceInv
<1>a. /\ talk \in Nat /\ recorded \in 0..MaxFrames /\ silence \in 0..SilenceFrames /\ calm \in Nat /\ unheard \in Nat
      /\ mic \in {"listening", "pling", "recording"}
    BY <1>0 DEF VoiceType
<1>b. session \in Seq(Nat) /\ handed \in Seq(Nat) /\ chunks \in Seq(Nat) /\ played \in Seq(Nat) /\ answers \in Seq(Packet)
    BY <1>0 DEF VoiceType
<1>c. {MaxFrames, MinFrames, PreFrames, SilenceFrames} \subseteq Nat
    BY RoomsAssumption
<1> USE DEF V!recording, V!core, V!player
<1>1. CASE V!WakeWord
    <2>1. /\ mic = "listening" /\ mic' = "pling" /\ talk' = talk + 1
          /\ UNCHANGED <<recorded, silence, calm, session, handed, answers, chunks, played, unheard>>
        BY <1>1 DEF V!WakeWord
    <2>2. VoiceType' /\ SilenceIsCalm'
        BY <1>0, <1>a, <1>b, <2>1 DEF VoiceType, SilenceIsCalm
    <2>3. SessionIsTalk => SessionIsTalk'
        BY <2>1 DEF SessionIsTalk
    <2>4. QED BY <2>1, <2>2, <2>3 DEF VoiceInv, AnswersAreWhole, V!Uniform
<1>2. CASE V!PlingEnds
    <2> DEFINE pre == V!Times(PreFrames, talk)
    <2>1. pre \in Seq(Nat) /\ \A i \in 1..Len(pre) : pre[i] = talk
        BY <1>a, <1>c DEF V!Times
    <2>2. session' = session \o pre
        BY <1>2 DEF V!PlingEnds
    <2> HIDE DEF pre
    <2>3. session' \in Seq(Nat) /\ (session = <<>> => session' = pre)
        BY <1>0, <2>1, <2>2, ConcatProperties, ConcatEmptySeq DEF VoiceType
    <2>4. VoiceType' /\ SilenceIsCalm'
        <3>1. /\ mic' = "recording" /\ recorded' = 0 /\ silence' = 0 /\ calm' = 0
              /\ UNCHANGED <<talk, handed, answers, chunks, played, unheard>>
            BY <1>2 DEF V!PlingEnds
        <3>2. 0 \in 0..MaxFrames /\ 0 \in 0..SilenceFrames
            BY <1>c
        <3>3. QED BY <1>a, <1>b, <2>3, <3>1, <3>2 DEF VoiceType, SilenceIsCalm
    <2>5. ASSUME unheard' = 0 PROVE SessionIsTalk' /\ AnswersAreWhole' /\ V!Uniform(handed)' /\ V!Uniform(played)'
        BY <1>2, <2>1, <2>3, <2>5 DEF V!PlingEnds, VoiceInv, SessionIsTalk, AnswersAreWhole, V!Uniform
    <2>6. QED BY <2>4, <2>5 DEF VoiceInv
<1>3. ASSUME NEW loud \in BOOLEAN, V!Frame(loud) PROVE VoiceInv'
    <2>1. session' = Append(session, talk)
        BY <1>3 DEF V!Frame
    <2>2. session' \in Seq(Nat) /\ Len(session') = Len(session) + 1 /\ session'[Len(session) + 1] = talk
          /\ \A i \in 1..Len(session) : session'[i] = session[i]
        BY <1>0, <2>1, AppendProperties DEF VoiceType
    <2>3. VoiceType' /\ SilenceIsCalm'
        <3>1. /\ recorded' = recorded + 1 /\ recorded' \in 0..MaxFrames
              /\ silence' = (IF recorded' < MinFrames \/ loud THEN 0 ELSE silence + 1) /\ silence' \in 0..SilenceFrames
              /\ calm' = (IF loud THEN 0 ELSE calm + 1)
            BY <1>3, <1>a, <1>c DEF V!Frame, V!SilenceAfter
        <3>2. SilenceIsCalm'
            BY <1>0, <1>a, <1>c, <3>1 DEF SilenceIsCalm
        <3>3. UNCHANGED <<mic, talk, handed, answers, chunks, discard, played, unheard>>
            BY <1>3 DEF V!Frame
        <3>4. calm' \in Nat
            BY <1>a, <3>1
        <3>5. QED BY <1>a, <1>b, <2>2, <3>1, <3>2, <3>3, <3>4 DEF VoiceType
    <2>4. ASSUME unheard' = 0 PROVE SessionIsTalk' /\ AnswersAreWhole' /\ V!Uniform(handed)' /\ V!Uniform(played)'
        <3>1. mic = "recording" /\ UNCHANGED <<mic, talk, handed, answers, chunks, discard, played, unheard>>
            BY <1>3 DEF V!Frame
        <3>2. \A i \in 1..Len(session') : session'[i] = talk
            <4>1. \A i \in 1..Len(session) : session[i] = talk
                BY <2>4, <3>1 DEF VoiceInv, SessionIsTalk
            <4>2. Len(session) \in Nat
                BY <1>b
            <4>3. QED BY <2>2, <4>1, <4>2
        <3>3. QED BY <2>4, <3>1, <3>2 DEF VoiceInv, SessionIsTalk, AnswersAreWhole, V!Uniform
    <2>5. QED BY <2>3, <2>4 DEF VoiceInv
<1>4. CASE V!AudioEnd
    <2>1. /\ answers' = answers \o V!Answer /\ chunks' = chunks /\ handed' = session /\ session' = <<>>
          /\ mic' = "listening" /\ UNCHANGED <<talk, recorded, silence, calm, discard, played, unheard>>
        BY <1>4 DEF V!AudioEnd
    <2>2. answers' \in Seq(Packet)
        BY <1>0, <2>1, AnswerIsWhole, ConcatProperties DEF VoiceType
    <2>3. VoiceType' /\ SilenceIsCalm'
        BY <1>0, <2>1, <2>2 DEF VoiceType, SilenceIsCalm
    <2>4. ASSUME unheard' = 0 PROVE SessionIsTalk' /\ AnswersAreWhole' /\ V!Uniform(handed)' /\ V!Uniform(played)'
        <3>1. SessionIsTalk /\ AnswersAreWhole /\ V!Uniform(played)
            BY <2>1, <2>4 DEF VoiceInv
        <3>2. AnswersAreWhole'
            BY <1>0, <2>1, <3>1, WholeAnswers DEF VoiceType
        <3>3. SessionIsTalk' /\ V!Uniform(handed)' /\ V!Uniform(played)'
            BY <2>1, <3>1 DEF SessionIsTalk, V!Uniform
        <3>4. QED BY <3>2, <3>3
    <2>5. QED BY <2>3, <2>4 DEF VoiceInv
<1>5. CASE V!LoseAudioEnd \/ V!LoseAnswer
    <2>1. unheard' # 0
        <3>1. unheard' = unheard + 1
            BY <1>5 DEF V!LoseAudioEnd, V!LoseAnswer
        <3>2. QED BY <1>a, <3>1
    <2>2. answers' \in Seq(Packet)
        BY <1>5, <1>b, HeadTailProperties DEF V!LoseAudioEnd, V!LoseAnswer
    <2>3. /\ unheard' = unheard + 1 /\ mic' \in {mic, "listening"}
          /\ UNCHANGED <<talk, recorded, silence, calm, session, handed, chunks, played>>
        BY <1>5 DEF V!LoseAudioEnd, V!LoseAnswer
    <2>4. unheard' \in Nat /\ mic' \in {"listening", "pling", "recording"}
        BY <1>a, <2>3
    <2>5. QED
        BY <1>0, <1>a, <1>b, <2>1, <2>2, <2>3, <2>4 DEF VoiceInv, VoiceType, SilenceIsCalm
<1>6. CASE V!Receive
    <2> DEFINE h == answers[1]
    <2>1. /\ answers # <<>> /\ answers' = Tail(answers) /\ Head(answers) = h /\ h \in Packet
          /\ UNCHANGED <<mic, talk, recorded, silence, calm, session, handed, discard, unheard>>
        BY <1>b, <1>6 DEF V!Receive
    <2>2. /\ answers' \in Seq(Packet) /\ Len(answers') = Len(answers) - 1
          /\ \A i \in 1..Len(answers') : answers'[i] = answers[i + 1]
        BY <1>0, <2>1, HeadTailProperties DEF VoiceType
    <2>3. CASE h.type = "chunk"
        <3>1. chunks' = (IF discard THEN <<>> ELSE Append(chunks, h.of)) /\ played' = played
            BY <1>6, <2>1, <2>3 DEF V!Receive
        <3>2. \/ chunks' = <<>>
              \/ /\ Len(chunks') = Len(chunks) + 1 /\ chunks'[Len(chunks) + 1] = h.of
                 /\ \A i \in 1..Len(chunks) : chunks'[i] = chunks[i]
            <4>1. h.of \in Nat
                BY <2>1 DEF Packet
            <4>2. QED BY <1>b, <3>1, <4>1, AppendProperties
        <3>3. chunks' \in Seq(Nat)
            <4>1. h.of \in Nat
                BY <2>1 DEF Packet
            <4>2. QED BY <1>b, <3>1, <4>1, AppendProperties
        <3>4. VoiceType' /\ SilenceIsCalm'
            BY <1>0, <2>1, <2>2, <3>1, <3>3 DEF VoiceType, SilenceIsCalm
        <3>5. ASSUME AnswersAreWhole PROVE AnswersAreWhole'
            <4> DEFINE k == Len(answers)
            <4>0. k \in Nat /\ k > 0 /\ answers[k].type = "end"
                BY <1>b, <2>1, <3>5 DEF AnswersAreWhole
            <4>1. k > 1
                BY <2>3, <4>0
            <4>2. answers[2].of = h.of
                BY <2>3, <3>5, <4>0, <4>1 DEF AnswersAreWhole
            <4>3. answers'[1] = answers[2] /\ answers'[k - 1] = answers[k] /\ Len(answers') = k - 1
                BY <2>2, <4>0, <4>1
            <4>4. ASSUME NEW i \in 1..(k - 2), answers'[i].type = "chunk" PROVE answers'[i + 1].of = answers'[i].of
                <5>1. answers'[i] = answers[i + 1] /\ answers'[i + 1] = answers[(i + 1) + 1] /\ i + 1 \in 1..(k - 1)
                    BY <2>2, <4>0
                <5>2. QED BY <3>5, <4>4, <5>1 DEF AnswersAreWhole
            <4>5. \A i \in 1..Len(chunks) : chunks[i] = h.of
                BY <3>5 DEF AnswersAreWhole
            <4>6. \A i \in 1..Len(chunks') : chunks'[i] = answers'[1].of
                <5>1. Len(chunks) \in Nat
                    BY <1>b
                <5>2. QED BY <3>2, <4>2, <4>3, <4>5, <5>1
            <4>7. answers' # <<>>
                BY <2>2, <4>0, <4>1
            <4> HIDE DEF k
            <4>8. QED BY <4>0, <4>3, <4>4, <4>6, <4>7 DEF AnswersAreWhole
        <3>6. QED BY <2>1, <3>1, <3>4, <3>5 DEF VoiceInv, SessionIsTalk, V!Uniform
    <2>4. CASE h.type = "end"
        <3>1. chunks' = <<>> /\ played' = IF chunks = <<>> THEN played ELSE chunks
            BY <1>6, <2>1, <2>4 DEF V!Receive
        <3>2. VoiceType' /\ SilenceIsCalm'
            BY <1>0, <2>1, <2>2, <3>1 DEF VoiceType, SilenceIsCalm
        <3>3. ASSUME AnswersAreWhole, V!Uniform(played) PROVE AnswersAreWhole' /\ V!Uniform(played)'
            <4>1. \A i \in 1..(Len(answers') - 1) : answers'[i].type = "chunk" => answers'[i + 1].of = answers'[i].of
                <5> SUFFICES ASSUME NEW i \in 1..(Len(answers') - 1), answers'[i].type = "chunk"
                             PROVE  answers'[i + 1].of = answers'[i].of
                    OBVIOUS
                <5>1. Len(answers) \in Nat /\ Len(answers') = Len(answers) - 1
                    BY <1>b, <2>2
                <5>2. i \in 1..Len(answers') /\ i + 1 \in 1..Len(answers') /\ i + 1 \in 1..(Len(answers) - 1)
                    BY <5>1
                <5>3. answers'[i] = answers[i + 1] /\ answers'[i + 1] = answers[(i + 1) + 1]
                    BY <2>2, <5>2
                <5>4. QED BY <3>3, <5>2, <5>3 DEF AnswersAreWhole
            <4>2. answers' # <<>> => answers'[Len(answers')].type = "end"
                <5> SUFFICES ASSUME answers' # <<>> PROVE answers'[Len(answers')].type = "end"
                    OBVIOUS
                <5>0. Len(answers') \in Nat \ {0}
                    BY <2>2, EmptySeq
                <5>1. Len(answers) \in Nat /\ Len(answers') = Len(answers) - 1
                    BY <1>b, <2>2
                <5>2. Len(answers') \in 1..Len(answers') /\ Len(answers') + 1 = Len(answers)
                    BY <5>0, <5>1
                <5>3. answers'[Len(answers')] = answers[Len(answers)]
                    BY <2>2, <5>2
                <5>4. QED BY <2>1, <3>3, <5>3 DEF AnswersAreWhole
            <4>3. V!Uniform(played)'
                BY <3>1, <3>3 DEF AnswersAreWhole, V!Uniform
            <4>4. QED BY <3>1, <4>1, <4>2, <4>3 DEF AnswersAreWhole
        <3>4. QED BY <2>1, <3>2, <3>3 DEF VoiceInv, SessionIsTalk, V!Uniform
    <2>5. QED BY <2>1, <2>3, <2>4 DEF Packet
<1>7. CASE UNCHANGED V!vars
    BY <1>0, <1>7 DEF V!vars, VoiceInv, VoiceType, SilenceIsCalm, SessionIsTalk, AnswersAreWhole, V!Uniform
<1>8. QED
    BY <1>1, <1>2, <1>3, <1>4, <1>5, <1>6, <1>7 DEF V!Next

\* What is recognised is one recording and what is played at once one answer,
\* however the wake word cuts into it, and no recording ends while somebody
\* speaks: for every length of recordings, silence and preroll.
THEOREM SpeechIsWholeAlways == Spec => []SpeechIsWhole
<1>1. Init => VoiceInv
    BY RoomsAssumption DEF Init, V!Init, VoiceInv, VoiceType, SilenceIsCalm, SessionIsTalk, AnswersAreWhole, V!Uniform
<1>2. VoiceInv /\ [Next]_vars => VoiceInv'
    BY VoiceInvStep, VoiceStep
<1>3. VoiceInv => SpeechIsWhole
    <2> SUFFICES ASSUME VoiceInv PROVE V!OneAtATime /\ V!NobodyIsCutOff
        BY DEF SpeechIsWhole, V!SpeechIsWhole
    <2>1. V!OneAtATime
        BY DEF VoiceInv, V!OneAtATime
    <2>2. SilenceIsCalm /\ recorded \in 0..MaxFrames /\ silence \in 0..SilenceFrames
        BY DEF VoiceInv, VoiceType
    <2>3. MaxFrames \in Nat /\ SilenceFrames \in Nat \ {0} /\ MinFrames \in Nat
        BY RoomsAssumption
    <2>4. V!NobodyIsCutOff
        BY <2>2, <2>3 DEF SilenceIsCalm, V!NobodyIsCutOff, V!Ended
    <2>5. QED BY <2>1, <2>4
<1>4. QED
    BY <1>1, <1>2, <1>3, PTL DEF Spec

-----------------------------------------------------------------------------
(* Ring, history and notice of a satellite agree with what happened to it.  *)

RingType ==
    /\ stored \in Levels /\ shown \in Levels /\ wanted \in Levels /\ setTopic \in Levels
    /\ sets \in Seq(Levels) /\ states \in Seq(Levels) /\ power \in {"off", "boot", "on"}

\* Everything on its way says what was set last, and a satellite that is on and
\* is told nothing shows it.
RingFollows ==
    /\ setTopic = wanted /\ adopting \in {0, wanted}
    /\ \A i \in 1..Len(sets) : sets[i] = wanted
    /\ \A i \in 1..Len(states) : states[i] = wanted
    /\ power # "off" /\ sets = <<>> => shown = wanted
    /\ power # "off" /\ sets = <<>> /\ states = <<>> => stored = wanted

RingInv == RingType /\ RingFollows

\* One more level at the end, one less at the beginning.
LEMMA LevelAppended ==
    ASSUME NEW s \in Seq(Levels), NEW w, \A i \in 1..Len(s) : s[i] = w, w \in Levels
    PROVE  Append(s, w) \in Seq(Levels) /\ Append(s, w) # <<>> /\ \A i \in 1..Len(Append(s, w)) : Append(s, w)[i] = w
<1>1. /\ Append(s, w) \in Seq(Levels) /\ Append(s, w) # <<>> /\ Len(Append(s, w)) = Len(s) + 1
      /\ \A i \in 1..Len(s) : Append(s, w)[i] = s[i]
      /\ Append(s, w)[Len(s) + 1] = w
    BY AppendProperties
<1>2. Len(s) \in Nat
    OBVIOUS
<1>3. QED BY <1>1, <1>2

\* The first of equal levels is that level, and so are the rest.
LEMMA LevelTaken ==
    ASSUME NEW s \in Seq(Levels), NEW w, \A i \in 1..Len(s) : s[i] = w, s # <<>>
    PROVE  Head(s) = w /\ Tail(s) \in Seq(Levels) /\ \A i \in 1..Len(Tail(s)) : Tail(s)[i] = w
<1>1. Len(s) \in Nat /\ Len(s) > 0 /\ Head(s) = s[1]
    OBVIOUS
<1>2. /\ Tail(s) \in Seq(Levels) /\ Len(Tail(s)) = Len(s) - 1
      /\ \A i \in 1..Len(Tail(s)) : Tail(s)[i] = s[i + 1]
    BY HeadTailProperties
<1>3. QED BY <1>1, <1>2

\* Where a value is set only when the last one has arrived (Calm), the last
\* writer wins whatever is lost, restarts or comes again (#453).
LEMMA RingStep == ASSUME Calm PROVE RingInv /\ [S!Next]_(S!vars) => RingInv'
<1> SUFFICES ASSUME Calm, RingInv, [S!Next]_(S!vars) PROVE RingInv'
    OBVIOUS
<1> USE DEF RingInv, RingType, RingFollows, S!led, S!firmware, S!on, S!Quiet, S!Push
<1>1. ASSUME NEW v \in Levels, S!SetBrightness(v) \/ S!ManualSet(v) PROVE RingInv'
    <2>1. /\ sets = <<>> /\ states = <<>> /\ adopting = 0 /\ wanted' = v /\ setTopic' = v
          /\ sets' = (IF power # "off" THEN <<v>> ELSE <<>>) /\ stored' \in {stored, v}
          /\ power = "off" => stored' = v
          /\ UNCHANGED <<shown, states, adopting, power>>
        <3>1. sets = <<>> /\ Append(<<>>, v) = <<v>>
            BY <1>1 DEF S!SetBrightness, S!ManualSet
        <3>2. CASE S!SetBrightness(v)
            BY <3>1, <3>2 DEF S!SetBrightness
        <3>3. CASE S!ManualSet(v)
            BY <3>1, <3>3 DEF S!ManualSet
        <3>4. QED BY <1>1, <3>2, <3>3
    <2>2. QED BY <2>1
<1>2. CASE S!Apply
    <2>1. /\ sets # <<>> /\ sets' = Tail(sets) /\ shown' = Head(sets) /\ states' = Append(states, Head(sets))
          /\ UNCHANGED <<stored, wanted, setTopic, adopting, power>>
        BY <1>2 DEF S!Apply
    <2>2. Head(sets) = wanted /\ sets' \in Seq(Levels) /\ \A i \in 1..Len(sets') : sets'[i] = wanted
        BY <2>1, LevelTaken
    <2>3. states' \in Seq(Levels) /\ states' # <<>> /\ \A i \in 1..Len(states') : states'[i] = wanted
        BY <2>1, <2>2, LevelAppended
    <2>4. QED BY <2>1, <2>2, <2>3
<1>3. CASE S!Adopt
    <2>1. /\ states # <<>> /\ states' = Tail(states) /\ stored' = Head(states) /\ adopting' \in {0, Head(states)}
          /\ UNCHANGED <<shown, wanted, sets, setTopic, power>>
        BY <1>3 DEF S!Adopt, S!Pushes
    <2>2. Head(states) = wanted /\ states' \in Seq(Levels) /\ \A i \in 1..Len(states') : states'[i] = wanted
        BY <2>1, LevelTaken
    <2>3. QED BY <2>1, <2>2
<1>4. CASE S!PushAdopted
    <2>1. /\ adopting = wanted /\ setTopic' = wanted /\ adopting' = 0
          /\ sets' = (IF power # "off" THEN Append(sets, wanted) ELSE sets)
          /\ UNCHANGED <<stored, shown, wanted, states, power>>
        BY <1>4 DEF S!PushAdopted
    <2>2. Append(sets, wanted) \in Seq(Levels) /\ Append(sets, wanted) # <<>>
          /\ \A i \in 1..Len(Append(sets, wanted)) : Append(sets, wanted)[i] = wanted
        BY LevelAppended
    <2>3. QED BY <2>1, <2>2
<1>5. CASE S!Registered
    <2>1. /\ power = "boot" /\ sets = <<>> /\ states = <<>> /\ adopting = 0 /\ power' = "on"
          /\ states' = Append(states, shown) /\ setTopic' = stored /\ sets' = Append(sets, stored)
          /\ UNCHANGED <<stored, shown, wanted, adopting>>
        BY <1>5 DEF S!Registered
    <2>2. shown = wanted /\ stored = wanted
        BY <2>1
    <2>3. QED BY <2>1, <2>2
<1>6. CASE S!Off
    BY <1>6 DEF S!Off
<1>7. ASSUME NEW v \in 1..Versions, S!Restart(v) PROVE RingInv'
    BY <1>7 DEF S!Restart
<1>8. CASE S!RestartCore
    <2>1. /\ sets = <<>> /\ states = <<>> /\ adopting = 0 /\ states' = <<>> /\ adopting' = 0
          /\ power' = (IF power # "off" THEN "boot" ELSE "off")
          /\ UNCHANGED <<stored, shown, wanted, sets, setTopic>>
        BY <1>8 DEF S!RestartCore, S!RetainedStates
    <2>2. QED BY <2>1
<1>9. CASE S!Firmware \/ S!RecordCount \/ S!OtaPending
    BY <1>9 DEF S!Firmware, S!RecordCount, S!OtaPending
<1>10. ASSUME NEW v \in 1..Versions, S!CheckForUpdate(v) PROVE RingInv'
    BY <1>10 DEF S!CheckForUpdate
<1>11. CASE UNCHANGED S!vars
    BY <1>11 DEF S!vars
<1>12. QED
    BY <1>1, <1>2, <1>3, <1>4, <1>5, <1>6, <1>7, <1>8, <1>9, <1>10, <1>11 DEF S!Next, S!Satellite, S!Core

-----------------------------------------------------------------------------
(* Restarts are logged once, and an installed update is announced no more.  *)

Message == [type : {"firmware", "pending"}, version : 1..Versions, count : Nat]

HistoryType ==
    /\ version \in 1..Versions /\ count \in S!Counts /\ reports \in Seq(Message)
    /\ row \in [firmware : Nat, next : 0..Versions, count : Nat]
    /\ log \in [S!Counts -> Nat] /\ logging \in S!Counts \cup {0} /\ crashes \in Nat
    /\ fwTopic = [type |-> "firmware", version |-> version, count |-> count]

\* The numbers of versions and restarts are bounded.
LEMMA HistoryBounds == Versions \in Nat /\ MaxRestarts \in Nat
BY RoomsAssumption

IsFirmware(i) == reports[i].type = "firmware"
Torn(c) == IF c \in torn THEN crashes ELSE 0

\* Reports arrive in the order of their restarts and none that is older than
\* what is recorded; only those after it may still be logged.
ReportsAscend ==
    /\ row.count <= count /\ (logging # 0 => row.count < logging) /\ logging <= count
    /\ \A i \in 1..Len(reports) : IsFirmware(i) =>
           reports[i].count \in 1..count /\ row.count <= reports[i].count /\ logging <= reports[i].count
    /\ \A i, j \in 1..Len(reports) : i < j /\ IsFirmware(i) /\ IsFirmware(j) => reports[i].count <= reports[j].count

LoggedOnce ==
    /\ \A c \in S!Counts : log[c] <= 1 + Torn(c)
    /\ \A c \in S!Counts : c > row.count /\ c # logging => log[c] <= Torn(c)

\* A pending update is reported alone, and the last report says what runs.
LastReportIsTrue ==
    /\ \A i \in 1..Len(reports) : ~IsFirmware(i) => i = 1
    /\ reports # <<>> /\ IsFirmware(Len(reports)) => reports[Len(reports)].version = version
    /\ reports # <<>> /\ ~IsFirmware(Len(reports)) => reports[Len(reports)].version > version
    /\ reports = <<>> => row.next = 0 \/ row.next # version

HistoryInv == HistoryType /\ ReportsAscend /\ LoggedOnce /\ LastReportIsTrue

\* What is left when the first report was handled.
LEMMA ReportTaken ==
    ASSUME NEW s \in Seq(Message), s # <<>>
    PROVE  /\ Len(s) \in Nat /\ Len(s) > 0 /\ Head(s) = s[1] /\ s[1] \in Message
           /\ Tail(s) \in Seq(Message) /\ Len(Tail(s)) = Len(s) - 1
           /\ \A i \in 1..Len(Tail(s)) : Tail(s)[i] = s[i + 1]
           /\ Tail(s) = <<>> <=> Len(s) = 1
<1>1. Len(s) \in Nat /\ Len(s) > 0 /\ Head(s) = s[1] /\ s[1] \in Message
    OBVIOUS
<1>2. /\ Tail(s) \in Seq(Message) /\ Len(Tail(s)) = Len(s) - 1
      /\ \A i \in 1..Len(Tail(s)) : Tail(s)[i] = s[i + 1]
    BY HeadTailProperties
<1>3. Tail(s) = <<>> <=> Len(Tail(s)) = 0
    BY <1>2, EmptySeq
<1>4. QED BY <1>1, <1>2, <1>3

\* The first report taken away, the others stay in order and the last is as
\* true as before.
LEMMA OthersStay ==
    ASSUME HistoryInv, reports # <<>>, reports' = Tail(reports), row'.count = row.count,
           logging' = 0 \/ (IsFirmware(1) /\ logging' = reports[1].count),
           UNCHANGED <<version, count>>
    PROVE  /\ reports' \in Seq(Message)
           /\ \A i \in 1..Len(reports') : IsFirmware(i)' =>
                  reports'[i].count \in 1..count' /\ row'.count <= reports'[i].count /\ logging' <= reports'[i].count
           /\ \A i, j \in 1..Len(reports') : i < j /\ IsFirmware(i)' /\ IsFirmware(j)' =>
                  reports'[i].count <= reports'[j].count
           /\ \A i \in 1..Len(reports') : IsFirmware(i)'
           /\ reports' # <<>> => /\ IsFirmware(Len(reports))'
                                 /\ reports'[Len(reports')].version = version'
<1>1. reports \in Seq(Message)
    BY DEF HistoryInv, HistoryType
<1> DEFINE k == Len(reports)
           q == Tail(reports)
<1>2. /\ k \in Nat /\ k > 0 /\ reports[1] \in Message
      /\ q \in Seq(Message) /\ Len(q) = k - 1
      /\ \A i \in 1..Len(q) : q[i] = reports[i + 1]
      /\ q = <<>> <=> k = 1
    BY <1>1, ReportTaken
<1>3. reports' = q
    OBVIOUS
<1> HIDE DEF q
<1>4. \A i \in 1..(k - 1) : q[i] = reports[i + 1] /\ i + 1 \in 1..k /\ i + 1 # 1
    BY <1>2
<1>5. \A i \in 1..(k - 1) : IsFirmware(i + 1)
    BY <1>2, <1>4 DEF HistoryInv, LastReportIsTrue
<1>6. \A i \in 1..(k - 1) : q[i].type = "firmware"
    BY <1>4, <1>5 DEF IsFirmware
<1>7. \A i \in 1..(k - 1) : q[i].count \in 1..count /\ row.count <= q[i].count
    BY <1>4, <1>5 DEF HistoryInv, ReportsAscend
<1>8. \A i \in 1..(k - 1) : logging' <= q[i].count
    <2>1. CASE logging' = 0
        BY <1>7, <2>1
    <2>2. CASE IsFirmware(1) /\ logging' = reports[1].count
        BY <1>2, <1>4, <1>5, <2>2 DEF HistoryInv, ReportsAscend
    <2>3. QED BY <2>1, <2>2
<1>9. \A i, j \in 1..(k - 1) : i < j => q[i].count <= q[j].count
    <2> SUFFICES ASSUME NEW i \in 1..(k - 1), NEW j \in 1..(k - 1), i < j PROVE q[i].count <= q[j].count
        OBVIOUS
    <2>1. i + 1 < j + 1 /\ i + 1 \in 1..k /\ j + 1 \in 1..k /\ IsFirmware(i + 1) /\ IsFirmware(j + 1)
        BY <1>2, <1>5
    <2>2. reports[i + 1].count <= reports[j + 1].count
        BY <2>1 DEF HistoryInv, ReportsAscend
    <2>3. QED BY <1>4, <2>2
<1>10. ASSUME q # <<>> PROVE q[k - 1].type = "firmware" /\ q[k - 1].version = version
    <2>1. k - 1 \in 1..(k - 1) /\ (k - 1) + 1 = k
        BY <1>2, <1>10
    <2>2. q[k - 1] = reports[k] /\ IsFirmware(k)
        BY <1>4, <1>5, <2>1
    <2>3. QED BY <1>6, <2>1, <2>2 DEF HistoryInv, LastReportIsTrue
<1>12. reports' \in Seq(Message) /\ Len(reports') = k - 1
    BY <1>2, <1>3
<1>13. \A i \in 1..Len(reports') : IsFirmware(i)'
    BY <1>3, <1>6, <1>12 DEF IsFirmware
<1>14. \A i \in 1..Len(reports') :
          reports'[i].count \in 1..count' /\ row'.count <= reports'[i].count /\ logging' <= reports'[i].count
    BY <1>3, <1>7, <1>8, <1>12
<1>15. \A i, j \in 1..Len(reports') : i < j => reports'[i].count <= reports'[j].count
    BY <1>3, <1>9, <1>12
<1>16. reports' # <<>> => IsFirmware(Len(reports))' /\ reports'[Len(reports')].version = version'
    BY <1>3, <1>10, <1>12 DEF IsFirmware
<1>17. QED
    BY <1>12, <1>13, <1>14, <1>15, <1>16

\* What a report in the queue may be.
LEMMA ReportRead ==
    ASSUME HistoryInv, reports # <<>>
    PROVE  /\ reports \in Seq(Message) /\ Head(reports) = reports[1] /\ 1 \in 1..Len(reports)
           /\ reports[1].type \in {"firmware", "pending"} /\ reports[1].version \in 1..Versions
           /\ reports[1].count \in Nat
           /\ (Tail(reports) = <<>> <=> Len(reports) = 1)
<1>1. reports \in Seq(Message)
    BY DEF HistoryInv, HistoryType
<1>2. reports[1] \in Message /\ Head(reports) = reports[1] /\ Len(reports) \in Nat /\ Len(reports) > 0
      /\ (Tail(reports) = <<>> <=> Len(reports) = 1)
    BY <1>1, ReportTaken
<1>3. QED BY <1>1, <1>2 DEF Message

\* The handler of a firmware report: a count that is not the recorded one is
\* later than it, so that no row of it was written but by a torn handler.
LEMMA FirmwareStep == HistoryInv /\ S!Firmware => HistoryInv'
<1> SUFFICES ASSUME HistoryInv, S!Firmware PROVE HistoryInv'
    OBVIOUS
<1> DEFINE c == Head(reports).count
           v == Head(reports).version
<1>1. /\ reports # <<>> /\ Head(reports).type = "firmware" /\ logging = 0 /\ reports' = Tail(reports)
      /\ row' = S!Installed(row, v)
      /\ IF row.count # c THEN log' = [log EXCEPT ![c] = @ + 1] /\ logging' = c ELSE UNCHANGED <<log, logging>>
      /\ UNCHANGED <<version, fwTopic, count, crashes, torn>>
    BY DEF S!Firmware, S!IsNew
<1>2. /\ Head(reports) = reports[1] /\ 1 \in 1..Len(reports) /\ v \in 1..Versions
      /\ (Tail(reports) = <<>> <=> Len(reports) = 1) /\ IsFirmware(1)
    BY <1>1, ReportRead DEF IsFirmware
<1>3. c \in 1..count /\ row.count <= c
    BY <1>2 DEF HistoryInv, ReportsAscend
<1>4. /\ row \in [firmware : Nat, next : 0..Versions, count : Nat] /\ log \in [S!Counts -> Nat]
      /\ count \in S!Counts /\ crashes \in Nat /\ Versions \in Nat /\ MaxRestarts \in Nat
      /\ version \in 1..Versions /\ fwTopic = [type |-> "firmware", version |-> version, count |-> count]
    BY HistoryBounds DEF HistoryInv, HistoryType
<1>5. c \in S!Counts /\ c > 0
    BY <1>3, <1>4 DEF S!Counts
<1>6. /\ row' \in [firmware : Nat, next : 0..Versions, count : Nat] /\ row'.count = row.count
      /\ row'.next = (IF row.next = v THEN 0 ELSE row.next)
    <2>1. v \in Nat /\ (IF row.next = v THEN 0 ELSE row.next) \in 0..Versions
        BY <1>2, <1>4
    <2>2. row' = [row EXCEPT !.firmware = v, !.next = IF row.next = v THEN 0 ELSE row.next]
        BY <1>1, <1>4 DEF S!Installed
    <2> HIDE DEF v
    <2>3. QED BY <1>4, <2>1, <2>2
<1>7. logging' = 0 \/ (IsFirmware(1) /\ logging' = reports[1].count)
    BY <1>1, <1>2
<1>8. /\ reports' \in Seq(Message)
      /\ \A i \in 1..Len(reports') : IsFirmware(i)' =>
             reports'[i].count \in 1..count' /\ row'.count <= reports'[i].count /\ logging' <= reports'[i].count
      /\ \A i, j \in 1..Len(reports') : i < j /\ IsFirmware(i)' /\ IsFirmware(j)' =>
             reports'[i].count <= reports'[j].count
      /\ \A i \in 1..Len(reports') : IsFirmware(i)'
      /\ reports' # <<>> => /\ IsFirmware(Len(reports))'
                            /\ reports'[Len(reports')].version = version'
    BY <1>1, <1>6, <1>7, OthersStay
<1>9. log' \in [S!Counts -> Nat] /\ logging' \in S!Counts \cup {0}
    BY <1>1, <1>4, <1>5
<1>10. HistoryType'
    BY <1>1, <1>4, <1>6, <1>8, <1>9 DEF HistoryType, S!Counts
<1>11. row'.count <= count' /\ (logging' # 0 => row'.count < logging') /\ logging' <= count'
    <2>1. row.count <= count /\ row.count \in Nat /\ count \in Nat
        BY <1>4 DEF HistoryInv, ReportsAscend, S!Counts
    <2>2. CASE row.count # c
        BY <1>1, <1>3, <1>6, <2>1, <2>2
    <2>3. CASE row.count = c
        BY <1>1, <1>6, <2>1, <2>3
    <2>4. QED BY <2>2, <2>3
<1>12. ReportsAscend'
    BY <1>8, <1>11 DEF ReportsAscend
<1>13. \A d \in S!Counts : log[d] \in Nat /\ Torn(d) \in Nat /\ Torn(d)' = Torn(d)
    BY <1>1, <1>4 DEF Torn
<1>14. LoggedOnce'
    <2>1. /\ \A d \in S!Counts : log[d] <= 1 + Torn(d)
          /\ \A d \in S!Counts : d > row.count => log[d] <= Torn(d)
        BY <1>1, <1>5 DEF HistoryInv, LoggedOnce, S!Counts
    <2>2. CASE row.count # c
        <3>1. logging' = c /\ c > row.count /\ \A d \in S!Counts : log'[d] = IF d = c THEN log[d] + 1 ELSE log[d]
            BY <1>1, <1>3, <1>4, <2>2
        <3>2. \A d \in S!Counts : log'[d] <= 1 + Torn(d)
            BY <1>5, <1>13, <2>1, <3>1
        <3>3. \A d \in S!Counts : d > row.count /\ d # logging' => log'[d] <= Torn(d)
            BY <2>1, <3>1
        <3>4. QED BY <1>6, <1>13, <3>2, <3>3 DEF LoggedOnce
    <2>3. CASE row.count = c
        <3>1. log' = log /\ logging' = 0
            BY <1>1, <2>3
        <3>2. QED BY <1>6, <1>13, <2>1, <3>1 DEF LoggedOnce
    <2>4. QED BY <2>2, <2>3
<1>15. reports' = <<>> => row'.next = 0 \/ row'.next # version'
    <2> SUFFICES ASSUME reports' = <<>> PROVE row'.next = 0 \/ row'.next # version'
        OBVIOUS
    <2>1. Len(reports) = 1
        BY <1>1, <1>2
    <2>2. v = version
        BY <1>1, <1>2, <2>1 DEF HistoryInv, LastReportIsTrue
    <2>3. QED BY <1>1, <1>4, <1>6, <2>2
<1>16. LastReportIsTrue'
    <2>1. (\A i \in 1..Len(reports) : ~IsFirmware(i) => i = 1)'
        BY <1>8
    <2>2. (reports # <<>> /\ IsFirmware(Len(reports)) => reports[Len(reports)].version = version)'
        BY <1>8
    <2>3. (reports # <<>> /\ ~IsFirmware(Len(reports)) => reports[Len(reports)].version > version)'
        BY <1>8
    <2>4. QED BY <1>15, <2>1, <2>2, <2>3 DEF LastReportIsTrue
<1>17. QED BY <1>10, <1>12, <1>14, <1>16 DEF HistoryInv

\* The second write of that handler.
LEMMA RecordStep == HistoryInv /\ S!RecordCount => HistoryInv'
<1> SUFFICES ASSUME HistoryInv, S!RecordCount PROVE HistoryInv'
    OBVIOUS
<1>1. /\ logging # 0 /\ row' = [row EXCEPT !.count = logging] /\ logging' = 0
      /\ UNCHANGED <<version, fwTopic, reports, log, count, crashes, torn>>
    BY DEF S!RecordCount
<1>2. row \in [firmware : Nat, next : 0..Versions, count : Nat] /\ logging \in Nat /\ MaxRestarts \in Nat
    BY HistoryBounds DEF HistoryInv, HistoryType, S!Counts
<1>3. /\ row' \in [firmware : Nat, next : 0..Versions, count : Nat]
      /\ row'.count = logging /\ row'.next = row.next
    BY <1>1, <1>2
<1>4. HistoryType'
    BY <1>1, <1>3 DEF HistoryInv, HistoryType, S!Counts
<1>5. \A i : IsFirmware(i)' <=> IsFirmware(i)
    BY <1>1 DEF IsFirmware
<1>6. ReportsAscend'
    <2>1. row'.count <= count' /\ (logging' # 0 => row'.count < logging') /\ logging' <= count'
        BY <1>1, <1>3 DEF HistoryInv, ReportsAscend, HistoryType, S!Counts
    <2>2. \A i \in 1..Len(reports') : IsFirmware(i)' =>
             reports'[i].count \in 1..count' /\ row'.count <= reports'[i].count /\ logging' <= reports'[i].count
        BY <1>1, <1>2, <1>3, <1>5 DEF HistoryInv, ReportsAscend
    <2>3. \A i, j \in 1..Len(reports') : i < j /\ IsFirmware(i)' /\ IsFirmware(j)' =>
             reports'[i].count <= reports'[j].count
        BY <1>1, <1>5 DEF HistoryInv, ReportsAscend
    <2>4. QED BY <2>1, <2>2, <2>3 DEF ReportsAscend
<1>7. LoggedOnce'
    <2>1. row.count < logging /\ row.count \in Nat
        BY <1>1, <1>2 DEF HistoryInv, ReportsAscend
    <2>2. \A d \in S!Counts : Torn(d)' = Torn(d) /\ d \in Nat /\ (d > logging => d > row.count /\ d # logging)
        BY <1>1, <1>2, <2>1 DEF Torn, S!Counts
    <2>3. QED BY <1>1, <1>3, <2>2 DEF HistoryInv, LoggedOnce
<1>8. LastReportIsTrue'
    BY <1>1, <1>3, <1>5 DEF HistoryInv, LastReportIsTrue
<1>9. QED BY <1>4, <1>6, <1>7, <1>8 DEF HistoryInv

\* A pending update that is noted is not the one that runs.
LEMMA PendingStep == HistoryInv /\ S!OtaPending => HistoryInv'
<1> SUFFICES ASSUME HistoryInv, S!OtaPending PROVE HistoryInv'
    OBVIOUS
<1> DEFINE v == Head(reports).version
<1>1. /\ reports # <<>> /\ Head(reports).type = "pending" /\ logging = 0 /\ reports' = Tail(reports)
      /\ row' = [row EXCEPT !.next = v]
      /\ UNCHANGED <<version, fwTopic, log, logging, count, crashes, torn>>
    BY DEF S!OtaPending
<1>2. /\ Head(reports) = reports[1] /\ 1 \in 1..Len(reports) /\ v \in 1..Versions
      /\ (Tail(reports) = <<>> <=> Len(reports) = 1) /\ ~IsFirmware(1)
    BY <1>1, ReportRead DEF IsFirmware
<1>3. /\ row \in [firmware : Nat, next : 0..Versions, count : Nat] /\ Versions \in Nat
      /\ version \in 1..Versions
    BY HistoryBounds DEF HistoryInv, HistoryType
<1>4. /\ row' \in [firmware : Nat, next : 0..Versions, count : Nat] /\ row'.count = row.count
      /\ row'.next = v
    BY <1>1, <1>2, <1>3
<1>5. /\ reports' \in Seq(Message)
      /\ \A i \in 1..Len(reports') : IsFirmware(i)' =>
             reports'[i].count \in 1..count' /\ row'.count <= reports'[i].count /\ logging' <= reports'[i].count
      /\ \A i, j \in 1..Len(reports') : i < j /\ IsFirmware(i)' /\ IsFirmware(j)' =>
             reports'[i].count <= reports'[j].count
      /\ \A i \in 1..Len(reports') : IsFirmware(i)'
      /\ reports' # <<>> => /\ IsFirmware(Len(reports))'
                            /\ reports'[Len(reports')].version = version'
    BY <1>1, <1>4, OthersStay
<1>6. HistoryType'
    BY <1>1, <1>4, <1>5 DEF HistoryInv, HistoryType, S!Counts
<1>7. row'.count <= count' /\ (logging' # 0 => row'.count < logging') /\ logging' <= count'
    BY <1>1, <1>4 DEF HistoryInv, ReportsAscend
<1>8. ReportsAscend'
    BY <1>5, <1>7 DEF ReportsAscend
<1>9. LoggedOnce'
    BY <1>1, <1>4 DEF HistoryInv, LoggedOnce, Torn
<1>10. reports' = <<>> => row'.next = 0 \/ row'.next # version'
    <2> SUFFICES ASSUME reports' = <<>> PROVE row'.next # version'
        OBVIOUS
    <2>1. Len(reports) = 1
        BY <1>1, <1>2
    <2>2. v > version
        BY <1>1, <1>2, <2>1 DEF HistoryInv, LastReportIsTrue
    <2>3. QED BY <1>1, <1>2, <1>3, <1>4, <2>2
<1>11. LastReportIsTrue'
    <2>1. (\A i \in 1..Len(reports) : ~IsFirmware(i) => i = 1)'
        BY <1>5
    <2>2. (reports # <<>> /\ IsFirmware(Len(reports)) => reports[Len(reports)].version = version)'
        BY <1>5
    <2>3. (reports # <<>> /\ ~IsFirmware(Len(reports)) => reports[Len(reports)].version > version)'
        BY <1>5
    <2>4. QED BY <1>10, <2>1, <2>2, <2>3 DEF LastReportIsTrue
<1>12. QED BY <1>6, <1>8, <1>9, <1>11 DEF HistoryInv

\* An update is asked for when nothing is on its way.
LEMMA CheckStep == ASSUME NEW v \in 1..Versions PROVE HistoryInv /\ S!CheckForUpdate(v) => HistoryInv'
<1> SUFFICES ASSUME HistoryInv, S!CheckForUpdate(v) PROVE HistoryInv'
    OBVIOUS
<1> DEFINE r == [type |-> "pending", version |-> v, count |-> 0]
<1>1. /\ v \in (version + 1)..Versions /\ reports' = <<r>>
      /\ UNCHANGED <<version, fwTopic, row, log, logging, count, crashes, torn>>
    BY DEF S!CheckForUpdate
<1>2. r \in Message
    BY DEF Message
<1>3. /\ reports' \in Seq(Message) /\ Len(reports') = 1 /\ reports'[1] = r /\ reports' # <<>>
    BY <1>1, <1>2
<1>4. /\ \A i \in 1..Len(reports') : i = 1 /\ ~IsFirmware(i)'
      /\ ~IsFirmware(Len(reports))' /\ reports'[Len(reports')].version = v
    BY <1>3 DEF IsFirmware
<1>5. v > version' /\ version \in 1..Versions
    BY <1>1, HistoryBounds DEF HistoryInv, HistoryType
<1>6. HistoryType'
    BY <1>1, <1>3 DEF HistoryInv, HistoryType, S!Counts
<1>7. ReportsAscend'
    <2>1. row'.count <= count' /\ (logging' # 0 => row'.count < logging') /\ logging' <= count'
        BY <1>1 DEF HistoryInv, ReportsAscend
    <2>2. QED BY <1>4, <2>1 DEF ReportsAscend
<1>8. LoggedOnce'
    BY <1>1 DEF HistoryInv, LoggedOnce, Torn
<1>9. LastReportIsTrue'
    <2>1. (\A i \in 1..Len(reports) : ~IsFirmware(i) => i = 1)'
        BY <1>4
    <2>2. (reports # <<>> /\ IsFirmware(Len(reports)) => reports[Len(reports)].version = version)'
        BY <1>4
    <2>3. (reports # <<>> /\ ~IsFirmware(Len(reports)) => reports[Len(reports)].version > version)'
        BY <1>4, <1>5
    <2>4. QED BY <1>3, <2>1, <2>2, <2>3 DEF LastReportIsTrue
<1>10. QED BY <1>6, <1>7, <1>8, <1>9 DEF HistoryInv

\* A restart adds a report that is newer than all others.
LEMMA RestartStep == ASSUME NEW v \in 1..Versions PROVE HistoryInv /\ S!Restart(v) => HistoryInv'
<1> SUFFICES ASSUME HistoryInv, S!Restart(v) PROVE HistoryInv'
    OBVIOUS
<1> DEFINE r == [type |-> "firmware", version |-> v, count |-> count + 1]
           k == Len(reports)
<1>1. /\ count < MaxRestarts /\ count' = count + 1 /\ version' = v /\ fwTopic' = r
      /\ reports' = Append(reports, r)
      /\ UNCHANGED <<row, log, logging, crashes, torn>>
    BY DEF S!Restart
<1>2. /\ count \in 1..MaxRestarts /\ MaxRestarts \in Nat /\ reports \in Seq(Message)
      /\ row \in [firmware : Nat, next : 0..Versions, count : Nat] /\ logging \in 0..MaxRestarts
    BY HistoryBounds DEF HistoryInv, HistoryType, S!Counts
<1>3. r \in Message /\ count + 1 \in 1..MaxRestarts
    BY <1>1, <1>2 DEF Message
<1>4. /\ reports' \in Seq(Message) /\ reports' # <<>> /\ Len(reports') = k + 1 /\ k \in Nat
      /\ \A i \in 1..k : reports'[i] = reports[i]
      /\ reports'[k + 1] = r
    <2>1. k \in Nat
        BY <1>2
    <2> HIDE DEF r
    <2>2. QED BY <1>1, <1>2, <1>3, <2>1, AppendProperties
<1>5. \A i \in 1..(k + 1) : (i \in 1..k /\ (IsFirmware(i)' <=> IsFirmware(i))) \/ (i = k + 1 /\ IsFirmware(i)')
    BY <1>4 DEF IsFirmware
<1>6. row.count <= count /\ logging <= count /\ row.count \in Nat
      /\ (logging # 0 => row.count < logging)
    BY <1>2 DEF HistoryInv, ReportsAscend
<1>7. HistoryType'
    BY <1>1, <1>3, <1>4 DEF HistoryInv, HistoryType, S!Counts
<1>8. \A i \in 1..k : IsFirmware(i) =>
          reports[i].count \in 1..count /\ row.count <= reports[i].count /\ logging <= reports[i].count
    BY DEF HistoryInv, ReportsAscend
<1>9. \A i \in 1..(k + 1) : IsFirmware(i)' =>
          reports'[i].count \in 1..count' /\ row'.count <= reports'[i].count /\ logging' <= reports'[i].count
    <2> SUFFICES ASSUME NEW i \in 1..(k + 1), IsFirmware(i)'
                 PROVE  reports'[i].count \in 1..count' /\ row'.count <= reports'[i].count
                        /\ logging' <= reports'[i].count
        OBVIOUS
    <2>1. CASE i \in 1..k
        <3>1. IsFirmware(i) /\ reports'[i] = reports[i]
            BY <1>4, <1>5, <2>1
        <3>2. QED BY <1>1, <1>2, <1>8, <2>1, <3>1
    <2>2. CASE i = k + 1
        BY <1>1, <1>2, <1>4, <1>6, <2>2
    <2>3. QED BY <1>5, <2>1, <2>2
<1>10. \A i, j \in 1..(k + 1) : i < j /\ IsFirmware(i)' /\ IsFirmware(j)' => reports'[i].count <= reports'[j].count
    <2> SUFFICES ASSUME NEW i \in 1..(k + 1), NEW j \in 1..(k + 1), i < j, IsFirmware(i)', IsFirmware(j)'
                 PROVE  reports'[i].count <= reports'[j].count
        OBVIOUS
    <2>1. i \in 1..k /\ IsFirmware(i) /\ reports'[i] = reports[i]
        BY <1>4, <1>5
    <2>2. CASE j \in 1..k
        <3>1. IsFirmware(j) /\ reports'[j] = reports[j]
            BY <1>4, <1>5, <2>2
        <3>2. QED BY <2>1, <2>2, <3>1 DEF HistoryInv, ReportsAscend
    <2>3. CASE j = k + 1
        BY <1>2, <1>4, <1>8, <2>1, <2>3
    <2>4. QED BY <1>5, <2>2, <2>3
<1>11. ReportsAscend'
    BY <1>1, <1>2, <1>4, <1>6, <1>9, <1>10 DEF ReportsAscend
<1>12. LoggedOnce'
    BY <1>1 DEF HistoryInv, LoggedOnce, Torn
<1>13. LastReportIsTrue'
    <2>1. (\A i \in 1..Len(reports) : ~IsFirmware(i) => i = 1)'
        BY <1>4, <1>5 DEF HistoryInv, LastReportIsTrue
    <2>2. IsFirmware(Len(reports))' /\ reports'[Len(reports')].version = version'
        BY <1>1, <1>4 DEF IsFirmware
    <2>3. QED BY <1>4, <2>1, <2>2 DEF LastReportIsTrue
<1>14. QED BY <1>7, <1>11, <1>12, <1>13 DEF HistoryInv

\* A Core that starts again hears the retained report; a row it wrote without
\* the count is written again.
LEMMA CrashStep == HistoryInv /\ S!RestartCore => HistoryInv'
<1> SUFFICES ASSUME HistoryInv, S!RestartCore PROVE HistoryInv'
    OBVIOUS
<1>1. /\ crashes' = crashes + 1 /\ reports' = <<fwTopic>> /\ logging' = 0
      /\ torn' = (IF logging # 0 THEN torn \cup {logging} ELSE torn)
      /\ UNCHANGED <<version, fwTopic, row, log, count>>
    BY DEF S!RestartCore
<1>2. /\ count \in 1..MaxRestarts /\ MaxRestarts \in Nat /\ Versions \in Nat /\ crashes \in Nat
      /\ row \in [firmware : Nat, next : 0..Versions, count : Nat] /\ version \in 1..Versions
      /\ fwTopic = [type |-> "firmware", version |-> version, count |-> count]
      /\ log \in [S!Counts -> Nat]
    BY HistoryBounds DEF HistoryInv, HistoryType, S!Counts
<1>3. fwTopic \in Message
    BY <1>2 DEF Message
<1>4. reports' \in Seq(Message) /\ Len(reports') = 1 /\ reports'[1] = fwTopic /\ reports' # <<>>
    BY <1>1, <1>3
<1>5. /\ \A i \in 1..Len(reports') : i = 1 /\ reports'[i].count = count
      /\ IsFirmware(Len(reports))' /\ reports'[Len(reports')].version = version'
    BY <1>1, <1>2, <1>4 DEF IsFirmware
<1>6. row.count <= count /\ row.count \in Nat
    BY <1>2 DEF HistoryInv, ReportsAscend
<1>7. HistoryType'
    BY <1>1, <1>2, <1>4 DEF HistoryInv, HistoryType
<1>8. ReportsAscend'
    BY <1>1, <1>2, <1>5, <1>6 DEF ReportsAscend
<1>9. LoggedOnce'
    <2>1. \A d \in S!Counts : log[d] \in Nat /\ Torn(d) \in Nat /\ Torn(d) <= Torn(d)'
        BY <1>1, <1>2 DEF Torn
    <2>2. \A d \in S!Counts : d = logging => Torn(d)' >= 1 + Torn(d)
        BY <1>1, <1>2 DEF Torn, S!Counts
    <2>3. \A d \in S!Counts : Torn(d)' \in Nat
        BY <1>1, <1>2 DEF Torn
    <2>4. \A d \in S!Counts : log[d] <= 1 + Torn(d)'
        BY <2>1, <2>3 DEF HistoryInv, LoggedOnce
    <2>5. \A d \in S!Counts : d > row.count => log[d] <= Torn(d)'
        <3> SUFFICES ASSUME NEW d \in S!Counts, d > row.count PROVE log[d] <= Torn(d)'
            OBVIOUS
        <3>1. CASE d = logging
            BY <2>1, <2>2, <2>3, <3>1 DEF HistoryInv, LoggedOnce
        <3>2. CASE d # logging
            BY <2>1, <2>3, <3>2 DEF HistoryInv, LoggedOnce
        <3>3. QED BY <3>1, <3>2
    <2>6. QED BY <1>1, <2>4, <2>5 DEF LoggedOnce
<1>10. LastReportIsTrue'
    BY <1>4, <1>5 DEF LastReportIsTrue
<1>11. QED BY <1>7, <1>8, <1>9, <1>10 DEF HistoryInv

\* The ring, and a satellite that goes off, leave the history alone.
LEMMA HistoryStays ==
    ASSUME HistoryInv, UNCHANGED <<version, count, fwTopic, reports, row, log, logging, crashes, torn>>
    PROVE  HistoryInv'
<1>1. HistoryType'
    BY DEF HistoryInv, HistoryType, S!Counts
<1>2. ReportsAscend'
    BY DEF HistoryInv, ReportsAscend, IsFirmware
<1>3. LoggedOnce'
    BY DEF HistoryInv, LoggedOnce, Torn
<1>4. LastReportIsTrue'
    BY DEF HistoryInv, LastReportIsTrue, IsFirmware
<1>5. QED BY <1>1, <1>2, <1>3, <1>4 DEF HistoryInv

\* So whatever is lost, torn or comes again.
LEMMA HistoryStep == HistoryInv /\ [S!Next]_(S!vars) => HistoryInv'
<1> SUFFICES ASSUME HistoryInv, [S!Next]_(S!vars) PROVE HistoryInv'
    OBVIOUS
<1>1. CASE S!Firmware
    BY <1>1, FirmwareStep
<1>2. CASE S!RecordCount
    BY <1>2, RecordStep
<1>3. CASE S!OtaPending
    BY <1>3, PendingStep
<1>4. ASSUME NEW v \in 1..Versions, S!CheckForUpdate(v) PROVE HistoryInv'
    BY <1>4, CheckStep
<1>5. ASSUME NEW v \in 1..Versions, S!Restart(v) PROVE HistoryInv'
    BY <1>5, RestartStep
<1>6. CASE S!RestartCore
    BY <1>6, CrashStep
<1>7. CASE S!Apply \/ S!Adopt \/ S!PushAdopted \/ S!Registered \/ S!Off
    BY <1>7, HistoryStays DEF S!Apply, S!Adopt, S!PushAdopted, S!Registered, S!Off, S!firmware
<1>8. ASSUME NEW v \in Levels, S!SetBrightness(v) \/ S!ManualSet(v) PROVE HistoryInv'
    BY <1>8, HistoryStays DEF S!SetBrightness, S!ManualSet, S!firmware
<1>9. CASE UNCHANGED S!vars
    BY <1>9, HistoryStays DEF S!vars, S!firmware
<1>10. QED
    BY <1>1, <1>2, <1>3, <1>4, <1>5, <1>6, <1>7, <1>8, <1>9 DEF S!Next, S!Satellite, S!Core

\* At first one report is on its way and nothing is recorded.
LEMMA HistoryInit == Init => HistoryInv
<1> SUFFICES ASSUME Init PROVE HistoryInv
    OBVIOUS
<1>1. /\ version = 1 /\ count = 1 /\ fwTopic = [type |-> "firmware", version |-> 1, count |-> 1]
      /\ reports = <<fwTopic>> /\ row = [firmware |-> 0, next |-> 0, count |-> 0]
      /\ log = [c \in S!Counts |-> 0] /\ logging = 0 /\ crashes = 0 /\ torn = {}
    BY DEF Init, S!Init
<1>2. 1 \in 1..Versions /\ 1 \in S!Counts /\ Versions \in Nat
    BY RoomsAssumption DEF S!Counts
<1>3. fwTopic \in Message
    BY <1>1, <1>2 DEF Message
<1>4. reports \in Seq(Message) /\ Len(reports) = 1 /\ reports[1] = fwTopic
    BY <1>1, <1>3
<1>5. HistoryType
    BY <1>1, <1>2, <1>4 DEF HistoryType
<1>6. ReportsAscend
    BY <1>1, <1>4 DEF ReportsAscend
<1>7. LoggedOnce
    BY <1>1 DEF LoggedOnce, Torn
<1>8. LastReportIsTrue
    BY <1>1, <1>4 DEF LastReportIsTrue, IsFirmware
<1>9. QED BY <1>5, <1>6, <1>7, <1>8 DEF HistoryInv

\* A restart is one row of the history however often its retained report
\* arrives, but for a Core that ends between the two writes; and no installed
\* update is announced: for every number of restarts, versions and crashes.
THEOREM HistoryIsTrueAlways == Spec => [](S!RestartLoggedOnce /\ S!NoticeIsCurrent)
<1>1. HistoryInv /\ [Next]_vars => HistoryInv'
    BY HistoryStep, ReportStep
<1>2. HistoryInv => S!RestartLoggedOnce /\ S!NoticeIsCurrent
    BY DEF HistoryInv, LoggedOnce, LastReportIsTrue, Torn, S!RestartLoggedOnce, S!NoticeIsCurrent
<1>3. QED
    BY HistoryInit, <1>1, <1>2, PTL DEF Spec

\* Where the ring is set only when the last value has arrived, it shows what
\* somebody set last, too.
THEOREM ReportsAreTrueAlways == ASSUME Calm PROVE Spec => []ReportsAreTrue
<1>1. Init => RingInv
    <2> SUFFICES ASSUME Init PROVE RingInv
        OBVIOUS
    <2>1. /\ stored \in Levels /\ shown = stored /\ wanted = stored /\ setTopic = stored
          /\ sets = <<>> /\ states = <<>> /\ power = "on" /\ adopting = 0
        BY RoomsAssumption DEF Init, S!Init
    <2>2. QED BY <2>1 DEF RingInv, RingType, RingFollows
<1>2. RingInv /\ [Next]_vars => RingInv'
    BY RingStep, ReportStep
<1>3. RingInv => S!LastWriterWins
    BY DEF RingInv, RingType, RingFollows, S!LastWriterWins, S!Quiet
<1>4. S!LastWriterWins /\ S!RestartLoggedOnce /\ S!NoticeIsCurrent => ReportsAreTrue
    BY DEF ReportsAreTrue, S!ReportsAreTrue
<1>5. QED
    BY <1>1, <1>2, <1>3, <1>4, HistoryIsTrueAlways, PTL DEF Spec
=============================================================================
