--------------------------- MODULE ServicesProofs ---------------------------
(***************************************************************************)
(* What the run of MCServices checks on a few collectors, rows, services   *)
(* and adapters is proved here for every number of them: the captures, the *)
(* migrations, and what whoever connects is told.                          *)
(***************************************************************************)
EXTENDS MCServices, Sequences, SequenceTheorems, TLAPS

\* A step of the run is a step of the migrations or none.
LEMMA MigrationStep == [Next]_vars => [M!Next]_(M!vars)
BY DEF Next, vars, Updating, Migrating, Capturing, Switching, Serving, migration,
       M!vars, M!schema, M!data

\* A step of the run is a step of the capture or none.
LEMMA CaptureStep == [Next]_vars => [C!Next]_(C!vars)
BY DEF Next, vars, Updating, Migrating, Capturing, Switching, Serving, capture,
       C!vars, C!claims, C!modes, C!links, C!others

\* A step of the run is a step of the automations or none.
LEMMA FeedStep == [Next]_vars => [F!Next]_(F!vars)
BY DEF Next, vars, Updating, Migrating, Capturing, Switching, Serving, automation, F!vars, F!table, F!feed

\* A step of the run is a step of the adapters' streams or none.
LEMMA AgentsStep == [Next]_vars => [A!Next]_(A!vars)
BY DEF Next, vars, Updating, Migrating, Capturing, Switching, Serving, agents,
       A!vars, A!tables, A!adapters, A!house, A!loading, A!timers

-----------------------------------------------------------------------------
(* What ends late ends only what was its own.                               *)

CaptureInv ==
    /\ captured = rightful
    /\ dialled \in [Collectors -> {"off", "on", "closing"}]
    /\ \A c \in Collectors : dialled[c] = "on" => line = c

\* A claim is taken back by its own release or its own stream's end, the line
\* by the call that holds it.
LEMMA CaptureInvStep == CaptureInv /\ [C!Next]_(C!vars) => CaptureInv'
<1> SUFFICES ASSUME CaptureInv, [C!Next]_(C!vars) PROVE CaptureInv'
    OBVIOUS
<1> USE DEF CaptureInv, C!claims, C!modes, C!links, C!others
<1>1. ASSUME NEW c \in Collectors, C!Handle(c) PROVE CaptureInv'
    BY <1>1 DEF C!Handle, C!Claim, C!Release, C!SetModes, C!OpenStream
<1>2. ASSUME NEW c \in Collectors, C!Connect(c) PROVE CaptureInv'
    BY <1>2 DEF C!Connect
<1>3. ASSUME NEW c \in Collectors, C!HangUp(c) PROVE CaptureInv'
    BY <1>3 DEF C!HangUp
<1>4. ASSUME NEW c \in Collectors, C!Closed(c) PROVE CaptureInv'
    BY <1>4 DEF C!Closed, C!LineAfter
<1>5. ASSUME NEW c \in Collectors, C!Obey(c) PROVE CaptureInv'
    BY <1>5 DEF C!Obey
<1>6. ASSUME NEW q \in C!Queues, C!EndStream(q) PROVE CaptureInv'
    BY <1>6 DEF C!EndStream, C!Ends
<1>7. CASE C!Start \/ C!MutePressed \/ (\E b \in BOOLEAN : C!UserDnd(b))
    BY <1>7 DEF C!Start, C!MutePressed, C!Order, C!UserDnd
<1>8. ASSUME NEW s \in Speakers, C!Feedback(s) \/ C!AlarmSpeech(s) \/ C!Spoken(s) PROVE CaptureInv'
    BY <1>8 DEF C!Feedback, C!AlarmSpeech, C!Spoken
<1>9. CASE C!Record \/ C!Arrive \/ C!Push
    BY <1>9 DEF C!Record, C!Arrive, C!Push
<1>10. CASE UNCHANGED C!vars
    BY <1>10 DEF C!vars
<1>11. QED
    BY <1>1, <1>2, <1>3, <1>4, <1>5, <1>6, <1>7, <1>8, <1>9, <1>10 DEF C!Next

\* A capture is in force exactly while nobody released it and its own stream
\* did not end, and the newest collector can be given orders as long as its call
\* stands: for every number of collectors, claims and faults.
THEOREM NewerStandsAlways == Spec => []NewerStands
<1>1. Init => CaptureInv
    BY DEF Init, C!Init, CaptureInv
<1>2. CaptureInv /\ [Next]_vars => CaptureInv'
    BY CaptureInvStep, CaptureStep
<1>3. CaptureInv => NewerStands
    BY DEF CaptureInv, NewerStands, C!NewerStands
<1>4. QED
    BY <1>1, <1>2, <1>3, PTL DEF Spec

-----------------------------------------------------------------------------
(* No row is lost.                                                          *)

Pairs == UNION {{<<o, r>> : o \in OwnerOf[r]} : r \in Rows}
Owned(r, S) == \A o \in OwnerOf[r] : <<o, r>> \in S

\* A row has its owners with it, before the commit and after; and before the
\* category is deleted its rows are in the new table or on their way.
RowsInv ==
    /\ settings \in [there : BOOLEAN, rows : SUBSET Rows] /\ rows \subseteq Rows
    /\ work \in [rows : SUBSET Rows, owners : SUBSET Pairs]
    /\ \A r \in rows : Owned(r, owners)
    /\ \A r \in work.rows : Owned(r, work.owners)
    /\ script = "delete" => settings.rows \subseteq rows \cup work.rows \cup deleted
    /\ \A r \in Rows \ deleted : (settings.there /\ r \in settings.rows) \/ r \in rows

\* The scripts take no row away that they did not bring, wherever they end.
LEMMA RowsInvStep == RowsInv /\ [M!Next]_(M!vars) => RowsInv'
<1> SUFFICES ASSUME RowsInv, [M!Next]_(M!vars) PROVE RowsInv'
    OBVIOUS
<1> USE DEF RowsInv
<1>n. M!Nothing \in [rows : SUBSET Rows, owners : SUBSET Pairs] /\ M!Nothing.rows = {} /\ M!Nothing.owners = {}
    BY DEF M!Nothing
<1>1. CASE UNCHANGED <<settings, rows, owners, work, script, deleted>>
    BY <1>1 DEF Owned
<1>2. ASSUME NEW which \in {"insert", "routines"}, M!Run(which) PROVE RowsInv'
    <2>1. /\ script' = which /\ work' = M!Nothing
          /\ UNCHANGED <<settings, rows, owners, deleted>>
        BY <1>2 DEF M!Run
    <2>2. QED BY <1>n, <2>1 DEF Owned
<1>3. CASE M!Insert
    <2> DEFINE new == settings.rows \ rows
               added == UNION {{<<o, r>> : o \in OwnerOf[r]} : r \in new}
    <2>1. /\ work' = [rows |-> new, owners |-> added] /\ script' = "delete"
          /\ UNCHANGED <<settings, rows, owners, deleted>>
        BY <1>3 DEF M!Insert, M!OwnersOf
    <2>2. new \subseteq Rows /\ added \subseteq Pairs /\ \A r \in new : Owned(r, added)
        BY DEF Pairs, Owned
    <2> HIDE DEF added
    <2>3. /\ work' \in [rows : SUBSET Rows, owners : SUBSET Pairs]
          /\ work'.rows = new /\ work'.owners = added
        BY <2>1, <2>2
    <2>4. QED BY <2>1, <2>2, <2>3 DEF Owned
<1>4. CASE M!NothingToDo
    <2>1. script' = "none" /\ UNCHANGED <<settings, rows, owners, work, deleted>>
        BY <1>4 DEF M!NothingToDo
    <2>2. QED BY <2>1 DEF Owned
<1>5. CASE M!Commit
    <2>1. /\ rows' = rows \cup work.rows /\ owners' = owners \cup work.owners /\ work' = M!Nothing
          /\ UNCHANGED <<settings, script, deleted>>
        BY <1>5 DEF M!Commit
    <2>2. QED BY <1>n, <2>1 DEF Owned
<1>6. CASE M!DeleteCategory
    <2>1. /\ script = "delete" /\ work = M!Nothing /\ settings' = [there |-> FALSE, rows |-> {}] /\ script' = "none"
          /\ UNCHANGED <<rows, owners, work, deleted>>
        BY <1>6 DEF M!DeleteCategory, M!Deletable
    <2>2. settings.rows \subseteq rows \cup deleted
        BY <1>n, <2>1
    <2>3. QED BY <2>1, <2>2 DEF Owned
<1>7. CASE M!CopyRoutines
    <2>1. script' = "none" /\ UNCHANGED <<settings, rows, owners, work, deleted>>
        BY <1>7 DEF M!CopyRoutines
    <2>2. QED BY <2>1 DEF Owned
<1>8. CASE M!Interrupted
    <2>1. script' = "none" /\ work' = M!Nothing /\ UNCHANGED <<settings, rows, owners, deleted>>
        BY <1>8 DEF M!Interrupted
    <2>2. QED BY <1>n, <2>1 DEF Owned
<1>9. ASSUME NEW r \in Rows, M!Delete(r) PROVE RowsInv'
    <2>1. /\ work = M!Nothing /\ rows' = rows \ {r} /\ deleted' = deleted \cup {r}
          /\ owners' = {o \in owners : o[2] # r}
          /\ UNCHANGED <<settings, work, script>>
        BY <1>9 DEF M!Delete
    <2>2. \A q \in rows' : Owned(q, owners')
        BY <2>1 DEF Owned
    <2>3. \A q \in work'.rows : Owned(q, work'.owners)
        BY <2>1
    <2>4. script' = "delete" => settings'.rows \subseteq rows' \cup work'.rows \cup deleted'
        BY <2>1
    <2>5. QED BY <2>1, <2>2, <2>3, <2>4
<1>10. CASE M!Boot \/ M!NextStep \/ M!AddColumn \/ M!Rename \/ M!CopyBack \/ M!MoveGroups \/ M!FirstRun \/ M!Kill
    BY <1>1, <1>10 DEF M!Boot, M!NextStep, M!AddColumn, M!Rename, M!CopyBack, M!MoveGroups, M!FirstRun, M!Kill, M!data
<1>11. CASE UNCHANGED M!vars
    BY <1>1, <1>11 DEF M!vars, M!data
<1>12. QED
    BY <1>2, <1>3, <1>4, <1>5, <1>6, <1>7, <1>8, <1>9, <1>10, <1>11 DEF M!Next

-----------------------------------------------------------------------------
(* The Core runs on a complete schema.                                      *)

Words == {"actions", "owner_user_id", "firmware_version", "update_available", "new_version",
          "name", "last_restart_at", "filled", "sender_user_id", "reply_to_id"}
Elements(s) == {s[j] : j \in 1..Len(s)}
StepColumns(i) == Elements(M!Steps[i])
Whole(i) == M!Steps[i][1] \in columns => StepColumns(i) \subseteq columns

\* The six column steps have columns, and no step is taken for done by the
\* columns of one before it.
LEMMA StepsDiffer ==
    /\ Len(M!Steps) = 6 /\ \A i \in 1..6 : M!Steps[i] \in Seq(Words) /\ Len(M!Steps[i]) \in Nat \ {0}
    /\ \A i, j \in 1..6 : i < j => M!Steps[j][1] \notin StepColumns(i)
<1> DEFINE t1 == <<"actions">>
           t2 == <<"owner_user_id">>
           t3 == <<"firmware_version", "update_available", "new_version">>
           t4 == <<"name">>
           t5 == <<"last_restart_at", "filled">>
           t6 == <<"sender_user_id", "reply_to_id">>
<1>1. /\ t1 \in Seq(Words) /\ t2 \in Seq(Words) /\ t3 \in Seq(Words)
      /\ t4 \in Seq(Words) /\ t5 \in Seq(Words) /\ t6 \in Seq(Words)
    BY DEF Words
<1>2. Len(t1) = 1 /\ Len(t2) = 1 /\ Len(t3) = 3 /\ Len(t4) = 1 /\ Len(t5) = 2 /\ Len(t6) = 2
    OBVIOUS
<1>3. /\ Elements(t1) = {"actions"} /\ Elements(t2) = {"owner_user_id"}
      /\ Elements(t3) = {"firmware_version", "update_available", "new_version"}
      /\ Elements(t4) = {"name"} /\ Elements(t5) = {"last_restart_at", "filled"}
      /\ Elements(t6) = {"sender_user_id", "reply_to_id"}
    BY <1>2 DEF Elements
<1>4. /\ t2[1] = "owner_user_id" /\ t3[1] = "firmware_version" /\ t4[1] = "name"
      /\ t5[1] = "last_restart_at" /\ t6[1] = "sender_user_id"
    OBVIOUS
<1> HIDE DEF t1, t2, t3, t4, t5, t6
<1>5. M!Steps = <<t1, t2, t3, t4, t5, t6>>
    BY DEF M!Steps, t1, t2, t3, t4, t5, t6
<1>6. /\ Len(M!Steps) = 6 /\ M!Steps[1] = t1 /\ M!Steps[2] = t2 /\ M!Steps[3] = t3
      /\ M!Steps[4] = t4 /\ M!Steps[5] = t5 /\ M!Steps[6] = t6
    BY <1>5
<1>7. ASSUME NEW i \in 1..6 PROVE M!Steps[i] \in Seq(Words) /\ Len(M!Steps[i]) \in Nat \ {0}
    <2>1. i = 1 \/ i = 2 \/ i = 3 \/ i = 4 \/ i = 5 \/ i = 6
        OBVIOUS
    <2>2. M!Steps[i] \in {t1, t2, t3, t4, t5, t6}
        BY <1>6, <2>1
    <2>3. M!Steps[i] \in Seq(Words)
        BY <1>1, <2>2
    <2>4. Len(M!Steps[i]) \in {1, 2, 3}
        <3>1. \A s \in {t1, t2, t3, t4, t5, t6} : Len(s) \in {1, 2, 3}
            BY <1>2
        <3>2. QED BY <2>2, <3>1, Zenon
    <2>5. \A n \in {1, 2, 3} : n \in Nat \ {0}
        OBVIOUS
    <2>6. QED BY <2>3, <2>4, <2>5, Zenon
<1>8. ASSUME NEW i \in 1..6, NEW j \in 1..6, i < j PROVE M!Steps[j][1] \notin StepColumns(i)
    <2>1. /\ StepColumns(1) = {"actions"} /\ StepColumns(2) = {"owner_user_id"}
          /\ StepColumns(3) = {"firmware_version", "update_available", "new_version"}
          /\ StepColumns(4) = {"name"} /\ StepColumns(5) = {"last_restart_at", "filled"}
        BY <1>3, <1>6 DEF StepColumns
    <2>2. /\ M!Steps[2][1] = "owner_user_id" /\ M!Steps[3][1] = "firmware_version" /\ M!Steps[4][1] = "name"
          /\ M!Steps[5][1] = "last_restart_at" /\ M!Steps[6][1] = "sender_user_id"
        BY <1>4, <1>6
    <2>3. CASE j = 2
        BY <1>8, <2>1, <2>2, <2>3
    <2>4. CASE j = 3
        <3>1. i = 1 \/ i = 2
            BY <1>8, <2>4
        <3>2. QED BY <2>1, <2>2, <2>4, <3>1
    <2>5. CASE j = 4
        <3>1. i = 1 \/ i = 2 \/ i = 3
            BY <1>8, <2>5
        <3>2. QED BY <2>1, <2>2, <2>5, <3>1
    <2>6. CASE j = 5
        <3>1. i = 1 \/ i = 2 \/ i = 3 \/ i = 4
            BY <1>8, <2>6
        <3>2. QED BY <2>1, <2>2, <2>6, <3>1
    <2>7. CASE j = 6
        <3>1. i = 1 \/ i = 2 \/ i = 3 \/ i = 4 \/ i = 5
            BY <1>8, <2>7
        <3>2. QED BY <2>1, <2>2, <2>7, <3>1
    <2>8. j = 2 \/ j = 3 \/ j = 4 \/ j = 5 \/ j = 6
        BY <1>8
    <2>9. QED BY <2>3, <2>4, <2>5, <2>6, <2>7, <2>8
<1>9. QED BY <1>6, <1>7, <1>8

\* Steps before this one are complete, those that are begun elsewhere too; this
\* one has yet to get what is in adding, its first column before the others.
SchemaType ==
    /\ step \in 0..7 /\ adding \in Seq(Words)
    /\ messages \in {"bad", "aside", "good"} /\ (messages = "aside" => core = "boot")
    /\ columns \subseteq UNION {StepColumns(i) : i \in 1..6}
StepUnderway ==
    core = "boot" /\ adding # <<>> =>
        /\ step \in 1..6 /\ Len(adding) <= Len(M!Steps[step]) /\ Elements(adding) \subseteq StepColumns(step)
        /\ adding = M!Steps[step] => M!Steps[step][1] \notin columns
        /\ StepColumns(step) \subseteq columns \cup Elements(adding)
StepsDone ==
    core = "boot" => \A i \in 1..6 : i < step \/ (i = step /\ adding = <<>>) => StepColumns(i) \subseteq columns
StepsWhole == \A i \in 1..6 : (core = "boot" /\ i = step /\ adding # <<>>) \/ Whole(i)
CoreIsUp ==
    core = "up" => /\ \A i \in 1..6 : StepColumns(i) \subseteq columns
                   /\ messages = "good" /\ groups = "satellites" /\ users
SchemaInv == SchemaType /\ StepUnderway /\ StepsDone /\ StepsWhole /\ CoreIsUp

\* What is left to add when the first column was added.
LEMMA ColumnTaken ==
    ASSUME NEW s \in Seq(Words), s # <<>>
    PROVE  /\ Tail(s) \in Seq(Words) /\ Len(Tail(s)) = Len(s) - 1 /\ Len(s) \in Nat \ {0}
           /\ Elements(s) = {Head(s)} \cup Elements(Tail(s)) /\ Head(s) = s[1]
<1>1. Len(s) \in Nat \ {0} /\ Head(s) = s[1]
    OBVIOUS
<1>2. /\ Tail(s) \in Seq(Words) /\ Len(Tail(s)) = Len(s) - 1
      /\ \A i \in 1..Len(Tail(s)) : Tail(s)[i] = s[i + 1]
    BY HeadTailProperties
<1>3. \A x : x \in Elements(s) => x \in {Head(s)} \cup Elements(Tail(s))
    <2> SUFFICES ASSUME NEW j \in 1..Len(s) PROVE s[j] \in {Head(s)} \cup Elements(Tail(s))
        BY DEF Elements
    <2>1. CASE j = 1
        BY <1>1, <2>1
    <2>2. CASE j # 1
        <3>1. j - 1 \in 1..Len(Tail(s)) /\ (j - 1) + 1 = j
            BY <1>1, <1>2, <2>2
        <3>2. s[j] = Tail(s)[j - 1]
            BY <1>2, <3>1
        <3>3. QED BY <3>1, <3>2 DEF Elements
    <2>3. QED BY <2>1, <2>2
<1>4. \A x : x \in {Head(s)} \cup Elements(Tail(s)) => x \in Elements(s)
    <2>1. Head(s) \in Elements(s)
        BY <1>1 DEF Elements
    <2>2. ASSUME NEW j \in 1..Len(Tail(s)) PROVE Tail(s)[j] \in Elements(s)
        BY <1>1, <1>2 DEF Elements
    <2>3. QED BY <2>1, <2>2 DEF Elements
<1>5. QED BY <1>1, <1>2, <1>3, <1>4

\* No start goes past a step that is not complete, as long as none is killed
\* between two statements of one.
LEMMA SchemaStep == ASSUME ~TornBoots PROVE SchemaInv /\ [M!Next]_(M!vars) => SchemaInv'
<1> SUFFICES ASSUME ~TornBoots, SchemaInv, [M!Next]_(M!vars) PROVE SchemaInv'
    OBVIOUS
<1> USE DEF SchemaInv
<1>1. CASE UNCHANGED M!schema
    BY <1>1 DEF SchemaType, StepUnderway, StepsDone, StepsWhole, CoreIsUp, Whole, M!schema
<1>2. CASE M!Boot
    <2>1. /\ core = "down" /\ core' = "boot" /\ step' = 0 /\ adding' = <<>>
          /\ messages' = IF messages = "aside" THEN "lost" ELSE messages
          /\ UNCHANGED <<columns, groups, users>>
        BY <1>2 DEF M!Boot
    <2>2. messages' = messages /\ adding' \in Seq(Words)
        BY <2>1 DEF SchemaType
    <2>3. SchemaType'
        BY <2>1, <2>2 DEF SchemaType
    <2>4. StepUnderway' /\ CoreIsUp'
        BY <2>1 DEF StepUnderway, CoreIsUp
    <2>5. StepsDone'
        BY <2>1 DEF StepsDone
    <2>6. StepsWhole'
        BY <2>1 DEF StepsWhole, Whole
    <2>7. QED BY <2>3, <2>4, <2>5, <2>6
<1>3. CASE M!NextStep
    <2>1. /\ core = "boot" /\ adding = <<>> /\ step <= 6 /\ step' = step + 1
          /\ adding' = IF step < 6 /\ M!Steps[step + 1][1] \notin columns THEN M!Steps[step + 1] ELSE <<>>
          /\ UNCHANGED <<columns, messages, groups, users, core>>
        BY <1>3, StepsDiffer DEF M!NextStep, SchemaType
    <2>2. step \in 0..6 /\ \A i \in 1..6 : (i <= step => StepColumns(i) \subseteq columns)
        BY <2>1 DEF SchemaType, StepsDone
    <2>3. \A i \in 1..6 : Whole(i) /\ (Whole(i)' <=> Whole(i))
        BY <2>1 DEF StepsWhole, Whole
    <2>4. StepsWhole' /\ CoreIsUp'
        BY <2>1, <2>3 DEF StepsWhole, CoreIsUp
    <2>5. CASE step < 6 /\ M!Steps[step + 1][1] \notin columns
        <3>1. adding' = M!Steps[step'] /\ step' \in 1..6
            BY <2>1, <2>2, <2>5
        <3>2. adding' \in Seq(Words) /\ Len(adding') \in Nat \ {0} /\ adding' # <<>>
            BY <3>1, StepsDiffer
        <3>3. Elements(adding') = StepColumns(step')
            BY <3>1 DEF StepColumns
        <3>4. SchemaType'
            BY <2>1, <3>1, <3>2 DEF SchemaType
        <3>5. Len(adding') <= Len(M!Steps[step']) /\ M!Steps[step'][1] \notin columns'
            BY <2>1, <2>5, <3>1, <3>2
        <3>6. StepUnderway'
            BY <3>1, <3>3, <3>5 DEF StepUnderway
        <3>7. StepsDone'
            BY <2>1, <2>2, <3>2 DEF StepsDone
        <3>8. QED BY <2>4, <3>4, <3>6, <3>7
    <2>6. CASE ~(step < 6 /\ M!Steps[step + 1][1] \notin columns)
        <3>1. adding' = <<>> /\ adding' \in Seq(Words) /\ step' \in 1..7
            BY <2>1, <2>2, <2>6
        <3>2. step + 1 \in 1..6 => StepColumns(step + 1) \subseteq columns
            BY <2>2, <2>3, <2>6 DEF Whole
        <3>3. \A i \in 1..6 : i <= step' => i <= step \/ i = step + 1
            BY <2>1, <2>2
        <3>4. \A i \in 1..6 : i <= step' => StepColumns(i) \subseteq columns
            BY <2>2, <3>2, <3>3
        <3>5. SchemaType'
            BY <2>1, <3>1 DEF SchemaType
        <3>6. StepUnderway'
            BY <3>1 DEF StepUnderway
        <3>7. StepsDone'
            BY <2>1, <3>1, <3>4 DEF StepsDone
        <3>8. QED BY <2>4, <3>5, <3>6, <3>7
    <2>7. QED BY <2>5, <2>6
<1>4. CASE M!AddColumn
    <2>1. /\ core = "boot" /\ adding # <<>> /\ columns' = columns \cup {Head(adding)} /\ adding' = Tail(adding)
          /\ UNCHANGED <<messages, groups, users, core, step>>
        BY <1>4 DEF M!AddColumn
    <2>2. /\ adding \in Seq(Words) /\ step \in 1..6 /\ Len(adding) <= Len(M!Steps[step])
          /\ Elements(adding) \subseteq StepColumns(step)
          /\ StepColumns(step) \subseteq columns \cup Elements(adding)
          /\ \A i \in 1..6 : i < step => StepColumns(i) \subseteq columns
          /\ \A i \in 1..6 : i = step \/ Whole(i)
        BY <2>1 DEF SchemaType, StepUnderway, StepsDone, StepsWhole
    <2>3. /\ adding' \in Seq(Words) /\ Len(adding') = Len(adding) - 1 /\ Len(adding) \in Nat \ {0}
          /\ Elements(adding) = {Head(adding)} \cup Elements(adding')
        BY <2>1, <2>2, ColumnTaken
    <2>4. Len(adding') < Len(M!Steps[step]) /\ adding' # M!Steps[step]
        BY <2>2, <2>3, StepsDiffer
    <2>5. Elements(adding') \subseteq StepColumns(step) /\ StepColumns(step) \subseteq columns' \cup Elements(adding')
          /\ Head(adding) \in StepColumns(step)
        BY <2>1, <2>2, <2>3
    <2>6. adding' = <<>> => Elements(adding') = {}
        BY DEF Elements
    <2>7. \A i \in 1..6 : i < step \/ (i = step /\ adding' = <<>>) => StepColumns(i) \subseteq columns'
        BY <2>1, <2>2, <2>5, <2>6
    <2>8. ASSUME NEW i \in 1..6, ~(i = step /\ adding' # <<>>) PROVE Whole(i)'
        <3>1. CASE i <= step
            BY <2>1, <2>2, <2>7, <2>8, <3>1 DEF Whole
        <3>2. CASE step < i
            <4>1. M!Steps[i][1] # Head(adding)
                BY <2>2, <2>5, <3>2, StepsDiffer
            <4>2. QED BY <2>1, <2>2, <3>2, <4>1 DEF Whole
        <3>3. QED BY <2>2, <3>1, <3>2
    <2>9. SchemaType'
        <3>1. columns' \subseteq UNION {StepColumns(i) : i \in 1..6}
            BY <2>1, <2>2, <2>5 DEF SchemaType
        <3>2. QED BY <2>1, <2>3, <3>1 DEF SchemaType
    <2>10. StepUnderway'
        BY <2>1, <2>2, <2>4, <2>5 DEF StepUnderway
    <2>11. StepsDone'
        BY <2>1, <2>7 DEF StepsDone
    <2>12. StepsWhole'
        BY <2>1, <2>8 DEF StepsWhole
    <2>13. QED BY <2>1, <2>9, <2>10, <2>11, <2>12 DEF CoreIsUp
<1>5. CASE M!Rename \/ M!CopyBack \/ M!MoveGroups
    BY <1>5 DEF SchemaType, StepUnderway, StepsDone, StepsWhole, CoreIsUp, Whole, M!Rename, M!CopyBack, M!MoveGroups
<1>6. CASE M!FirstRun
    <2>1. /\ core = "boot" /\ step = 7 /\ groups = "satellites" /\ messages \in {"good", "lost"}
          /\ users' = TRUE /\ core' = "up" /\ UNCHANGED <<columns, messages, groups, step, adding>>
        BY <1>6, StepsDiffer DEF M!FirstRun, SchemaType
    <2>2. (\A i \in 1..6 : StepColumns(i) \subseteq columns) /\ messages = "good"
        BY <2>1 DEF SchemaType, StepsDone
    <2>3. SchemaType' /\ CoreIsUp'
        BY <2>1, <2>2 DEF SchemaType, CoreIsUp
    <2>4. StepsWhole'
        BY <2>1, <2>2 DEF Whole, StepsWhole
    <2>5. QED BY <2>1, <2>3, <2>4 DEF StepUnderway, StepsDone
<1>7. CASE M!Kill
    <2>1. /\ ~M!Torn /\ core' = "down" /\ UNCHANGED <<columns, messages, groups, users, step, adding>>
        BY <1>7 DEF M!Kill
    <2>2. /\ core = "boot" => messages # "aside"
          /\ core = "boot" /\ adding # <<>> => adding = M!Steps[step]
        BY <2>1 DEF M!Torn
    <2>3. \A i \in 1..6 : Whole(i)
        BY <2>2 DEF StepUnderway, StepsWhole, Whole
    <2>4. SchemaType'
        BY <2>1, <2>2 DEF SchemaType
    <2>5. StepsWhole'
        BY <2>1, <2>3 DEF StepsWhole, Whole
    <2>6. QED BY <2>1, <2>4, <2>5 DEF StepUnderway, StepsDone, CoreIsUp
<1>8. CASE M!Insert \/ M!NothingToDo \/ M!Commit \/ M!DeleteCategory \/ M!CopyRoutines \/ M!Interrupted
    BY <1>1, <1>8 DEF M!Insert, M!NothingToDo, M!Commit, M!DeleteCategory, M!CopyRoutines, M!Interrupted
<1>9. CASE (\E which \in {"insert", "routines"} : M!Run(which)) \/ (\E r \in Rows : M!Delete(r))
    BY <1>1, <1>9 DEF M!Run, M!Delete
<1>10. CASE UNCHANGED M!vars
    BY <1>1, <1>10 DEF M!vars
<1>11. QED
    BY <1>2, <1>3, <1>4, <1>5, <1>6, <1>7, <1>8, <1>9, <1>10 DEF M!Next

\* As long as no start is killed between two statements of one step (the gap
\* the README names), wherever the Core and the scripts are interrupted the
\* Core runs on a complete schema and every row is in the old settings or, with
\* its owners, in the new table: for every number of rows, runs and kills.
THEOREM RowsSurviveAlways == ASSUME ~TornBoots PROVE Spec => []RowsSurvive
<1>1. Init => RowsInv
    BY DEF Init, M!Init, M!Nothing, RowsInv
<1>2. RowsInv /\ [Next]_vars => RowsInv'
    BY RowsInvStep, MigrationStep
<1>3. Init => SchemaInv
    <2> SUFFICES ASSUME Init PROVE SchemaInv
        OBVIOUS
    <2>1. columns = {} /\ messages = "bad" /\ core = "down" /\ step = 0 /\ adding = <<>>
        BY DEF Init, M!Init
    <2>2. adding \in Seq(Words) /\ \A i \in 1..6 : Whole(i)
        BY <2>1 DEF Whole
    <2>3. QED
        BY <2>1, <2>2 DEF SchemaInv, SchemaType, StepUnderway, StepsDone, StepsWhole, CoreIsUp
<1>4. SchemaInv /\ [Next]_vars => SchemaInv'
    BY SchemaStep, MigrationStep
<1>5. M!Columns = UNION {StepColumns(i) : i \in 1..6}
    BY StepsDiffer DEF M!Columns, StepColumns, Elements
<1>6. RowsInv /\ SchemaInv => RowsSurvive
    <2> SUFFICES ASSUME RowsInv, SchemaInv PROVE M!NothingIsLost
        BY DEF RowsSurvive
    <2>1. core = "up" => columns = M!Columns
        BY <1>5 DEF SchemaInv, SchemaType, CoreIsUp
    <2>2. core = "up" => messages = "good" /\ groups = "satellites" /\ users
        BY DEF SchemaInv, CoreIsUp
    <2>3. ASSUME NEW r \in Rows \ deleted
          PROVE  \/ settings.there /\ r \in settings.rows
                 \/ r \in rows /\ \A o \in OwnerOf[r] : <<o, r>> \in owners
        BY DEF RowsInv, Owned
    <2>4. QED BY <2>1, <2>2, <2>3 DEF M!NothingIsLost
<1>7. QED
    BY <1>1, <1>2, <1>3, <1>4, <1>6, PTL DEF Spec

-----------------------------------------------------------------------------
(* An adapter watches what the triggers refer to.                           *)

WatchType ==
    /\ edit \in [A!Threads -> [at : {"idle", "select", "publish", "collect", "push"}, ids : SUBSET States]]
    /\ ids \subseteq States /\ loaded \subseteq States /\ undone \subseteq States
    /\ stream \in [Adapters -> {"off", "attached", "read", "up"}]
    /\ asked \in [Adapters -> SUBSET States] /\ watched \in [Adapters -> SUBSET States]

\* A state that is stored but not in force was undone, or an editor brings it;
\* one in force that an adapter is not told of yet is still to be announced.
Brings(t, x) == edit[t].at = "select" \/ (edit[t].at = "publish" /\ x \in edit[t].ids)
Announces(t, x) == edit[t].at \in {"select", "publish", "collect"} \/ (edit[t].at = "push" /\ x \in edit[t].ids)
Told(a) == watched[a] \cup (IF stream[a] = "read" THEN asked[a] ELSE {})
RowsRead ==
    /\ \A t \in A!Threads : edit[t].at = "publish" => edit[t].ids \subseteq ids
    /\ \A x \in ids \ (loaded \cup undone) : \E t \in Editors : Brings(t, x)
AllToldOf ==
    \A a \in Adapters : stream[a] \in {"read", "up"} =>
        \A x \in loaded \ undone : x \in Told(a) \/ \E t \in Editors : Announces(t, x)
WatchInv == WatchType /\ RowsRead /\ AllToldOf

\* Whoever edits triggers announces them after they are in force, to every
\* stream that was there before they were read; and what a reload brings was
\* stored by an editor who has that still to do, or was undone.
LEMMA WatchStep == WatchInv /\ [A!Next]_(A!vars) => WatchInv'
<1> SUFFICES ASSUME WatchInv, [A!Next]_(A!vars) PROVE WatchInv'
    OBVIOUS
<1>t. A!Threads = Editors \cup {"tick"} /\ "tick" \notin Editors
    BY ServicesAssumption DEF A!Threads
<1>u. WatchType /\ RowsRead /\ AllToldOf
    BY DEF WatchInv
<1>1. CASE UNCHANGED <<ids, loaded, undone, edit, stream, asked, watched>>
    BY <1>1 DEF WatchInv, WatchType, RowsRead, AllToldOf, Brings, Announces, Told
<1>2. ASSUME NEW t \in A!Threads, A!Store(t) PROVE WatchInv'
    <2>1. /\ t \in Editors /\ edit[t].at = "idle" /\ edit' = [edit EXCEPT ![t] = [at |-> "select", ids |-> {}]]
          /\ ids' \subseteq States /\ UNCHANGED <<loaded, undone, stream, asked, watched>>
        BY <1>2, <1>u DEF A!Store, A!Step, A!adapters, WatchType
    <2>2. edit'[t].at = "select" /\ \A u \in A!Threads : u # t => edit'[u] = edit[u]
        BY <1>u, <2>1 DEF WatchType
    <2>3. WatchType'
        BY <1>u, <2>1 DEF WatchType
    <2>4. RowsRead'
        <3>1. \A u \in A!Threads : edit'[u].at = "publish" => edit'[u].ids \subseteq ids'
            BY <1>2, <1>u, <2>2 DEF RowsRead, A!Store
        <3>2. \A x : Brings(t, x)'
            BY <2>2 DEF Brings
        <3>3. QED BY <2>1, <3>1, <3>2 DEF RowsRead
    <2>5. \A x : Announces(t, x)'
        BY <2>2 DEF Announces
    <2>6. AllToldOf'
        BY <2>1, <2>5 DEF AllToldOf
    <2>7. QED BY <2>3, <2>4, <2>6 DEF WatchInv
<1>3. ASSUME NEW t \in A!Threads, A!Select(t) PROVE WatchInv'
    <2>1. /\ edit[t].at = "select" \/ t = "tick"
          /\ edit' = [edit EXCEPT ![t] = [at |-> "publish", ids |-> ids]]
          /\ UNCHANGED <<ids, loaded, undone, stream, asked, watched>>
        BY <1>3 DEF A!Select, A!Step, A!adapters
    <2>2. edit'[t].at = "publish" /\ edit'[t].ids = ids /\ \A u \in A!Threads : u # t => edit'[u] = edit[u]
        BY <1>u, <2>1 DEF WatchType
    <2>3. WatchType'
        BY <1>u, <2>1 DEF WatchType
    <2>4. ASSUME NEW u \in Editors, NEW x PROVE Brings(u, x) /\ x \in ids => Brings(u, x)'
        BY <1>t, <2>2, <2>1 DEF Brings
    <2>5. ASSUME NEW u \in Editors, NEW x PROVE Announces(u, x) => Announces(u, x)'
        BY <1>t, <2>2, <2>1 DEF Announces
    <2>6. RowsRead'
        BY <1>u, <2>1, <2>2, <2>4 DEF RowsRead
    <2>7. AllToldOf'
        BY <1>u, <2>1, <2>5 DEF AllToldOf, Told
    <2>8. QED BY <2>3, <2>6, <2>7 DEF WatchInv
<1>4. ASSUME NEW t \in A!Threads, A!Publish(t) PROVE WatchInv'
    <2> DEFINE next == IF t = "tick" THEN "idle" ELSE "collect"
    <2>1. /\ edit[t].at = "publish" /\ edit' = [edit EXCEPT ![t] = [at |-> next, ids |-> {}]]
          /\ loaded' = edit[t].ids /\ undone' = undone \cup (loaded \ edit[t].ids)
          /\ UNCHANGED <<ids, stream, asked, watched>>
        BY <1>4 DEF A!Publish, A!Step, A!adapters
    <2>2. edit'[t].at = next /\ \A u \in A!Threads : u # t => edit'[u] = edit[u]
        BY <1>u, <2>1 DEF WatchType
    <2>3. edit[t].ids \subseteq States /\ edit[t].ids \subseteq ids
        BY <1>u, <2>1 DEF WatchType, RowsRead
    <2>4. WatchType'
        BY <1>u, <2>1, <2>3 DEF WatchType
    <2>5. ASSUME NEW u \in Editors, NEW x PROVE Brings(u, x) => x \in loaded' \/ Brings(u, x)'
        BY <1>t, <2>2, <2>1 DEF Brings
    <2>6. ASSUME NEW u \in Editors, NEW x PROVE Announces(u, x) \/ Brings(u, x) => Announces(u, x)'
        BY <1>t, <2>2, <2>1 DEF Announces, Brings
    <2>7. RowsRead'
        <3>1. \A u \in A!Threads : edit'[u].at = "publish" => edit'[u].ids \subseteq ids'
            BY <1>u, <2>1, <2>2 DEF RowsRead
        <3>2. ASSUME NEW x \in ids \ (loaded' \cup undone') PROVE \E u \in Editors : Brings(u, x)'
            <4>1. x \in ids \ (loaded \cup undone)
                BY <2>1
            <4>2. QED BY <1>u, <2>5, <4>1 DEF RowsRead
        <3>3. QED BY <2>1, <3>1, <3>2 DEF RowsRead
    <2>8. AllToldOf'
        <3>1. ASSUME NEW a \in Adapters, stream[a] \in {"read", "up"}, NEW x \in loaded' \ undone'
              PROVE  x \in Told(a) \/ \E u \in Editors : Announces(u, x)'
            <4>1. CASE x \in loaded
                <5>1. x \in Told(a) \/ \E u \in Editors : Announces(u, x)
                    BY <1>u, <2>1, <3>1, <4>1 DEF AllToldOf
                <5>2. QED BY <2>6, <5>1
            <4>2. CASE x \notin loaded
                <5>1. x \in ids \ (loaded \cup undone)
                    BY <2>1, <2>3, <4>2
                <5>2. \E u \in Editors : Brings(u, x)
                    BY <1>u, <5>1 DEF RowsRead
                <5>3. QED BY <2>6, <5>2
            <4>3. QED BY <4>1, <4>2
        <3>2. \A a \in Adapters : Told(a)' = Told(a)
            BY <2>1 DEF Told
        <3>3. QED BY <2>1, <3>1, <3>2 DEF AllToldOf
    <2>9. QED BY <2>4, <2>7, <2>8 DEF WatchInv
<1>5. ASSUME NEW t \in A!Threads, A!Collect(t) PROVE WatchInv'
    <2>1. /\ edit[t].at = "collect" /\ edit' = [edit EXCEPT ![t] = [at |-> "push", ids |-> loaded]]
          /\ UNCHANGED <<ids, loaded, undone, stream, asked, watched>>
        BY <1>5 DEF A!Collect, A!Step, A!adapters
    <2>2. edit'[t].at = "push" /\ edit'[t].ids = loaded /\ \A u \in A!Threads : u # t => edit'[u] = edit[u]
        BY <1>u, <2>1 DEF WatchType
    <2>3. WatchType'
        BY <1>u, <2>1 DEF WatchType
    <2>4. ASSUME NEW u \in Editors, NEW x PROVE Brings(u, x) => Brings(u, x)'
        BY <1>t, <2>2, <2>1 DEF Brings
    <2>5. ASSUME NEW u \in Editors, NEW x \in loaded PROVE Announces(u, x) => Announces(u, x)'
        BY <1>t, <2>2, <2>1 DEF Announces
    <2>6. RowsRead'
        BY <1>u, <2>1, <2>2, <2>4 DEF RowsRead
    <2>7. AllToldOf'
        BY <1>u, <2>1, <2>5 DEF AllToldOf, Told
    <2>8. QED BY <2>3, <2>6, <2>7 DEF WatchInv
<1>6. ASSUME NEW t \in A!Threads, A!Push(t) PROVE WatchInv'
    <2>1. /\ edit[t].at = "push" /\ edit' = [edit EXCEPT ![t] = [at |-> "idle", ids |-> {}]]
          /\ watched' = [a \in Adapters |-> IF stream[a] # "off" THEN watched[a] \cup edit[t].ids ELSE watched[a]]
          /\ UNCHANGED <<ids, loaded, undone, stream, asked>>
        BY <1>6 DEF A!Push, A!Step, A!WatchMore, A!Sessions
    <2>2. edit'[t].at = "idle" /\ \A u \in A!Threads : u # t => edit'[u] = edit[u]
        BY <1>u, <2>1 DEF WatchType
    <2>3. WatchType'
        BY <1>u, <2>1 DEF WatchType
    <2>4. ASSUME NEW u \in Editors, NEW x PROVE Brings(u, x) => Brings(u, x)'
        BY <1>t, <2>2, <2>1 DEF Brings
    <2>5. ASSUME NEW u \in Editors, NEW x PROVE Announces(u, x) => x \in edit[t].ids \/ Announces(u, x)'
        BY <1>t, <2>2, <2>1 DEF Announces
    <2>6. RowsRead'
        BY <1>u, <2>1, <2>2, <2>4 DEF RowsRead
    <2>7. \A a \in Adapters : stream[a] \in {"read", "up"} => Told(a)' = Told(a) \cup edit[t].ids
        BY <2>1 DEF Told
    <2>8. AllToldOf'
        BY <1>u, <2>1, <2>5, <2>7 DEF AllToldOf
    <2>9. QED BY <2>3, <2>6, <2>8 DEF WatchInv
<1>7. ASSUME NEW a \in Adapters, A!Attach(a) \/ A!Detach(a) PROVE WatchInv'
    <2>1. /\ stream' \in {[stream EXCEPT ![a] = "attached"], [stream EXCEPT ![a] = "off"]}
          /\ watched' = [watched EXCEPT ![a] = {}] /\ asked' \in {asked, [asked EXCEPT ![a] = {}]}
          /\ UNCHANGED <<ids, loaded, undone, edit>>
        BY <1>7 DEF A!Attach, A!Detach, A!tables
    <2>2. WatchType' /\ RowsRead'
        BY <1>u, <2>1 DEF WatchType, RowsRead, Brings
    <2>3. stream'[a] \notin {"read", "up"}
          /\ \A b \in Adapters : b # a => stream'[b] = stream[b] /\ watched'[b] = watched[b] /\ asked'[b] = asked[b]
        BY <1>u, <2>1 DEF WatchType
    <2>4. AllToldOf'
        BY <1>u, <2>1, <2>3 DEF AllToldOf, Told, Announces
    <2>5. QED BY <2>2, <2>4 DEF WatchInv
<1>8. ASSUME NEW a \in Adapters, A!ReadIds(a) PROVE WatchInv'
    <2>1. /\ stream' = [stream EXCEPT ![a] = "read"] /\ asked' = [asked EXCEPT ![a] = loaded]
          /\ UNCHANGED <<ids, loaded, undone, edit, watched>>
        BY <1>8 DEF A!ReadIds, A!tables
    <2>2. WatchType' /\ RowsRead'
        BY <1>u, <2>1 DEF WatchType, RowsRead, Brings
    <2>3. stream'[a] = "read" /\ asked'[a] = loaded
          /\ \A b \in Adapters : b # a => stream'[b] = stream[b] /\ asked'[b] = asked[b]
        BY <1>u, <2>1 DEF WatchType
    <2>4. AllToldOf'
        BY <1>u, <2>1, <2>3 DEF AllToldOf, Told, Announces
    <2>5. QED BY <2>2, <2>4 DEF WatchInv
<1>9. ASSUME NEW a \in Adapters, A!Welcome(a) PROVE WatchInv'
    <2>1. /\ stream[a] = "read" /\ stream' = [stream EXCEPT ![a] = "up"] /\ asked' = [asked EXCEPT ![a] = {}]
          /\ watched' = [b \in Adapters |-> IF b = a \/ stream[b] # "off" THEN watched[b] \cup asked[a] ELSE watched[b]]
          /\ UNCHANGED <<ids, loaded, undone, edit>>
        BY <1>9 DEF A!Welcome, A!tables, A!Sessions
    <2>2. WatchType' /\ RowsRead'
        BY <1>u, <2>1 DEF WatchType, RowsRead, Brings
    <2>3. \A b \in Adapters : (stream'[b] \in {"read", "up"} => stream[b] \in {"read", "up"}) /\ Told(b) \subseteq Told(b)'
        BY <1>u, <2>1 DEF WatchType, Told
    <2>4. AllToldOf'
        BY <1>u, <2>1, <2>3 DEF AllToldOf, Announces
    <2>5. QED BY <2>2, <2>4 DEF WatchInv
<1>10. ASSUME NEW a \in Adapters, A!LegacySnapshot(a) \/ A!TypedSnapshot(a) PROVE WatchInv'
    BY <1>1, <1>10 DEF A!LegacySnapshot, A!TypedSnapshot, A!tables, A!adapters
<1>11. ASSUME NEW l \in A!Drains,
              (\E d \in Devices : A!FillOne(l, d)) \/ A!Torn(l) \/ A!Loaded(l) \/ A!SetReady(l) \/ A!SendReady(l)
       PROVE  WatchInv'
    BY <1>1, <1>11 DEF A!FillOne, A!Torn, A!Loaded, A!SetReady, A!SendReady, A!tables, A!adapters
<1>12. CASE A!Install \/ A!TimerConnect \/ A!TimerAnswered \/ A!TimerGone
    BY <1>1, <1>12 DEF A!Install, A!TimerConnect, A!TimerAnswered, A!TimerGone, A!tables, A!adapters
<1>13. CASE UNCHANGED A!vars
    BY <1>1, <1>13 DEF A!vars, A!tables, A!adapters
<1>14. QED
    BY <1>2, <1>3, <1>4, <1>5, <1>6, <1>7, <1>8, <1>9, <1>10, <1>11, <1>12, <1>13 DEF A!Next

-----------------------------------------------------------------------------
(* The house is one snapshot, and the first releases the Timer Service.     *)

Phases == {"none", "fill", "ready", "send", "dead"}
LoadType ==
    /\ load \in [A!Drains -> [todo : SUBSET Devices, at : Phases]]
    /\ installed \subseteq Devices /\ connects \in Nat
    /\ stream \in [Adapters -> {"off", "attached", "read", "up"}] /\ drain \in [Adapters -> Nat]
    /\ \A a \in Adapters : stream[a] # "off" => drain[a] \in A!Drains

\* What the newest load has filled in so far is there, and what others may add.
Fills(l) == load[l].at = "fill"
HouseInv ==
    /\ devices \subseteq begun \cup beside
    /\ \A l \in A!Drains : Fills(l) /\ l # newest => load[l].todo \subseteq beside
    /\ \A l \in A!Drains : Fills(l) /\ l = newest => load[l].todo \subseteq begun /\ begun \ load[l].todo \subseteq devices
    /\ (\A l \in A!Drains : ~(Fills(l) /\ l = newest)) => begun \subseteq devices
LoadInv == LoadType /\ HouseInv

\* The flag is up before the Timer Service is told, and whoever connects later
\* reads the flag.
ReleaseInv ==
    /\ housed /\ (\A l \in A!Drains : load[l].at # "ready") => ready
    /\ ready /\ timer = "up" /\ (\A l \in A!Drains : load[l].at # "send") => told

\* A thread goes on in its load.
LEMMA LoadMoved ==
    ASSUME LoadType, NEW l \in A!Drains, NEW to \in Phases
    PROVE  [load EXCEPT ![l].at = to] = [load EXCEPT ![l] = [todo |-> load[l].todo, at |-> to]]
<1>1. load[l] \in [todo : SUBSET Devices, at : Phases]
    BY DEF LoadType, Phases
<1>2. [load[l] EXCEPT !.at = to] = [todo |-> load[l].todo, at |-> to]
    BY <1>1
<1>3. [load EXCEPT ![l].at = to] = [load EXCEPT ![l] = [load[l] EXCEPT !.at = to]]
    OBVIOUS
<1>4. QED BY <1>2, <1>3

\* A thread has less to fill in.
LEMMA TodoMoved ==
    ASSUME LoadType, NEW l \in A!Drains, NEW todo \in SUBSET Devices
    PROVE  [load EXCEPT ![l].todo = todo] = [load EXCEPT ![l] = [todo |-> todo, at |-> load[l].at]]
<1>1. load[l] \in [todo : SUBSET Devices, at : Phases]
    BY DEF LoadType, Phases
<1>2. [load[l] EXCEPT !.todo = todo] = [todo |-> todo, at |-> load[l].at]
    BY <1>1
<1>3. [load EXCEPT ![l].todo = todo] = [load EXCEPT ![l] = [load[l] EXCEPT !.todo = todo]]
    OBVIOUS
<1>4. QED BY <1>2, <1>3

\* What every step but those of the loads leaves as it is.
LEMMA LoadStands ==
    ASSUME LoadInv, UNCHANGED <<load, newest, begun, beside, devices>>, LoadType' PROVE LoadInv'
BY DEF LoadInv, HouseInv, Fills

\* A step of a thread, and what it leaves of the others.
LEMMA Moves ==
    ASSUME LoadInv, NEW l \in A!Drains, NEW to \in Phases, NEW todo \in SUBSET Devices,
           load' = [load EXCEPT ![l] = [todo |-> todo, at |-> to]], UNCHANGED <<installed, connects, stream, drain>>
    PROVE  /\ LoadType' /\ load'[l].at = to /\ load'[l].todo = todo
           /\ \A m \in A!Drains : m # l => load'[m] = load[m]
<1>1. load' \in [A!Drains -> [todo : SUBSET Devices, at : Phases]]
    BY DEF LoadInv, LoadType
<1>2. LoadType'
    BY <1>1 DEF LoadInv, LoadType
<1>3. load'[l] = [todo |-> todo, at |-> to] /\ \A m \in A!Drains : m # l => load'[m] = load[m]
    BY DEF LoadInv, LoadType
<1>4. QED BY <1>2, <1>3

\* A thread is no longer filling, with nothing left to do or with the map another's.
LEMMA FillEnds ==
    ASSUME LoadInv, NEW l \in A!Drains, NEW to \in {"none", "ready", "send", "dead"},
           load' = [load EXCEPT ![l].at = to], Fills(l) => load[l].todo = {} \/ l # newest,
           UNCHANGED <<installed, connects, stream, drain, newest, begun, beside, devices>>
    PROVE  LoadInv'
<1>1. PICK todo \in SUBSET Devices : todo = load[l].todo
    BY DEF LoadInv, LoadType
<1>2. load' = [load EXCEPT ![l] = [todo |-> todo, at |-> to]] /\ to \in Phases
    BY <1>1, LoadMoved DEF LoadInv, Phases
<1>3. LoadType' /\ load'[l].at = to /\ \A m \in A!Drains : m # l => load'[m] = load[m]
    BY ZenonT(40), <1>2, Moves
<1>4. \A m \in A!Drains : Fills(m)' <=> Fills(m) /\ m # l
    BY <1>3 DEF Fills
<1>5. (\A m \in A!Drains : ~(Fills(m)' /\ m = newest)) => begun \subseteq devices
    <2>1. CASE Fills(l) /\ l = newest
        BY <2>1 DEF LoadInv, HouseInv
    <2>2. CASE ~(Fills(l) /\ l = newest)
        BY <1>4, <2>2 DEF LoadInv, HouseInv
    <2>3. QED BY <2>1, <2>2
<1>6. HouseInv'
    BY <1>3, <1>4, <1>5 DEF LoadInv, HouseInv
<1>7. QED BY <1>3, <1>6 DEF LoadInv

\* A device is in the map once it is off the list of a thread, and a load that
\* begins empties the map and knows what others may still add.
LEMMA LoadStep == LoadInv /\ [A!Next]_(A!vars) => LoadInv'
<1> SUFFICES ASSUME LoadInv, [A!Next]_(A!vars) PROVE LoadInv'
    OBVIOUS
<1>t. LoadType /\ HouseInv
    BY DEF LoadInv
<1>1. CASE UNCHANGED <<installed, connects, stream, drain, devices, load, newest, begun, beside>>
    <2>1. LoadType'
        BY <1>t, <1>1 DEF LoadType
    <2>2. QED BY <1>1, <2>1, LoadStands
<1>2. ASSUME NEW a \in Adapters, A!LegacySnapshot(a) PROVE LoadInv'
    <2>l. PICK l : l = drain[a]
        OBVIOUS
    <2>1. /\ stream[a] = "up" /\ devices' = {} /\ newest' = l /\ begun' = installed /\ load[l].at = "none"
          /\ beside' = UNION {load[m].todo : m \in {n \in A!Drains : Fills(n)}}
          /\ load' = [load EXCEPT ![l] = [todo |-> installed, at |-> "fill"]]
          /\ UNCHANGED <<installed, connects, stream, drain>>
        BY <1>2, <2>l DEF A!LegacySnapshot, A!MapAtFirst, A!Reads, A!Filling, Fills, A!adapters
    <2>2. l \in A!Drains /\ installed \in SUBSET Devices /\ "fill" \in Phases
        BY <1>t, <2>1, <2>l DEF LoadType, Phases
    <2>3. /\ LoadType' /\ load'[l].at = "fill" /\ load'[l].todo = installed
          /\ \A m \in A!Drains : m # l => load'[m] = load[m]
        BY <2>1, <2>2, Moves
    <2>4. \A m \in A!Drains : Fills(m)' /\ m # l => Fills(m)
        BY <2>3 DEF Fills
    <2>5. \A m \in A!Drains : Fills(m)' /\ m # l => load'[m].todo \subseteq beside'
        BY <2>1, <2>3, <2>4
    <2>6. Fills(l)'
        BY <2>3 DEF Fills
    <2>7. HouseInv'
        BY <2>1, <2>2, <2>3, <2>5, <2>6 DEF HouseInv
    <2>8. QED BY <2>3, <2>7 DEF LoadInv
<1>3. ASSUME NEW l \in A!Drains, NEW d \in Devices, A!FillOne(l, d) PROVE LoadInv'
    <2> DEFINE left == load[l].todo \ {d}
    <2>1. /\ Fills(l) /\ d \in load[l].todo /\ devices' = devices \cup {d}
          /\ load' = [load EXCEPT ![l].todo = left]
          /\ UNCHANGED <<installed, connects, stream, drain, newest, begun, beside>>
        BY <1>3 DEF A!FillOne, A!Filling, Fills, A!adapters
    <2>2. left \in SUBSET Devices /\ load[l].at = "fill" /\ "fill" \in Phases
        BY <1>t, <2>1 DEF LoadType, Fills, Phases
    <2>3. load' = [load EXCEPT ![l] = [todo |-> left, at |-> "fill"]]
        BY <1>t, <2>1, <2>2, TodoMoved
    <2>4. /\ LoadType' /\ load'[l].at = "fill" /\ load'[l].todo = left
          /\ \A m \in A!Drains : m # l => load'[m] = load[m]
        BY ZenonT(40), <2>1, <2>2, <2>3, Moves
    <2>5. \A m \in A!Drains : (Fills(m)' <=> Fills(m)) /\ load'[m].todo \subseteq load[m].todo
        BY <2>1, <2>4 DEF Fills
    <2>6. d \in begun \cup beside
        BY <1>t, <2>1 DEF HouseInv
    <2>7. HouseInv'
        BY <1>t, <2>1, <2>4, <2>5, <2>6 DEF HouseInv
    <2>8. QED BY <2>4, <2>7 DEF LoadInv
<1>4. ASSUME NEW l \in A!Drains, A!Torn(l) \/ A!Loaded(l) \/ A!SetReady(l) \/ A!SendReady(l) PROVE LoadInv'
    <2>1. PICK to \in {"none", "ready", "send", "dead"} : load' = [load EXCEPT ![l].at = to]
        BY <1>4 DEF A!Torn, A!Loaded, A!SetReady, A!SendReady, A!Phase
    <2>2. /\ Fills(l) => load[l].todo = {} \/ l # newest
          /\ UNCHANGED <<installed, connects, stream, drain, newest, begun, beside, devices>>
        BY <1>4 DEF A!Torn, A!Loaded, A!SetReady, A!SendReady, A!Filling, Fills, A!adapters
    <2>3. QED BY <2>1, <2>2, FillEnds
<1>5. CASE A!Install
    <2>1. installed' \subseteq Devices /\ UNCHANGED <<connects, stream, drain, devices, load, newest, begun, beside>>
        BY <1>t, <1>5 DEF A!Install, A!loading, A!adapters, LoadType
    <2>2. LoadType'
        BY <1>t, <2>1 DEF LoadType
    <2>3. QED BY <2>1, <2>2, LoadStands
<1>6. ASSUME NEW a \in Adapters, A!Attach(a) PROVE LoadInv'
    <2>1. /\ connects < MaxConnects /\ connects' = connects + 1
          /\ stream' = [stream EXCEPT ![a] = "attached"] /\ drain' = [drain EXCEPT ![a] = connects + 1]
          /\ UNCHANGED <<installed, devices, load, newest, begun, beside>>
        BY <1>6 DEF A!Attach, A!loading
    <2>2. connects + 1 \in A!Drains /\ connects + 1 \in Nat
        BY <1>t, <2>1, ServicesAssumption DEF LoadType, A!Drains
    <2>3. LoadType'
        BY <1>t, <2>1, <2>2 DEF LoadType
    <2>4. QED BY <2>1, <2>3, LoadStands
<1>7. ASSUME NEW a \in Adapters, A!ReadIds(a) \/ A!Welcome(a) \/ A!Detach(a) PROVE LoadInv'
    <2>1. /\ stream[a] # "off"
          /\ stream' \in {[stream EXCEPT ![a] = "read"], [stream EXCEPT ![a] = "up"], [stream EXCEPT ![a] = "off"]}
          /\ UNCHANGED <<installed, connects, drain, devices, load, newest, begun, beside>>
        BY <1>7 DEF A!ReadIds, A!Welcome, A!Detach, A!house, A!loading
    <2>2. LoadType'
        BY <1>t, <2>1 DEF LoadType
    <2>3. QED BY <2>1, <2>2, LoadStands
<1>8. ASSUME NEW a \in Adapters, A!TypedSnapshot(a) PROVE LoadInv'
    BY <1>1, <1>8 DEF A!TypedSnapshot, A!loading, A!adapters
<1>9. ASSUME NEW t \in A!Threads, A!Store(t) \/ A!Select(t) \/ A!Publish(t) \/ A!Collect(t) \/ A!Push(t)
      PROVE  LoadInv'
    BY <1>1, <1>9 DEF A!Store, A!Select, A!Publish, A!Collect, A!Push, A!house, A!loading, A!adapters
<1>10. CASE A!TimerConnect
    <2>1. connects' = connects + 1 /\ UNCHANGED <<installed, stream, drain, devices, load, newest, begun, beside>>
        BY <1>10 DEF A!TimerConnect, A!house, A!loading, A!adapters
    <2>2. LoadType'
        BY <1>t, <2>1 DEF LoadType
    <2>3. QED BY <2>1, <2>2, LoadStands
<1>11. CASE A!TimerAnswered \/ A!TimerGone
    BY <1>1, <1>11 DEF A!TimerAnswered, A!TimerGone, A!house, A!loading, A!adapters
<1>12. CASE UNCHANGED A!vars
    BY <1>1, <1>12 DEF A!vars, A!house, A!loading, A!adapters
<1>13. QED
    BY <1>2, <1>3, <1>4, <1>5, <1>6, <1>7, <1>8, <1>9, <1>10, <1>11, <1>12 DEF A!Next

\* An adapter of the first generation releases it, in either order.
LEMMA ReleaseStep ==
    ASSUME Generations = "v1" PROVE LoadInv /\ ReleaseInv /\ [A!Next]_(A!vars) => ReleaseInv'
<1> SUFFICES ASSUME Generations = "v1", LoadInv, ReleaseInv, [A!Next]_(A!vars) PROVE ReleaseInv'
    OBVIOUS
<1>t. LoadType /\ HouseInv
    BY DEF LoadInv
<1> USE DEF ReleaseInv
<1>1. CASE UNCHANGED <<load, ready, housed, timer, told>>
    BY <1>1
<1>2. ASSUME NEW a \in Adapters, A!LegacySnapshot(a) PROVE ReleaseInv'
    <2>l. PICK l : l = drain[a]
        OBVIOUS
    <2>1. /\ stream[a] = "up" /\ load[l].at = "none"
          /\ load' = [load EXCEPT ![l] = [todo |-> installed, at |-> "fill"]]
          /\ UNCHANGED <<installed, connects, stream, drain, ready, housed, timer, told>>
        BY <1>2, <2>l DEF A!LegacySnapshot, A!Reads, A!timers, A!adapters
    <2>2. l \in A!Drains /\ installed \in SUBSET Devices /\ "fill" \in Phases
        BY <1>t, <2>1, <2>l DEF LoadType, Phases
    <2>3. load'[l].at = "fill" /\ \A m \in A!Drains : m # l => load'[m] = load[m]
        BY <2>1, <2>2, Moves
    <2>4. \A m \in A!Drains : /\ load'[m].at = "ready" <=> load[m].at = "ready"
                              /\ load'[m].at = "send" <=> load[m].at = "send"
        BY <2>1, <2>3
    <2>5. QED BY <2>1, <2>4
<1>3. ASSUME NEW a \in Adapters, A!TypedSnapshot(a) PROVE ReleaseInv'
    BY <1>3 DEF A!TypedSnapshot
<1>4. ASSUME NEW l \in A!Drains, NEW d \in Devices, A!FillOne(l, d) PROVE ReleaseInv'
    <2> DEFINE left == load[l].todo \ {d}
    <2>1. load' = [load EXCEPT ![l].todo = left] /\ UNCHANGED <<ready, housed, timer, told>>
        BY <1>4 DEF A!FillOne, A!timers
    <2>2. \A m \in A!Drains : load'[m].at = load[m].at
        BY <1>t, <2>1 DEF LoadType
    <2>3. QED BY <2>1, <2>2
<1>5. ASSUME NEW l \in A!Drains, A!Torn(l) \/ A!Loaded(l) \/ A!SetReady(l) \/ A!SendReady(l) PROVE ReleaseInv'
    <2>1. PICK to \in {"none", "ready", "send", "dead"} : load' = [load EXCEPT ![l].at = to]
        BY <1>5 DEF A!Torn, A!Loaded, A!SetReady, A!SendReady, A!Phase
    <2>2. \A m \in A!Drains : m # l => load'[m] = load[m]
        BY <1>t, <2>1 DEF LoadType
    <2>3. CASE A!Torn(l)
        <3>1. /\ load[l].at = "fill" /\ load' = [load EXCEPT ![l].at = "dead"]
              /\ UNCHANGED <<ready, housed, timer, told>>
            BY <2>3 DEF A!Torn, A!Filling, A!Phase, A!timers
        <3>2. load'[l].at = "dead"
            BY <1>t, <3>1 DEF LoadType
        <3>3. QED BY <2>2, <3>1, <3>2
    <2>4. CASE A!Loaded(l)
        <3>1. /\ load[l].at = "fill" /\ load' = [load EXCEPT ![l].at = "ready"]
              /\ UNCHANGED <<ready, timer, told>>
            BY <2>4 DEF A!Loaded, A!Filling, A!Phase, A!timers
        <3>2. load'[l].at = "ready"
            BY <1>t, <3>1 DEF LoadType
        <3>3. QED BY <2>2, <3>1, <3>2
    <2>5. CASE A!SetReady(l)
        <3>1. ready' /\ load' = [load EXCEPT ![l].at = "send"]
            BY <2>5 DEF A!SetReady, A!Phase
        <3>2. load'[l].at = "send"
            BY <1>t, <3>1 DEF LoadType
        <3>3. QED BY <3>1, <3>2
    <2>6. CASE A!SendReady(l)
        <3>1. /\ load[l].at = "send" /\ load' = [load EXCEPT ![l].at = "none"] /\ (timer # "off" => told')
              /\ UNCHANGED <<ready, housed, timer>>
            BY <2>6 DEF A!SendReady, A!Phase, A!Line
        <3>2. load'[l].at = "none"
            BY <1>t, <3>1 DEF LoadType
        <3>3. QED BY <2>2, <3>1, <3>2
    <2>7. QED BY <1>5, <2>3, <2>4, <2>5, <2>6
<1>6. CASE A!TimerConnect
    BY <1>6 DEF A!TimerConnect, A!house, A!loading
<1>7. CASE A!TimerAnswered
    BY <1>7 DEF A!TimerAnswered, A!house, A!loading
<1>8. CASE A!TimerGone
    BY <1>8 DEF A!TimerGone, A!house, A!loading
<1>9. CASE A!Install
    BY <1>1, <1>9 DEF A!Install, A!loading, A!timers
<1>10. ASSUME NEW a \in Adapters, A!Attach(a) \/ A!ReadIds(a) \/ A!Welcome(a) \/ A!Detach(a) PROVE ReleaseInv'
    BY <1>1, <1>10 DEF A!Attach, A!ReadIds, A!Welcome, A!Detach, A!house, A!loading, A!timers
<1>11. ASSUME NEW t \in A!Threads, A!Store(t) \/ A!Select(t) \/ A!Publish(t) \/ A!Collect(t) \/ A!Push(t)
       PROVE  ReleaseInv'
    BY <1>1, <1>11 DEF A!Store, A!Select, A!Publish, A!Collect, A!Push, A!house, A!loading, A!timers
<1>12. CASE UNCHANGED A!vars
    BY <1>1, <1>12 DEF A!vars, A!house, A!loading, A!timers
<1>13. QED
    BY <1>2, <1>3, <1>4, <1>5, <1>6, <1>7, <1>8, <1>9, <1>10, <1>11, <1>12 DEF A!Next

-----------------------------------------------------------------------------
(* A service of the automations knows what the table says.                  *)

Acting(c, k) == switching[c].at # "idle" /\ switching[c].key = k
Wants(c, k) == switching[c].at \in {"clear", "push"} /\ switching[c].key = k
\* What a service will know when it has read its queue.
WillKnow(s) == IF queue[s] = <<>> THEN believes[s] = "on" ELSE queue[s][Len(queue[s])] = TRUE

Places == {"idle", "ask", "create", "find", "clear", "push"}
Calling == [at : Places, on : BOOLEAN, key : Automations \cup {"none"}]
FeedType ==
    /\ switching \in [Callers -> Calling]
    /\ lookup \in [F!Readers -> [at : {"no", "ask", "keep", "answer"}, seen : SUBSET Automations]]
    /\ enabled \subseteq Automations
    /\ feed \in [Services -> {"off", "registered", "read", "up"}] /\ read \in [Services -> BOOLEAN]
    /\ queue \in [Services -> Seq(BOOLEAN)] /\ believes \in [Services -> {"none", "on", "off"}]

\* A call that has written its rows, or found them so, agrees with the table, if
\* no other call is about the same automation.
CallFits(c) ==
    /\ lookup[c].at # "no" => switching[c].at = "ask"
    /\ switching[c].at \in {"ask", "create"} => switching[c].on = TRUE
    /\ switching[c].at = "find" => switching[c].on = FALSE
    /\ switching[c].at # "idle" => switching[c].key \in Automations
    /\ switching[c].at \in {"clear", "push"} /\ switching[c].key \notin contested =>
           (switching[c].on = TRUE <=> switching[c].key \in enabled)

\* The cache agrees with the table, or is about to be cleared; a service will
\* know what the table says, or is about to be told.
CacheFits(k) ==
    (k \in cache <=> k \in enabled) \/ \E c \in Callers : switching[c].at = "clear" /\ switching[c].key = k
Follows(s) == (\E c \in Callers : Wants(c, ServiceOf[s])) \/ (WillKnow(s) <=> ServiceOf[s] \in enabled)
FeedFits ==
    /\ FeedType /\ \A c \in Callers : CallFits(c)
    /\ cache = F!Unknown \/ \A k \in Automations \ contested : CacheFits(k)
    /\ \A s \in Services : feed[s] = "up" /\ ServiceOf[s] \notin contested => Follows(s)
FeedInv == FeedFits /\ F!Clashes \subseteq contested

\* Of an automation that is not contested there is one call, and no old answer.
LEMMA Uncontested ==
    ASSUME FeedInv, NEW k \in Automations, k \notin contested
    PROVE  /\ \A c, d \in Callers : Acting(c, k) /\ Acting(d, k) => c = d
           /\ \A r \in F!Readers : lookup[r].at = "keep" => (k \in lookup[r].seen <=> k \in enabled)
           /\ \A s \in Services : ServiceOf[s] = k /\ feed[s] = "read" => (read[s] = TRUE <=> k \in enabled)
<1>1. k \notin F!Clashes
    BY DEF FeedInv
<1>2. \A c, d \in Callers : ~(c # d /\ F!Switching(c, k) /\ F!Switching(d, k))
    BY <1>1 DEF F!Clashes
<1>3. \A r \in F!Readers : ~F!OldAnswer(r, k)
    BY <1>1 DEF F!Clashes
<1>4. \A r \in F!Readers : lookup[r].at = "keep" => (k \in lookup[r].seen <=> k \in enabled)
    BY <1>3 DEF F!OldAnswer
<1>5. ASSUME NEW s \in Services, ServiceOf[s] = k, feed[s] = "read" PROVE read[s] = TRUE <=> k \in enabled
    <2>1. s \in F!Readers /\ read[s] \in BOOLEAN
        BY DEF F!Readers, FeedInv, FeedFits, FeedType
    <2>2. read[s] = (k \in enabled)
        BY <1>3, <1>5, <2>1 DEF F!OldAnswer
    <2>3. QED BY <2>1, <2>2
<1>6. ASSUME NEW c \in Callers, NEW d \in Callers, Acting(c, k), Acting(d, k) PROVE c = d
    BY <1>2, <1>6 DEF F!Switching, Acting
<1>7. QED BY <1>4, <1>5, <1>6

\* A step that moves no call but perhaps one that is not about to tell the
\* services, and leaves rows and queues alone, leaves what they will know.
LEMMA FollowStands ==
    ASSUME FeedInv, contested \subseteq contested', UNCHANGED <<enabled, queue, believes>>,
           \A s \in Services : feed'[s] = "up" => feed[s] = "up",
           \A c \in Callers, k \in Automations : Wants(c, k) => Wants(c, k)'
    PROVE  \A s \in Services : feed'[s] = "up" /\ ServiceOf[s] \notin contested' => Follows(s)'
<1> SUFFICES ASSUME NEW s \in Services, feed'[s] = "up", ServiceOf[s] \notin contested' PROVE Follows(s)'
    OBVIOUS
<1>1. ServiceOf[s] \in Automations /\ ServiceOf[s]' = ServiceOf[s]
    BY ServicesAssumption DEF ServiceOf
<1>2. Follows(s)
    BY DEF FeedInv, FeedFits
<1>3. CASE \E c \in Callers : Wants(c, ServiceOf[s])
    <2>1. PICK c \in Callers : Wants(c, ServiceOf[s])
        BY <1>3
    <2>2. Wants(c, ServiceOf[s])'
        BY <1>1, <2>1
    <2>3. QED BY <2>2 DEF Follows
<1>4. CASE WillKnow(s) <=> ServiceOf[s] \in enabled
    <2>1. WillKnow(s)' <=> WillKnow(s)
        BY DEF WillKnow
    <2>2. QED BY <1>1, <1>4, <2>1 DEF Follows
<1>5. QED BY <1>2, <1>3, <1>4 DEF Follows

\* The cache stays as it is, and a call about to clear it, too.
LEMMA CacheStands ==
    ASSUME FeedInv, contested \subseteq contested', UNCHANGED <<enabled, cache>>,
           \A c \in Callers : switching[c].at = "clear" =>
               switching'[c].at = "clear" /\ switching'[c].key = switching[c].key
    PROVE  cache' = F!Unknown \/ \A k \in Automations \ contested' : CacheFits(k)'
BY DEF FeedInv, FeedFits, CacheFits, F!Unknown

\* No call moves, and none looks up what it did not before.
LEMMA CallsStand ==
    ASSUME FeedInv, contested \subseteq contested', UNCHANGED <<enabled, switching>>,
           \A c \in Callers : lookup'[c].at # "no" => lookup[c].at # "no"
    PROVE  \A c \in Callers : CallFits(c)'
BY DEF FeedInv, FeedFits, CallFits

\* One call moves, and changes no row but its own.
LEMMA CallMoves ==
    ASSUME FeedInv, contested \subseteq contested', NEW c \in Callers, CallFits(c)',
           \A d \in Callers : d # c => switching'[d] = switching[d] /\ lookup'[d] = lookup[d],
           \A k \in Automations : (k \in enabled' <=> k \in enabled) \/ Acting(c, k)
    PROVE  \A d \in Callers : CallFits(d)'
<1> SUFFICES ASSUME NEW d \in Callers, d # c PROVE CallFits(d)'
    OBVIOUS
<1>1. CallFits(d) /\ switching'[d] = switching[d] /\ lookup'[d] = lookup[d]
    BY DEF FeedInv, FeedFits
<1>2. ASSUME switching[d].at \in {"clear", "push"}, switching[d].key \notin contested'
      PROVE  switching[d].on = TRUE <=> switching[d].key \in enabled'
    <2>1. switching[d].key \in Automations /\ switching[d].key \notin contested
        BY <1>1, <1>2 DEF CallFits
    <2>2. ~Acting(c, switching[d].key)
        BY <1>2, <2>1, Uncontested DEF Acting
    <2>3. switching[d].on = TRUE <=> switching[d].key \in enabled
        BY <1>1, <1>2, <2>1 DEF CallFits
    <2>4. QED BY <2>1, <2>2, <2>3
<1>3. QED BY <1>1, <1>2 DEF CallFits

\* A call is at its next step.
LEMMA CallMoved ==
    ASSUME NEW f \in [Callers -> Calling], NEW c \in Callers, NEW p \in Places
    PROVE  /\ [f EXCEPT ![c].at = p] \in [Callers -> Calling]
           /\ [f EXCEPT ![c].at = p][c].at = p /\ [f EXCEPT ![c].at = p][c].on = f[c].on
           /\ [f EXCEPT ![c].at = p][c].key = f[c].key
           /\ \A d \in Callers : d # c => [f EXCEPT ![c].at = p][d] = f[d]
<1>1. f[c] \in Calling
    OBVIOUS
<1>2. [f[c] EXCEPT !.at = p] \in Calling /\ [f[c] EXCEPT !.at = p].at = p
      /\ [f[c] EXCEPT !.at = p].on = f[c].on /\ [f[c] EXCEPT !.at = p].key = f[c].key
    BY <1>1 DEF Calling
<1>3. [f EXCEPT ![c].at = p] = [f EXCEPT ![c] = [f[c] EXCEPT !.at = p]]
    OBVIOUS
<1>4. QED BY <1>2, <1>3

\* A word at the end is what a service will know.
LEMMA WordAppended ==
    ASSUME NEW q \in Seq(BOOLEAN), NEW b \in BOOLEAN
    PROVE  /\ Append(q, b) \in Seq(BOOLEAN) /\ Append(q, b) # <<>>
           /\ Append(q, b)[Len(Append(q, b))] = b
<1>1. /\ Append(q, b) \in Seq(BOOLEAN) /\ Append(q, b) # <<>> /\ Len(Append(q, b)) = Len(q) + 1
      /\ Append(q, b)[Len(q) + 1] = b
    BY AppendProperties
<1>2. QED BY <1>1

\* The rest of a queue ends as the queue did; the last word is taken with the rest empty.
LEMMA WordTaken ==
    ASSUME NEW q \in Seq(BOOLEAN), q # <<>>
    PROVE  /\ Tail(q) \in Seq(BOOLEAN) /\ Head(q) \in BOOLEAN
           /\ Tail(q) = <<>> => q[Len(q)] = Head(q)
           /\ Tail(q) # <<>> => Tail(q)[Len(Tail(q))] = q[Len(q)]
<1>1. Len(q) \in Nat /\ Len(q) > 0 /\ Head(q) = q[1] /\ q[1] \in BOOLEAN
    OBVIOUS
<1>2. /\ Tail(q) \in Seq(BOOLEAN) /\ Len(Tail(q)) = Len(q) - 1
      /\ \A i \in 1..Len(Tail(q)) : Tail(q)[i] = q[i + 1]
    BY HeadTailProperties
<1>3. CASE Tail(q) = <<>>
    <2>1. Len(q) = 1
        BY <1>1, <1>2, <1>3
    <2>2. QED BY <1>1, <1>2, <1>3, <2>1
<1>4. CASE Tail(q) # <<>>
    <2>1. Len(Tail(q)) \in 1..Len(Tail(q)) /\ Len(Tail(q)) + 1 = Len(q)
        BY <1>1, <1>2, <1>4, EmptySeq
    <2>2. QED BY <1>1, <1>2, <1>4, <2>1
<1>5. QED BY <1>3, <1>4

\* A thread looks the automations up, in the cache or in the table.
LEMMA AskStep ==
    ASSUME FeedInv, contested \subseteq contested', NEW r \in F!Readers, F!Ask(r) PROVE FeedFits'
<1>t. FeedType
    BY DEF FeedInv, FeedFits
<1>1. /\ lookup[r].at = "ask" /\ UNCHANGED <<enabled, cache, switching, feed, read, queue, believes>>
      /\ lookup' = [lookup EXCEPT ![r] = IF cache = F!Unknown THEN [at |-> "keep", seen |-> enabled]
                                                             ELSE [at |-> "answer", seen |-> {}]]
    BY DEF F!Ask, F!table, F!feed
<1>2. FeedType' /\ \A c \in Callers : lookup'[c].at # "no" => lookup[c].at # "no"
    BY <1>t, <1>1 DEF FeedType, F!Readers
<1>3. \A c \in Callers, k \in Automations : Wants(c, k) => Wants(c, k)'
    BY <1>1 DEF Wants
<1>4. cache' = F!Unknown \/ \A k \in Automations \ contested' : CacheFits(k)'
    BY <1>1, CacheStands
<1>5. \A c \in Callers : CallFits(c)'
    BY <1>1, <1>2, CallsStand
<1>6. \A s \in Services : feed'[s] = "up" /\ ServiceOf[s] \notin contested' => Follows(s)'
    BY <1>1, <1>3, FollowStands
<1>7. QED BY <1>2, <1>4, <1>5, <1>6 DEF FeedFits, F!Unknown, ServiceOf

\* What it has read fills the cache: what is not contested is read as it is.
LEMMA KeepStep ==
    ASSUME FeedInv, contested \subseteq contested', NEW r \in F!Readers, F!Keep(r) PROVE FeedFits'
<1>t. FeedType
    BY DEF FeedInv, FeedFits
<1>1. /\ lookup[r].at = "keep" /\ cache' = lookup[r].seen
      /\ UNCHANGED <<enabled, switching, feed, read, queue, believes>>
      /\ lookup' = [lookup EXCEPT ![r] = [at |-> "answer", seen |-> {}]]
    BY DEF F!Keep, F!feed
<1>2. FeedType' /\ \A c \in Callers : lookup'[c].at # "no" => lookup[c].at # "no"
    BY <1>t, <1>1 DEF FeedType, F!Readers
<1>3. \A c \in Callers, k \in Automations : Wants(c, k) => Wants(c, k)'
    BY <1>1 DEF Wants
<1>4. ASSUME NEW k \in Automations, k \notin contested' PROVE CacheFits(k)'
    BY <1>1, <1>4, Uncontested DEF CacheFits
<1>5. \A c \in Callers : CallFits(c)'
    BY <1>1, <1>2, CallsStand
<1>6. \A s \in Services : feed'[s] = "up" /\ ServiceOf[s] \notin contested' => Follows(s)'
    BY <1>1, <1>3, FollowStands
<1>7. QED BY <1>2, <1>4, <1>5, <1>6 DEF FeedFits, ServiceOf

\* A call begins.
LEMMA SwitchStep ==
    ASSUME FeedInv, contested \subseteq contested', NEW c \in Callers, F!Switch(c) PROVE FeedFits'
<1>t. FeedType /\ c \in F!Readers /\ CallFits(c)
    BY DEF FeedInv, FeedFits, F!Readers
<1>1. PICK k \in Automations, b \in BOOLEAN :
          /\ switching' = [switching EXCEPT ![c] = [at |-> IF b THEN "ask" ELSE "find", on |-> b, key |-> k]]
          /\ IF b THEN F!Begin(c) ELSE UNCHANGED lookup
    BY DEF F!Switch
<1>2. switching[c].at = "idle" /\ UNCHANGED <<enabled, cache, feed, read, queue, believes>>
    BY DEF F!Switch, F!feed
<1>3. /\ switching'[c] = [at |-> IF b THEN "ask" ELSE "find", on |-> b, key |-> k]
      /\ \A d \in Callers : d # c => switching'[d] = switching[d]
      /\ switching' \in [Callers -> Calling]
    BY <1>1, <1>t DEF FeedType, Calling, Places
<1>4. /\ lookup' \in [F!Readers -> [at : {"no", "ask", "keep", "answer"}, seen : SUBSET Automations]]
      /\ \A d \in Callers : d # c => lookup'[d] = lookup[d]
    <2>1. CASE b
        <3>1. lookup[c] \in [at : {"no", "ask", "keep", "answer"}, seen : SUBSET Automations]
            BY <1>t DEF FeedType
        <3>2. [lookup[c] EXCEPT !.at = "ask"] \in [at : {"no", "ask", "keep", "answer"}, seen : SUBSET Automations]
            BY <3>1
        <3>3. lookup' = [lookup EXCEPT ![c] = [lookup[c] EXCEPT !.at = "ask"]]
            BY <1>1, <2>1 DEF F!Begin
        <3>4. QED BY <1>t, <3>2, <3>3 DEF FeedType
    <2>2. CASE ~b
        BY <1>1, <1>t, <2>2 DEF FeedType
    <2>3. QED BY <2>1, <2>2
<1>5. ~b => lookup'[c].at = "no"
    BY <1>1, <1>2, <1>t DEF CallFits
<1>6. FeedType'
    BY <1>2, <1>3, <1>4, <1>t DEF FeedType
<1>7. CallFits(c)'
    <2>1. CASE b
        <3>1. switching'[c].at = "ask" /\ switching'[c].on = TRUE /\ switching'[c].key \in Automations
            BY <1>3, <2>1
        <3>2. QED BY <3>1 DEF CallFits
    <2>2. CASE ~b
        <3>1. switching'[c].at = "find" /\ switching'[c].on = FALSE /\ switching'[c].key \in Automations
            BY <1>3, <2>2
        <3>2. QED BY <1>5, <2>2, <3>1 DEF CallFits
    <2>3. QED BY <2>1, <2>2
<1>8. \A d \in Callers : CallFits(d)'
    BY <1>2, <1>3, <1>4, <1>7, CallMoves
<1>9. cache' = F!Unknown \/ \A x \in Automations \ contested' : CacheFits(x)'
    BY <1>2, <1>3, CacheStands
<1>10. \A d \in Callers, x \in Automations : Wants(d, x) => Wants(d, x)'
    BY <1>2, <1>3 DEF Wants
<1>11. \A s \in Services : feed'[s] = "up" /\ ServiceOf[s] \notin contested' => Follows(s)'
    BY <1>2, <1>10, FollowStands
<1>12. QED BY <1>6, <1>8, <1>9, <1>11 DEF FeedFits, F!Unknown, ServiceOf

\* Common to the steps of a call after the first.
LEMMA CallGoes ==
    ASSUME FeedInv, contested \subseteq contested', NEW c \in Callers, NEW p \in Places, F!Goto(c, p)
    PROVE  /\ c \in F!Readers /\ FeedType /\ CallFits(c)
           /\ switching' \in [Callers -> Calling] /\ switching'[c].at = p /\ switching'[c].on = switching[c].on
           /\ switching'[c].key = switching[c].key
           /\ \A d \in Callers : d # c => switching'[d] = switching[d]
<1>1. FeedType /\ CallFits(c) /\ c \in F!Readers
    BY DEF FeedInv, FeedFits, F!Readers
<1>2. switching' = [switching EXCEPT ![c].at = p]
    BY DEF F!Goto
<1>3. QED BY SMTT(30), <1>1, <1>2, CallMoved DEF FeedType

\* The call believes what it was told: if the cache has its automation and it is
\* not contested, the table has it.
LEMMA HasStep ==
    ASSUME FeedInv, contested \subseteq contested', NEW c \in Callers, F!Has(c) PROVE FeedFits'
<1>1. PICK p \in Places : p = IF cache = F!Unknown THEN "idle" ELSE IF switching[c].key \in cache THEN "push" ELSE "create"
    BY DEF Places
<1>2. /\ F!Goto(c, p) /\ lookup[c].at = "answer" /\ lookup' = [lookup EXCEPT ![c] = F!NoLookup]
      /\ UNCHANGED <<enabled, cache, feed, read, queue, believes>>
    BY <1>1 DEF F!Has, F!Answers, F!Done, F!feed
<1>3. /\ c \in F!Readers /\ FeedType /\ CallFits(c)
      /\ switching' \in [Callers -> Calling] /\ switching'[c].at = p /\ switching'[c].on = switching[c].on
      /\ switching'[c].key = switching[c].key /\ \A d \in Callers : d # c => switching'[d] = switching[d]
    BY <1>2, CallGoes
<1>4. switching[c].at = "ask" /\ switching[c].on = TRUE /\ switching[c].key \in Automations
    BY <1>2, <1>3 DEF CallFits
<1>5. /\ lookup' \in [F!Readers -> [at : {"no", "ask", "keep", "answer"}, seen : SUBSET Automations]]
      /\ lookup'[c].at = "no" /\ \A d \in Callers : d # c => lookup'[d] = lookup[d]
    BY <1>2, <1>3 DEF FeedType, F!NoLookup
<1>6. FeedType'
    BY <1>2, <1>3, <1>5 DEF FeedType
<1>7. CallFits(c)'
    <2>1. CASE p = "push"
        <3>1. cache # F!Unknown /\ switching[c].key \in cache
            BY <1>1, <2>1
        <3>2. ASSUME switching[c].key \notin contested' PROVE switching[c].key \in enabled
            <4>1. switching[c].key \notin contested /\ CacheFits(switching[c].key)
                BY <1>4, <3>1, <3>2 DEF FeedInv, FeedFits
            <4>2. ~\E d \in Callers : switching[d].at = "clear" /\ switching[d].key = switching[c].key
                BY <1>4, <4>1, Uncontested DEF Acting
            <4>3. QED BY <3>1, <4>1, <4>2 DEF CacheFits
        <3>3. QED BY <1>2, <1>3, <1>4, <1>5, <2>1, <3>2 DEF CallFits
    <2>2. CASE p \in {"idle", "create"}
        BY <1>3, <1>4, <1>5, <2>2 DEF CallFits
    <2>3. QED BY <1>1, <2>1, <2>2
<1>8. \A d \in Callers : CallFits(d)'
    BY <1>2, <1>3, <1>5, <1>7, CallMoves
<1>9. cache' = F!Unknown \/ \A x \in Automations \ contested' : CacheFits(x)'
    BY <1>2, <1>3, <1>4, CacheStands
<1>10. \A d \in Callers, x \in Automations : Wants(d, x) => Wants(d, x)'
    BY <1>3, <1>4 DEF Wants
<1>11. \A s \in Services : feed'[s] = "up" /\ ServiceOf[s] \notin contested' => Follows(s)'
    BY <1>2, <1>10, FollowStands
<1>12. QED BY <1>6, <1>8, <1>9, <1>11 DEF FeedFits, F!Unknown, ServiceOf

\* A service is about to be told of the row that changed, and the other rows stand.
LEMMA RowFollows ==
    ASSUME FeedInv, contested \subseteq contested', NEW c \in Callers, NEW k,
           UNCHANGED <<feed, queue, believes>>, switching[c].at \in {"create", "find"},
           switching'[c].at \in {"clear", "push"}, switching'[c].key = k,
           \A d \in Callers : d # c => switching'[d] = switching[d],
           enabled' = enabled \cup {k} \/ enabled' = enabled \ {k}
    PROVE  \A s \in Services : feed'[s] = "up" /\ ServiceOf[s] \notin contested' => Follows(s)'
<1> SUFFICES ASSUME NEW s \in Services, feed[s] = "up", ServiceOf[s] \notin contested' PROVE Follows(s)'
    BY DEF ServiceOf
<1>1. CASE ServiceOf[s] = k
    <2>1. Wants(c, ServiceOf[s])'
        BY <1>1 DEF Wants, ServiceOf
    <2>2. QED BY <2>1 DEF Follows
<1>2. CASE ServiceOf[s] # k
    <2>1. Follows(s)
        BY DEF FeedInv, FeedFits
    <2>2. WillKnow(s)' <=> WillKnow(s)
        BY DEF WillKnow
    <2>3. \A d \in Callers : Wants(d, ServiceOf[s]) => Wants(d, ServiceOf[s])'
        BY DEF Wants, ServiceOf
    <2>4. ServiceOf[s] \in enabled' <=> ServiceOf[s] \in enabled
        BY <1>2
    <2>5. QED BY <2>1, <2>2, <2>3, <2>4 DEF Follows, ServiceOf
<1>3. QED BY <1>1, <1>2

\* A row is added, unless there is one.
LEMMA CreateStep ==
    ASSUME FeedInv, contested \subseteq contested', NEW c \in Callers, F!Create(c) PROVE FeedFits'
<1>k. PICK k : k = switching[c].key
    OBVIOUS
<1>1. PICK p \in Places : p = IF k \in enabled THEN "idle" ELSE "clear"
    BY DEF Places
<1>2. /\ F!Goto(c, p) /\ switching[c].at = "create" /\ enabled' = enabled \cup {k}
      /\ UNCHANGED <<cache, lookup, feed, read, queue, believes>>
    BY <1>k, <1>1 DEF F!Create, F!feed
<1>3. /\ c \in F!Readers /\ FeedType /\ CallFits(c)
      /\ switching' \in [Callers -> Calling] /\ switching'[c].at = p /\ switching'[c].on = switching[c].on
      /\ switching'[c].key = k /\ \A d \in Callers : d # c => switching'[d] = switching[d]
    BY <1>k, <1>2, CallGoes
<1>4. switching[c].on = TRUE /\ k \in Automations /\ lookup[c].at = "no" /\ Acting(c, k)
    BY <1>k, <1>2, <1>3 DEF CallFits, Acting, FeedType
<1>5. FeedType'
    BY <1>2, <1>3, <1>4 DEF FeedType
<1>6. CallFits(c)'
    BY <1>1, <1>2, <1>3, <1>4 DEF CallFits
<1>7. \A d \in Callers : CallFits(d)'
    BY <1>2, <1>3, <1>4, <1>6, CallMoves DEF Acting
<1>8. cache' = F!Unknown \/ \A x \in Automations \ contested' : CacheFits(x)'
    BY <1>1, <1>2, <1>3 DEF FeedInv, FeedFits, CacheFits, F!Unknown
<1>9. \A s \in Services : feed'[s] = "up" /\ ServiceOf[s] \notin contested' => Follows(s)'
    <2>1. CASE p = "idle"
        <3>1. enabled' = enabled /\ \A d \in Callers, x \in Automations : Wants(d, x) => Wants(d, x)'
            BY <1>1, <1>2, <1>3, <2>1 DEF Wants
        <3>2. QED BY <1>2, <3>1, FollowStands
    <2>2. CASE p = "clear"
        BY <1>2, <1>3, <2>2, RowFollows
    <2>3. QED BY <1>1, <2>1, <2>2
<1>10. QED BY <1>5, <1>7, <1>8, <1>9 DEF FeedFits, F!Unknown, ServiceOf

\* A row is taken away, if there is one.
LEMMA FindStep ==
    ASSUME FeedInv, contested \subseteq contested', NEW c \in Callers, F!Find(c) PROVE FeedFits'
<1>k. PICK k : k = switching[c].key
    OBVIOUS
<1>1. PICK p \in Places : p = IF k \in enabled THEN "clear" ELSE "push"
    BY DEF Places
<1>2. /\ F!Goto(c, p) /\ switching[c].at = "find" /\ enabled' = enabled \ {k}
      /\ UNCHANGED <<cache, lookup, feed, read, queue, believes>>
    BY <1>k, <1>1 DEF F!Find, F!feed
<1>3. /\ c \in F!Readers /\ FeedType /\ CallFits(c)
      /\ switching' \in [Callers -> Calling] /\ switching'[c].at = p /\ switching'[c].on = switching[c].on
      /\ switching'[c].key = k /\ \A d \in Callers : d # c => switching'[d] = switching[d]
    BY <1>k, <1>2, CallGoes
<1>4. switching[c].on = FALSE /\ k \in Automations /\ lookup[c].at = "no" /\ Acting(c, k)
    BY <1>k, <1>2, <1>3 DEF CallFits, Acting, FeedType
<1>5. FeedType'
    BY <1>2, <1>3, <1>4 DEF FeedType
<1>6. CallFits(c)'
    BY <1>1, <1>2, <1>3, <1>4 DEF CallFits
<1>7. \A d \in Callers : CallFits(d)'
    BY <1>2, <1>3, <1>4, <1>6, CallMoves DEF Acting
<1>8. cache' = F!Unknown \/ \A x \in Automations \ contested' : CacheFits(x)'
    BY <1>1, <1>2, <1>3 DEF FeedInv, FeedFits, CacheFits, F!Unknown
<1>9. \A s \in Services : feed'[s] = "up" /\ ServiceOf[s] \notin contested' => Follows(s)'
    BY <1>1, <1>2, <1>3, RowFollows
<1>10. QED BY <1>5, <1>7, <1>8, <1>9 DEF FeedFits, F!Unknown, ServiceOf

\* The cache is cleared.
LEMMA ClearStep ==
    ASSUME FeedInv, contested \subseteq contested', NEW c \in Callers, F!Clear(c) PROVE FeedFits'
<1>2. /\ F!Goto(c, "push") /\ switching[c].at = "clear" /\ cache' = F!Unknown /\ "push" \in Places
      /\ UNCHANGED <<enabled, lookup, feed, read, queue, believes>>
    BY DEF F!Clear, F!Cleared, F!feed, Places
<1>3. /\ c \in F!Readers /\ FeedType /\ CallFits(c)
      /\ switching' \in [Callers -> Calling] /\ switching'[c].at = "push" /\ switching'[c].on = switching[c].on
      /\ switching'[c].key = switching[c].key /\ \A d \in Callers : d # c => switching'[d] = switching[d]
    BY <1>2, CallGoes
<1>4. FeedType'
    BY <1>2, <1>3 DEF FeedType, F!Unknown
<1>5. CallFits(c)'
    BY <1>2, <1>3 DEF CallFits
<1>6. \A d \in Callers : CallFits(d)'
    BY <1>2, <1>3, <1>5, CallMoves
<1>7. \A d \in Callers, x \in Automations : Wants(d, x) => Wants(d, x)'
    BY <1>3 DEF Wants
<1>8. \A s \in Services : feed'[s] = "up" /\ ServiceOf[s] \notin contested' => Follows(s)'
    BY <1>2, <1>7, FollowStands
<1>9. QED BY <1>2, <1>4, <1>6, <1>8 DEF FeedFits, F!Unknown, ServiceOf

\* The services that have the automation are told.
LEMMA PushStep ==
    ASSUME FeedInv, contested \subseteq contested', NEW c \in Callers, F!Push(c) PROVE FeedFits'
<1>o. switching[c].on \in BOOLEAN
    BY DEF FeedInv, FeedFits, FeedType, Calling
<1>p. PICK k : k = switching[c].key
    OBVIOUS
<1>q. PICK b \in BOOLEAN : b = switching[c].on
    BY <1>o
<1>k. k = switching[c].key /\ b = switching[c].on
    BY <1>p, <1>q
<1>1. /\ switching[c].at = "push" /\ switching' = [switching EXCEPT ![c] = F!Idle]
      /\ queue' = [s \in Services |-> IF feed[s] # "off" /\ ServiceOf[s] = k THEN Append(queue[s], b) ELSE queue[s]]
      /\ UNCHANGED <<enabled, cache, lookup, feed, read, believes>>
    BY <1>k DEF F!Push, F!Subscribed
<1>t. FeedType /\ CallFits(c) /\ c \in F!Readers
    BY DEF FeedInv, FeedFits, F!Readers
<1>2. F!Idle \in Calling /\ F!Idle.at = "idle"
    BY DEF F!Idle, F!None, Calling, Places
<1>3. /\ switching' \in [Callers -> Calling] /\ switching'[c].at = "idle"
      /\ \A d \in Callers : d # c => switching'[d] = switching[d]
    BY <1>1, <1>2, <1>t DEF FeedType
<1>4. /\ lookup[c].at = "no" /\ k \in Automations
      /\ k \notin contested => (b = TRUE <=> k \in enabled)
    BY <1>k, <1>1, <1>t DEF CallFits, FeedType
<1>5. queue' \in [Services -> Seq(BOOLEAN)]
    BY <1>1, <1>t, <1>k, WordAppended DEF FeedType
<1>6. FeedType'
    BY <1>1, <1>3, <1>5, <1>t DEF FeedType
<1>7. CallFits(c)'
    BY <1>1, <1>3, <1>4 DEF CallFits
<1>8. \A d \in Callers : CallFits(d)'
    BY <1>1, <1>3, <1>7, CallMoves
<1>9. cache' = F!Unknown \/ \A x \in Automations \ contested' : CacheFits(x)'
    BY <1>1, <1>3, CacheStands
<1>10. ASSUME NEW s \in Services, feed[s] = "up", ServiceOf[s] \notin contested' PROVE Follows(s)'
    <2>1. CASE ServiceOf[s] = k
        <3>1. queue'[s] = Append(queue[s], b) /\ queue[s] \in Seq(BOOLEAN)
            BY <1>1, <1>t, <1>10, <2>1 DEF FeedType
        <3>2. queue'[s] # <<>> /\ queue'[s][Len(queue'[s])] = b
            BY <1>k, <3>1, WordAppended
        <3>3. b = TRUE <=> k \in enabled'
            BY <1>1, <1>4, <1>10, <2>1
        <3>4. WillKnow(s)' <=> ServiceOf[s] \in enabled'
            BY <2>1, <3>2, <3>3 DEF WillKnow
        <3>5. QED BY <3>4 DEF Follows, ServiceOf
    <2>2. CASE ServiceOf[s] # k
        <3>1. Follows(s)
            BY <1>10 DEF FeedInv, FeedFits
        <3>2. WillKnow(s)' <=> WillKnow(s)
            BY <1>1, <1>10, <2>2 DEF WillKnow
        <3>3. \A d \in Callers : Wants(d, ServiceOf[s]) => Wants(d, ServiceOf[s])'
            BY <1>k, <1>3, <2>2 DEF Wants, ServiceOf
        <3>4. QED BY <1>1, <3>1, <3>2, <3>3 DEF Follows, ServiceOf
    <2>3. QED BY <2>1, <2>2
<1>11. QED BY <1>1, <1>6, <1>8, <1>9, <1>10 DEF FeedFits, F!Unknown, ServiceOf

\* A service registers, and begins to look up who has its automation.
LEMMA RegisterStep ==
    ASSUME FeedInv, contested \subseteq contested', NEW s \in Services, F!Register(s) PROVE FeedFits'
<1>t. FeedType /\ s \in F!Readers /\ s \notin Callers
    BY ServicesAssumption DEF FeedInv, FeedFits, F!Readers
<1>1. /\ feed' = [feed EXCEPT ![s] = "registered"] /\ lookup' = [lookup EXCEPT ![s].at = "ask"]
      /\ UNCHANGED <<enabled, cache, switching, read, queue, believes>>
    BY DEF F!Register, F!Begin, F!table
<1>2. /\ lookup' \in [F!Readers -> [at : {"no", "ask", "keep", "answer"}, seen : SUBSET Automations]]
      /\ \A d \in Callers : lookup'[d] = lookup[d]
    <2>1. lookup[s] \in [at : {"no", "ask", "keep", "answer"}, seen : SUBSET Automations]
        BY <1>t DEF FeedType
    <2>2. [lookup[s] EXCEPT !.at = "ask"] \in [at : {"no", "ask", "keep", "answer"}, seen : SUBSET Automations]
        BY <2>1
    <2>3. lookup' = [lookup EXCEPT ![s] = [lookup[s] EXCEPT !.at = "ask"]]
        BY <1>1
    <2>4. QED BY SMTT(30), <1>t, <2>2, <2>3 DEF FeedType
<1>3. feed' \in [Services -> {"off", "registered", "read", "up"}]
      /\ \A r \in Services : feed'[r] = "up" => feed[r] = "up"
    BY <1>1, <1>t DEF FeedType
<1>4. FeedType'
    BY <1>1, <1>2, <1>3, <1>t DEF FeedType
<1>5. \A c \in Callers, k \in Automations : Wants(c, k) => Wants(c, k)'
    BY <1>1 DEF Wants
<1>6. cache' = F!Unknown \/ \A k \in Automations \ contested' : CacheFits(k)'
    BY <1>1, CacheStands
<1>7. \A c \in Callers : CallFits(c)'
    BY <1>1, <1>2, CallsStand
<1>8. \A r \in Services : feed'[r] = "up" /\ ServiceOf[r] \notin contested' => Follows(r)'
    BY <1>1, <1>3, <1>5, FollowStands
<1>9. QED BY <1>4, <1>6, <1>7, <1>8 DEF FeedFits, F!Unknown, ServiceOf

\* The stream of a service ends.
LEMMA OffStep ==
    ASSUME FeedInv, contested \subseteq contested', NEW s \in Services, F!Off(s),
           UNCHANGED <<enabled, cache, switching, read>>,
           lookup' \in [F!Readers -> [at : {"no", "ask", "keep", "answer"}, seen : SUBSET Automations]],
           \A c \in Callers : lookup'[c].at # "no" => lookup[c].at # "no"
    PROVE  FeedFits'
<1>t. FeedType
    BY DEF FeedInv, FeedFits
<1>1. /\ feed' = [feed EXCEPT ![s] = "off"] /\ queue' = [queue EXCEPT ![s] = <<>>]
      /\ believes' = [believes EXCEPT ![s] = "none"]
    BY DEF F!Off, F!None
<1>2. FeedType'
    BY <1>1, <1>t DEF FeedType
<1>3. cache' = F!Unknown \/ \A k \in Automations \ contested' : CacheFits(k)'
    BY CacheStands
<1>4. \A c \in Callers : CallFits(c)'
    BY CallsStand
<1>5. ASSUME NEW r \in Services, feed'[r] = "up", ServiceOf[r] \notin contested' PROVE Follows(r)'
    <2>1. feed[r] = "up" /\ queue'[r] = queue[r] /\ believes'[r] = believes[r]
        BY <1>1, <1>t, <1>5 DEF FeedType
    <2>2. Follows(r)
        BY <1>5, <2>1 DEF FeedInv, FeedFits
    <2>3. QED BY <2>1, <2>2 DEF Follows, Wants, WillKnow, ServiceOf
<1>6. QED BY <1>2, <1>3, <1>4, <1>5 DEF FeedFits, F!Unknown, ServiceOf

\* It takes what the lookup says; an answer that is gone ends its stream.
LEMMA ReadUsersStep ==
    ASSUME FeedInv, contested \subseteq contested', NEW s \in Services, F!ReadUsers(s) PROVE FeedFits'
<1>t. FeedType /\ s \in F!Readers
    BY DEF FeedInv, FeedFits, F!Readers
<1>1. /\ lookup' = [lookup EXCEPT ![s] = F!NoLookup] /\ UNCHANGED <<enabled, cache, switching>>
    BY DEF F!ReadUsers, F!Answers, F!Done, F!table
<1>2. /\ lookup' \in [F!Readers -> [at : {"no", "ask", "keep", "answer"}, seen : SUBSET Automations]]
      /\ \A c \in Callers : lookup'[c].at # "no" => lookup[c].at # "no"
    BY <1>1, <1>t DEF FeedType, F!NoLookup, F!Readers
<1>3. CASE cache = F!Unknown
    <2>1. F!Off(s) /\ UNCHANGED read
        BY <1>3 DEF F!ReadUsers
    <2>2. QED BY <1>1, <1>2, <2>1, OffStep
<1>4. CASE cache # F!Unknown
    <2>1. PICK b \in BOOLEAN : b = (ServiceOf[s] \in cache)
        <3>1. (ServiceOf[s] \in cache) \in BOOLEAN
            OBVIOUS
        <3>2. QED BY <3>1, Zenon
    <2>2. /\ feed' = [feed EXCEPT ![s] = "read"] /\ read' = [read EXCEPT ![s] = b]
          /\ UNCHANGED <<queue, believes>>
        BY <1>4, <2>1 DEF F!ReadUsers
    <2>3. /\ feed' \in [Services -> {"off", "registered", "read", "up"}] /\ read' \in [Services -> BOOLEAN]
          /\ \A r \in Services : feed'[r] = "up" => feed[r] = "up"
        BY <1>t, <2>2 DEF FeedType
    <2>4. FeedType'
        BY <1>1, <1>2, <1>t, <2>2, <2>3 DEF FeedType
    <2>5. \A c \in Callers, k \in Automations : Wants(c, k) => Wants(c, k)'
        BY <1>1 DEF Wants
    <2>6. cache' = F!Unknown \/ \A k \in Automations \ contested' : CacheFits(k)'
        BY <1>1, CacheStands
    <2>7. \A c \in Callers : CallFits(c)'
        BY <1>1, <1>2, CallsStand
    <2>8. \A r \in Services : feed'[r] = "up" /\ ServiceOf[r] \notin contested' => Follows(r)'
        BY <1>1, <2>2, <2>3, <2>5, FollowStands
    <2>9. QED BY <2>4, <2>6, <2>7, <2>8 DEF FeedFits, F!Unknown, ServiceOf
<1>5. QED BY <1>3, <1>4

\* The snapshot is the last word: what is not contested is read as it is.
LEMMA SnapshotStep ==
    ASSUME FeedInv, contested \subseteq contested', NEW s \in Services, F!Snapshot(s) PROVE FeedFits'
<1>t. FeedType
    BY DEF FeedInv, FeedFits
<1>p. read[s] \in BOOLEAN /\ queue[s] \in Seq(BOOLEAN)
    BY <1>t DEF FeedType
<1>b. PICK b \in BOOLEAN : b = read[s]
    BY <1>p
<1>q. PICK q \in Seq(BOOLEAN) : q = Append(queue[s], b)
    BY <1>p, WordAppended
<1>w. q # <<>> /\ q[Len(q)] = b
    BY <1>p, <1>q, WordAppended
<1>1. /\ feed[s] = "read" /\ feed' = [feed EXCEPT ![s] = "up"] /\ queue' = [queue EXCEPT ![s] = q]
      /\ UNCHANGED <<enabled, cache, switching, lookup, read, believes>>
    BY <1>b, <1>q DEF F!Snapshot, F!table
<1>2. /\ feed'[s] = "up" /\ queue'[s] = q /\ FeedType'
      /\ \A r \in Services : r # s => feed'[r] = feed[r] /\ queue'[r] = queue[r]
    BY <1>1, <1>t DEF FeedType
<1>3. cache' = F!Unknown \/ \A k \in Automations \ contested' : CacheFits(k)'
    BY <1>1, CacheStands
<1>4. \A c \in Callers : CallFits(c)'
    BY <1>1, CallsStand
<1>5. ASSUME NEW r \in Services, feed'[r] = "up", ServiceOf[r] \notin contested' PROVE Follows(r)'
    <2>1. CASE r = s
        <3>1. ServiceOf[s] \in Automations /\ ServiceOf[s] \notin contested
            BY <1>5, <2>1, ServicesAssumption
        <3>2. b = TRUE <=> ServiceOf[s] \in enabled
            BY <1>b, <1>1, <3>1, Uncontested
        <3>3. WillKnow(s)' <=> ServiceOf[s] \in enabled'
            BY <1>1, <1>w, <1>2, <3>2 DEF WillKnow
        <3>4. QED BY <2>1, <3>3 DEF Follows, ServiceOf
    <2>2. CASE r # s
        <3>1. Follows(r)
            BY <1>2, <1>5, <2>2 DEF FeedInv, FeedFits
        <3>2. QED BY <1>1, <1>2, <2>2, <3>1 DEF Follows, Wants, WillKnow, ServiceOf
    <2>3. QED BY <2>1, <2>2
<1>6. QED BY <1>2, <1>3, <1>4, <1>5 DEF FeedFits, F!Unknown, ServiceOf

\* A service reads its queue: it will know what it would have known.
LEMMA TakeStep ==
    ASSUME FeedInv, contested \subseteq contested', NEW s \in Services, F!Take(s) PROVE FeedFits'
<1>t. FeedType /\ queue[s] \in Seq(BOOLEAN)
    BY DEF FeedInv, FeedFits, FeedType
<1>1. /\ queue[s] # <<>> /\ queue' = [queue EXCEPT ![s] = Tail(queue[s])]
      /\ believes' = [believes EXCEPT ![s] = IF Head(queue[s]) THEN "on" ELSE "off"]
      /\ UNCHANGED <<enabled, cache, switching, lookup, feed, read>>
    BY DEF F!Take, F!table
<1>2. PICK q \in Seq(BOOLEAN), h \in BOOLEAN :
          /\ q = Tail(queue[s]) /\ h = Head(queue[s])
          /\ q = <<>> => queue[s][Len(queue[s])] = h
          /\ q # <<>> => q[Len(q)] = queue[s][Len(queue[s])]
    BY <1>t, <1>1, WordTaken
<1>3. /\ queue'[s] = q /\ believes'[s] = (IF h THEN "on" ELSE "off") /\ FeedType'
      /\ \A r \in Services : r # s => queue'[r] = queue[r] /\ believes'[r] = believes[r]
    BY <1>1, <1>2, <1>t DEF FeedType
<1>4. \A r \in Services : WillKnow(r)' <=> WillKnow(r)
    <2>1. WillKnow(s)' <=> WillKnow(s)
        <3>1. CASE q = <<>>
            <4>1. WillKnow(s) <=> h = TRUE
                BY <1>1, <1>2, <3>1 DEF WillKnow
            <4>2. WillKnow(s)' <=> (IF h THEN "on" ELSE "off") = "on"
                BY <1>3, <3>1 DEF WillKnow
            <4>3. QED BY <4>1, <4>2
        <3>2. CASE q # <<>>
            BY <1>1, <1>2, <1>3, <3>2 DEF WillKnow
        <3>3. QED BY <3>1, <3>2
    <2>2. QED BY <1>3, <2>1 DEF WillKnow
<1>5. cache' = F!Unknown \/ \A k \in Automations \ contested' : CacheFits(k)'
    BY <1>1, CacheStands
<1>6. \A c \in Callers : CallFits(c)'
    BY <1>1, CallsStand
<1>7. \A r \in Services : feed'[r] = "up" /\ ServiceOf[r] \notin contested' => Follows(r)'
    BY <1>1, <1>4 DEF FeedInv, FeedFits, Follows, Wants, ServiceOf
<1>8. QED BY <1>3, <1>5, <1>6, <1>7 DEF FeedFits, F!Unknown, ServiceOf

\* However switches, registrations and lookups cross.
LEMMA FeedInvStep == FeedInv /\ [F!Next]_(F!vars) => FeedInv'
<1> SUFFICES ASSUME FeedInv, [F!Next]_(F!vars) PROVE FeedInv'
    OBVIOUS
<1>1. CASE F!Next
    <2>1. contested \subseteq contested' /\ F!Clashes' \subseteq contested'
        BY <1>1 DEF F!Next
    <2>2. ASSUME NEW r \in F!Readers, F!Ask(r) \/ F!Keep(r) PROVE FeedFits'
        BY <2>1, <2>2, AskStep, KeepStep
    <2>3. ASSUME NEW c \in Callers, F!Switch(c) \/ F!Has(c) \/ F!Create(c) \/ F!Find(c) \/ F!Clear(c) \/ F!Push(c)
          PROVE  FeedFits'
        BY <2>1, <2>3, SwitchStep, HasStep, CreateStep, FindStep, ClearStep, PushStep
    <2>4. ASSUME NEW s \in Services, F!Leave(s) PROVE FeedFits'
        <3>1. F!Off(s) /\ UNCHANGED <<enabled, cache, switching, read, lookup>>
            BY <2>4 DEF F!Leave, F!table
        <3>2. lookup' \in [F!Readers -> [at : {"no", "ask", "keep", "answer"}, seen : SUBSET Automations]]
            BY <3>1 DEF FeedInv, FeedFits, FeedType
        <3>3. QED BY <2>1, <3>1, <3>2, OffStep
    <2>5. ASSUME NEW s \in Services, F!Register(s) \/ F!ReadUsers(s) \/ F!Snapshot(s) \/ F!Take(s) PROVE FeedFits'
        BY <2>1, <2>5, RegisterStep, ReadUsersStep, SnapshotStep, TakeStep
    <2>6. F!Steps
        BY <1>1 DEF F!Next
    <2>7. FeedFits'
        BY <2>2, <2>3, <2>4, <2>5, <2>6 DEF F!Steps
    <2>8. QED BY <2>1, <2>7 DEF FeedInv
<1>2. CASE UNCHANGED F!vars
    <2>1. UNCHANGED <<enabled, cache, switching, lookup, feed, read, queue, believes, contested>>
        BY <1>2 DEF F!vars, F!table, F!feed
    <2>2. F!Clashes' \subseteq contested'
        BY <2>1 DEF FeedInv, F!Clashes, F!Switching, F!OldAnswer, ServiceOf
    <2>3. FeedFits'
        BY <2>1 DEF FeedInv, FeedFits, FeedType, CallFits, CacheFits, Follows, Wants, WillKnow, F!Unknown, ServiceOf
    <2>4. QED BY <2>2, <2>3 DEF FeedInv
<1>3. QED BY <1>1, <1>2

\* Whoever connects is told all it has to know, however edits, reloads, loads,
\* switches and connects cross: for every number of services, adapters, editors,
\* states, devices and connects, with adapters of the first generation.  What
\* NoGapOnConnect leaves out, contested automations, undone states and what other
\* loads had to fill in, is left out here too.
THEOREM NoGapOnConnectAlways == ASSUME Generations = "v1" PROVE Spec => []NoGapOnConnect
<1>1. Init => FeedInv
    <2> SUFFICES ASSUME Init PROVE FeedInv
        OBVIOUS
    <2>1. F!Init
        BY DEF Init
    <2>2. /\ enabled = {} /\ cache = F!Unknown /\ switching = [c \in Callers |-> F!Idle]
          /\ lookup = [r \in F!Readers |-> F!NoLookup] /\ contested = {}
          /\ feed = [s \in Services |-> "off"] /\ read = [s \in Services |-> FALSE]
          /\ queue = [s \in Services |-> <<>>] /\ believes = [s \in Services |-> "none"]
        BY <2>1 DEF F!Init, F!None
    <2>3. F!Idle \in Calling /\ F!Idle.at = "idle" /\ F!NoLookup.at = "no"
          /\ F!NoLookup \in [at : {"no", "ask", "keep", "answer"}, seen : SUBSET Automations]
        BY DEF F!Idle, F!None, F!NoLookup, Calling, Places
    <2>4. FeedType
        BY <2>2, <2>3 DEF FeedType
    <2>5. (\A c \in Callers : switching[c].at = "idle" /\ lookup[c].at = "no")
          /\ (\A r \in F!Readers : lookup[r].at = "no") /\ (\A s \in Services : feed[s] = "off")
        BY <2>2, <2>3 DEF F!Readers
    <2>6. FeedFits
        BY <2>2, <2>4, <2>5 DEF FeedFits, CallFits
    <2>7. F!Clashes = {}
        BY <2>5 DEF F!Clashes, F!Switching, F!OldAnswer
    <2>8. QED BY <2>6, <2>7 DEF FeedInv
<1>2. FeedInv /\ [Next]_vars => FeedInv'
    BY FeedInvStep, FeedStep
<1>3. Init => WatchInv
    BY DEF Init, A!Init, A!Threads, WatchInv, WatchType, RowsRead, AllToldOf
<1>4. WatchInv /\ [Next]_vars => WatchInv'
    BY WatchStep, AgentsStep
<1>5. Init => LoadInv /\ ReleaseInv
    <2> SUFFICES ASSUME Init PROVE LoadInv /\ ReleaseInv
        OBVIOUS
    <2>1. /\ load = [l \in A!Drains |-> [todo |-> {}, at |-> "none"]] /\ installed = {} /\ connects = 0
          /\ stream = [a \in Adapters |-> "off"] /\ drain = [a \in Adapters |-> 0]
          /\ devices = {} /\ begun = {} /\ beside = {} /\ ready = FALSE /\ housed = FALSE
        BY DEF Init, A!Init, A!NoLoad
    <2>2. LoadType
        BY <2>1 DEF LoadType, Phases
    <2>3. \A l \in A!Drains : ~Fills(l)
        BY <2>1 DEF Fills
    <2>4. QED BY <2>1, <2>2, <2>3 DEF LoadInv, HouseInv, ReleaseInv
<1>6. LoadInv /\ ReleaseInv /\ [Next]_vars => LoadInv' /\ ReleaseInv'
    BY LoadStep, ReleaseStep, AgentsStep
<1>7. FeedInv => F!ServiceKnows
    <2> SUFFICES ASSUME FeedInv, NEW s \in Services, feed[s] = "up", queue[s] = <<>>, ServiceOf[s] \notin contested,
                        ~\E c \in Callers : F!Switching(c, ServiceOf[s])
                 PROVE  (believes[s] = "on") = (ServiceOf[s] \in enabled)
        BY DEF F!ServiceKnows
    <2>1. ~\E c \in Callers : Wants(c, ServiceOf[s])
        BY DEF F!Switching, Wants
    <2>2. WillKnow(s) <=> ServiceOf[s] \in enabled
        BY <2>1 DEF FeedInv, FeedFits, Follows
    <2>3. QED BY <2>2 DEF WillKnow
<1>8. WatchInv => A!TriggersAreWatched
    <2> SUFFICES ASSUME WatchInv, \A t \in A!Threads : edit[t].at = "idle",
                        NEW a \in Adapters, stream[a] = "up", NEW x \in loaded \ undone
                 PROVE  x \in watched[a]
        BY DEF A!TriggersAreWatched
    <2>1. x \in Told(a) \/ \E t \in Editors : Announces(t, x)
        BY DEF WatchInv, AllToldOf
    <2>2. QED BY <2>1 DEF Announces, Told, A!Threads
<1>9. LoadInv /\ ReleaseInv => A!HouseIsOneSnapshot /\ A!TimerIsReleased
    BY DEF LoadInv, HouseInv, ReleaseInv, Fills, A!Filling, A!HouseIsOneSnapshot, A!TimerIsReleased
<1>10. QED
    BY <1>1, <1>2, <1>3, <1>4, <1>5, <1>6, <1>7, <1>8, <1>9, PTL DEF Spec, NoGapOnConnect
=============================================================================
