----------------------------- MODULE Migrations -----------------------------
(***************************************************************************)
(* The schema upgrade at every start of the Core (init_db) and the scripts *)
(* of deploy/ an operator runs once, or again: settings rows move to tables*)
(* of their own, routines become triggers.  SQLite commits a statement     *)
(* that changes the schema at once; rows wait for the next commit.         *)
(***************************************************************************)
EXTENDS Naturals, Sequences, FiniteSets

CONSTANTS Rows,        \* ble.tags and cars in the old settings
          OwnerOf,     \* row -> the users its owner_roomies are linked to
          Routines,    \* rows of the routines table
          TornBoots,   \* may a start be killed between two statements of a step?
          MaxRuns, MaxKills   \* of the scripts and of the Core (bounds)

VARIABLES
    columns,   \* columns added so far
    messages,  \* the messages: "bad" keys, "good" keys, set "aside", or "lost" from sight
    groups,    \* group members are "rooms" or "satellites"
    users,     \* accounts of the first run
    core,      \* "down", "boot" or "up"
    step, adding,   \* of init_db: the column step, and its columns still to add
    settings,  \* rows left in the old settings, and whether their category is there
    rows,      \* committed rows of the new table
    owners,    \* committed <<user, row>>
    work,      \* rows and owners inserted and not committed
    script,    \* where the script stands: "none", "insert", "delete" or "routines"
    triggers,  \* committed <<routine, n>>: the trigger named after it, or name_n
    deleted,   \* history: rows somebody has deleted from the new table
    runs, kills

schema == <<columns, messages, groups, users, core, step, adding>>
data == <<settings, rows, owners, work, script, triggers, deleted>>
vars == <<schema, data, runs, kills>>

\* The steps of init_db.  "filled" stands for the UPDATE that goes with its column.
Steps == << <<"actions">>, <<"owner_user_id">>, <<"firmware_version", "update_available", "new_version">>,
            <<"name">>, <<"last_restart_at", "filled">>, <<"sender_user_id", "reply_to_id">> >>
Columns == UNION {{Steps[i][j] : j \in 1..Len(Steps[i])} : i \in 1..Len(Steps)}
Nothing == [rows |-> {}, owners |-> {}]

TypeOK ==
    /\ columns \subseteq Columns /\ messages \in {"bad", "aside", "good", "lost"} /\ groups \in {"rooms", "satellites"} /\ users \in BOOLEAN
    /\ core \in {"down", "boot", "up"} /\ step \in 0..(Len(Steps) + 1)
    /\ settings.rows \subseteq Rows /\ rows \subseteq Rows /\ deleted \subseteq Rows
    /\ script \in {"none", "insert", "delete", "routines"}
    /\ triggers \subseteq (Routines \X (1..(MaxRuns + 1)))

Init ==
    /\ columns = {} /\ messages = "bad" /\ groups = "rooms" /\ users = FALSE /\ core = "down" /\ step = 0 /\ adding = <<>>
    /\ settings = [there |-> TRUE, rows |-> Rows] /\ rows = {} /\ owners = {} /\ work = Nothing /\ script = "none"
    /\ triggers = {} /\ deleted = {} /\ runs = 0 /\ kills = 0

-----------------------------------------------------------------------------
(* init_db *)

\* The tables that are missing are created; so is an empty one for one set aside.
Boot ==
    /\ core = "down" /\ core' = "boot" /\ step' = 0 /\ adding' = <<>>
    /\ messages' = IF messages = "aside" THEN "lost" ELSE messages
    /\ UNCHANGED <<columns, groups, users, data, runs, kills>>

\* A step is needed when its first column is missing.
NextStep ==
    /\ core = "boot" /\ adding = <<>> /\ step <= Len(Steps) /\ step' = step + 1
    /\ adding' = IF step < Len(Steps) /\ Steps[step + 1][1] \notin columns THEN Steps[step + 1] ELSE <<>>
    /\ UNCHANGED <<columns, messages, groups, users, core, data, runs, kills>>
AddColumn ==
    /\ core = "boot" /\ adding # <<>>
    /\ columns' = columns \cup {Head(adding)} /\ adding' = Tail(adding)
    /\ UNCHANGED <<messages, groups, users, core, step, data, runs, kills>>

Rename ==
    /\ core = "boot" /\ step = Len(Steps) + 1 /\ messages = "bad" /\ messages' = "aside"
    /\ UNCHANGED <<columns, groups, users, core, step, adding, data, runs, kills>>
\* Copied and dropped in one transaction.
CopyBack ==
    /\ core = "boot" /\ messages = "aside" /\ messages' = "good"
    /\ UNCHANGED <<columns, groups, users, core, step, adding, data, runs, kills>>
\* Satellites of the rooms join their groups, and group_rooms goes, in one
\* transaction; a room without a satellite leaves no trace.
MoveGroups ==
    /\ core = "boot" /\ step = Len(Steps) + 1 /\ messages \in {"good", "lost"} /\ groups = "rooms" /\ groups' = "satellites"
    /\ UNCHANGED <<columns, messages, users, core, step, adding, data, runs, kills>>
\* Both first users in one transaction.
FirstRun ==
    /\ core = "boot" /\ step = Len(Steps) + 1 /\ groups = "satellites" /\ messages \in {"good", "lost"}
    /\ users' = TRUE /\ core' = "up"
    /\ UNCHANGED <<columns, messages, groups, step, adding, data, runs, kills>>

Torn == core = "boot" /\ (messages = "aside" \/ (adding # <<>> /\ adding # Steps[step]))
Kill ==
    /\ core # "down" /\ kills < MaxKills /\ kills' = kills + 1 /\ (TornBoots \/ ~Torn) /\ core' = "down"
    /\ UNCHANGED <<columns, messages, groups, users, step, adding, data, runs>>

-----------------------------------------------------------------------------
(* migrate_settings_to_models, one category; the Core has made the tables *)

Run(which) ==
    /\ columns # {} /\ script = "none" /\ runs < MaxRuns /\ runs' = runs + 1
    /\ script' = which /\ work' = Nothing
    /\ UNCHANGED <<schema, settings, rows, owners, triggers, deleted, kills>>

\* The linked owners of the rows that were inserted.
OwnersOf(new) == UNION {{<<o, r>> : o \in OwnerOf[r]} : r \in new}

\* INSERT OR IGNORE; a row that is there keeps what it has.
Insert ==
    /\ script = "insert" /\ settings.there /\ work = Nothing /\ settings.rows # {}
    /\ LET new == settings.rows \ rows IN work' = [rows |-> new, owners |-> OwnersOf(new)]
    /\ script' = "delete"
    /\ UNCHANGED <<schema, settings, rows, owners, triggers, deleted, runs, kills>>
NothingToDo ==
    /\ script = "insert" /\ (~settings.there \/ settings.rows = {}) /\ script' = "none"
    /\ UNCHANGED <<schema, settings, rows, owners, work, triggers, deleted, runs, kills>>

\* Fault: the category is deleted before the rows are committed.
DeleteFirst == TRUE
\* The rows are committed before the category is deleted.
Deletable == work = Nothing

Commit ==
    /\ script = "delete" /\ work # Nothing
    /\ rows' = rows \cup work.rows /\ owners' = owners \cup work.owners /\ work' = Nothing
    /\ UNCHANGED <<schema, settings, script, triggers, deleted, runs, kills>>
DeleteCategory ==
    /\ script = "delete" /\ Deletable
    /\ settings' = [there |-> FALSE, rows |-> {}] /\ script' = "none"
    /\ UNCHANGED <<schema, rows, owners, work, triggers, deleted, runs, kills>>

\* migrate_routines_to_triggers: a name that is taken gets the next number.
Taken(r) == {n \in 1..MaxRuns : <<r, n>> \in triggers}
CopyRoutines ==
    /\ script = "routines" /\ script' = "none"
    /\ triggers' = triggers \cup {<<r, Cardinality(Taken(r)) + 1>> : r \in Routines}
    /\ UNCHANGED <<schema, settings, rows, owners, work, deleted, runs, kills>>

\* The script is interrupted; what was not committed is gone.
Interrupted ==
    /\ script # "none" /\ script' = "none" /\ work' = Nothing
    /\ UNCHANGED <<schema, settings, rows, owners, triggers, deleted, runs, kills>>

\* Somebody deletes a row from the new table.
Delete(r) ==
    /\ core = "up" /\ work = Nothing /\ r \in rows /\ rows' = rows \ {r} /\ deleted' = deleted \cup {r}
    /\ owners' = {o \in owners : o[2] # r}
    /\ UNCHANGED <<schema, settings, work, script, triggers, runs, kills>>

Next ==
    \/ Boot \/ NextStep \/ AddColumn \/ Rename \/ CopyBack \/ MoveGroups \/ FirstRun \/ Kill
    \/ Insert \/ NothingToDo \/ Commit \/ DeleteCategory \/ CopyRoutines \/ Interrupted
    \/ (\E which \in {"insert", "routines"} : Run(which)) \/ \E r \in Rows : Delete(r)
Spec == Init /\ [][Next]_vars

-----------------------------------------------------------------------------
\* Wherever the Core and the scripts are interrupted and run again: the Core
\* runs on a complete schema with its messages and an account, and a row with
\* its owners is in the old settings or in the new table unless deleted.
NothingIsLost ==
    /\ core = "up" => columns = Columns /\ messages = "good" /\ groups = "satellites" /\ users
    /\ \A r \in Rows \ deleted :
         \/ settings.there /\ r \in settings.rows
         \/ r \in rows /\ \A o \in OwnerOf[r] : <<o, r>> \in owners

\* "Safe to re-run" (migrate_routines_to_triggers.py:4): a routine becomes one trigger.
RoutinesMigrateOnce == \A r \in Routines : Cardinality({t \in triggers : t[1] = r}) <= 1
=============================================================================
