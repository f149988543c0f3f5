----------------------------- MODULE MCServices -----------------------------
(* One run for the services around the Core (part): the updater of a host,  *)
(* the migrations of the database, the capture of a satellite by a          *)
(* collector, the switches of the automations, and the adapters' streams.   *)
EXTENDS Naturals
CONSTANTS Self, Withdrawals, MaxReleases, MaxFailures, MaxKills,
          Rows, Routines, TornBoots, MaxRuns,
          Collectors, Speakers, Calm, MaxClaims, MaxOrders, MaxFaults,
          Automations, Callers, Services, MaxSwitches, MaxStreams,
          Adapters, Generations, Editors, Reloading, States, Devices, MaxChanges, MaxConnects, Parts
VARIABLES part,
          release, files, runs, file, state, at, pos, target, again, failures, kills,
          columns, messages, groups, users, core, step, adding, settings, rows, owners, work, script,
          triggers, deleted, scripts, stops,
          captured, made, ended, streams, call, dnd, sampling, line, dialled, orders, given, voice, recording,
          rightful, faults,
          enabled, cache, switching, lookup, feed, read, queue, believes, contested, switches, feeds,
          ids, loaded, edit, undone, stream, asked, watched, installed, drain, devices, load, newest, begun, beside,
          ready, housed, timer, told, changes, connects

\* The users of a row in the old settings, and the automation of a service.
OwnerOf == [r1 |-> {"u1", "u2"}, r2 |-> {}]
ServiceOf == [s \in Services |-> IF s = "s1" THEN "k1" ELSE "k2"]

\* The tick thread edits no triggers, no caller is a service, streams are counted,
\* and a service registers an automation there is.
ASSUME ServicesAssumption ==
    /\ "tick" \notin Editors /\ Callers \cap Services = {} /\ MaxConnects \in Nat
    /\ \A s \in Services : ServiceOf[s] \in Automations

U == INSTANCE Autodeploy WITH Components <- <<"core", "autodeploy">>
M == INSTANCE Migrations WITH runs <- scripts, kills <- stops
C == INSTANCE Capture
F == INSTANCE AutomationFeed WITH rows <- enabled, call <- switching, stream <- feed, streams <- feeds
A == INSTANCE AgentStream WITH Generation <- [a \in Adapters |-> Generations],
        rows <- ids, triggers <- loaded, ids <- asked

updater == <<release, files, runs, file, state, at, pos, target, again, failures, kills>>
migration == <<columns, messages, groups, users, core, step, adding, settings, rows, owners, work, script,
               triggers, deleted, scripts, stops>>
capture == <<captured, made, ended, streams, call, dnd, sampling, line, dialled, orders, given, voice,
             recording, rightful, faults>>
automation == <<enabled, cache, switching, lookup, feed, read, queue, believes, contested, switches, feeds>>
agents == <<ids, loaded, edit, undone, stream, asked, watched, installed, drain, devices, load, newest, begun,
            beside, ready, housed, timer, told, changes, connects>>
vars == <<part, updater, migration, capture, automation, agents>>
Updating(A1) == part = "updater" /\ A1 /\ UNCHANGED <<part, migration, capture, automation, agents>>
Migrating(A1) == part = "migration" /\ A1 /\ UNCHANGED <<part, updater, capture, automation, agents>>
Capturing(A1) == part = "capture" /\ A1 /\ UNCHANGED <<part, updater, migration, automation, agents>>
Switching(A1) == part = "automation" /\ A1 /\ UNCHANGED <<part, updater, migration, capture, agents>>
Serving(A1) == part = "agents" /\ A1 /\ UNCHANGED <<part, updater, migration, capture, automation>>
Init == part \in Parts /\ U!Init /\ M!Init /\ C!Init /\ F!Init /\ A!Init
Next == Updating(U!Next) \/ Migrating(M!Next) \/ Capturing(C!Next) \/ Switching(F!Next) \/ Serving(A!Next)
Fairness ==
    /\ WF_vars(Updating(U!Updater))
    /\ \A c \in Collectors : WF_vars(Capturing(C!Handle(c)))
    /\ \A q \in C!Queues : WF_vars(Capturing(q \in ended /\ C!EndStream(q)))
Spec == Init /\ [][Next]_vars /\ Fairness

\* Autodeploy, Migrations, Capture, AutomationFeed and AgentStream state these properties.
\* Every component's newest release is installed and prepared in the end, unless
\* the updater is killed while its own files are unfinished and does not start
\* again; and what is recorded as deployed is there.  Asked where the updater runs.
InstallsInTheEnd == /\ \A n \in U!Names : <>[](part # "updater" \/ at = "gone" \/ files[n] = U!Files(release[n], "ready"))
                    /\ [][U!RecordedIsThere']_vars
\* Wherever Core and scripts are interrupted, no row is lost.
RowsSurvive == M!NothingIsLost
\* What ends late ends only what was its own.
NewerStands == C!NewerStands
\* A satellite nobody captures may be spoken to again.
HearsAgain == C!HearsAgain
\* Claimed at CHANGELOG.md:2590: TimerReady is sent after the device snapshot.
TimerIsReleased == A!TimerIsReleased
\* So who connects to the Core is told all it has to know, snapshot and changes.
NoGapOnConnect == F!ServiceKnows /\ A!TriggersAreWatched /\ A!HouseIsOneSnapshot /\ A!TimerIsReleased
=============================================================================
