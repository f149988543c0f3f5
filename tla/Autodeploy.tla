----------------------------- MODULE Autodeploy -----------------------------
(***************************************************************************)
(* The updater of a host.  One thread polls the update server, puts a      *)
(* release into the install directory, prepares it, records it in a file   *)
(* and restarts the service.  It may be killed between any two of these;   *)
(* its own files are among those it replaces.                              *)
(* A version stands for a version and its revision.                        *)
(***************************************************************************)
EXTENDS Naturals, Sequences

CONSTANTS Components,   \* in the order of the configuration, a sequence
          Self,         \* self_service
          Withdrawals,  \* may a channel go back to an older release?
          MaxReleases, MaxFailures, MaxKills   \* (bounds)

VARIABLES
    release,   \* component -> the release of its channel, 0 for none
    files,     \* component -> what its install directory holds
    runs,      \* component -> the files its service was started with
    file,      \* the state file: component -> version; a torn one reads as {}
    state,     \* the state of this cycle
    at, pos,   \* where the updater stands, and at which component
    target,    \* the release it installs
    again,     \* updated_self
    failures, kills

vars == <<release, files, runs, file, state, at, pos, target, again, failures, kills>>
Names == {Components[i] : i \in 1..Len(Components)}
Versions == 0..MaxReleases
Stages == {"partial", "copied", "ready"}
Files(v, stage) == [version |-> v, stage |-> stage]
Unknown == [c \in Names |-> 0]

TypeOK ==
    /\ release \in [Names -> Versions] /\ file \in [Names -> Versions] /\ state \in [Names -> Versions]
    /\ files \in [Names -> [version : Versions, stage : Stages]] /\ runs \in [Names -> [version : Versions, stage : Stages]]
    /\ at \in {"sleep", "check", "copy", "install", "record", "save", "restart", "gone"} /\ pos \in 0..(Len(Components) + 1)
    /\ target \in Versions /\ again \in BOOLEAN

Init ==
    /\ release = [c \in Names |-> 1] /\ files = [c \in Names |-> Files(0, "ready")] /\ runs = files
    /\ file = Unknown /\ state = Unknown /\ at = "sleep" /\ pos = 0 /\ target = 0 /\ again = FALSE
    /\ failures = 0 /\ kills = 0

Here == Components[pos]
Working(here) == at = here /\ pos \in 1..Len(Components)
Fail == failures < MaxFailures /\ failures' = failures + 1
NextComponent == at' = "check" /\ pos' = pos + 1

-----------------------------------------------------------------------------
Publish(n, v) ==
    /\ v # release[n] /\ (Withdrawals \/ v > release[n]) /\ release' = [release EXCEPT ![n] = v]
    /\ UNCHANGED <<files, runs, file, state, at, pos, target, again, failures, kills>>

\* load_state at the start of each cycle.
Poll ==
    /\ at = "sleep" /\ at' = "check" /\ pos' = 1 /\ state' = file /\ again' = FALSE
    /\ UNCHANGED <<release, files, runs, file, target, failures, kills>>

\* get_latest: nothing new, nothing to be had, or the release to install.
Check ==
    /\ Working("check")
    /\ \/ Fail /\ NextComponent /\ UNCHANGED target
       \/ state[Here] = release[Here] /\ NextComponent /\ UNCHANGED <<target, failures>>
       \/ state[Here] # release[Here] /\ target' = release[Here] /\ at' = "copy" /\ UNCHANGED <<pos, failures>>
    /\ UNCHANGED <<release, files, runs, file, state, again, kills>>

\* Downloaded and verified, or not; _extract_and_copy replaces entry by entry.
Download ==
    /\ Working("copy")
    /\ \/ Fail /\ NextComponent /\ UNCHANGED files
       \/ files' = [files EXCEPT ![Here] = Files(target, "partial")] /\ at' = "install" /\ UNCHANGED <<pos, failures>>
    /\ UNCHANGED <<release, runs, file, state, target, again, kills>>
CopyEnds ==
    /\ Working("install") /\ files[Here].stage = "partial"
    /\ \/ Fail /\ NextComponent /\ UNCHANGED files
       \/ files' = [files EXCEPT ![Here].stage = "copied"] /\ UNCHANGED <<at, pos, failures>>
    /\ UNCHANGED <<release, runs, file, state, target, again, kills>>

\* Fault: the release is recorded although its preparation failed.
RecordAnyway(ok) == TRUE
\* A release is recorded when it is prepared.
Recordable(ok) == ok

PostInstall(ok) ==
    /\ Working("install") /\ files[Here].stage = "copied"
    /\ IF ok THEN files' = [files EXCEPT ![Here].stage = "ready"] /\ UNCHANGED failures ELSE Fail /\ UNCHANGED files
    /\ IF Recordable(ok)
       THEN state' = [state EXCEPT ![Here] = target] /\ at' = "record" /\ UNCHANGED pos
       ELSE NextComponent /\ UNCHANGED state
    /\ UNCHANGED <<release, runs, file, target, again, kills>>

\* save_state: the file is emptied before it is written.
Truncate ==
    /\ Working("record") /\ file' = Unknown /\ at' = "save"
    /\ UNCHANGED <<release, files, runs, state, pos, target, again, failures, kills>>
Save ==
    /\ Working("save") /\ file' = state
    /\ IF Here = Self THEN again' = TRUE /\ NextComponent ELSE at' = "restart" /\ UNCHANGED <<pos, again>>
    /\ UNCHANGED <<release, files, runs, state, target, failures, kills>>

\* _restart_service; a failure is logged, and the next component is looked at.
Restart ==
    /\ Working("restart") /\ NextComponent
    /\ \/ runs' = [runs EXCEPT ![Here] = files[Here]] /\ UNCHANGED failures
       \/ Fail /\ UNCHANGED runs
    /\ UNCHANGED <<release, files, file, state, target, again, kills>>

\* The end of the cycle: a new updater is started with its new files.
EndOfCycle ==
    /\ at = "check" /\ pos = Len(Components) + 1 /\ at' = "sleep" /\ pos' = 0
    /\ runs' = IF again THEN [runs EXCEPT ![Self] = files[Self]] ELSE runs
    /\ UNCHANGED <<release, files, file, state, target, again, failures, kills>>

\* Killed or powered off, and started again with whatever its files are.  If they
\* were being replaced (each is removed and then copied, autodeploy.py among
\* them) or are not prepared yet, it may not start, and nobody else installs them.
Startable == IF files[Self].stage = "ready" THEN {TRUE} ELSE BOOLEAN
Kill ==
    /\ at # "gone" /\ kills < MaxKills /\ kills' = kills + 1
    /\ pos' = 0 /\ again' = FALSE /\ state' = Unknown
    /\ \E starts \in Startable :
         /\ at' = IF starts THEN "sleep" ELSE "gone"
         /\ runs' = IF starts THEN [runs EXCEPT ![Self] = files[Self]] ELSE runs
    /\ UNCHANGED <<release, files, file, target, failures>>

Updater == Poll \/ Check \/ Download \/ CopyEnds \/ (\E ok \in BOOLEAN : PostInstall(ok)) \/ Truncate \/ Save \/ Restart \/ EndOfCycle
Next == Updater \/ Kill \/ \E n \in Names, v \in Versions : Publish(n, v)
Spec == Init /\ [][Next]_vars /\ WF_vars(Updater)

-----------------------------------------------------------------------------
\* Whatever fails on the way, and wherever the updater is killed, every
\* component's newest release is installed and prepared in the end; unless it is
\* killed while its own files are unfinished, and does not start again.
InstallsInTheEnd == \A n \in Names : <>[](at = "gone" \/ files[n] = Files(release[n], "ready"))

\* Stated, and refuted: so it is wherever the updater is killed.
InstallsWhereverKilled == \A n \in Names : <>[](files[n] = Files(release[n], "ready"))

\* What is recorded as deployed is there, unless a newer release is under way.
RecordedIsThere ==
    \A n \in Names : file[n] # 0 /\ file[n] = release[n] => files[n] = Files(file[n], "ready")

\* "Deploy if a newer version is available" (autodeploy.py:deploy_component):
\* a deployed release is the one that runs.
DeployedRuns == \A n \in Names : <>[](runs[n] = files[n])
=============================================================================
