--------------------------- MODULE AlarmSchedule ---------------------------
(***************************************************************************)
(* One alarm of core/hannah/alarms.py: its database row, its               *)
(* threading.Timer and the threads that touch both (WebUI and voice calls, *)
(* the timer's own _fire).  Alarms share nothing but a lock held for one   *)
(* step, so one alarm stands for each.                                     *)
(*                                                                         *)
(* Time is counted in ticks, DayLen per day.  The week has WeekLen days    *)
(* (7 in the code, whose lookahead of range(8) is WeekLen + 1 days).       *)
(***************************************************************************)
EXTENDS Integers, FiniteSets, FiniteSetsExt

CONSTANTS
    Callers,    \* threads calling the CRUD operations
    Timers,     \* threading.Timer objects that may exist at once (bound)
    DayLen, WeekLen,
    MaxDay,     \* last day simulated (bound)
    SkipLists,  \* skip_dates lists the WebUI sends in an update (bound)
    SkipDates,  \* dates a caller asks skip_occurrence for (bound)
    Overlap,    \* may calls and a firing timer overlap one another?
    NoRow, NoTimer

AlarmScheduleAssumption ==
    /\ DayLen \in Nat \ {0}
    /\ WeekLen \in Nat \ {0}
    /\ MaxDay \in Nat
    /\ SkipLists \subseteq SUBSET (0..MaxDay)
    /\ SkipDates \subseteq 0..MaxDay
    /\ Overlap \in BOOLEAN
    /\ NoTimer \notin Timers

VARIABLES
    now,     \* the wall clock
    up,      \* the Core runs
    row,     \* the alarm's row, or NoRow
    born,    \* the row has been created (ids are never reused)
    timers,  \* _timers[id], or NoTimer
    timer,   \* every Timer thread: where it is, when it is due, what it read
    call     \* every caller: its step, the row it holds, the skip date asked

vars == <<now, up, row, born, timers, timer, call>>

Days == 0..MaxDay
MaxNow == MaxDay * DayLen + DayLen - 1
Weekday(d) == d % WeekLen
FireTime(d, r) == d * DayLen + r.time

RecurringRow(Skips) ==
    [time: 0..DayLen-1, weekdays: (SUBSET (0..WeekLen-1)) \ {{}}, skip_dates: Skips,
     one_shot_date: {0}, enabled: BOOLEAN]
OneOffRow ==
    [time: 0..DayLen-1, weekdays: {{}}, skip_dates: {{}}, one_shot_date: Days,
     enabled: BOOLEAN]
Row == RecurringRow(SUBSET Days) \cup OneOffRow

Horizon == MaxDay + 2 * WeekLen
TypeOK ==
    /\ now \in 0..MaxNow
    /\ up \in BOOLEAN
    /\ row \in Row \cup {NoRow}
    /\ born \in BOOLEAN
    /\ timers \in Timers \cup {NoTimer}
    /\ \A t \in Timers :
        /\ timer[t].pc \in {"free", "armed", "started", "read", "acting", "rung"}
        /\ timer[t].at \in 0..(Horizon * DayLen)
        /\ timer[t].snap \in Row \cup {NoRow}
    /\ \A c \in Callers :
        /\ call[c].pc \in {"idle", "write", "cancel", "schedule", "skip", "drop", "delete"}
        /\ call[c].snap \in Row \cup {NoRow}
        /\ call[c].date \in Days

Idle == [pc |-> "idle", snap |-> NoRow, date |-> 0]
Free == [pc |-> "free", at |-> 0, snap |-> NoRow]

Init ==
    /\ now = 0
    /\ up = TRUE
    /\ row = NoRow
    /\ born = FALSE
    /\ timers = NoTimer
    /\ timer = [t \in Timers |-> Free]
    /\ call = [c \in Callers |-> Idle]

\* No call is under way and no timer thread is past its wait.
Undisturbed ==
    /\ \A c \in Callers : call[c] = Idle
    /\ \A t \in Timers : timer[t].pc \in {"free", "armed"}

-----------------------------------------------------------------------------
(* Scheduling.                                                             *)

\* Fault: the same weekday one week on is left out.
LookaheadShort(t) == (t \div DayLen) .. (t \div DayLen + WeekLen - 1)

\* The days looked at for the next occurrence of a recurring alarm.
Lookahead(t) == (t \div DayLen) .. (t \div DayLen + WeekLen)

\* The occurrences _compute_next_fire finds after time t.
Upcoming(r, t) ==
    LET days == IF r.weekdays = {}
                  THEN {r.one_shot_date}
                  ELSE {d \in Lookahead(t) : Weekday(d) \in r.weekdays
                                             /\ d \notin r.skip_dates}
    IN  {f \in {FireTime(d, r) : d \in days} : f > t}

\* Fault: the handle is dropped without cancelling the timer.
DropHandle(f) == f

\* _cancel_timer: cancel() reaches a timer only while it still waits.
Cancelled(f) ==
    IF timers # NoTimer /\ f[timers].pc = "armed"
      THEN [f EXCEPT ![timers] = Free]
      ELSE f

\* _schedule(r), given the Timer threads as they are otherwise left by the
\* step; the next occurrence is computed and the timer installed in one step.
Schedule(r, f) ==
    LET g == Cancelled(f) IN
    IF Upcoming(r, now) = {}
      THEN timers' = NoTimer /\ timer' = g
      ELSE \E t \in Timers :
             /\ g[t].pc = "free"
             /\ timers' = t
             /\ timer' = [g EXCEPT ![t] = [pc |-> "armed", at |-> Min(Upcoming(r, now)),
                                           snap |-> NoRow]]

-----------------------------------------------------------------------------
(* The calls.  Each reads the row, writes it, then sees to the timer.      *)

Begin(c) == up /\ call[c] = Idle /\ (Overlap \/ Undisturbed)

\* create_alarm: insert, then schedule.
Create(c, r) ==
    /\ Begin(c)
    /\ ~born
    /\ r.enabled /\ r.skip_dates = {}
    /\ born' = TRUE
    /\ row' = r
    /\ call' = [call EXCEPT ![c] = [@ EXCEPT !.pc = "schedule", !.snap = r]]
    /\ UNCHANGED <<now, up, timers, timer>>

\* update_alarm, the row has been found ...
UpdateBegin(c, r) ==
    /\ Begin(c)
    /\ row # NoRow
    /\ call' = [call EXCEPT ![c] = [@ EXCEPT !.pc = "write", !.snap = r]]
    /\ UNCHANGED <<now, up, row, born, timers, timer>>

\* ... is overwritten (UPDATE hits nothing if it is gone by now) ...
UpdateWrite(c) ==
    /\ call[c].pc = "write"
    /\ row' = IF row = NoRow THEN NoRow ELSE call[c].snap
    /\ call' = [call EXCEPT ![c].pc = "cancel"]
    /\ UNCHANGED <<now, up, born, timers, timer>>

\* ... its timer is cancelled, and set again if the alarm is enabled.
UpdateCancel(c) ==
    /\ call[c].pc = "cancel"
    /\ timer' = Cancelled(timer)
    /\ timers' = NoTimer
    /\ call' = [call EXCEPT ![c] = IF @.snap.enabled THEN [@ EXCEPT !.pc = "schedule"]
                                                     ELSE Idle]
    /\ UNCHANGED <<now, up, row, born>>

CallSchedule(c) ==
    /\ call[c].pc = "schedule"
    /\ Schedule(call[c].snap, timer)
    /\ call' = [call EXCEPT ![c] = Idle]
    /\ UNCHANGED <<now, up, row, born>>

\* skip_occurrence: read the series ...
SkipBegin(c, d) ==
    /\ Begin(c)
    /\ row # NoRow /\ row.weekdays # {}
    /\ call' = [call EXCEPT ![c] = [pc |-> "skip", snap |-> row, date |-> d]]
    /\ UNCHANGED <<now, up, row, born, timers, timer>>

\* Fault: the day after the one asked for is skipped (a time zone slip).
SkippedDayAfter(c) == call[c].snap.skip_dates \cup {call[c].date + 1}
Skipped(c) == call[c].snap.skip_dates \cup {call[c].date}

\* ... and write back the list as read, with the date added; what is scheduled
\* then is the row as read, enabled or not.
SkipWrite(c) ==
    /\ call[c].pc = "skip"
    /\ row' = IF row = NoRow \/ row.weekdays = {} THEN row
              ELSE [row EXCEPT !.skip_dates = Skipped(c)]
    /\ call' = [call EXCEPT ![c].pc = "schedule", ![c].snap.skip_dates = Skipped(c)]
    /\ UNCHANGED <<now, up, born, timers, timer>>

\* delete_alarm: find the row, cancel the timer, delete the row.
DeleteBegin(c) ==
    /\ Begin(c)
    /\ row # NoRow
    /\ call' = [call EXCEPT ![c].pc = "drop"]
    /\ UNCHANGED <<now, up, row, born, timers, timer>>

DeleteCancel(c) ==
    /\ call[c].pc = "drop"
    /\ timer' = Cancelled(timer)
    /\ timers' = NoTimer
    /\ call' = [call EXCEPT ![c].pc = "delete"]
    /\ UNCHANGED <<now, up, row, born>>

DeleteRow(c) ==
    /\ call[c].pc = "delete"
    /\ row' = NoRow
    /\ call' = [call EXCEPT ![c] = Idle]
    /\ UNCHANGED <<now, up, born, timers, timer>>

-----------------------------------------------------------------------------
(* The timer thread.                                                       *)

\* The wait is over; from here on cancel() comes too late.
TimerExpires(t) ==
    /\ timer[t].pc = "armed"
    /\ timer[t].at <= now
    /\ Overlap \/ Undisturbed
    /\ timer' = [timer EXCEPT ![t].pc = "started"]
    /\ UNCHANGED <<now, up, row, born, timers, call>>

FireRead(t) ==
    /\ timer[t].pc = "started"
    /\ timer' = [timer EXCEPT ![t].pc = "read", ![t].snap = row]
    /\ UNCHANGED <<now, up, row, born, timers, call>>

\* Whatever timer _timers holds for this alarm now is forgotten, not cancelled.
FirePop(t) ==
    /\ timer[t].pc = "read"
    /\ timers' = NoTimer
    /\ timer' = [timer EXCEPT ![t] =
                    IF @.snap = NoRow THEN Free
                    ELSE IF @.snap.enabled THEN [@ EXCEPT !.pc = "acting"] ELSE Free]
    /\ UNCHANGED <<now, up, row, born, call>>

\* on_fire and _start_ringing: the announcement takes seconds.
Ring(t) ==
    /\ timer[t].pc = "acting"
    /\ timer' = [timer EXCEPT ![t].pc = "rung"]
    /\ UNCHANGED <<now, up, row, born, timers, call>>

\* Fault: a series is not scheduled again once it has rung.
FireFinishOnce(t) ==
    /\ timer[t].pc = "rung"
    /\ timer' = [timer EXCEPT ![t] = Free]
    /\ row' = IF timer[t].snap.weekdays = {} THEN NoRow ELSE row
    /\ UNCHANGED <<now, up, born, timers, call>>

\* A one-off deletes its row, a series schedules the row as read before.
FireFinish(t) ==
    /\ timer[t].pc = "rung"
    /\ IF timer[t].snap.weekdays = {}
         THEN /\ row' = NoRow
              /\ timer' = [timer EXCEPT ![t] = Free]
              /\ UNCHANGED timers
         ELSE /\ Schedule(timer[t].snap, [timer EXCEPT ![t] = Free])
              /\ UNCHANGED row
    /\ UNCHANGED <<now, up, born, call>>

-----------------------------------------------------------------------------
Tick ==
    /\ now < MaxNow
    /\ now' = now + 1
    /\ UNCHANGED <<up, row, born, timers, timer, call>>

\* The Core stops: the timers and the calls under way are gone, the row stays.
Stop ==
    /\ up
    /\ up' = FALSE
    /\ timers' = NoTimer
    /\ timer' = [t \in Timers |-> Free]
    /\ call' = [c \in Callers |-> Idle]
    /\ UNCHANGED <<now, row, born>>

\* _load_and_reschedule_all at startup.
Boot ==
    /\ ~up
    /\ up' = TRUE
    /\ IF row = NoRow
         THEN UNCHANGED <<row, timers, timer>>
         ELSE IF row.enabled
           THEN /\ row' = IF row.weekdays = {} /\ Upcoming(row, now) = {} THEN NoRow ELSE row
                /\ Schedule(row, timer)
           ELSE UNCHANGED <<row, timers, timer>>
    /\ UNCHANGED <<now, born, call>>

CallStep(c) ==
    \/ \E r \in RecurringRow(SkipLists) \cup OneOffRow : Create(c, r) \/ UpdateBegin(c, r)
    \/ UpdateWrite(c) \/ UpdateCancel(c) \/ CallSchedule(c)
    \/ \E d \in SkipDates : SkipBegin(c, d)
    \/ SkipWrite(c)
    \/ DeleteBegin(c) \/ DeleteCancel(c) \/ DeleteRow(c)

TimerStep(t) ==
    \/ TimerExpires(t) \/ FireRead(t) \/ FirePop(t) \/ Ring(t) \/ FireFinish(t)

Next ==
    \/ \E c \in Callers : CallStep(c)
    \/ \E t \in Timers : TimerStep(t)
    \/ Tick \/ Stop \/ Boot

Spec == Init /\ [][Next]_vars

-----------------------------------------------------------------------------
(* Properties.                                                             *)

\* Every time the alarm is meant to ring, looked up far enough ahead.
Occurrences(r) ==
    IF r.weekdays = {}
      THEN {FireTime(r.one_shot_date, r)}
      ELSE {FireTime(d, r) : d \in {e \in 0..Horizon : Weekday(e) \in r.weekdays
                                                       /\ e \notin r.skip_dates}}
After(r) == {f \in Occurrences(r) : f > now}

Quiet == up /\ Undisturbed
Armed == {t \in Timers : timer[t].pc = "armed"}
Live == row # NoRow /\ row.enabled

\* At rest the timer of an alarm stands at the row's next occurrence, unless
\* it is due already (alarms.py _compute_next_fire, _schedule).
TimerMatchesRow ==
    \A t \in Armed : Quiet /\ row # NoRow /\ timer[t].at > now
        => After(row) # {} /\ timer[t].at = Min(After(row))

\* At rest an enabled alarm without skip dates that still has to ring has a
\* timer, whatever calls, firings and restarts came before.
NeverUnscheduled ==
    Quiet /\ Live /\ row.skip_dates = {} /\ After(row) # {} => Armed # {}

\* The alarm rings only for an occurrence of the row as it then stands.
RingsWhenDue ==
    [][\A t \in Timers : timer[t].pc = "acting" /\ timer'[t].pc = "rung"
          => timer[t].at \in Occurrences(timer[t].snap)]_vars

\* Claimed at core/hannah/alarms.py:154-155: skip_occurrence "reschedules um
\* diesen Termin herum", so the series stays scheduled.
SkipKeepsSeries ==
    Quiet /\ Live /\ row.weekdays # {} => Armed # {}
=============================================================================
