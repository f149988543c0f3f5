---------------------------- MODULE BleLocation ----------------------------
(***************************************************************************)
(* Where one BLE tag is (BleLocationEngine): satellites report how strong  *)
(* they hear it, the strongest fresh report wins, a timer re-evaluates so  *)
(* that a tag nobody hears any more loses its place.  Times are ages.      *)
(***************************************************************************)
EXTENDS Naturals

CONSTANTS Satellites, Strengths,
          Stale,      \* stale_timeout
          Interval,   \* of the timer, max(5, stale_timeout / 3)
          None

BleAssumption == Strengths \subseteq Nat /\ Stale \in Nat /\ Interval \in Nat \ {0}

VARIABLES rssi,     \* satellite -> its last report, or None (_reports)
          age,      \* satellite -> age of that report, saturated
          lastSat,  \* _last_sat: the place last told to MQTT and the agent
          timer     \* time since the timer ran

vars == <<rssi, age, lastSat, timer>>
Longest == Stale + Interval + 1

TypeOK == /\ rssi \in [Satellites -> Strengths \cup {None}] /\ age \in [Satellites -> 0..Longest]
          /\ lastSat \in Satellites \cup {None} /\ timer \in 0..Interval

Fresh(r, a) == {s \in Satellites : r[s] # None /\ a[s] < Stale}

\* Fault: a tag nobody hears keeps its place.
EvaluateKeeps(r, a) ==
    lastSat' \in {s \in Fresh(r, a) : \A t \in Fresh(r, a) : r[t] <= r[s]}
                 \cup (IF Fresh(r, a) = {} THEN {lastSat} ELSE {})

\* Fault: a place is only given up when its own reports go stale.
EvaluateSticks(r, a) ==
    lastSat' \in IF lastSat \in Fresh(r, a) THEN {lastSat}
                 ELSE IF Fresh(r, a) = {} THEN {None}
                 ELSE {s \in Fresh(r, a) : \A t \in Fresh(r, a) : r[t] <= r[s]}

\* _evaluate; among equally strong ones any may come first.
Evaluate(r, a) ==
    lastSat' \in IF Fresh(r, a) = {} THEN {None}
                 ELSE {s \in Fresh(r, a) : \A t \in Fresh(r, a) : r[t] <= r[s]}

Report(s, strength) ==
    /\ rssi' = [rssi EXCEPT ![s] = strength] /\ age' = [age EXCEPT ![s] = 0]
    /\ Evaluate(rssi', age') /\ UNCHANGED timer

TimerRuns == /\ timer = Interval /\ timer' = 0
             /\ Evaluate(rssi, age) /\ UNCHANGED <<rssi, age>>

\* Time passes, up to the moment the timer is due.
Pass == /\ timer < Interval /\ timer' = timer + 1
        /\ age' = [s \in Satellites |-> IF age[s] = Longest THEN Longest ELSE age[s] + 1]
        /\ UNCHANGED <<rssi, lastSat>>

Init == /\ rssi = [s \in Satellites |-> None] /\ age = [s \in Satellites |-> 0]
        /\ lastSat = None /\ timer = 0

Next == TimerRuns \/ Pass \/ \E s \in Satellites, strength \in Strengths : Report(s, strength)

Spec == Init /\ [][Next]_vars

-----------------------------------------------------------------------------
\* The place in use never rests on a report older than the timeout and one
\* timer interval, also when no report ever comes again.
PlaceIsRecent == lastSat # None => age[lastSat] < Stale + Interval

\* No satellite with a fresh report hears the tag better than the place in
\* use, as long as that one's own report is fresh.
PlaceIsStrongest == \A s \in Fresh(rssi, age) : lastSat \in Fresh(rssi, age) => rssi[s] <= rssi[lastSat]

\* So the place in use is the best that is known.
PlaceIsSound == PlaceIsRecent /\ PlaceIsStrongest
=============================================================================
