-------------------------- MODULE ComponentTracker --------------------------
(***************************************************************************)
(* Which component instances talk to the Core (ComponentTracker, the kind  *)
(* "component" of the registry), fed by the interceptor that sees every    *)
(* call.  The interceptor notes the call before a worker thread is free    *)
(* for it; a stream counts from the moment its handler runs.  Time is kept *)
(* as the age of the last call, saturated beyond the window.               *)
(***************************************************************************)
EXTENDS Naturals, FiniteSets, FiniteSetsExt

CONSTANTS Instances,     \* instance ids: a restarted process is another one
          Stayers,       \* the instances that go on sending heartbeats
          Streams,       \* streaming calls
          Entries,       \* ComponentEntry objects
          Window,        \* PRESENCE_WINDOW_S, in ticks
          MaxComponents, Workers, None

StayersAssumption == Stayers \subseteq Instances
LimitsAssumption == Window \in Nat /\ MaxComponents \in Nat \ {0} /\ Workers \in Nat \ {0}

VARIABLES alive,    \* the instances whose process runs
          listed,   \* instance -> its entry (_entries and the registry)
          owner,    \* entry -> the instance it was made for
          open,     \* entry -> open_streams
          age,      \* entry -> ticks since _last_seen_mono, Window + 1: longer
          checked,  \* an expiry check ran in this tick (_next_expiry_check)
          call,     \* stream -> "idle", "queued", "open", "done"
          handle    \* stream -> the entry seen() returned for its call

vars == <<alive, listed, owner, open, age, checked, call, handle>>

TypeOK == /\ alive \subseteq Instances
          /\ listed \in [Instances -> Entries \cup {None}]
          /\ owner \in [Entries -> Instances \cup {None}]
         /\ open \in [Entries -> Nat] /\ age \in [Entries -> 0..Window + 1]
          /\ checked \in BOOLEAN
          /\ call \in [Streams -> {"idle", "queued", "open", "done"}]
          /\ handle \in [Streams -> Entries \cup {None}]

Present == {i \in Instances : listed[i] # None}

\* Fault: whoever once streamed never expires.
ExpiredUnused(count) == {i \in Present : age[listed[i]] > Window /\ \A s \in Streams : handle[s] # listed[i]}

\* _expire_locked: who neither streams nor called within the window.
Expired(count) == {i \in Present : count[listed[i]] = 0 /\ age[listed[i]] > Window}
Without(gone) == [i \in Instances |-> IF i \in gone THEN None ELSE listed[i]]

\* An entry nobody refers to any more can be any later object.
Fresh == {e \in Entries : /\ \A i \in Instances : listed[i] # e
                          /\ \A s \in Streams : call[s] \in {"queued", "open"} => handle[s] # e}

\* Fault: an entry is dropped although a stream of its runs.
EvictedBusy(there, keep) ==
    LET others == there \ {keep}
        over == Cardinality(there \cup {keep}) - MaxComponents
    IN {gone \in SUBSET others :
           Cardinality(gone) = IF over <= 0 THEN 0 ELSE Min({over, Cardinality(others)})}

\* _make_room_locked: the longest silent ones without a stream make room.
Evicted(there, keep) ==
    LET idle == {i \in there \ {keep} : open[listed[i]] = 0}
        over == Cardinality(there \cup {keep}) - MaxComponents
    IN {gone \in SUBSET idle :
           /\ Cardinality(gone) = IF over <= 0 THEN 0 ELSE Min({over, Cardinality(idle)})
           /\ \A i \in gone, j \in idle \ gone : age[listed[i]] >= age[listed[j]]}

\* seen(): the entry of instance i, a new one if need be, e afterwards.
Seen(i, e) ==
    LET expired == IF checked THEN {} ELSE Expired(open)
        there == Present \ expired
    IN /\ checked' = TRUE
       /\ \/ /\ i \in there /\ e = listed[i]
             /\ listed' = Without(expired) /\ UNCHANGED <<owner, open>>
          \/ /\ i \notin there /\ Fresh # {} /\ e = CHOOSE f \in Fresh : TRUE
             /\ \E gone \in Evicted(there, i) :
                   listed' = [Without(expired \cup gone) EXCEPT ![i] = e]
             /\ owner' = [owner EXCEPT ![e] = i] /\ open' = [open EXCEPT ![e] = 0]
       /\ age' = [age EXCEPT ![e] = 0]

\* A unary call, the heartbeat of hannah-grpc-lib included.
Heartbeat(i) ==
    /\ i \in alive
    /\ \E e \in Entries : Seen(i, e)
    /\ UNCHANGED <<alive, call, handle>>

StreamCall(s, i) ==
    /\ i \in alive /\ call[s] = "idle"
    /\ \E e \in Entries : Seen(i, e) /\ handle' = [handle EXCEPT ![s] = e]
    /\ call' = [call EXCEPT ![s] = "queued"] /\ UNCHANGED alive

\* A worker thread takes the call: stream_opened on the entry noted then.
StreamOpens(s) ==
    /\ call[s] = "queued" /\ Cardinality({t \in Streams : call[t] = "open"}) < Workers
    /\ call' = [call EXCEPT ![s] = "open"]
    /\ open' = [open EXCEPT ![handle[s]] = @ + 1]
    /\ UNCHANGED <<alive, listed, owner, age, checked, handle>>

\* Fault: the first stream that closes takes the instance's others with it.
StreamClosesAll(s) ==
    /\ call[s] = "open" /\ call' = [call EXCEPT ![s] = "done"]
    /\ open' = [open EXCEPT ![handle[s]] = 0]
    /\ listed' = Without(Expired(open')) /\ checked' = TRUE
    /\ UNCHANGED <<alive, owner, age, handle>>

StreamCloses(s) ==
    /\ call[s] = "open" /\ call' = [call EXCEPT ![s] = "done"]
    /\ open' = [open EXCEPT ![handle[s]] = IF @ = 0 THEN 0 ELSE @ - 1]
    /\ listed' = Without(Expired(open')) /\ checked' = TRUE
    /\ UNCHANGED <<alive, owner, age, handle>>

\* The stream of a process that is gone: the server's keepalive finds out.
BrokenStreamCloses(s) == handle[s] # None /\ owner[handle[s]] \notin alive /\ StreamCloses(s)

\* snapshot() and get(): the list is cleaned before it is shown.
Query ==
    /\ listed' = Without(Expired(open)) /\ checked' = TRUE
    /\ UNCHANGED <<alive, owner, open, age, call, handle>>

Tick ==
    /\ age' = [e \in Entries |-> IF age[e] > Window THEN age[e] ELSE age[e] + 1]
    /\ checked' = FALSE
    /\ UNCHANGED <<alive, listed, owner, open, call, handle>>

\* The process ends; its streams break off one after the other.
Crash(i) ==
    /\ i \in alive \ Stayers /\ alive' = alive \ {i}
    /\ UNCHANGED <<listed, owner, open, age, checked, call, handle>>

Init == /\ alive = Instances /\ listed = [i \in Instances |-> None]
        /\ owner = [e \in Entries |-> None]
        /\ open = [e \in Entries |-> 0] /\ age = [e \in Entries |-> 0] /\ checked = FALSE
        /\ call = [s \in Streams |-> "idle"] /\ handle = [s \in Streams |-> None]

Next == \/ \E i \in Instances : Heartbeat(i) \/ Crash(i) \/ \E s \in Streams : StreamCall(s, i)
        \/ \E s \in Streams : StreamOpens(s) \/ StreamCloses(s)
        \/ Query \/ Tick

\* Time passes, running components send heartbeats, broken streams end
\* (the keepalive of the server), and a free worker takes a waiting call.
Fairness == /\ WF_vars(Tick) /\ \A i \in Stayers : SF_vars(~checked /\ Heartbeat(i))
            /\ \A s \in Streams : WF_vars(StreamOpens(s)) /\ WF_vars(BrokenStreamCloses(s))

Spec == Init /\ [][Next]_vars /\ Fairness

-----------------------------------------------------------------------------
\* The count of an entry is the number of its streams that run, however
\* streams, expiry and eviction interleave: max(0, ...) never hides an
\* unbalanced close.
CountsAgree == \A e \in Entries :
    open[e] = Cardinality({s \in Streams : call[s] = "open" /\ handle[s] = e})

\* A listed entry with a running stream stays listed until it has none.
StaysWhileStreaming ==
    [][\A i \in Instances : listed[i] # None /\ open[listed[i]] > 0 /\ listed'[i] # listed[i]
           => open'[listed[i]] = 0]_vars

\* A component that died leaves the list, as long as any other one still
\* sends its heartbeats (the list has no thread of its own).
GoneLeaves == \A i \in Instances \ Stayers : []<>(i \in alive \/ listed[i] = None)

\* The list of components comes to be the list of those that run.
ListSettles == StaysWhileStreaming /\ GoneLeaves

\* "A component counts as there as long as a stream is open"
\* (component_registry.py:113): a running stream's entry is the listed one.
StreamingIsListed ==
    \A s \in Streams : call[s] = "open" => \E i \in Instances : listed[i] = handle[s]
=============================================================================
