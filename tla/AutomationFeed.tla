--------------------------- MODULE AutomationFeed ---------------------------
(***************************************************************************)
(* One user's switch for an automation.  Its rows are in a table, a cache  *)
(* of them hangs on the user object all threads share, and the services    *)
(* that run automations are told by a stream: who has the automation when  *)
(* they register, and every switch from then on.  Calls, registrations and *)
(* the filling of the cache cross as they like; there is no lock.          *)
(***************************************************************************)
EXTENDS Naturals, Sequences

CONSTANTS Automations, Callers, \* threads that switch: RPC, speech, tool agent
          Services, ServiceOf,  \* service -> the automation it registers
          MaxSwitches, MaxStreams

None == "none"
Unknown == {"unknown"}          \* the cache is empty
Readers == Callers \cup Services

VARIABLES
    rows,      \* user_automations of the user
    cache,     \* _cached_enabled_automations
    call,      \* caller -> [at, on, key]: its step and what it switches
    lookup,    \* reader -> [at, seen]: its step in enabled_automations, the rows it has read
    stream,    \* service -> "off", "registered" (its automation is set), "read", "up"
    read,      \* service -> what its snapshot will say
    queue,     \* service -> what it is sent, TRUE and FALSE
    believes,  \* service -> what it knows of the user: "on", "off", None before the snapshot
    contested, \* history: automations with crossing switches, or switched while an older answer was held
    switches, streams

table == <<rows, cache, call>>
feed == <<stream, read, queue, believes>>
vars == <<table, lookup, feed, contested, switches, streams>>

Idle == [at |-> "idle", on |-> FALSE, key |-> None]
NoLookup == [at |-> "no", seen |-> {}]
TypeOK ==
    /\ rows \subseteq Automations /\ (cache = Unknown \/ cache \subseteq Automations)
    /\ call \in [Callers -> [at : {"idle", "ask", "create", "find", "clear", "push"}, on : BOOLEAN,
                             key : Automations \cup {None}]]
    /\ lookup \in [Readers -> [at : {"no", "ask", "keep", "answer"}, seen : SUBSET Automations]]
    /\ stream \in [Services -> {"off", "registered", "read", "up"}] /\ read \in [Services -> BOOLEAN]
    /\ \A s \in Services : queue[s] \in Seq(BOOLEAN) /\ believes[s] \in {None, "on", "off"}
    /\ contested \subseteq Automations /\ switches \in 0..MaxSwitches /\ streams \in 0..MaxStreams

Init ==
    /\ rows = {} /\ cache = Unknown /\ call = [c \in Callers |-> Idle]
    /\ lookup = [r \in Readers |-> NoLookup]
    /\ stream = [s \in Services |-> "off"] /\ read = [s \in Services |-> FALSE]
    /\ queue = [s \in Services |-> << >>] /\ believes = [s \in Services |-> None]
    /\ contested = {} /\ switches = 0 /\ streams = 0

-----------------------------------------------------------------------------
(* enabled_automations, on whichever thread asks *)

Begin(r) == lookup' = [lookup EXCEPT ![r].at = "ask"]
Done(r) == lookup' = [lookup EXCEPT ![r] = NoLookup]

\* The table is read if there is no cache.
Ask(r) ==
    /\ lookup[r].at = "ask"
    /\ lookup' = [lookup EXCEPT ![r] = IF cache = Unknown THEN [at |-> "keep", seen |-> rows]
                                                          ELSE [at |-> "answer", seen |-> {}]]
    /\ UNCHANGED <<table, feed, switches, streams>>
Keep(r) ==
    /\ lookup[r].at = "keep" /\ cache' = lookup[r].seen
    /\ lookup' = [lookup EXCEPT ![r] = [at |-> "answer", seen |-> {}]]
    /\ UNCHANGED <<rows, call, feed, switches, streams>>
\* What is returned is the cache once more; None, if it was cleared meanwhile,
\* raises in has_automation.
Answers(r) == lookup[r].at = "answer" /\ Done(r)

-----------------------------------------------------------------------------
(* SetAutomation *)

Switch(c) ==
    /\ call[c].at = "idle" /\ switches < MaxSwitches /\ switches' = switches + 1
    /\ \E k \in Automations, b \in BOOLEAN :
         /\ call' = [call EXCEPT ![c] = [at |-> IF b THEN "ask" ELSE "find", on |-> b, key |-> k]]
         /\ IF b THEN Begin(c) ELSE UNCHANGED lookup
    /\ UNCHANGED <<rows, cache, feed, streams>>

Goto(c, at) == call' = [call EXCEPT ![c].at = at]

\* enable_automation believes the cache.
Has(c) ==
    /\ Answers(c)
    /\ Goto(c, IF cache = Unknown THEN "idle" ELSE IF call[c].key \in cache THEN "push" ELSE "create")
    /\ UNCHANGED <<rows, cache, feed, switches, streams>>

\* A second row for the key is refused, and the call ends without a push.
Create(c) ==
    /\ call[c].at = "create" /\ rows' = rows \cup {call[c].key}
    /\ Goto(c, IF call[c].key \in rows THEN "idle" ELSE "clear")
    /\ UNCHANGED <<cache, lookup, feed, switches, streams>>
\* disable_automation looks into the table.
Find(c) ==
    /\ call[c].at = "find" /\ rows' = rows \ {call[c].key}
    /\ Goto(c, IF call[c].key \in rows THEN "clear" ELSE "push")
    /\ UNCHANGED <<cache, lookup, feed, switches, streams>>

\* Fault: the cache is left as it was.
Uncleared == cache
Cleared == Unknown
Clear(c) ==
    /\ call[c].at = "clear" /\ cache' = Cleared /\ Goto(c, "push")
    /\ UNCHANGED <<rows, lookup, feed, switches, streams>>

\* Fault: every service is told of every automation.
Anybody(s, key) == stream[s] # "off"
Subscribed(s, key) == stream[s] # "off" /\ ServiceOf[s] = key

\* push_automation_update, whatever was there before.
Push(c) ==
    /\ call[c].at = "push" /\ call' = [call EXCEPT ![c] = Idle]
    /\ queue' = [s \in Services |-> IF Subscribed(s, call[c].key) THEN Append(queue[s], call[c].on) ELSE queue[s]]
    /\ UNCHANGED <<rows, cache, lookup, stream, read, believes, switches, streams>>

-----------------------------------------------------------------------------
(* AutomationConnect *)

Register(s) ==
    /\ stream[s] = "off" /\ streams < MaxStreams /\ streams' = streams + 1
    /\ stream' = [stream EXCEPT ![s] = "registered"] /\ Begin(s)
    /\ UNCHANGED <<table, read, queue, believes, switches>>

Off(s) == /\ stream' = [stream EXCEPT ![s] = "off"]
          /\ queue' = [queue EXCEPT ![s] = << >>] /\ believes' = [believes EXCEPT ![s] = None]

\* get_users_with_automation_enabled asks every user; if it raises, the stream ends.
ReadUsers(s) ==
    /\ Answers(s)
    /\ IF cache = Unknown THEN Off(s) /\ UNCHANGED read
       ELSE /\ stream' = [stream EXCEPT ![s] = "read"] /\ read' = [read EXCEPT ![s] = ServiceOf[s] \in cache]
            /\ UNCHANGED <<queue, believes>>
    /\ UNCHANGED <<table, switches, streams>>
Snapshot(s) ==
    /\ stream[s] = "read" /\ stream' = [stream EXCEPT ![s] = "up"]
    /\ queue' = [queue EXCEPT ![s] = Append(@, read[s])]
    /\ UNCHANGED <<table, lookup, read, believes, switches, streams>>
Take(s) ==
    /\ queue[s] # << >> /\ queue' = [queue EXCEPT ![s] = Tail(@)]
    /\ believes' = [believes EXCEPT ![s] = IF Head(queue[s]) THEN "on" ELSE "off"]
    /\ UNCHANGED <<table, lookup, stream, read, switches, streams>>
Leave(s) ==
    /\ stream[s] = "up" /\ Off(s)
    /\ UNCHANGED <<table, lookup, read, switches, streams>>

\* An answer about automation k that is not what the table says, still in use.
Switching(c, k) == call[c].at # "idle" /\ call[c].key = k
OldAnswer(r, k) ==
    \/ lookup[r].at = "keep" /\ (k \in lookup[r].seen) # (k \in rows)
    \/ r \in Services /\ ServiceOf[r] = k /\ stream[r] = "read" /\ read[r] # (k \in rows)
Clashes ==
    {k \in Automations : \/ \E c, d \in Callers : c # d /\ Switching(c, k) /\ Switching(d, k)
                         \/ \E r \in Readers : OldAnswer(r, k)}

Steps ==
    \/ \E r \in Readers : Ask(r) \/ Keep(r)
    \/ \E c \in Callers : Switch(c) \/ Has(c) \/ Create(c) \/ Find(c) \/ Clear(c) \/ Push(c)
    \/ \E s \in Services : Register(s) \/ ReadUsers(s) \/ Snapshot(s) \/ Take(s) \/ Leave(s)
Next == Steps /\ contested' = contested \cup Clashes'
Spec == Init /\ [][Next]_vars

-----------------------------------------------------------------------------
\* A service that has read its stream to the end knows what the table says of
\* its automation once no call for it is under way (the snapshot followed by the
\* live deltas), whatever was switched for others through the same cache; but if
\* two calls for it crossed, or it was switched while a thread still held an
\* older answer: then a delta may come before the older snapshot, deltas in the
\* wrong order, and a cache filled late makes a switch without effect.
ServiceKnows ==
    \A s \in Services :
        /\ stream[s] = "up" /\ queue[s] = << >> /\ ServiceOf[s] \notin contested
        /\ ~\E c \in Callers : Switching(c, ServiceOf[s])
        => (believes[s] = "on") = (ServiceOf[s] \in rows)

\* Claimed at core/hannah/grpc_server.py:1950: the snapshot, followed by the live
\* deltas, tells the service who has the automation.
EveryServiceKnows ==
    \A s \in Services :
        /\ stream[s] = "up" /\ queue[s] = << >> /\ ~\E c \in Callers : Switching(c, ServiceOf[s])
        => (believes[s] = "on") = (ServiceOf[s] \in rows)
=============================================================================
