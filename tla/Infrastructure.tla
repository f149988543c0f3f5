--------------------------- MODULE Infrastructure ---------------------------
(***************************************************************************)
(* The component registry as the log collectors use it: their streams      *)
(* (LogCollectorConnect), the feed of SubscribeInfrastructure, and the     *)
(* syslog target that follows the registry.                                *)
(*                                                                         *)
(* Everything the registry does happens under its lock, the listeners      *)
(* included, so a registration with its notifications is one action.  The  *)
(* debounce timer is a thread of its own: it may be past its wait, and on  *)
(* its way to the lock, when it is cancelled.                              *)
(***************************************************************************)
EXTENDS Naturals, Sequences, FiniteSetsExt

CONSTANTS Conns,         \* LogCollectorConnect streams
          Names,         \* instance names of log collectors, as numbers
          Receivers,     \* the streams whose collector has a syslog receiver
          Subscribers,   \* SubscribeInfrastructure streams
          Fallbacks,     \* fallback targets of the settings, the empty one included
          Timers,        \* threading.Timer objects
          MaxFailures,   \* bound: publications that fail
          MaxChanges,    \* bound: renamings and changes of the settings
          None

NamesAssumption == Names \subseteq Nat
NoneAssumption == None \notin Conns /\ None \notin Names /\ None \notin [Names -> Conns \cup {None}]
ReceiversAssumption == Receivers \subseteq Conns

VARIABLES entries,    \* registry: name -> the stream entered for it
          stream,     \* stream -> "new", "up", "renaming", "ended"
          name,       \* stream -> the name it registered (sub.instance)
          closed,     \* streams told to end (old.close())
          view,       \* subscriber -> the entries it knows, None before
          queue,      \* subscriber -> deltas not delivered yet
          collectors, \* SyslogTarget._collectors: name -> stream
          fallback,   \* the fallback of the settings
          last, fromCollector,  \* what was published last, and from where
          topic,      \* the retained message of hannah/syslog
          thread,     \* timer -> "idle", "waiting", "due"
          timer,      \* SyslogTarget._timer
          failures, changes   \* so far, for the bounds

registryVars == <<entries, stream, name, closed, view, queue>>
syslogVars == <<collectors, last, fromCollector, topic, thread, timer, failures>>
vars == <<registryVars, syslogVars, fallback, changes>>

Endpoints == [Names -> Conns \cup {None}]
Nothing == [n \in Names |-> None]

TypeOK == /\ entries \in Endpoints /\ collectors \in Endpoints
          /\ stream \in [Conns -> {"new", "up", "renaming", "ended"}]
          /\ name \in [Conns -> Names \cup {None}] /\ closed \subseteq Conns
          /\ view \in [Subscribers -> Endpoints \cup {None}]
          /\ \A s \in Subscribers : queue[s] \in Seq(Names \X (Conns \cup {None}))
          /\ {fallback, last, topic} \subseteq Fallbacks \cup Receivers \cup {None}
          /\ fromCollector \in BOOLEAN /\ timer \in Timers \cup {None}
          /\ thread \in [Timers -> {"idle", "waiting", "due"}]
          /\ failures \in 0..MaxFailures /\ changes \in 0..MaxChanges

-----------------------------------------------------------------------------
(* The syslog target.  last = None: nothing published yet, or the last     *)
(* publication failed.                                                     *)

Chosen(known) == LET there == {n \in Names : known[n] # None}
                 IN IF there = {} THEN None
                    ELSE known[CHOOSE n \in there : \A o \in there : n <= o]

\* _send: nothing goes out twice, a failed publication is forgotten.
Send(target, collector) ==
    /\ fromCollector' = collector
    /\ \/ /\ target = last
          /\ UNCHANGED <<last, topic, failures>>
       \/ /\ target # last
          /\ last' = target /\ topic' = target /\ UNCHANGED failures
       \/ /\ target # last /\ failures < MaxFailures
          /\ last' = None /\ failures' = failures + 1 /\ UNCHANGED topic
\* Fault: a cancelled timer is still taken for a running one.
CancelOnly ==
    /\ thread' = [t \in Timers |-> IF t = timer /\ thread[t] = "waiting" THEN "idle" ELSE thread[t]]
    /\ UNCHANGED timer

CancelTimer ==
    /\ timer' = None
    /\ thread' = [t \in Timers |-> IF t = timer /\ thread[t] = "waiting" THEN "idle" ELSE thread[t]]

\* _evaluate, for the collectors known and the fallback set from here on.
Evaluate(known, fall) ==
    \/ /\ Chosen(known) # None
       /\ CancelTimer /\ Send(Chosen(known), TRUE)
    \/ /\ Chosen(known) = None /\ (fromCollector \/ last = None)
       /\ UNCHANGED <<last, fromCollector, topic, failures>>
       /\ IF timer = None
          THEN \E t \in Timers : /\ thread[t] = "idle"
                                 /\ timer' = t /\ thread' = [thread EXCEPT ![t] = "waiting"]
          ELSE UNCHANGED <<timer, thread>>
    \/ /\ Chosen(known) = None /\ ~(fromCollector \/ last = None)
       /\ Send(fall, FALSE) /\ UNCHANGED <<timer, thread>>

\* The debounce interval is over; the thread goes for the lock.
TimerElapses(t) ==
    /\ thread[t] = "waiting" /\ thread' = [thread EXCEPT ![t] = "due"]
    /\ UNCHANGED <<registryVars, collectors, last, fromCollector, topic, timer, failures, fallback, changes>>

\* Fault: the fallback goes out without another look at the collectors.
FallbackUnasked(t) ==
    /\ thread[t] = "due"
    /\ thread' = [thread EXCEPT ![t] = "idle"] /\ timer' = None
    /\ Send(fallback, FALSE)
    /\ UNCHANGED <<registryVars, collectors, fallback, changes>>

FallbackDue(t) ==
    /\ thread[t] = "due"
    /\ thread' = [thread EXCEPT ![t] = "idle"] /\ timer' = None
    /\ IF Chosen(collectors) # None THEN Send(Chosen(collectors), TRUE) ELSE Send(fallback, FALSE)
    /\ UNCHANGED <<registryVars, collectors, fallback, changes>>

ChangeFallback(f) ==
    /\ changes < MaxChanges /\ changes' = changes + 1
    /\ fallback # f /\ fallback' = f
    /\ Evaluate(collectors, f)
    /\ UNCHANGED <<registryVars, collectors>>

-----------------------------------------------------------------------------
(* The registry and its listeners.                                         *)

\* Fault: a collector without a receiver is taken for a target.
NotifyAnyPort(n, c) ==
    /\ queue' = [s \in Subscribers |-> IF view[s] = None THEN queue[s] ELSE Append(queue[s], <<n, c>>)]
    /\ collectors' = [collectors EXCEPT ![n] = c]
    /\ Evaluate(collectors', fallback)

\* _notify: every subscriber queues the delta, the syslog target evaluates.
Notify(n, c) ==
    /\ queue' = [s \in Subscribers |-> IF view[s] = None THEN queue[s] ELSE Append(queue[s], <<n, c>>)]
    /\ collectors' = [collectors EXCEPT ![n] = IF c \in Receivers THEN c ELSE None]
    /\ Evaluate(collectors', fallback)
Quiet == UNCHANGED <<queue, syslogVars>>

\* Fault: a stream removes whoever is entered under its name.
UnregisterName(c) ==
    IF name[c] # None /\ entries[name[c]] # None
    THEN entries' = [entries EXCEPT ![name[c]] = None] /\ Notify(name[c], None)
    ELSE UNCHANGED entries /\ Quiet

\* unregister: only the stream that is still entered is removed.
Unregister(c) ==
    IF name[c] # None /\ entries[name[c]] = c
    THEN entries' = [entries EXCEPT ![name[c]] = None] /\ Notify(name[c], None)
    ELSE UNCHANGED entries /\ Quiet

\* _register_log_collector; a stream that registers again first leaves.
Rename(c) ==
    /\ changes < MaxChanges /\ changes' = changes + 1
    /\ stream[c] = "up" /\ Unregister(c)
    /\ stream' = [stream EXCEPT ![c] = "renaming"]
    /\ UNCHANGED <<name, closed, view, fallback>>

Register(c, n) ==
    /\ stream[c] \in {"new", "renaming"}
    /\ stream' = [stream EXCEPT ![c] = "up"] /\ name' = [name EXCEPT ![c] = n]
    /\ entries' = [entries EXCEPT ![n] = c]
    /\ closed' = closed \cup ({entries[n]} \ {None, c})
    /\ Notify(n, c)
    /\ UNCHANGED <<view, fallback, changes>>

\* The collector hangs up or its stream was displaced: the finally block.
StreamEnds(c) ==
    /\ stream[c] = "up" /\ Unregister(c)
    /\ stream' = [stream EXCEPT ![c] = "ended"]
    /\ UNCHANGED <<name, closed, view, fallback, changes>>
\* A displaced stream may not outlive the displacement.
DisplacedEnds(c) == c \in closed /\ StreamEnds(c)

\* Fault: the feed starts without the snapshot.
SubscribeEmpty(s) ==
    /\ view[s] = None
    /\ view' = [view EXCEPT ![s] = Nothing] /\ queue' = [queue EXCEPT ![s] = << >>]
    /\ UNCHANGED <<entries, stream, name, closed, syslogVars, fallback, changes>>

Subscribe(s) ==
    /\ view[s] = None
    /\ view' = [view EXCEPT ![s] = entries] /\ queue' = [queue EXCEPT ![s] = << >>]
    /\ UNCHANGED <<entries, stream, name, closed, syslogVars, fallback, changes>>

Deliver(s) ==
    /\ view[s] # None /\ queue[s] # << >>
    /\ view' = [view EXCEPT ![s][Head(queue[s])[1]] = Head(queue[s])[2]]
    /\ queue' = [queue EXCEPT ![s] = Tail(@)]
    /\ UNCHANGED <<entries, stream, name, closed, syslogVars, fallback, changes>>

Unsubscribe(s) ==
    /\ view[s] # None
    /\ view' = [view EXCEPT ![s] = None] /\ queue' = [queue EXCEPT ![s] = << >>]
    /\ UNCHANGED <<entries, stream, name, closed, syslogVars, fallback, changes>>

\* SyslogTarget.start with an empty registry: the first wait is running.
Init ==
    /\ entries = Nothing /\ collectors = Nothing
    /\ stream = [c \in Conns |-> "new"] /\ name = [c \in Conns |-> None] /\ closed = {}
    /\ view = [s \in Subscribers |-> None] /\ queue = [s \in Subscribers |-> << >>]
    /\ fallback \in Fallbacks /\ last = None /\ topic = None /\ fromCollector = FALSE
    /\ timer \in Timers /\ thread = [t \in Timers |-> IF t = timer THEN "waiting" ELSE "idle"]
    /\ failures = 0 /\ changes = 0

Next ==
    \/ \E c \in Conns : Rename(c) \/ StreamEnds(c) \/ \E n \in Names : Register(c, n)
    \/ \E s \in Subscribers : Subscribe(s) \/ Deliver(s) \/ Unsubscribe(s)
    \/ \E t \in Timers : TimerElapses(t) \/ FallbackDue(t)
    \/ \E f \in Fallbacks : ChangeFallback(f)

\* The timer threads, the loop of the feed and the handlers' finally blocks.
Fairness == /\ \A t \in Timers : WF_vars(TimerElapses(t)) /\ WF_vars(FallbackDue(t))
            /\ \A c \in Conns : WF_vars(DisplacedEnds(c))

Spec == Init /\ [][Next]_vars /\ Fairness

-----------------------------------------------------------------------------
(* Properties.                                                             *)

\* What subscriber s will know after the first k of its queued deltas: of
\* each name the last that is among them.
About(s, n, k) == {j \in 1..k : queue[s][j][1] = n}
After(s, k) == [n \in Names |-> IF About(s, n, k) = {} THEN view[s][n] ELSE queue[s][Max(About(s, n, k))][2]]

\* Every subscriber of SubscribeInfrastructure sees the registry as it was
\* and in the order it changed, from its snapshot on: nothing between the
\* snapshot and the first delta is lost or told twice.
Feed(s) == INSTANCE LaggingCopy WITH
    Value <- Endpoints, NoCopy <- None, truth <- entries, copy <- view[s],
    lag <- [k \in 1..Len(queue[s]) |-> After(s, k)]
FeedIsFaithful == /\ \A s \in Subscribers : Feed(s)!Init
                  /\ [][\A s \in Subscribers : [Feed(s)!Next]_(Feed(s)!vars)]_vars

\* A displaced stream never takes its successor out of the registry: a
\* registered stream nobody displaced is entered under its name.
RegisteredIsListed == \A c \in Conns : stream[c] = "up" /\ c \notin closed => entries[name[c]] = c

\* The satellites are never sent to the fallback while a collector with a
\* receiver is there (the debounce timer of its absence notwithstanding).
FallbackOnlyWithout ==
    [][topic' # topic /\ topic' \notin Receivers => Chosen(collectors') = None]_vars

\* When collectors and settings come to rest, hannah/syslog comes to name
\* the collector, else the fallback (unless the broker refused the last
\* publication, which only the next occasion repeats).
Wanted == IF Chosen(collectors) # None THEN Chosen(collectors) ELSE fallback
SyslogSettles == <>[](topic = Wanted \/ last = None)

\* "A collector that goes is replaced by the fallback only after DEBOUNCE_S":
\* when the fallback is published, no timer of the same absence still runs.
FallbackAfterDebounce ==
    [][topic' # topic /\ topic' \notin Receivers /\ fromCollector
        => \A t \in Timers : thread'[t] # "waiting"]_vars
=============================================================================
