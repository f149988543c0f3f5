------------------------- MODULE TriggerConditions -------------------------
(***************************************************************************)
(* When a trigger's "when" holds: a list of conditions, each of which may  *)
(* name a time, a state and a phrase, and may have "also" (what must hold  *)
(* too) and "unless".  Evaluated against a state cache k, in which a state *)
(* may be unknown, by the three callers of the engine: at the times "now", *)
(* for the update of the state "changed", and for a phrase.                *)
(***************************************************************************)
EXTENDS Naturals, FiniteSets

CONSTANTS StateIds,
          Absent    \* what a condition does not name

VARIABLES when,    \* the conditions of one trigger
          cache    \* state id -> "match", "differs" (from what is asked for) or "unknown"

vars == <<when, cache>>
Times == {"morning"}
ConditionsAssumption == Absent \notin StateIds \cup Times

Caches == [StateIds -> {"match", "differs", "unknown"}]
Group(op, ids) == [op |-> op, ids |-> ids]
NoGroup == Group("and", {})
Condition(time, state, phrase, also, unless) ==
    [time |-> time, state |-> state, phrase |-> phrase, also |-> also, unless |-> unless, and |-> NoGroup]
Alsos == {NoGroup, Group("or", StateIds)} \cup {Group("and", ids) : ids \in SUBSET StateIds}
Unlesses == {{}} \cup {{id} : id \in StateIds}
Conditions ==
    {Condition(t, id, p, a, u) : t \in Times \cup {Absent}, id \in StateIds \cup {Absent},
                                 p \in BOOLEAN, a \in Alsos, u \in Unlesses}

\* What _as_or_list takes for a time and for a state: a condition that names
\* both is a time, and its state is not joined to anything.
Timed(w) == {c \in w : c.time # Absent}
Stated(w) == {c \in w : c.time = Absent /\ c.state # Absent}

\* Fault: state conditions beside a time stay alternatives of their own.
AsOrListPlain(w) == w

\* _as_or_list: beside a time, the states are one "or" group that every time
\* needs (#147), on top of its own "also"; the "also" and "unless" of the state
\* conditions are dropped with them.  Other types stay.
AsOrList(w) ==
    IF Timed(w) = {} \/ Stated(w) = {} THEN w
    ELSE {[c EXCEPT !.and = Group("or", {d.state : d \in Stated(w)})] : c \in Timed(w)}
         \cup {c \in w : c.time = Absent /\ c.state = Absent}

\* Fault: an unknown state counts as fulfilled.
GroupHoldsUnknown(g, k) == IF g.op = "or" THEN \E id \in g.ids : k[id] # "differs"
                           ELSE \A id \in g.ids : k[id] # "differs"

\* _also_condition_matches: an unknown state does not match; of a state
\* condition in the group only the state itself is asked.
GroupHolds(g, k) == IF g.op = "or" THEN \E id \in g.ids : k[id] = "match"
                    ELSE \A id \in g.ids : k[id] = "match"
\* _unless_condition_matches: an unknown state does not block.
Unblocked(unless, k) == ~\E id \in unless : k[id] = "match"

Holds(c, k) == /\ c.also = NoGroup \/ GroupHolds(c.also, k)
               /\ c.and = NoGroup \/ GroupHolds(c.and, k)
               /\ Unblocked(c.unless, k)

\* _check_time_triggers, which does not look at a state the condition names
\* itself, on_state_update, which does not look at its time, and match_phrase.
FiresAtTime(now, k) == \E c \in Timed(AsOrList(when)) : c.time \in now /\ Holds(c, k)
FiresOnUpdate(changed, k) == \E c \in AsOrList(when) : c.state = changed /\ k[changed] = "match" /\ Holds(c, k)
AnswersPhrase(k) == \E c \in AsOrList(when) : c.phrase /\ Holds(c, k)

\* Fault: the states inside a group are not collected.
StatesOfFlat(c) == ({c.state} \ {Absent}) \cup c.unless \cup c.also.ids
\* _collect_condition_state_ids, for a condition and what belongs to it ...
StatesOf(c) == ({c.state} \ {Absent}) \cup c.unless \cup c.also.ids \cup c.and.ids
\* ... and get_referenced_state_ids: what the adapter is told to watch.
Watched(w) == UNION {StatesOf(c) : c \in AsOrList(w)}

Init == /\ when \in {{c} : c \in Conditions}
        /\ cache \in Caches

\* The trigger is edited, a condition at a time.
AddCondition(c) == Cardinality(when) < 2 /\ when' = when \cup {c} /\ UNCHANGED cache
Next == \E c \in Conditions : AddCondition(c)

-----------------------------------------------------------------------------
\* Where times and states are conditions of their own, they are never
\* alternatives (trigger_engine.py:335): a time fires only with one of the
\* states, known and as asked for, and an update fires nothing, unless it is
\* of a state that a time's own condition names.
TimeAndState ==
    Timed(when) # {} /\ Stated(when) # {} =>
        /\ \A now \in SUBSET Times :
             FiresAtTime(now, cache) <=> /\ \E c \in Timed(when) : c.time \in now /\ Holds(c, cache)
                                         /\ \E d \in Stated(when) : cache[d.state] = "match"
        /\ \A changed \in StateIds : FiresOnUpdate(changed, cache) => \E c \in Timed(when) : c.state = changed

\* What is not known blocks nothing and proves nothing: with an empty cache a
\* time fires exactly if it has no "also" and no state is a condition beside it.
UnknownIsNeutral ==
    (\A id \in StateIds : cache[id] = "unknown") =>
        \A now \in SUBSET Times :
            FiresAtTime(now, cache) <=> /\ Stated(when) = {}
                                        /\ \E c \in Timed(when) : c.time \in now /\ c.also = NoGroup

\* No decision waits for a state nobody reports: whatever the adapter is not
\* told to watch makes no difference to any of the three.
WatchesWhatItAsks ==
    \A k \in Caches :
        (\A id \in Watched(when) : k[id] = cache[id]) =>
            /\ \A now \in SUBSET Times : FiresAtTime(now, k) <=> FiresAtTime(now, cache)
            /\ \A changed \in StateIds : FiresOnUpdate(changed, k) <=> FiresOnUpdate(changed, cache)
            /\ AnswersPhrase(k) <=> AnswersPhrase(cache)

\* The three together: what joining times and states to one list keeps.
ConditionsJoin == TimeAndState /\ UnknownIsNeutral /\ WatchesWhatItAsks

\* Claimed at core/hannah/trigger_engine.py:57: every dict of the list has its
\* own also and unless.  A time beside states fires with one of them whose own
\* conditions hold.
OwnConditionsCount ==
    Timed(when) # {} /\ Stated(when) # {} /\ FiresAtTime(Times, cache) =>
        \E d \in Stated(when) : cache[d.state] = "match" /\ Holds(d, cache)

\* Claimed at core/hannah/trigger_engine.py:335: "Zeit ist immer UND mit den
\* Zustands-Bedingungen im selben when verknüpft".  An update never fires a
\* trigger that names a time.
TimeAlwaysBinds == (\E changed \in StateIds : FiresOnUpdate(changed, cache)) => Timed(when) = {}
=============================================================================
