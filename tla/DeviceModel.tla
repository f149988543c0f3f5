---------------------------- MODULE DeviceModel ----------------------------
(***************************************************************************)
(* What a hannah.v1 adapter reports state by state becomes a typed device: *)
(* at most one state per standard kind, everything else a generic slot;    *)
(* the class follows from type hints and writable slots.  And the values   *)
(* of an inverted cover, which travel mirrored.                            *)
(***************************************************************************)
EXTENDS Naturals, Sequences, FiniteSets, SequencesExt

CONSTANTS MaxStates, Percents

PercentsAssumption == Percents \subseteq 0..100

VARIABLES states,   \* the states of one device, in the adapter's order
          cover,    \* [inverted, closing, said]: a cover and what is asked of it
          wire      \* what the adapter was sent and echoed, or Unsent

vars == <<states, cover, wire>>
Unsent == 101

(* A reported state: canonical key, suffix of its id, type hint, writable. *)
Reported(key, suffix, dtype, writable) == [key |-> key, suffix |-> suffix, dtype |-> dtype, writable |-> writable]
Reports ==
    {Reported(k, k, t, w) : k \in {"on", "level"}, t \in {"light", "blind", ""}, w \in BOOLEAN}
    \cup {Reported("expected", x, "", TRUE) : x \in {"setpoint", "eco"}}
    \cup {Reported("mode", "mode", t, TRUE) : t \in {"climate", ""}}
    \cup {Reported("power", x, "socket", FALSE) : x \in {"power", "on"}}
    \cup {Reported("open", "open", "", FALSE), Reported("raw", "on", "", FALSE), Reported("current", "temp", "", FALSE)}

Hints(s) == {s[i].dtype : i \in DOMAIN s}

\* _preliminary_kind, "none" for a key that is no standard slot.
Preliminary(st, hints) ==
    CASE st.key = "level" -> IF "blind" \in hints THEN "position" ELSE "brightness"
      [] st.key = "mode" -> IF "climate" \in hints THEN "mode" ELSE "none"
      [] st.key = "expected" -> "target_temperature"
      [] st.key = "current" -> "temperature"
      [] st.key \in {"on", "open", "power"} -> st.key
      [] OTHER -> "none"

Excluded == {"eco"}

\* Fault: of several states of a kind the first one counts.
FirstOfKind(s, i) ==
    LET k == Preliminary(s[i], Hints(s)) IN
    IF k # "none" /\ \A j \in 1..(i - 1) : Preliminary(s[j], Hints(s)) # k THEN k ELSE "none"

\* _resolve_kinds: the only state of its kind, or the only set point that is
\* not a comfort, eco or offset one; if in doubt none.
KindOf(s, i) ==
    LET k == Preliminary(s[i], Hints(s))
        same == {j \in DOMAIN s : Preliminary(s[j], Hints(s)) = k}
        plain == {j \in same : s[j].suffix \notin Excluded}
    IN IF k # "none" /\ (same = {i} \/ (k = "target_temperature" /\ plain = {i})) THEN k ELSE "none"

Kinds(s) == {KindOf(s, i) : i \in DOMAIN s} \ {"none"}

\* Fault: the standard slots that come later are not looked at.
FreeIdAmong(s, i, taken) == CHOOSE n \in 1..(Len(s) + 1) : <<s[i].suffix, n>> \notin taken
                              /\ \A l \in 1..(n - 1) : <<s[i].suffix, l>> \in taken

\* The suffix, counted up while it is taken by a slot or by a standard one.
FreeId(s, i, taken) ==
    LET used == taken \cup {<<k, 1>> : k \in Kinds(s)} IN
    CHOOSE n \in 1..(2 * Len(s) + 1) : <<s[i].suffix, n>> \notin used /\ \A l \in 1..(n - 1) : <<s[i].suffix, l>> \in used

\* _classify_device: the slot ids, one state after the other.
SlotIds(s) ==
    LET id[i \in 1..Len(s)] == IF KindOf(s, i) # "none" THEN <<KindOf(s, i), 1>>
                               ELSE <<s[i].suffix, FreeId(s, i, {id[j] : j \in 1..(i - 1)})>>
    IN id

Writable(s, k) == \E i \in DOMAIN s : KindOf(s, i) = k /\ s[i].writable

\* _decide_class, in the order the code asks.
Class(s) ==
    LET hints == Hints(s) kinds == Kinds(s) IN
    IF Writable(s, "on") /\ ("climate" \in hints \/ "mode" \in kinds) THEN "climate"
    ELSE IF "target_temperature" \in kinds THEN "thermostat"
    ELSE IF Writable(s, "position") THEN "cover"
    ELSE IF Writable(s, "on")
    THEN IF "light" \in hints \/ Writable(s, "brightness") THEN "light"
         ELSE IF "socket" \in hints \/ "power" \in kinds THEN "socket" ELSE "switch"
    ELSE IF "open" \in kinds /\ ~Writable(s, "open") THEN "contact"
    ELSE IF kinds \cap {"temperature", "power"} # {} /\ \A k \in kinds : ~Writable(s, k) THEN "sensor"
    ELSE "generic"

-----------------------------------------------------------------------------
Mirrored(c, v) == IF c.inverted THEN 100 - v ELSE v

\* Fault: a percentage that was named goes through the mirror like "open".
SlotValueMirrored(c) == c.said

\* _execute_slots: only "open" and "close" are meant canonically (100 = open);
\* a named percentage is mirrored beforehand and so reaches the actor as said.
SlotValue(c) == IF c.closing THEN c.said ELSE Mirrored(c, c.said)
\* _v1_wire_value, and normalize_value of what comes back.
WireValue(c) == Mirrored(c, SlotValue(c))
ReadBack(c, v) == Mirrored(c, v)

Init == states = <<>> /\ wire = Unsent
        /\ cover \in [inverted : BOOLEAN, closing : {FALSE}, said : Percents] \cup [inverted : BOOLEAN, closing : {TRUE}, said : {0, 100}]

\* The adapter's snapshot, a state at a time.
Report(st) == Len(states) < MaxStates /\ states' = Append(states, st) /\ UNCHANGED <<cover, wire>>
Move == states = <<>> /\ wire = Unsent /\ wire' = WireValue(cover) /\ UNCHANGED <<states, cover>>
Next == Move \/ \E st \in Reports : wire = Unsent /\ Report(st)
Spec == Init /\ [][Next]_vars

-----------------------------------------------------------------------------
\* Every state of the device is a slot of its own: none is lost because two
\* have the same suffix or a suffix is the name of a standard slot.
NothingIsLost == Cardinality(ToSet(SlotIds(states))) = Len(states)

\* The order in which the adapter lists the states decides nothing: neither
\* the class nor which state carries a standard slot.
OrderFree ==
    LET turned == Reverse(states) IN
    /\ Class(turned) = Class(states)
    /\ \A i \in DOMAIN states : KindOf(turned, Len(states) + 1 - i) = KindOf(states, i)

\* A percentage that was named is what a visualisation shows, "open" opens
\* every cover, and the registry reads back the value it noted when writing.
CoverAsSaid ==
    wire # Unsent =>
        /\ ~cover.closing => wire = cover.said
        /\ cover.closing /\ cover.said = 100 => wire = (IF cover.inverted THEN 0 ELSE 100)
        /\ ReadBack(cover, wire) = SlotValue(cover)

\* So a typed device is the adapter's device, and a visualisation shows it so.
DevicesAsReported == NothingIsLost /\ OrderFree /\ CoverAsSaid
=============================================================================
