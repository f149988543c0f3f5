------------------------------ MODULE HouseMenu ------------------------------
(***************************************************************************)
(* The house menu of hannah-telegram.  A keyboard names rooms and devices  *)
(* by their places in the Core's sorted list at the time it was drawn; a   *)
(* press is a chain of calls to the Core, between which the adapters may   *)
(* change the list and somebody the trust level.                           *)
(***************************************************************************)
EXTENDS Naturals, Sequences, SequencesExt

CONSTANTS Devices,      \* in the order of their names; numbers
          RoomOf,       \* device -> its room, a number
          MenuTrust,    \* _MENU_TRUST_MIN
          SlotTrust,    \* device -> the trust its slot requires
          Levels,       \* trust levels a user may get
          MaxChanges,   \* of the list and of trust (bound)
          MaxPresses    \* (bound)

VARIABLES
    present,   \* devices in the registry
    lit,       \* devices that are on
    trust,     \* the user's trust level at the Core
    commands,  \* the chat's list of commands: "user", "full" or "admin"
    keyboard,  \* the last keyboard: view, places, and, in the device's view, which it was and its button
    press,     \* the press that is handled
    acted,     \* history: what the last press switched, and by which button
    shifted,   \* history: the list has changed since the keyboard was drawn
    changes, presses

vars == <<present, lit, trust, commands, keyboard, press, acted, shifted, changes, presses>>
None == 0
Rooms == {RoomOf[d] : d \in Devices}
Nothing == [device |-> None, on |-> FALSE, shown |-> None, label |-> FALSE, trust |-> 0]
NoPress == [at |-> "idle", view |-> "rooms", room |-> 1, dev |-> 1, shown |-> None, on |-> FALSE, device |-> None]
Keyboard(v, r, d, shown, on) == [view |-> v, room |-> r, dev |-> d, shown |-> shown, on |-> on]

TypeOK ==
    /\ present \subseteq Devices /\ lit \subseteq Devices /\ trust \in Levels
    /\ commands \in {"user", "full", "admin"} /\ shifted \in BOOLEAN
    /\ keyboard.view \in {"none", "rooms", "room", "device"}
    /\ press.at \in {"idle", "trust", "list", "control", "reload"}
    /\ acted.device \in Devices \cup {None}

\* _typed_devices_response: rooms and their devices, sorted.
Sorted(S) == SetToSortSeq(S, <)
RoomList == Sorted({RoomOf[d] : d \in present})
DeviceList(r) == Sorted({d \in present : RoomOf[d] = r})

Init ==
    /\ present \in {Devices} /\ lit = {} /\ trust = MenuTrust /\ commands = "full"
    /\ keyboard = Keyboard("none", 1, 1, None, FALSE) /\ press = NoPress /\ acted = Nothing
    /\ shifted = FALSE /\ changes = 0 /\ presses = 0

-----------------------------------------------------------------------------
(* The Core meanwhile *)

Change == changes < MaxChanges /\ changes' = changes + 1
ListChanges(d) ==
    /\ Change /\ present' = IF d \in present THEN present \ {d} ELSE present \cup {d}
    /\ shifted' = TRUE
    /\ UNCHANGED <<lit, trust, commands, keyboard, press, acted, presses>>
Switched(d) ==
    /\ Change /\ lit' = IF d \in lit THEN lit \ {d} ELSE lit \cup {d}
    /\ UNCHANGED <<present, trust, commands, keyboard, press, acted, shifted, presses>>

\* _set_commands_for_chat.
CommandsFor(t) == IF t >= 10 THEN "admin" ELSE IF t >= MenuTrust THEN "full" ELSE "user"
\* /trustlevel by an administrator, who is told at once; the WebUI tells nobody.
SetTrust(t, here) ==
    /\ Change /\ trust' = t /\ commands' = IF here THEN CommandsFor(t) ELSE commands
    /\ UNCHANGED <<present, lit, keyboard, press, acted, shifted, presses>>

-----------------------------------------------------------------------------
(* _cmd_haus and _on_haus_callback; updates are handled one after another *)

Haus ==
    /\ press.at = "idle" /\ trust >= MenuTrust /\ keyboard.view = "none"
    /\ keyboard' = Keyboard("rooms", 1, 1, None, FALSE) /\ shifted' = FALSE
    /\ UNCHANGED <<present, lit, trust, commands, press, acted, changes, presses>>

Pressed(v, r, d, shown, on) ==
    /\ press.at = "idle" /\ presses < MaxPresses /\ presses' = presses + 1
    /\ press' = [at |-> "trust", view |-> v, room |-> r, dev |-> d, shown |-> shown, on |-> on, device |-> None]
    /\ UNCHANGED <<present, lit, trust, commands, keyboard, acted, shifted, changes>>
PressRoom(r) == keyboard.view = "rooms" /\ Pressed("room", r, 1, None, FALSE)
PressDevice(d) == keyboard.view = "room" /\ Pressed("device", keyboard.room, d, None, FALSE)
PressReload == keyboard.view = "device" /\ Pressed("device", keyboard.room, keyboard.dev, None, FALSE)
PressBack == keyboard.view \in {"room", "device"} /\ Pressed("rooms", 1, 1, None, FALSE)
PressSwitch ==
    /\ keyboard.view = "device"
    /\ Pressed("control", keyboard.room, keyboard.dev, keyboard.shown, keyboard.on)
PressClose == keyboard.view # "none" /\ Pressed("close", 1, 1, None, FALSE)

Done == press' = NoPress
CheckTrust ==
    /\ press.at = "trust"
    /\ CASE trust < MenuTrust -> Done /\ UNCHANGED keyboard
         [] press.view = "close" -> Done /\ keyboard' = Keyboard("none", 1, 1, None, FALSE)
         [] OTHER -> press' = [press EXCEPT !.at = "list"] /\ UNCHANGED keyboard
    /\ UNCHANGED <<present, lit, trust, commands, acted, shifted, changes, presses>>

\* Fault: one of the two places is counted from the wrong end of the list.
LookupInFirstRoom(r, d) ==
    IF r <= Len(RoomList) /\ d <= Len(DeviceList(RoomList[1])) THEN DeviceList(RoomList[1])[d] ELSE None
\* get_devices and the two places.
Lookup(r, d) ==
    IF r <= Len(RoomList) /\ d <= Len(DeviceList(RoomList[r])) THEN DeviceList(RoomList[r])[d] ELSE None

\* control_rows: the button is what the device is not.
Draw(r, d) == Keyboard("device", r, d, Lookup(r, d), Lookup(r, d) \notin lit)

Show ==
    /\ press.at = "list" /\ press.view # "control" /\ Done
    /\ CASE press.view = "rooms" -> keyboard' = Keyboard("rooms", 1, 1, None, FALSE) /\ shifted' = FALSE
         [] press.view = "room" /\ press.room <= Len(RoomList) ->
              keyboard' = Keyboard("room", press.room, 1, None, FALSE) /\ shifted' = FALSE
         [] press.view = "device" /\ Lookup(press.room, press.dev) # None ->
              keyboard' = Draw(press.room, press.dev) /\ shifted' = FALSE
         [] OTHER -> UNCHANGED <<keyboard, shifted>>
    /\ UNCHANGED <<present, lit, trust, commands, acted, changes, presses>>

\* The command goes to the device at the place, if there is one.
FindDevice ==
    /\ press.at = "list" /\ press.view = "control"
    /\ LET d == Lookup(press.room, press.dev) IN
       press' = IF d = None THEN NoPress ELSE [press EXCEPT !.at = "control", !.device = d]
    /\ UNCHANGED <<present, lit, trust, commands, keyboard, acted, shifted, changes, presses>>

\* Fault: the device is toggled.
Toggled(d, on) == IF d \in lit THEN lit \ {d} ELSE lit \cup {d}
\* The value is the button's.
Set(d, on) == IF on THEN lit \cup {d} ELSE lit \ {d}

\* ControlDevice: the Core knows the device and trusts the user, or refuses.
Control ==
    /\ press.at = "control"
    /\ LET d == press.device IN
       IF d \in present /\ trust >= SlotTrust[d]
       THEN /\ lit' = Set(d, press.on) /\ press' = [press EXCEPT !.at = "reload"]
            /\ acted' = [device |-> d, on |-> d \in lit', shown |-> IF shifted THEN d ELSE press.shown,
                         label |-> press.on, trust |-> trust]
       ELSE Done /\ UNCHANGED <<lit, acted>>
    /\ UNCHANGED <<present, trust, commands, keyboard, shifted, changes, presses>>

Reload ==
    /\ press.at = "reload" /\ Done
    /\ IF Lookup(press.room, press.dev) # None
       THEN keyboard' = Draw(press.room, press.dev) /\ shifted' = FALSE
       ELSE UNCHANGED <<keyboard, shifted>>
    /\ UNCHANGED <<present, lit, trust, commands, acted, changes, presses>>

Next ==
    \/ Haus \/ PressReload \/ PressBack \/ PressSwitch \/ PressClose
    \/ (\E r \in 1..Len(RoomList) : PressRoom(r)) \/ (\E d \in Devices : PressDevice(d))
    \/ CheckTrust \/ Show \/ FindDevice \/ Control \/ Reload
    \/ \E d \in Devices : ListChanges(d) \/ Switched(d)
    \/ \E t \in Levels, here \in BOOLEAN : SetTrust(t, here)
Spec == Init /\ [][Next]_vars

-----------------------------------------------------------------------------
\* A button does what it says to the device it was drawn for, however stale
\* its state is, as long as the list is still the one it was drawn from.
ButtonsMeanIt == acted.device = acted.shown /\ acted.on = acted.label

\* Also when the list has changed: "Gerät nicht mehr vorhanden." (bot.py:703).
ButtonsMeanTheirDevice ==
    [][press.at = "control" /\ lit' # lit /\ press'.at = "reload" => press.device = press.shown]_vars
=============================================================================
