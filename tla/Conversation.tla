---------------------------- MODULE Conversation ----------------------------
(***************************************************************************)
(* The memory of one source of commands (a satellite, a chat): what a      *)
(* follow-up inherits from the commands before it, the messages the        *)
(* language model sees, and the loop that ends conversations.              *)
(***************************************************************************)
EXTENDS Naturals, Sequences

CONSTANTS MaxCommands, MaxMessages

None == "none"
VARIABLES
    ctx,       \* the context: [room, device, category, action, history], each with the command it is from
    alive,     \* the context is within its time to live
    commands,  \* the number of the last command
    started,   \* the number the running conversation started with
    filled,    \* the last command as it was carried out
    ending     \* the history the expiry loop has taken away

vars == <<ctx, alive, commands, started, filled, ending>>

Of(v, n) == [is |-> v, from |-> n]
Nothing == Of(None, 0)
Empty == [room |-> Nothing, device |-> Nothing, category |-> Nothing, action |-> Nothing, history |-> <<>>]

(* What the parser found: a named device has its room, a category may have one. *)
Said(room, device, category, action) == [room |-> room, device |-> device, category |-> category, action |-> action]
Sayings ==
    {Said("kitchen", "lamp", c, a) : c \in {None, "light"}, a \in {"on", None}}
    \cup {Said(r, None, c, a) : r \in {None, "hall"}, c \in {None, "light"}, a \in {"on", None}}

TypeOK ==
    /\ DOMAIN ctx = DOMAIN Empty /\ alive \in BOOLEAN /\ commands \in 0..MaxCommands /\ started \in 0..MaxCommands
    /\ \A f \in DOMAIN ctx \ {"history"} : ctx[f].from \in 0..commands
    /\ Len(ctx.history) <= MaxMessages

Init == /\ ctx = Empty /\ alive = FALSE /\ commands = 0 /\ started = 0 /\ ending = <<>>
        /\ filled = [said |-> Said(None, None, None, None), at |-> FALSE, by |-> Empty, since |-> 0]

\* Fault: an expired context comes alive with all it knew (#423).
EnsureRevived == ctx

\* _ensure: what expired is gone, except for the messages.
Ensure == IF alive THEN ctx ELSE [Empty EXCEPT !.history = ctx.history]

\* Fault: a named room still inherits the device.
FillAlsoDevice(s, at) ==
    [room |-> IF s.room = None /\ ~at THEN ctx.room ELSE Nothing,
     device |-> IF s.device = None THEN ctx.device ELSE Nothing,
     category |-> IF s.category = None /\ s.device = None THEN ctx.category ELSE Nothing,
     action |-> Nothing, history |-> <<>>]

\* fill_intent: a room from the sentence or of the satellite is not inherited;
\* a device only by who named neither room nor category, a category only
\* where no device is meant (#354, #355, #370).
Fill(s, at) ==
    LET device == IF s.device = None /\ s.room = None /\ ~at /\ s.category = None THEN ctx.device ELSE Nothing IN
    [room |-> IF s.room = None /\ ~at THEN ctx.room ELSE Nothing,
     device |-> device,
     category |-> IF s.category = None /\ s.device = None /\ device = Nothing THEN ctx.category ELSE Nothing,
     action |-> Nothing, history |-> <<>>]

\* inherit_action: an unknown action with a target is the last one again.
WithAction(s, by) ==
    IF s.action = None /\ (\E f \in {"room", "device", "category"} : s[f] # None \/ by[f] # Nothing)
    THEN [by EXCEPT !.action = ctx.action] ELSE by

\* fill_intent and inherit_action, the command, update_from_intent.
Command(s, at) ==
    LET by == IF alive THEN WithAction(s, Fill(s, at)) ELSE Empty
        n == commands + 1
        keep(f) == IF s[f] # None THEN Of(s[f], n) ELSE IF by[f] # Nothing THEN by[f] ELSE Ensure[f]
        acts == s.action # None \/ by.action # Nothing
    IN /\ commands < MaxCommands /\ commands' = n
       /\ filled' = [said |-> s, at |-> at, by |-> by, since |-> started]
       /\ IF acts THEN /\ ctx' = [room |-> keep("room"), device |-> keep("device"), category |-> keep("category"),
                                  action |-> keep("action"), history |-> Ensure.history]
                       /\ alive' = TRUE /\ started' = IF alive THEN started ELSE n
          ELSE UNCHANGED <<ctx, alive, started>>
       /\ UNCHANGED ending

\* add_llm_exchange and record_tts: the newest messages, each with its command.
Exchange ==
    LET all == Append(Ensure.history, IF alive THEN started ELSE commands + 1) IN
    /\ commands < MaxCommands /\ commands' = commands + 1
    /\ ctx' = [Ensure EXCEPT !.history = IF Len(all) > MaxMessages THEN Tail(all) ELSE all]
    /\ started' = (IF alive THEN started ELSE commands + 1) /\ alive' = TRUE
    /\ UNCHANGED <<filled, ending>>

Lapse == alive /\ alive' = FALSE /\ UNCHANGED <<ctx, commands, started, filled, ending>>

\* _expiry_loop every 30 seconds: the messages of what has expired.
ExpiryLoop ==
    /\ ~alive /\ ctx.history # <<>>
    /\ ending' = ctx.history /\ ctx' = [ctx EXCEPT !.history = <<>>]
    /\ UNCHANGED <<alive, commands, started, filled>>

Next == Exchange \/ Lapse \/ ExpiryLoop \/ \E s \in Sayings, at \in BOOLEAN : Command(s, at)
Spec == Init /\ [][Next]_vars

-----------------------------------------------------------------------------
\* What a command inherits was said in the running conversation, never hours
\* ago (#423).
InheritsOnlyCurrent ==
    \A f \in {"room", "device", "category", "action"} :
        /\ filled.by[f] # Nothing => filled.by[f].from >= filled.since
        /\ alive /\ ctx[f] # Nothing => ctx[f].from >= started

\* "Licht aus" after "Computer an" means the light: an inherited device never
\* meets a room or a category that was said, an inherited category never a
\* device, an inherited room never the satellite's own.
DoesNotMix ==
    /\ filled.by.device # Nothing => filled.said.room = None /\ filled.said.category = None /\ ~filled.at
    /\ filled.by.category # Nothing => filled.said.device = None /\ filled.by.device = Nothing
    /\ filled.by.room # Nothing => ~filled.at

\* "Ergaenzt fehlende Raum/Geraet/Kategorie aus dem letzten Befehl": room and
\* device that are inherited together were said together (conversation.py:91).
FollowUpMeansLast ==
    filled.by.device # Nothing /\ filled.by.room # Nothing => filled.by.device.from = filled.by.room.from

\* The messages the language model sees are of one conversation (conversation.py:84).
HistoryIsCurrent == alive => \A i \in 1..Len(ctx.history) : ctx.history[i] >= started

\* So a follow-up means what was just said, and nothing that contradicts it.
ContextIsCurrent == InheritsOnlyCurrent /\ DoesNotMix
=============================================================================
