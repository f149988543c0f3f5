---------------------------- MODULE ChannelStream ----------------------------
(***************************************************************************)
(* A channel adapter (hannah-telegram) and its two streams to the Core: it *)
(* redeems link codes over the one and is told events over the other.      *)
(* The adapter is one asyncio loop; the Core ends and starts again.  What  *)
(* the Core does with a code is LinkTokens' and AccountLinking's.          *)
(***************************************************************************)
EXTENDS Naturals, FiniteSets

CONSTANTS Requests,    \* chats with a code of their own
          MaxTries,    \* of one code (bound)
          MaxOutages   \* ends of the Core (bound)

VARIABLES
    up,        \* the Core answers
    epoch,     \* its number of starts, the stream's name
    stream,    \* _channel_call: the start it was opened at, 0 for None
    at,        \* request -> where redeem_link_token stands
    call,      \* request -> the stream it has taken
    try,       \* request -> its request_id, a new one with every try
    pending,   \* _pending_redeems
    sent,      \* requests on the way to the Core
    results,   \* answers on the way to the adapter
    redeemed,  \* codes the Core has redeemed
    told,      \* request -> what the chat was told
    whose,     \* history: request -> the code its answer was about
    events,    \* the event stream: "connect", "open" or "backoff"
    status     \* the last connection message that reached the users

redeem == <<stream, at, call, try, pending, sent, results, redeemed, told, whose>>
subscription == <<events, status>>
vars == <<up, epoch, redeem, subscription>>
None == "none"

Ids == [of: Requests, try: 1..MaxTries, stream: 1..(MaxOutages + 1)]
TypeOK ==
    /\ up \in BOOLEAN /\ epoch \in 1..(MaxOutages + 1) /\ stream \in 0..epoch
    /\ at \in [Requests -> {"idle", "write", "wait", "over"}] /\ call \in [Requests -> 0..epoch]
    /\ pending \subseteq Requests /\ redeemed \subseteq Requests
    /\ try \in [Requests -> 0..MaxTries] /\ sent \subseteq Ids /\ results \subseteq {[id |-> i, ok |-> b] : i \in Ids, b \in BOOLEAN}
    /\ told \in [Requests -> {None, "linked", "refused", "unreachable"}]
    /\ whose \in [Requests -> Requests \cup {None}]
    /\ events \in {"connect", "open", "backoff"} /\ status \in {None, "ready", "restored", "interrupted"}

Init ==
    /\ up = TRUE /\ epoch = 1 /\ stream = 0 /\ at = [r \in Requests |-> "idle"]
    /\ call = [r \in Requests |-> 0] /\ try = [r \in Requests |-> 0] /\ pending = {} /\ sent = {} /\ results = {} /\ redeemed = {}
    /\ told = [r \in Requests |-> None] /\ whose = [r \in Requests |-> None]
    /\ events = "connect" /\ status = None

-----------------------------------------------------------------------------
(* channel_connect *)

Open == /\ stream = 0 /\ up /\ stream' = epoch
        /\ UNCHANGED <<up, epoch, at, call, try, pending, sent, results, redeemed, told, whose, subscription>>

\* Fault: whoever waits goes on waiting.
NobodyReleased == {}
\* The stream has ended: everybody who waits is answered with None.
Released == pending

\* The end of the stream, its finally.
Close ==
    /\ stream # 0 /\ (~up \/ stream # epoch) /\ stream' = 0
    /\ pending' = pending \ Released
    /\ at' = [r \in Requests |-> IF r \in Released /\ at[r] = "wait" THEN "over" ELSE at[r]]
    /\ told' = [r \in Requests |-> IF r \in Released /\ at[r] = "wait" THEN "unreachable" ELSE told[r]]
    /\ UNCHANGED <<up, epoch, call, try, sent, results, redeemed, whose, subscription>>

-----------------------------------------------------------------------------
(* redeem_link_token, called by _redeem_link_token in a private chat *)

Over(r, answer) == at' = [at EXCEPT ![r] = "over"] /\ told' = [told EXCEPT ![r] = answer]

Begin(r) ==
    /\ at[r] \in {"idle", "over"} /\ told[r] \in {None, "unreachable"} /\ try[r] < MaxTries
    /\ IF stream = 0
       THEN Over(r, "unreachable") /\ UNCHANGED <<call, try, pending>>
       ELSE /\ at' = [at EXCEPT ![r] = "write"] /\ call' = [call EXCEPT ![r] = stream]
            /\ try' = [try EXCEPT ![r] = @ + 1]
            /\ pending' = pending \cup {r} /\ told' = [told EXCEPT ![r] = None]
    /\ UNCHANGED <<up, epoch, stream, sent, results, redeemed, whose, subscription>>

\* The write takes its turn, on the stream that was read before.
Write(r) ==
    /\ at[r] = "write"
    /\ IF call[r] = stream /\ up /\ stream = epoch
       THEN /\ at' = [at EXCEPT ![r] = "wait"] /\ UNCHANGED <<told, pending>>
            /\ sent' = sent \cup {[of |-> r, try |-> try[r], stream |-> stream]}
       ELSE Over(r, "unreachable") /\ pending' = pending \ {r} /\ UNCHANGED sent
    /\ UNCHANGED <<up, epoch, stream, call, try, results, redeemed, whose, subscription>>

\* wait_for, ten seconds.
Timeout(r) ==
    /\ at[r] = "wait" /\ Over(r, "unreachable") /\ pending' = pending \ {r}
    /\ UNCHANGED <<up, epoch, stream, call, try, sent, results, redeemed, whose, subscription>>

\* The Core redeems a code at most once, and may refuse it otherwise.
Serve(i, ok) ==
    /\ i \in sent /\ up /\ i.stream = epoch /\ (ok => i.of \notin redeemed)
    /\ sent' = sent \ {i} /\ results' = results \cup {[id |-> i, ok |-> ok]}
    /\ redeemed' = redeemed \cup (IF ok THEN {i.of} ELSE {})
    /\ UNCHANGED <<up, epoch, stream, at, call, try, pending, told, whose, subscription>>

\* Fault: an answer is for whoever waits.
Anyone(i) == pending
\* An answer is for the request with its id.
Asked(i) == {r \in pending : r = i.of /\ try[r] = i.try}

Answer(a) ==
    /\ a \in results /\ stream = a.id.stream /\ results' = results \ {a}
    /\ \/ \E p \in Asked(a.id) : /\ at[p] = "wait" /\ Over(p, IF a.ok THEN "linked" ELSE "refused")
                                 /\ pending' = pending \ {p} /\ whose' = [whose EXCEPT ![p] = a.id.of]
       \/ (\A p \in Asked(a.id) : at[p] # "wait") /\ UNCHANGED <<at, told, pending, whose>>
    /\ UNCHANGED <<up, epoch, stream, call, try, sent, redeemed, subscription>>

-----------------------------------------------------------------------------
(* subscribe_events with on_connected and on_disconnected *)

\* send_status_update asks the Core for the users it is for.
Tell(text) == status' = IF up THEN text ELSE status

Subscribe ==
    /\ events = "connect" /\ up
    /\ events' = "open" /\ Tell(IF status = None THEN "ready" ELSE "restored")
    /\ UNCHANGED <<up, epoch, redeem>>
EndOfStream ==
    /\ events = "open" /\ ~up /\ events' = "backoff" /\ Tell("interrupted")
    /\ UNCHANGED <<up, epoch, redeem>>
ConnectFails ==
    /\ events = "connect" /\ ~up /\ events' = "backoff" /\ Tell("interrupted")
    /\ UNCHANGED <<up, epoch, redeem>>
Backoff == events = "backoff" /\ events' = "connect" /\ UNCHANGED <<up, epoch, redeem, status>>

CoreEnds == /\ up /\ epoch <= MaxOutages /\ up' = FALSE /\ sent' = {} /\ results' = {}
            /\ UNCHANGED <<epoch, stream, at, call, try, pending, redeemed, told, whose, subscription>>
CoreStarts == ~up /\ up' = TRUE /\ epoch' = epoch + 1 /\ UNCHANGED <<redeem, subscription>>

Events == Subscribe \/ EndOfStream \/ ConnectFails \/ Backoff
Next ==
    \/ Open \/ Close \/ Events \/ CoreEnds \/ CoreStarts
    \/ \E r \in Requests : Begin(r) \/ Write(r) \/ Timeout(r)
    \/ \E i \in sent, ok \in BOOLEAN : Serve(i, ok)
    \/ \E a \in results : Answer(a)
Spec == Init /\ [][Next]_vars /\ WF_vars(Events)

-----------------------------------------------------------------------------
\* A chat is told the answer to its own code, and that it is linked only when
\* it is, however late the answers come.
AnsweredTruly ==
    \A r \in Requests : /\ told[r] \in {"linked", "refused"} => whose[r] = r
                        /\ told[r] = "linked" => r \in redeemed

\* Nobody waits for an answer over a stream that has ended: its end answers
\* everybody who waits (grpc_client.py:355).
NobodyWaitsForOldStream == \A r \in Requests : at[r] = "wait" => call[r] = stream

\* "Verbindung zu Hannah Core unterbrochen" (main.py of the adapter): whoever
\* gets system messages learns of an outage while it lasts.
OutageIsTold == ~up ~> (up \/ status = "interrupted")

\* So a call of the chat is answered, by the stream it went out on.
CallsAreAnswered == AnsweredTruly /\ NobodyWaitsForOldStream
=============================================================================
