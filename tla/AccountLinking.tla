--------------------------- MODULE AccountLinking ---------------------------
(***************************************************************************)
(* Linking a user's account at a service: the channel adapters' streams    *)
(* and the redeeming of link codes over them, LinkAccount, UnlinkAccount   *)
(* and delete_user (core/hannah/grpc_server.py, user_manager.py).          *)
(*                                                                         *)
(* A worker is a thread that links: the drain thread of a stream, which    *)
(* takes one message at a time, or a LinkAccount call.  Each read, insert  *)
(* and locked section is a step of its own.  The table linked_accounts     *)
(* has one row per user and service and one per service and account        *)
(* (utils/db.py:31-41).                                                    *)
(***************************************************************************)
CONSTANTS
    Users, Services,
    Tokens,      \* the codes that can be drawn
    NoToken, NoOwner,
    Accounts, NoAccount,
    Streams,     \* ChannelConnect calls, each used once (bound)
    NoStream,
    Calls        \* overlapping LinkAccount calls (bound)

Owners == Users \X Services

ASSUME LinkOwnersAssumption ==
    /\ NoToken \notin Tokens
    /\ NoOwner \notin Owners \cup Users \cup Services

ASSUME AccountLinkingAssumption ==
    /\ NoAccount \notin Accounts
    /\ NoStream \notin Streams
    /\ Streams \cap Calls = {}

VARIABLES
    by_token, by_owner, expired, issued,   \* the store of codes
    users,       \* rows of the table users
    cached,      \* UserManager._users
    leaving,     \* delete_user has deleted the row, not yet the cache entry
    links,       \* linked_accounts: the account of each user and service
    channel,     \* the registry: the stream registered for each service
    stream,      \* each stream's phase and service
    work,        \* what each worker is at
    spent,       \* the codes that have linked an account
    contested    \* the codes two streams have had in hand at once

Store == INSTANCE LinkTokens
store == <<by_token, by_owner, expired, issued>>
people == <<users, cached, leaving>>
once == <<spent, contested>>
vars == <<store, people, links, channel, stream, work, once>>

Workers == Streams \cup Calls
Answers == {"none", "ok", "unknown", "elsewhere", "already", "failed"}
Idle(answer) == [pc |-> "ready", code |-> NoToken, owner |-> NoOwner,
                 account |-> NoAccount, holder |-> NoOwner, answer |-> answer]

Steps == {"ready", "user", "account", "cache", "own", "insert", "compare", "consume"}
Jobs == [pc: Steps, code: Tokens \cup {NoToken}, owner: Owners \cup {NoOwner},
         account: Accounts \cup {NoAccount}, holder: Users \cup {NoOwner}, answer: Answers]

TypeOK ==
    /\ Store!TypeOK
    /\ users \subseteq Users /\ cached \subseteq Users /\ leaving \subseteq Users
    /\ links \in [Owners -> Accounts \cup {NoAccount}]
    /\ channel \in [Services -> Streams \cup {NoStream}]
    /\ stream \in [Streams -> [phase: {"new", "open", "closing", "ended"},
                               service: Services \cup {NoOwner}]]
    /\ work \in [Workers -> Jobs]
    /\ spent \subseteq Tokens /\ contested \subseteq Tokens

Init ==
    /\ Store!Init
    /\ users = Users /\ cached = Users /\ leaving = {}
    /\ links = [o \in Owners |-> NoAccount]
    /\ channel = [s \in Services |-> NoStream]
    /\ stream = [st \in Streams |-> [phase |-> "new", service |-> NoOwner]]
    /\ work = [w \in Workers |-> Idle("none")]
    /\ spent = {} /\ contested = {}

At(w, pc) == work[w].pc = pc
Goto(w, pc) == work' = [work EXCEPT ![w].pc = pc]
Answer(w, a) == work' = [work EXCEPT ![w] = Idle(a)]
Phase(st) == stream[st].phase

-----------------------------------------------------------------------------
(* The streams of the channel adapters.                                    *)

Connect(st) ==
    /\ Phase(st) = "new"
    /\ stream' = [stream EXCEPT ![st].phase = "open"]
    /\ UNCHANGED <<store, people, links, channel, work, once>>

\* _register_channel, on the drain thread: a stream gives up the service it
\* had, and displaces the adapter that is registered for the new one.  (In one
\* step: between the two only the stream's own fields are written.)
Register(st, s) ==
    /\ Phase(st) \in {"open", "closing"}
    /\ At(st, "ready") /\ work[st].answer # "failed"
    /\ channel' = [r \in Services |->
                     IF r = s THEN st ELSE IF channel[r] = st THEN NoStream ELSE channel[r]]
    /\ stream' = [x \in Streams |->
                    IF x = st THEN [stream[x] EXCEPT !.service = s]
                    ELSE IF x = channel[s] THEN [stream[x] EXCEPT !.phase = "closing"]
                    ELSE stream[x]]
    /\ UNCHANGED <<store, people, links, work, once>>

\* The adapter is gone, or its drain thread has come to an end.
Closing(st) == [stream EXCEPT ![st].phase = "closing"]

Disconnect(st) ==
    /\ Phase(st) = "open"
    /\ stream' = Closing(st)
    /\ UNCHANGED <<store, people, links, channel, work, once>>

\* Fault: the stream removes whatever is registered for its service.
FreesService(st, s) == stream[st].service = s
\* Fault: the stream's end leaves the registry alone.
NeverUnregisters(st, s) == FALSE
\* unregister removes a stream's own entry, never its successor's.
Unregisters(st, s) == channel[s] = st

\* The end of ChannelConnect, which waits for the drain thread two seconds
\* at most.
EndStream(st) ==
    /\ Phase(st) = "closing"
    /\ stream' = [stream EXCEPT ![st].phase = "ended"]
    /\ channel' = [s \in Services |-> IF Unregisters(st, s) THEN NoStream ELSE channel[s]]
    /\ UNCHANGED <<store, people, links, work, once>>

\* CreateLinkToken: only for a service whose adapter is registered.
CreateLinkToken(u, s, t) ==
    /\ u \in users \cup cached
    /\ channel[s] # NoStream
    /\ Store!Issue(<<u, s>>, t)
    /\ cached' = cached \cup {u}
    /\ UNCHANGED <<users, leaving, links, channel, stream, work, once>>

-----------------------------------------------------------------------------
(* _redeem_link_token and LinkAccount.                                     *)

Job(code, owner, account) ==
    [pc |-> "user", code |-> code, owner |-> owner, account |-> account,
     holder |-> NoOwner, answer |-> "none"]

\* A redeem message is taken from the stream and its code looked up.
Redeem(st, t, a) ==
    LET s == stream[st].service IN
    /\ Phase(st) \in {"open", "closing"} /\ s # NoOwner
    /\ At(st, "ready") /\ work[st].answer # "failed"
    /\ Store!Lookup(t, s)
    /\ IF Store!LookupOK(t, s)
         THEN /\ work' = [work EXCEPT ![st] = Job(t, <<by_token[t][1], s>>, a)]
              /\ contested' = contested \cup {u \in {t} : \E x \in Streams : work[x].code = u}
         ELSE Answer(st, "unknown") /\ UNCHANGED contested
    /\ UNCHANGED <<people, links, channel, stream, spent>>

LinkAccount(c, o, a) ==
    /\ At(c, "ready")
    /\ work' = [work EXCEPT ![c] = Job(NoToken, o, a)]
    /\ UNCHANGED <<store, people, links, channel, stream, once>>

\* get_user_by_id.  The code of a user who is gone is consumed.
FindUser(w) ==
    LET u == work[w].owner[1] IN
    /\ At(w, "user")
    /\ IF u \in users \cup cached THEN Goto(w, "account")
       ELSE IF w \in Streams
         THEN work' = [work EXCEPT ![w].pc = "consume", ![w].answer = "unknown"]
         ELSE Answer(w, "unknown")
    /\ cached' = cached \cup ({u} \cap users)
    /\ UNCHANGED <<store, users, leaving, links, channel, stream, once>>

\* get_user_by_linked_account, the SELECT: who has the account?
CheckAccount(w) ==
    LET o == work[w].owner
        holders == {u \in Users : links[<<u, o[2]>>] = work[w].account} IN
    /\ At(w, "account")
    /\ IF holders = {} THEN Goto(w, "own")
       ELSE \E u \in holders :
              work' = [work EXCEPT ![w].pc = "cache", ![w].holder = u]
    /\ UNCHANGED <<store, people, links, channel, stream, once>>

\* ... and _cache for the user it found.
CacheHolder(w) ==
    LET u == work[w].holder IN
    /\ At(w, "cache")
    /\ cached' = cached \cup {u}
    /\ IF u = work[w].owner[1] THEN Goto(w, "own") ELSE Answer(w, "elsewhere")
    /\ UNCHANGED <<store, users, leaving, links, channel, stream, once>>

\* get_linked_account: has the user an account at the service already?
CheckLinked(w) ==
    /\ At(w, "own")
    /\ IF links[work[w].owner] = NoAccount THEN Goto(w, "insert")
       ELSE IF w \in Streams THEN Goto(w, "compare")
       ELSE Answer(w, "ok")
    /\ UNCHANGED <<store, people, links, channel, stream, once>>

\* What linked_accounts accepts: its foreign key and its two UNIQUE keys.
RowFits(o, a) ==
    /\ o[1] \in users
    /\ links[o] = NoAccount
    /\ \A u \in Users : links[<<u, o[2]>>] # a

\* link_account.  An IntegrityError ends a LinkAccount call, or the drain
\* thread and with it the adapter's stream.
Insert(w) ==
    LET o == work[w].owner
        a == work[w].account IN
    /\ At(w, "insert")
    /\ IF RowFits(o, a)
         THEN /\ links' = [links EXCEPT ![o] = a]
              /\ spent' = spent \cup ({work[w].code} \ {NoToken})
              /\ IF w \in Streams THEN Goto(w, "consume") ELSE Answer(w, "ok")
              /\ UNCHANGED stream
         ELSE /\ Answer(w, "failed")
              /\ stream' = IF w \in Streams /\ Phase(w) = "open" THEN Closing(w) ELSE stream
              /\ UNCHANGED <<links, spent>>
    /\ UNCHANGED <<store, people, channel, contested>>

\* The account linked already, read a second time, is the one asked for.
Compare(st) ==
    /\ At(st, "compare")
    /\ IF links[work[st].owner] = work[st].account THEN Goto(st, "consume")
       ELSE Answer(st, "already")
    /\ UNCHANGED <<store, people, links, channel, stream, once>>

\* The code is spent, and the answer is put in the stream's queue.
Consume(st) ==
    /\ At(st, "consume")
    /\ Store!Consume(work[st].code)
    /\ Answer(st, IF work[st].answer = "unknown" THEN "unknown" ELSE "ok")
    /\ UNCHANGED <<people, links, channel, stream, once>>

-----------------------------------------------------------------------------
(* Everything else that changes links, users and codes.                    *)

UnlinkAccount(o) ==
    /\ o[1] \in users \cup cached
    /\ links[o] # NoAccount
    /\ links' = [links EXCEPT ![o] = NoAccount]
    /\ UNCHANGED <<store, people, channel, stream, work, once>>

\* delete_user: the row, and with it the user's links ...
DeleteUser(u) ==
    /\ u \in (users \cup cached) \ leaving
    /\ users' = users \ {u}
    /\ leaving' = leaving \cup {u}
    /\ links' = [o \in Owners |-> IF o[1] = u THEN NoAccount ELSE links[o]]
    /\ UNCHANGED <<store, cached, channel, stream, work, once>>

\* ... and the cache entry.
DropUser(u) ==
    /\ u \in leaving
    /\ leaving' = leaving \ {u}
    /\ cached' = cached \ {u}
    /\ UNCHANGED <<store, users, links, channel, stream, work, once>>

CodeExpires(t) ==
    /\ Store!Expire(t)
    /\ UNCHANGED <<people, links, channel, stream, work, once>>

\* Fault: a restart keeps the codes and gives each a new lifetime.
RenewCodes == expired' = {} /\ UNCHANGED <<by_token, by_owner, issued>>
LoseStore == Store!Restart

\* Core restarts: codes, streams, calls and caches are gone, rows stay.
Restart ==
    /\ LoseStore
    /\ cached' = users /\ leaving' = {}
    /\ channel' = [s \in Services |-> NoStream]
    /\ stream' = [st \in Streams |->
                    IF Phase(st) = "new" THEN stream[st] ELSE [stream[st] EXCEPT !.phase = "ended"]]
    /\ work' = [w \in Workers |-> Idle("none")]
    /\ UNCHANGED <<users, links, once>>

Work(w) ==
    \/ FindUser(w) \/ CheckAccount(w) \/ CacheHolder(w) \/ CheckLinked(w) \/ Insert(w)
    \/ w \in Streams /\ (Compare(w) \/ Consume(w))

Next ==
    \/ \E st \in Streams : Connect(st) \/ Disconnect(st) \/ EndStream(st)
    \/ \E st \in Streams, s \in Services : Register(st, s)
    \/ \E st \in Streams, t \in Tokens, a \in Accounts : Redeem(st, t, a)
    \/ \E c \in Calls, o \in Owners, a \in Accounts : LinkAccount(c, o, a)
    \/ \E w \in Workers : Work(w)
    \/ \E u \in Users, s \in Services, t \in Tokens : CreateLinkToken(u, s, t)
    \/ \E o \in Owners : UnlinkAccount(o)
    \/ \E u \in Users : DeleteUser(u) \/ DropUser(u)
    \/ \E t \in Tokens : CodeExpires(t)
    \/ Restart

Spec == Init /\ [][Next]_vars

-----------------------------------------------------------------------------
(* Properties.                                                             *)

\* The store's two maps stay each other's inverse, so an owner has one code
\* at most ("höchstens ein gültiger Code pro (user_id, service)",
\* link_tokens.py:8), however codes are replaced, redeemed, expired and lost.
CodesAgree == Store!MapsAgree

\* A code that was redeemed, replaced, pruned or lost in a restart is never
\* accepted again (link_tokens.py:60-77).
DeadCodesStayDead ==
    [][\A t \in issued : by_token'[t] \in {by_token[t], NoOwner}]_store

\* A service that counts as available has a stream that is not over: no
\* stale entry promises a deep link nobody would redeem.
RegisteredIsAlive ==
    \A s \in Services : channel[s] # NoStream =>
        /\ stream[channel[s]].service = s
        /\ Phase(channel[s]) # "ended"

\* While its stream is open, an adapter keeps its service until it registers
\* for another one or is displaced, and then it is told so; the end of a
\* displaced stream takes nothing away (component_registry.py:59-60).
SuccessorStays ==
    [][\A s \in Services, st \in Streams :
          channel[s] = st /\ channel'[s] # st /\ Phase(st) = "open" =>
              \/ stream'[st].phase = "ended"
              \/ stream'[st].service # s
              \/ channel'[s] # NoStream /\ stream'[st].phase = "closing"]_vars

\* Whatever happened to the code since it was looked up, a worker links the
\* user and the service it was issued for, and no others.
LinksItsOwner ==
    \A st \in Streams :
        LET t == work[st].code IN
        t # NoToken /\ by_token[t] # NoOwner => work[st].owner = by_token[t]

\* "Einmal-Codes" (link_tokens.py:4), as far as the code keeps them: looking
\* a code up and consuming it are two locked sections, with the link between
\* them, and still a code that has linked an account links again only when
\* two streams had it in hand at once; no unlinking, deletion, displacement or
\* restart between the two sections gives it a second use.
SecondLinkIsContested ==
    \A st \in Streams : At(st, "insert") /\ work[st].code \in spent =>
        work[st].code \in contested

\* What account linking keeps whatever streams, calls, deletions and restarts
\* do: its types, the store's two maps in agreement, no dead stream in the
\* registry, and no code that links somebody else.
LinkingIsSound == TypeOK /\ CodesAgree /\ RegisteredIsAlive /\ LinksItsOwner

\* Claimed at core/hannah/link_tokens.py:4: "Einmal-Codes".  A code that has
\* linked an account does not come to link another.
CodeLinksOnce ==
    \A st \in Streams : LET j == work[st] IN
        At(st, "insert") /\ RowFits(j.owner, j.account) => j.code \notin spent

\* Claimed at core/hannah/grpc_server.py:611: the look at the user's account
\* comes first to "Prevent IntegrityError: (user_id, provider) is UNIQUE".
\* When it comes to the insert, there is no such row.
NoDuplicateRow == \A w \in Workers : At(w, "insert") => links[work[w].owner] = NoAccount

\* Claimed at core/hannah/user_manager.py:215: delete_user "Löscht den
\* Benutzer dauerhaft".  Once it returned, the user is known no more.
DeletedIsForgotten == cached \subseteq users \cup leaving
=============================================================================
