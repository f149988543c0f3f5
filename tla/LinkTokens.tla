----------------------------- MODULE LinkTokens -----------------------------
(***************************************************************************)
(* The store of one-time link codes (core/hannah/link_tokens.py).          *)
(*                                                                         *)
(* Every operation runs under the store's lock, so each is one action.     *)
(* The clock is abstracted to the set of codes whose time is up; it does   *)
(* not run backwards.  A code is drawn at random, so none is drawn twice.  *)
(***************************************************************************)
CONSTANTS
    Users, Services,
    Tokens,      \* the codes that can be drawn
    NoToken, NoOwner

Owners == Users \X Services

VARIABLES
    by_token,    \* _by_token: the owner of each stored code, or NoOwner
    by_owner,    \* _by_owner: the code stored for each owner, or NoToken
    expired,     \* the codes with expires_at <= now
    issued       \* every code drawn so far

store == <<by_token, by_owner, expired, issued>>

TypeOK ==
    /\ by_token \in [Tokens -> Owners \cup {NoOwner}]
    /\ by_owner \in [Owners -> Tokens \cup {NoToken}]
    /\ expired \subseteq issued
    /\ issued \subseteq Tokens

EmptyStore ==
    /\ by_token = [t \in Tokens |-> NoOwner]
    /\ by_owner = [o \in Owners |-> NoToken]

Init ==
    /\ EmptyStore
    /\ expired = {}
    /\ issued = {}

-----------------------------------------------------------------------------
(* The maps without the codes of a set: _remove, called for each of them.  *)

Without(removed) == [t \in Tokens |-> IF t \in removed THEN NoOwner ELSE by_token[t]]

\* Fault: the code is removed from one map only.
KeepOwners(removed) == by_owner
\* Fault: the owner's entry is overwritten where it should be deleted.
OverwriteOwners(removed) ==
    [o \in Owners |-> IF by_owner[o] \in removed THEN NoOwner ELSE by_owner[o]]
\* Only an owner that still points to the removed code loses it.
OwnersWithout(removed) ==
    [o \in Owners |->
        IF \E t \in removed : by_token[t] = o /\ by_owner[o] = t THEN NoToken ELSE by_owner[o]]

Remove(removed) ==
    /\ by_token' = Without(removed)
    /\ by_owner' = OwnersWithout(removed)

Stored(t) == by_token[t] # NoOwner

\* _prune_expired: the codes it removes.
Pruned == {t \in expired : Stored(t)}

\* The code issue finds for the owner once the expired ones are gone.
Replaced(o) == OwnersWithout(Pruned)[o]

-----------------------------------------------------------------------------
(* The operations.                                                         *)

\* The codes that issue(user_id, service) removes before it stores t.
RemovedByIssue(o, t) == Pruned \cup ({Replaced(o)} \ {NoToken})

\* Fault: a code no longer in the store may be drawn again.
DrawnAgain(t) == ~Stored(t)
\* secrets.token_urlsafe(24)
Drawn(t) == t \notin issued

Issue(o, t) ==
    /\ Drawn(t)
    /\ by_token' = [Without(RemovedByIssue(o, t)) EXCEPT ![t] = o]
    /\ by_owner' = [OwnersWithout(Pruned) EXCEPT ![o] = t]
    /\ issued' = issued \cup {t}
    /\ UNCHANGED expired

\* lookup(token, service): what it answers ...
\* Fault: a code is known to every service.
KnownAnywhere(t, s) == Stored(t)
Known(t, s) == Stored(t) /\ by_token[t][2] = s
LookupOK(t, s) == Known(t, s) /\ t \notin expired

\* ... and what it does to the store: an expired code goes.
Lookup(t, s) ==
    /\ IF Known(t, s) /\ t \in expired THEN Remove({t}) ELSE UNCHANGED <<by_token, by_owner>>
    /\ UNCHANGED <<expired, issued>>

Consume(t) ==
    /\ IF Stored(t) THEN Remove({t}) ELSE UNCHANGED <<by_token, by_owner>>
    /\ UNCHANGED <<expired, issued>>

\* Time passes TOKEN_TTL_SECONDS after the code was drawn.
Expire(t) ==
    /\ t \in issued \ expired
    /\ expired' = expired \cup {t}
    /\ UNCHANGED <<by_token, by_owner, issued>>

\* Core restarts: the store lives in memory only.
Restart ==
    /\ by_token' = [t \in Tokens |-> NoOwner]
    /\ by_owner' = [o \in Owners |-> NoToken]
    /\ UNCHANGED <<expired, issued>>

Next ==
    \/ \E o \in Owners, t \in Tokens : Issue(o, t)
    \/ \E t \in Tokens, s \in Services : Lookup(t, s)
    \/ \E t \in Tokens : Consume(t) \/ Expire(t)
    \/ Restart

Spec == Init /\ [][Next]_store

-----------------------------------------------------------------------------
(* Properties.                                                             *)

\* The two maps agree: an owner's code is stored for that owner, and a
\* stored code is its owner's.  _remove keeps one in step with the other.
MapsAgree ==
    \A o \in Owners, t \in Tokens : by_owner[o] = t <=> by_token[t] = o

\* "höchstens ein gültiger Code pro (user_id, service)" (link_tokens.py:8).
OneCodePerOwner ==
    \A t, u \in Tokens : Stored(t) /\ by_token[u] = by_token[t] => u = t

\* What is stored was issued.
StoredWasIssued == \A t \in Tokens : Stored(t) => t \in issued

\* A code that was consumed, replaced, pruned or lost in a restart is never
\* accepted again, and no code ever changes its owner.
DeadStaysDead ==
    [][\A t \in issued : by_token'[t] \in {by_token[t], NoOwner}]_store
=============================================================================
