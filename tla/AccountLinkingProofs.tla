------------------------ MODULE AccountLinkingProofs ------------------------
(***************************************************************************)
(* The linking of accounts uses the store of codes as LinkTokens specifies *)
(* it, so what is proved of the store holds while redeems, calls,          *)
(* deletions and restarts overlap; and a worker that has looked up a code  *)
(* links its owner, whatever becomes of the code.                          *)
(***************************************************************************)
EXTENDS AccountLinking, TLAPS

\* The sentinels are outside the sets of the store, too.
LEMMA StoreAssumption ==
    /\ NoToken \notin Tokens
    /\ NoOwner \notin Store!Owners \cup Users \cup Services
BY LinkOwnersAssumption DEF Owners, Store!Owners

\* What _remove leaves of the two maps is still a pair of such maps.
LEMMA RemoveType ==
    ASSUME Store!TypeOK, NEW removed \in SUBSET Tokens
    PROVE  /\ Store!Without(removed) \in [Tokens -> Store!Owners \cup {NoOwner}]
           /\ Store!OwnersWithout(removed) \in [Store!Owners -> Tokens \cup {NoToken}]
<1>1. Store!Without(removed) \in [Tokens -> Store!Owners \cup {NoOwner}]
    BY DEF Store!TypeOK, Store!Without
<1>2. Store!OwnersWithout(removed) \in [Store!Owners -> Tokens \cup {NoToken}]
    BY DEF Store!TypeOK, Store!OwnersWithout
<1>3. QED BY <1>1, <1>2

\* Removing codes keeps the two maps in agreement.
LEMMA RemoveAgrees ==
    ASSUME Store!TypeOK, Store!MapsAgree, NEW removed \in SUBSET Tokens,
           NEW o \in Store!Owners, NEW t \in Tokens
    PROVE  Store!OwnersWithout(removed)[o] = t <=> Store!Without(removed)[t] = o
<1>1. CASE t \in removed
    <2>1. Store!Without(removed)[t] # o
        BY <1>1, StoreAssumption DEF Store!Without
    <2>2. Store!OwnersWithout(removed)[o] # t
        BY <1>1, StoreAssumption DEF Store!OwnersWithout, Store!MapsAgree
    <2>3. QED BY <2>1, <2>2
<1>2. CASE t \notin removed
    <2>1. Store!Without(removed)[t] = by_token[t]
        BY <1>2 DEF Store!Without
    <2>2. Store!OwnersWithout(removed)[o] = t <=> by_owner[o] = t
        BY <1>2, StoreAssumption DEF Store!OwnersWithout
    <2>3. QED BY <2>1, <2>2 DEF Store!MapsAgree
<1>3. QED BY <1>1, <1>2

\* Only stored codes can be pruned or replaced, and the replaced one is a code.
LEMMA RemovedByIssueType ==
    ASSUME Store!TypeOK, NEW o \in Store!Owners, NEW t \in Tokens
    PROVE  Store!Pruned \in SUBSET Tokens /\ Store!RemovedByIssue(o, t) \in SUBSET Tokens
<1>1. Store!Pruned \in SUBSET Tokens
    BY DEF Store!Pruned, Store!TypeOK
<1>2. Store!Replaced(o) \in Tokens \cup {NoToken}
    BY <1>1, RemoveType DEF Store!Replaced
<1>3. QED BY <1>1, <1>2 DEF Store!RemovedByIssue

-----------------------------------------------------------------------------
(* Type correctness.                                                       *)

LEMMA StoreTypeStep == Store!TypeOK /\ [Store!Next]_(Store!store) => Store!TypeOK'
<1> SUFFICES ASSUME Store!TypeOK, [Store!Next]_(Store!store) PROVE Store!TypeOK'
    OBVIOUS
<1>1. ASSUME NEW o \in Store!Owners, NEW t \in Tokens, Store!Issue(o, t) PROVE Store!TypeOK'
    <2>1. by_token' \in [Tokens -> Store!Owners \cup {NoOwner}]
        BY <1>1, RemovedByIssueType, RemoveType DEF Store!Issue
    <2>2. by_owner' \in [Store!Owners -> Tokens \cup {NoToken}]
        BY <1>1, RemovedByIssueType, RemoveType DEF Store!Issue
    <2>3. expired' \subseteq issued' /\ issued' \subseteq Tokens
        BY <1>1 DEF Store!Issue, Store!TypeOK
    <2>4. QED BY <2>1, <2>2, <2>3 DEF Store!TypeOK
<1>2. ASSUME NEW t \in Tokens, NEW s \in Services, Store!Lookup(t, s) PROVE Store!TypeOK'
    BY <1>2, RemoveType, {t} \in SUBSET Tokens DEF Store!Lookup, Store!Remove, Store!TypeOK
<1>3. ASSUME NEW t \in Tokens, Store!Consume(t) PROVE Store!TypeOK'
    BY <1>3, RemoveType, {t} \in SUBSET Tokens DEF Store!Consume, Store!Remove, Store!TypeOK
<1>4. ASSUME NEW t \in Tokens, Store!Expire(t) PROVE Store!TypeOK'
    BY <1>4 DEF Store!Expire, Store!TypeOK
<1>5. CASE Store!Restart
    BY <1>5 DEF Store!Restart, Store!TypeOK
<1>6. CASE UNCHANGED Store!store
    BY <1>6 DEF Store!store, Store!TypeOK
<1>7. QED BY <1>1, <1>2, <1>3, <1>4, <1>5, <1>6 DEF Store!Next

\* Every reachable store has the type of the two dictionaries of
\* LinkTokenStore (link_tokens.py:39-40), and no code expires unissued.
THEOREM StoreTypeCorrect == Store!Spec => []Store!TypeOK
<1>1. Store!Init => Store!TypeOK
    BY DEF Store!Init, Store!EmptyStore, Store!TypeOK
<1>2. QED BY <1>1, StoreTypeStep, PTL DEF Store!Spec

-----------------------------------------------------------------------------
(* The two maps agree, and so each owner has one code at most.             *)

StoreInv == Store!TypeOK /\ Store!StoredWasIssued /\ Store!MapsAgree

\* issue stores a code nobody has for an owner whose old code it removed.
LEMMA IssueAgrees ==
    ASSUME StoreInv, NEW o \in Store!Owners, NEW t \in Tokens, Store!Issue(o, t)
    PROVE  Store!MapsAgree'
<1> DEFINE left == Store!OwnersWithout(Store!Pruned)
           kept == Store!Without(Store!Pruned)
<1> USE DEF StoreInv
<1>1. Store!Pruned \in SUBSET Tokens /\ Store!RemovedByIssue(o, t) \in SUBSET Tokens
    BY RemovedByIssueType
<1>2. /\ left \in [Store!Owners -> Tokens \cup {NoToken}]
      /\ kept \in [Tokens -> Store!Owners \cup {NoOwner}]
      /\ Store!Without(Store!RemovedByIssue(o, t)) \in [Tokens -> Store!Owners \cup {NoOwner}]
    BY <1>1, RemoveType
<1>3. \A p \in Store!Owners, u \in Tokens : left[p] = u <=> kept[u] = p
    BY <1>1, RemoveAgrees
<1>4. kept[t] = NoOwner
    BY DEF Store!Issue, Store!Drawn, Store!StoredWasIssued, Store!Stored, Store!Without, Store!TypeOK
<1>5. SUFFICES ASSUME NEW p \in Store!Owners, NEW u \in Tokens
               PROVE  by_owner'[p] = u <=> by_token'[u] = p
    BY DEF Store!MapsAgree
<1>6. by_owner'[p] = IF p = o THEN t ELSE left[p]
    BY <1>2 DEF Store!Issue
<1>7. by_token'[u] = IF u = t THEN o ELSE Store!Without(Store!RemovedByIssue(o, t))[u]
    BY <1>2 DEF Store!Issue
<1>8. Store!Without(Store!RemovedByIssue(o, t))[u] = IF u = left[o] THEN NoOwner ELSE kept[u]
    BY StoreAssumption DEF Store!Without, Store!RemovedByIssue, Store!Replaced
<1>9. CASE u = t
    <2>1. left[p] # t
        BY <1>3, <1>4, StoreAssumption
    <2>2. QED BY <1>6, <1>7, <1>9, <2>1
<1>10. CASE u # t
    <2>1. CASE p = o
        BY <1>3, <1>6, <1>7, <1>8, <1>10, <2>1, StoreAssumption
    <2>2. CASE p # o
        BY <1>3, <1>6, <1>7, <1>8, <1>10, <2>2, StoreAssumption
    <2>3. QED BY <2>1, <2>2
<1>11. QED BY <1>9, <1>10

\* A step that only removes codes keeps the maps in agreement.
LEMMA RemovalAgrees ==
    ASSUME Store!TypeOK, Store!MapsAgree, NEW removed \in SUBSET Tokens, Store!Remove(removed)
    PROVE  Store!MapsAgree'
BY RemoveAgrees DEF Store!Remove, Store!MapsAgree

LEMMA StoreInvStep == StoreInv /\ [Store!Next]_(Store!store) => StoreInv'
<1> SUFFICES ASSUME StoreInv, [Store!Next]_(Store!store) PROVE Store!StoredWasIssued' /\ Store!MapsAgree'
    BY StoreTypeStep DEF StoreInv
<1> USE DEF StoreInv
<1>1. ASSUME NEW o \in Store!Owners, NEW t \in Tokens, Store!Issue(o, t)
      PROVE  Store!StoredWasIssued' /\ Store!MapsAgree'
    <2>1. Store!MapsAgree'
        BY <1>1, IssueAgrees
    <2>2. Store!StoredWasIssued'
        <3>1. Store!Without(Store!RemovedByIssue(o, t)) \in [Tokens -> Store!Owners \cup {NoOwner}]
            BY RemovedByIssueType, RemoveType
        <3>2. QED BY <1>1, <3>1 DEF Store!Issue, Store!StoredWasIssued, Store!Stored, Store!Without
    <2>3. QED BY <2>1, <2>2
<1>2. ASSUME NEW removed \in SUBSET Tokens, Store!Remove(removed), UNCHANGED issued
      PROVE  Store!StoredWasIssued' /\ Store!MapsAgree'
    <2>1. Store!MapsAgree'
        BY <1>2, RemovalAgrees
    <2>2. Store!StoredWasIssued'
        BY <1>2 DEF Store!Remove, Store!Without, Store!StoredWasIssued, Store!Stored
    <2>3. QED BY <2>1, <2>2
<1>3. ASSUME UNCHANGED <<by_token, by_owner, issued>>
      PROVE  Store!StoredWasIssued' /\ Store!MapsAgree'
    BY <1>3 DEF Store!StoredWasIssued, Store!Stored, Store!MapsAgree
<1>4. ASSUME NEW t \in Tokens, NEW s \in Services, Store!Lookup(t, s)
      PROVE  Store!StoredWasIssued' /\ Store!MapsAgree'
    BY <1>2, <1>3, <1>4, {t} \in SUBSET Tokens DEF Store!Lookup
<1>5. ASSUME NEW t \in Tokens, Store!Consume(t) PROVE Store!StoredWasIssued' /\ Store!MapsAgree'
    BY <1>2, <1>3, <1>5, {t} \in SUBSET Tokens DEF Store!Consume
<1>6. ASSUME NEW t \in Tokens, Store!Expire(t) PROVE Store!StoredWasIssued' /\ Store!MapsAgree'
    BY <1>3, <1>6 DEF Store!Expire
<1>7. CASE Store!Restart
    BY <1>7, StoreAssumption DEF Store!Restart, Store!StoredWasIssued, Store!Stored, Store!MapsAgree
<1>8. CASE UNCHANGED Store!store
    BY <1>3, <1>8 DEF Store!store
<1>9. QED BY <1>1, <1>4, <1>5, <1>6, <1>7, <1>8 DEF Store!Next

LEMMA StoreInvariant == Store!Spec => []StoreInv
<1>1. Store!Init => StoreInv
    BY StoreAssumption
       DEF Store!Init, Store!EmptyStore, StoreInv, Store!TypeOK, Store!StoredWasIssued, Store!Stored, Store!MapsAgree
<1>2. QED BY <1>1, StoreInvStep, PTL DEF Store!Spec

\* The dictionaries _by_token and _by_owner always agree: _remove and issue
\* change one with the other (link_tokens.py:43-87).
THEOREM StoreMapsAgree == Store!Spec => []Store!MapsAgree
BY StoreInvariant, PTL DEF StoreInv

\* "höchstens ein gültiger Code pro (user_id, service)" (link_tokens.py:8).
THEOREM StoreOneCodeAtMost == Store!Spec => []Store!OneCodePerOwner
<1>1. StoreInv => Store!OneCodePerOwner
    BY DEF StoreInv, Store!TypeOK, Store!MapsAgree, Store!OneCodePerOwner, Store!Stored
<1>2. QED BY <1>1, StoreInvariant, PTL

\* No step stores an issued code again or gives it another owner.
LEMMA StoreNeverRevives ==
    ASSUME Store!TypeOK, [Store!Next]_(Store!store), NEW t \in issued
    PROVE  by_token'[t] \in {by_token[t], NoOwner} /\ t \in issued'
<1>0. t \in Tokens
    BY DEF Store!TypeOK
<1> DEFINE Goal == by_token'[t] \in {by_token[t], NoOwner} /\ t \in issued'
<1>1. ASSUME NEW o \in Store!Owners, NEW u \in Tokens, Store!Issue(o, u) PROVE Goal
    <2>1. t # u
        BY <1>1 DEF Store!Issue, Store!Drawn
    <2>2. by_token'[t] = Store!Without(Store!RemovedByIssue(o, u))[t]
        BY <1>0, <1>1, <2>1, RemovedByIssueType, RemoveType DEF Store!Issue
    <2>3. QED BY <1>0, <1>1, <2>2 DEF Store!Without, Store!Issue
<1>2. ASSUME NEW u \in Tokens, NEW s \in Services, Store!Lookup(u, s) PROVE Goal
    BY <1>0, <1>2 DEF Store!Lookup, Store!Remove, Store!Without
<1>3. ASSUME NEW u \in Tokens, Store!Consume(u) PROVE Goal
    BY <1>0, <1>3 DEF Store!Consume, Store!Remove, Store!Without
<1>4. ASSUME NEW u \in Tokens, Store!Expire(u) PROVE Goal
    BY <1>4 DEF Store!Expire
<1>5. CASE Store!Restart
    BY <1>0, <1>5 DEF Store!Restart
<1>6. CASE UNCHANGED Store!store
    BY <1>6 DEF Store!store
<1>7. QED BY <1>1, <1>2, <1>3, <1>4, <1>5, <1>6 DEF Store!Next

\* A code that left the store is never stored again, and none ever changes
\* its owner (issue, consume and _prune_expired, link_tokens.py:43-87).
THEOREM StoreDeadStaysDead == Store!Spec => Store!DeadStaysDead
<1>1. Store!TypeOK /\ [Store!Next]_(Store!store) => [\A t \in issued : by_token'[t] \in {by_token[t], NoOwner}]_(Store!store)
    BY StoreNeverRevives
<1>2. QED BY <1>1, StoreTypeCorrect, PTL DEF Store!Spec, Store!DeadStaysDead

-----------------------------------------------------------------------------
(* The linking.                                                            *)

\* What a worker holds while it is at work.
JobOK(w) ==
    /\ work[w].pc = "ready" => work[w].code = NoToken
    /\ work[w].pc # "ready" =>
          /\ work[w].owner \in Owners
          /\ work[w].account \in Accounts
          /\ w \in Streams => work[w].code \in issued
    /\ work[w].pc = "cache" => work[w].holder \in Users

Inv == TypeOK /\ StoreInv /\ \A w \in Workers : JobOK(w)

-----------------------------------------------------------------------------
(* Every step is a step of the store, or leaves the store alone.           *)

LEMMA StoreStep ==
    ASSUME Inv, [Next]_vars
    PROVE  [Store!Next]_(Store!store)
<1> USE DEF Inv, store, Store!store
<1>1. ASSUME NEW st \in Streams, NEW t \in Tokens, NEW a \in Accounts, Redeem(st, t, a)
      PROVE  Store!Next
    <2>1. stream[st].service \in Services
        BY <1>1, AccountLinkingAssumption, LinkOwnersAssumption DEF Redeem, TypeOK
    <2>2. QED BY <1>1, <2>1 DEF Redeem, Store!Next
<1>2. ASSUME NEW st \in Streams, Consume(st) PROVE Store!Next
    <2>1. work[st].code \in Tokens
        BY <1>2 DEF Consume, At, JobOK, Workers, TypeOK, Store!TypeOK
    <2>2. QED BY <1>2, <2>1 DEF Consume, Store!Next
<1>3. ASSUME NEW w \in Workers, Work(w) PROVE [Store!Next]_(Store!store)
    BY <1>2, <1>3
       DEF Work, FindUser, CheckAccount, CacheHolder, CheckLinked, Insert, Compare
<1>4. ASSUME NEW u \in Users, NEW s \in Services, NEW t \in Tokens, CreateLinkToken(u, s, t)
      PROVE  Store!Next
    BY <1>4 DEF CreateLinkToken, Store!Next, Store!Owners
<1>5. ASSUME NEW t \in Tokens, CodeExpires(t) PROVE Store!Next
    BY <1>5 DEF CodeExpires, Store!Next
<1>6. CASE Restart
    BY <1>6 DEF Restart, LoseStore, Store!Next
<1>7. ASSUME NEW st \in Streams, Connect(st) \/ Disconnect(st) \/ EndStream(st)
      PROVE  UNCHANGED store
    BY <1>7 DEF Connect, Disconnect, EndStream
<1>8. ASSUME NEW st \in Streams, NEW s \in Services, Register(st, s) PROVE UNCHANGED store
    BY <1>8 DEF Register
<1>9. ASSUME NEW c \in Calls, NEW o \in Owners, NEW a \in Accounts, LinkAccount(c, o, a)
      PROVE  UNCHANGED store
    BY <1>9 DEF LinkAccount
<1>10. ASSUME NEW o \in Owners, UnlinkAccount(o) PROVE UNCHANGED store
    BY <1>10 DEF UnlinkAccount
<1>11. ASSUME NEW u \in Users, DeleteUser(u) \/ DropUser(u) PROVE UNCHANGED store
    BY <1>11 DEF DeleteUser, DropUser
<1>12. CASE UNCHANGED vars
    BY <1>12 DEF vars
<1>13. QED
    BY <1>1, <1>3, <1>4, <1>5, <1>6, <1>7, <1>8, <1>9, <1>10, <1>11, <1>12 DEF Next

\* So the store's invariant and its codes' owners are kept.
LEMMA StoreKept ==
    ASSUME Inv, [Next]_vars
    PROVE  /\ Store!TypeOK' /\ StoreInv'
           /\ \A t \in issued : t \in issued' /\ by_token'[t] \in {by_token[t], NoOwner}
<1>1. [Store!Next]_(Store!store)
    BY StoreStep
<1>2. StoreInv'
    BY <1>1, StoreInvStep DEF Inv
<1>3. QED BY <1>1, <1>2, StoreNeverRevives DEF Inv, StoreInv

-----------------------------------------------------------------------------
(* The invariant.                                                          *)

\* A worker that goes on to another step keeps the rest of its record.
LEMMA GotoKept ==
    ASSUME Inv, NEW w \in Workers, NEW pc \in Steps, Goto(w, pc)
    PROVE  /\ work' \in [Workers -> Jobs]
           /\ work'[w] = [work[w] EXCEPT !.pc = pc]
           /\ \A v \in Workers \ {w} : work'[v] = work[v]
BY DEF Inv, TypeOK, Goto, Jobs

\* A worker that answers is ready again.
LEMMA AnswerKept ==
    ASSUME Inv, NEW w \in Workers, NEW a \in Answers, Answer(w, a)
    PROVE  /\ work' \in [Workers -> Jobs]
           /\ work'[w] = Idle(a)
           /\ \A v \in Workers \ {w} : work'[v] = work[v]
<1>1. Idle(a) \in Jobs
    BY DEF Idle, Jobs, Steps
<1>2. QED BY <1>1 DEF Inv, TypeOK, Answer

\* What is well formed stays so when the worker's record does and the codes
\* issued only grow.
LEMMA JobsKept ==
    ASSUME Inv, NEW w \in Workers, issued \subseteq issued',
           \A v \in Workers \ {w} : work'[v] = work[v],
           \/ \E a \in Answers : work'[w] = Idle(a)
           \/ \E pc \in Steps \ {"ready", "cache"} :
                 work[w].pc # "ready" /\ work'[w] = [work[w] EXCEPT !.pc = pc]
    PROVE  \A v \in Workers : JobOK(v)'
<1>1. ASSUME NEW v \in Workers \ {w} PROVE JobOK(v)'
    BY <1>1 DEF Inv, JobOK
<1>2. ASSUME NEW a \in Answers, work'[w] = Idle(a) PROVE JobOK(w)'
    BY <1>2 DEF JobOK, Idle
<1>3. ASSUME NEW pc \in Steps \ {"ready", "cache"}, work[w].pc # "ready",
             work'[w] = [work[w] EXCEPT !.pc = pc]
      PROVE  JobOK(w)'
    <2>1. work[w] \in Jobs /\ JobOK(w)
        BY DEF Inv, TypeOK, once
    <2>2. QED BY <1>3, <2>1 DEF JobOK, Jobs
<1>4. QED BY <1>1, <1>2, <1>3

\* What a step does to the record of one worker keeps it well formed.
LEMMA WorkKept ==
    ASSUME Inv, NEW w \in Workers, Work(w), [Next]_vars
    PROVE  Inv'
<1> USE DEF Inv, Workers
<1>0. Store!TypeOK' /\ StoreInv' /\ issued \subseteq issued'
    BY StoreKept DEF TypeOK, Store!TypeOK, once
<1>a. work[w] \in Jobs /\ JobOK(w)
    BY DEF TypeOK, once
<1>1. CASE FindUser(w)
    <2>1. cached' \subseteq Users
        BY <1>1 DEF FindUser, TypeOK, once
    <2>2. CASE Goto(w, "account") \/ Answer(w, "unknown")
        <3>1. work' \in [Workers -> Jobs] /\ \A v \in Workers : JobOK(v)'
            BY <1>0, <1>1, <2>2, GotoKept, AnswerKept, JobsKept
               DEF FindUser, At, Answers, Steps
        <3>2. QED BY <1>0, <1>1, <2>1, <3>1 DEF FindUser, TypeOK, once
    <2>3. CASE work' = [work EXCEPT ![w].pc = "consume", ![w].answer = "unknown"]
        <3>1. [work[w] EXCEPT !.pc = "consume", !.answer = "unknown"] \in Jobs
            BY <1>a DEF Jobs, Steps, Answers
        <3>2. work' = [work EXCEPT ![w] = [work[w] EXCEPT !.pc = "consume", !.answer = "unknown"]]
            BY <2>3 DEF TypeOK, once
        <3>3. work' \in [Workers -> Jobs]
            BY <3>1, <3>2 DEF TypeOK, once
        <3>4. \A v \in Workers : JobOK(v)'
            BY <1>0, <1>1, <1>a, <2>3 DEF FindUser, At, TypeOK, JobOK, Jobs
        <3>5. QED BY <1>0, <1>1, <2>1, <3>3, <3>4 DEF FindUser, TypeOK, once
    <2>4. QED BY <1>1, <2>2, <2>3 DEF FindUser
<1>2. CASE CheckAccount(w)
    <2>1. CASE Goto(w, "own")
        BY <1>0, <1>2, <2>1, GotoKept, JobsKept
           DEF CheckAccount, At, TypeOK, people, once, Steps
    <2>2. ASSUME NEW u \in Users, work' = [work EXCEPT ![w].pc = "cache", ![w].holder = u]
          PROVE  Inv'
        <3>1. work' \in [Workers -> Jobs]
            <4>1. [work[w] EXCEPT !.pc = "cache", !.holder = u] \in Jobs
                BY <1>a DEF Jobs, Steps
            <4>2. work' = [work EXCEPT ![w] = [work[w] EXCEPT !.pc = "cache", !.holder = u]]
                BY <2>2 DEF TypeOK, once
            <4>3. QED BY <4>1, <4>2 DEF TypeOK, once
        <3>2. \A v \in Workers : JobOK(v)'
            BY <1>0, <1>2, <1>a, <2>2 DEF CheckAccount, At, TypeOK, JobOK, Jobs
        <3>3. QED BY <1>0, <1>2, <3>1, <3>2 DEF CheckAccount, TypeOK, people, once
    <2>3. QED BY <1>2, <2>1, <2>2 DEF CheckAccount
<1>3. CASE CacheHolder(w)
    <2>1. cached' \subseteq Users
        BY <1>3, <1>a DEF CacheHolder, At, JobOK, TypeOK, once
    <2>2. work' \in [Workers -> Jobs] /\ \A v \in Workers : JobOK(v)'
        BY <1>0, <1>3, GotoKept, AnswerKept, JobsKept DEF CacheHolder, At, Answers, Steps
    <2>3. QED BY <1>0, <1>3, <2>1, <2>2 DEF CacheHolder, TypeOK, once
<1>4. CASE CheckLinked(w)
    <2>1. work' \in [Workers -> Jobs] /\ \A v \in Workers : JobOK(v)'
        BY <1>0, <1>4, GotoKept, AnswerKept, JobsKept DEF CheckLinked, At, Answers, Steps
    <2>2. QED BY <1>0, <1>4, <2>1 DEF CheckLinked, TypeOK, people, once
<1>5. CASE Insert(w)
    <2>1. work' \in [Workers -> Jobs] /\ \A v \in Workers : JobOK(v)'
        BY <1>0, <1>5, GotoKept, AnswerKept, JobsKept DEF Insert, At, Answers, Steps
    <2>2. work[w].owner \in Owners /\ work[w].account \in Accounts
          /\ work[w].code \in Tokens \cup {NoToken}
        BY <1>5, <1>a DEF Insert, At, JobOK, Jobs
    <2>3. links' \in [Owners -> Accounts \cup {NoAccount}] /\ spent' \subseteq Tokens
        BY <1>5, <2>2 DEF Insert, TypeOK, once
    <2>4. stream' \in [Streams -> [phase: {"new", "open", "closing", "ended"},
                                   service: Services \cup {NoOwner}]]
        BY <1>5 DEF Insert, Closing, TypeOK, once
    <2>5. QED BY <1>0, <1>5, <2>1, <2>3, <2>4 DEF Insert, TypeOK, people, once
<1>6. ASSUME w \in Streams, Compare(w) PROVE Inv'
    <2>1. work' \in [Workers -> Jobs] /\ \A v \in Workers : JobOK(v)'
        BY <1>0, <1>6, GotoKept, AnswerKept, JobsKept DEF Compare, At, Answers, Steps
    <2>2. QED BY <1>0, <1>6, <2>1 DEF Compare, TypeOK, people, once
<1>7. ASSUME w \in Streams, Consume(w) PROVE Inv'
    <2>1. work' \in [Workers -> Jobs] /\ \A v \in Workers : JobOK(v)'
        BY <1>0, <1>7, AnswerKept, JobsKept DEF Consume, Answers
    <2>2. QED BY <1>0, <1>7, <2>1 DEF Consume, TypeOK, people, once
<1>8. QED BY <1>1, <1>2, <1>3, <1>4, <1>5, <1>6, <1>7 DEF Work

\* Beginning a redeem or a LinkAccount call.
LEMMA BeginKept ==
    ASSUME Inv, NEW w \in Workers, issued \subseteq issued', Store!TypeOK',
           NEW t \in Tokens \cup {NoToken}, NEW o \in Owners, NEW a \in Accounts,
           w \in Streams => t \in issued,
           work' = [work EXCEPT ![w] = Job(t, o, a)]
    PROVE  work' \in [Workers -> Jobs] /\ \A v \in Workers : JobOK(v)'
<1>1. Job(t, o, a) \in Jobs
    BY DEF Job, Jobs, Steps, Answers
<1>2. work' \in [Workers -> Jobs]
    BY <1>1 DEF Inv, TypeOK, once
<1>3. ASSUME NEW v \in Workers PROVE JobOK(v)'
    <2>1. CASE v = w
        BY <2>1 DEF Inv, TypeOK, JobOK, Job
    <2>2. CASE v # w
        BY <2>2 DEF Inv, TypeOK, JobOK
    <2>3. QED BY <2>1, <2>2
<1>4. QED BY <1>2, <1>3

LEMMA InvStep == Inv /\ [Next]_vars => Inv'
<1> SUFFICES ASSUME Inv, [Next]_vars PROVE Inv'
    OBVIOUS
<1> USE DEF Inv
<1>0. Store!TypeOK' /\ StoreInv' /\ issued \subseteq issued'
    BY StoreKept DEF TypeOK, Store!TypeOK, once
<1>a. ASSUME UNCHANGED work PROVE \A v \in Workers : JobOK(v)'
    BY <1>0, <1>a DEF JobOK
<1>1. ASSUME NEW st \in Streams, Connect(st) \/ Disconnect(st) \/ EndStream(st) PROVE Inv'
    <2>1. stream' \in [Streams -> [phase: {"new", "open", "closing", "ended"},
                                   service: Services \cup {NoOwner}]]
        BY <1>1 DEF Connect, Disconnect, EndStream, Closing, TypeOK, once
    <2>2. channel' \in [Services -> Streams \cup {NoStream}]
        BY <1>1 DEF Connect, Disconnect, EndStream, TypeOK, once
    <2>3. QED BY <1>0, <1>1, <1>a, <2>1, <2>2 DEF Connect, Disconnect, EndStream, TypeOK, people, once
<1>2. ASSUME NEW st \in Streams, NEW s \in Services, Register(st, s) PROVE Inv'
    <2>1. stream' \in [Streams -> [phase: {"new", "open", "closing", "ended"},
                                   service: Services \cup {NoOwner}]]
        BY <1>2 DEF Register, TypeOK, once
    <2>2. channel' \in [Services -> Streams \cup {NoStream}]
        BY <1>2 DEF Register, TypeOK, once
    <2>3. QED BY <1>0, <1>2, <1>a, <2>1, <2>2 DEF Register, TypeOK, people, once
<1>3. ASSUME NEW st \in Streams, NEW t \in Tokens, NEW a \in Accounts, Redeem(st, t, a)
      PROVE  Inv'
    <2>1. CASE ~Store!LookupOK(t, stream[st].service)
        <3>1. Answer(st, "unknown") /\ UNCHANGED contested
            BY <1>3, <2>1 DEF Redeem
        <3>2. work' \in [Workers -> Jobs] /\ \A v \in Workers : JobOK(v)'
            BY <1>0, <3>1, AnswerKept, JobsKept DEF Answers, Workers
        <3>3. QED BY <1>0, <1>3, <3>2 DEF Redeem, TypeOK, people, once
    <2>2. CASE Store!LookupOK(t, stream[st].service)
        <3>1. /\ t \in issued
              /\ <<by_token[t][1], stream[st].service>> \in Owners
            <4>1. by_token[t] \in Owners
                BY <2>2 DEF TypeOK, Store!TypeOK, Store!LookupOK, Store!Known, Store!Stored,
                            Store!Owners, Owners
            <4>2. stream[st].service \in Services
                BY <1>3, AccountLinkingAssumption, LinkOwnersAssumption DEF Redeem, TypeOK, once
            <4>3. t \in issued
                BY <2>2 DEF Store!LookupOK, Store!Known, Store!Stored, StoreInv,
                            Store!StoredWasIssued, Store!Stored
            <4>4. QED BY <4>1, <4>2, <4>3 DEF Store!Owners, Owners
        <3>2. work' \in [Workers -> Jobs] /\ \A v \in Workers : JobOK(v)'
            BY <1>0, <1>3, <2>2, <3>1, BeginKept DEF Redeem, Workers
        <3>3. QED BY <1>0, <1>3, <3>2 DEF Redeem, TypeOK, people, once
    <2>3. QED BY <2>1, <2>2
<1>4. ASSUME NEW c \in Calls, NEW o \in Owners, NEW a \in Accounts, LinkAccount(c, o, a)
      PROVE  Inv'
    <2>1. work' \in [Workers -> Jobs] /\ \A v \in Workers : JobOK(v)'
        BY <1>0, <1>4, BeginKept, AccountLinkingAssumption, LinkOwnersAssumption DEF LinkAccount, Workers
    <2>2. QED BY <1>0, <1>4, <2>1 DEF LinkAccount, TypeOK, people, once
<1>5. ASSUME NEW u \in Users, NEW s \in Services, NEW t \in Tokens, CreateLinkToken(u, s, t)
      PROVE  Inv'
    BY <1>0, <1>5, <1>a DEF CreateLinkToken, TypeOK, once
<1>6. ASSUME NEW o \in Owners, UnlinkAccount(o) PROVE Inv'
    BY <1>0, <1>6, <1>a DEF UnlinkAccount, TypeOK, people, once
<1>7. ASSUME NEW u \in Users, DeleteUser(u) PROVE Inv'
    BY <1>0, <1>7, <1>a DEF DeleteUser, TypeOK, once
<1>8. ASSUME NEW u \in Users, DropUser(u) PROVE Inv'
    BY <1>0, <1>8, <1>a DEF DropUser, TypeOK, once
<1>9. ASSUME NEW t \in Tokens, CodeExpires(t) PROVE Inv'
    BY <1>0, <1>9, <1>a DEF CodeExpires, TypeOK, people, once
<1>10. CASE Restart
    <2>1. Idle("none") \in Jobs
        BY DEF Idle, Jobs, Steps, Answers
    <2>2. \A v \in Workers : JobOK(v)'
        BY <1>10 DEF Restart, JobOK, Idle
    <2>3. stream' \in [Streams -> [phase: {"new", "open", "closing", "ended"},
                                   service: Services \cup {NoOwner}]]
        BY <1>10 DEF Restart, Phase, TypeOK, once
    <2>4. QED BY <1>0, <1>10, <2>1, <2>2, <2>3 DEF Restart, TypeOK, once
<1>11. CASE UNCHANGED vars
    BY <1>0, <1>11, <1>a DEF vars, people, TypeOK, once
<1>12. QED
    BY <1>1, <1>2, <1>3, <1>4, <1>5, <1>6, <1>7, <1>8, <1>9, <1>10, <1>11, WorkKept DEF Next

LEMMA InvInit == Init => Inv
<1> SUFFICES ASSUME Init PROVE Inv
    OBVIOUS
<1>1. Store!TypeOK
    BY DEF Init, Store!Init, Store!EmptyStore, Store!TypeOK, Store!Owners
<1>2. StoreInv
    BY StoreAssumption, AccountLinkingAssumption, LinkOwnersAssumption
       DEF Init, Store!Init, Store!EmptyStore, Store!Owners,
           StoreInv, Store!TypeOK, Store!StoredWasIssued,
           Store!Stored, Store!MapsAgree
<1>3. Idle("none") \in Jobs
    BY DEF Idle, Jobs, Steps, Answers
<1>4. \A w \in Workers : JobOK(w)
    BY DEF Init, JobOK, Idle
<1>5. QED BY <1>1, <1>2, <1>3, <1>4 DEF Init, Inv, TypeOK

LEMMA Invariant == Spec => []Inv
BY InvInit, InvStep, PTL DEF Spec

-----------------------------------------------------------------------------
(* The theorems.                                                           *)

\* Every reachable state is well typed: what workers hold, the registry, the
\* rows and the store (grpc_server.py:566-663, 1998-2096).
THEOREM TypeCorrect == Spec => []TypeOK
BY Invariant, PTL DEF Inv

\* The two maps of the store agree at every interleaving of the threads that
\* use it (link_tokens.py:43-87).
THEOREM CodesAlwaysAgree == Spec => []CodesAgree
<1>1. Inv => CodesAgree
    BY DEF Inv, CodesAgree, StoreInv, Store!MapsAgree,
           Store!Owners
<1>2. QED BY <1>1, Invariant, PTL

\* A code that left the store is not accepted again, whatever the streams,
\* deletions and restarts (link_tokens.py:43-87).
THEOREM CodesStayDead == Spec => DeadCodesStayDead
<1>1. Inv /\ [Next]_vars
        => [\A t \in issued : by_token'[t] \in {by_token[t], NoOwner}]_store
    BY StoreKept
<1>2. QED BY <1>1, Invariant, PTL DEF Spec, DeadCodesStayDead

\* Only taking a redeem message gives a stream's worker another code.
LEMMA CodeKept ==
    ASSUME Inv, [Next]_vars, NEW st \in Streams, work'[st].code # NoToken,
           \A t \in Tokens, a \in Accounts : ~Redeem(st, t, a)
    PROVE  work'[st].code = work[st].code /\ work'[st].owner = work[st].owner
<1> USE DEF Inv, TypeOK, Workers
<1> DEFINE Goal == work'[st].code = work[st].code /\ work'[st].owner = work[st].owner
<1>1. ASSUME NEW w \in Workers, Work(w) PROVE Goal
    <2>1. \/ \E pc \in Steps :
             \/ Goto(w, pc)
             \/ work' = [work EXCEPT ![w].pc = pc, ![w].answer = "unknown"]
             \/ \E u \in Users : work' = [work EXCEPT ![w].pc = pc, ![w].holder = u]
          \/ \E a \in Answers : Answer(w, a)
        BY <1>1 DEF Work, FindUser, CheckAccount, CacheHolder, CheckLinked, Insert, Compare,
                    Consume, Steps, Answers
    <2>2. CASE w # st
        BY <2>1, <2>2 DEF Goto, Answer
    <2>3. CASE w = st
        <3>1. work[st] \in Jobs /\ st \in DOMAIN work
            OBVIOUS
        <3>2. ASSUME NEW a \in Answers, Answer(w, a) PROVE Goal
            BY <2>3, <3>1, <3>2 DEF Answer, Idle
        <3>3. ASSUME NEW pc \in Steps, Goto(w, pc) PROVE Goal
            BY <2>3, <3>1, <3>3 DEF Goto, Jobs
        <3>4. ASSUME NEW pc \in Steps,
                     work' = [work EXCEPT ![w].pc = pc, ![w].answer = "unknown"]
              PROVE  Goal
            BY <2>3, <3>1, <3>4 DEF Jobs
        <3>5. ASSUME NEW pc \in Steps, NEW u \in Users,
                     work' = [work EXCEPT ![w].pc = pc, ![w].holder = u]
              PROVE  Goal
            BY <2>3, <3>1, <3>5 DEF Jobs
        <3>6. QED BY <2>1, <3>2, <3>3, <3>4, <3>5
    <2>4. QED BY <2>2, <2>3
<1>2. ASSUME NEW x \in Streams, NEW t \in Tokens, NEW a \in Accounts, Redeem(x, t, a)
      PROVE  Goal
    BY <1>2 DEF Redeem, Answer
<1>3. ASSUME NEW c \in Calls, NEW o \in Owners, NEW a \in Accounts, LinkAccount(c, o, a)
      PROVE  Goal
    BY <1>3, AccountLinkingAssumption, LinkOwnersAssumption DEF LinkAccount
<1>4. CASE Restart
    BY <1>4 DEF Restart, Idle
<1>5. CASE UNCHANGED work
    BY <1>5
<1>6. QED
    BY <1>1, <1>2, <1>3, <1>4, <1>5
       DEF Next, Connect, Disconnect, EndStream, Register, CreateLinkToken, UnlinkAccount,
           DeleteUser, DropUser, CodeExpires, vars

\* A worker past the look-up of a code links the user and the service the code
\* was issued for, though the code may be replaced, expire or be consumed by
\* another stream meanwhile (grpc_server.py:2069-2095).
THEOREM LinksOnlyItsOwner == Spec => []LinksItsOwner
<1>1. Init => LinksItsOwner
    BY DEF Init, LinksItsOwner, Idle, Workers
<1>2. Inv /\ LinksItsOwner /\ [Next]_vars => LinksItsOwner'
    <2> SUFFICES ASSUME Inv, LinksItsOwner, [Next]_vars, NEW st \in Streams,
                        work'[st].code # NoToken, by_token'[work'[st].code] # NoOwner
                 PROVE  work'[st].owner = by_token'[work'[st].code]
        BY DEF LinksItsOwner
    <2>1. CASE \A t \in Tokens, a \in Accounts : ~Redeem(st, t, a)
        <3>1. work'[st].code = work[st].code /\ work'[st].owner = work[st].owner
            BY <2>1, CodeKept
        <3>2. work[st].code \in issued
            BY <3>1 DEF Inv, JobOK, Workers
        <3>3. by_token'[work[st].code] = by_token[work[st].code]
            BY <3>1, <3>2, StoreKept
        <3>4. QED BY <3>1, <3>3 DEF LinksItsOwner
    <2>2. ASSUME NEW t \in Tokens, NEW a \in Accounts, Redeem(st, t, a)
          PROVE  work'[st].owner = by_token'[work'[st].code]
        <3>1. Store!LookupOK(t, stream[st].service)
            BY <2>2 DEF Redeem, Answer, Idle, Inv, TypeOK, Workers
        <3>2. work'[st].code = t /\ work'[st].owner = <<by_token[t][1], stream[st].service>>
            BY <2>2, <3>1 DEF Redeem, Job, Inv, TypeOK, Workers
        <3>3. by_token[t] \in Owners /\ by_token[t][2] = stream[st].service
            BY <3>1 DEF Store!LookupOK, Store!Known, Store!Stored, Inv, TypeOK, Store!TypeOK,
                        Store!Owners, Owners
        <3>4. by_token'[t] = by_token[t]
            BY <2>2, <3>1 DEF Redeem, Store!Lookup, Store!LookupOK
        <3>5. QED BY <3>2, <3>3, <3>4 DEF Owners
    <2>3. QED BY <2>1, <2>2
<1>3. QED BY <1>1, <1>2, Invariant, PTL DEF Spec

\* A service counts as available only while its adapter's ChannelConnect call
\* is not over: the call's end takes its own entry with it, and no stream is
\* registered for two services (grpc_server.py:2034-2060).
THEOREM RegisteredStaysAlive == Spec => []RegisteredIsAlive
<1>1. Init => RegisteredIsAlive
    BY DEF Init, RegisteredIsAlive
<1>2. Inv /\ RegisteredIsAlive /\ [Next]_vars => RegisteredIsAlive'
    <2> SUFFICES ASSUME Inv, RegisteredIsAlive, [Next]_vars PROVE RegisteredIsAlive'
        OBVIOUS
    <2> USE AccountLinkingAssumption, LinkOwnersAssumption DEF Inv, TypeOK, RegisteredIsAlive, Phase
    <2>1. ASSUME NEW st \in Streams, NEW s \in Services, Register(st, s)
          PROVE  RegisteredIsAlive'
        BY <2>1 DEF Register
    <2>2. ASSUME NEW st \in Streams, EndStream(st) PROVE RegisteredIsAlive'
        BY <2>2 DEF EndStream, Unregisters
    <2>3. ASSUME NEW st \in Streams, Connect(st) \/ Disconnect(st) PROVE RegisteredIsAlive'
        BY <2>3 DEF Connect, Disconnect, Closing
    <2>4. ASSUME NEW w \in Workers, Work(w) PROVE RegisteredIsAlive'
        <3>1. channel' = channel
            BY <2>4 DEF Work, FindUser, CheckAccount, CacheHolder, CheckLinked, Insert,
                        Compare, Consume
        <3>2. stream' = stream \/ stream' = Closing(w)
            BY <2>4 DEF Work, FindUser, CheckAccount, CacheHolder, CheckLinked, Insert,
                        Compare, Consume
        <3>3. QED BY <3>1, <3>2 DEF Closing
    <2>5. CASE Restart
        BY <2>5 DEF Restart
    <2>6. CASE UNCHANGED <<channel, stream>>
        BY <2>6
    <2>7. QED
        BY <2>1, <2>2, <2>3, <2>4, <2>5, <2>6
           DEF Next, Redeem, LinkAccount, CreateLinkToken, UnlinkAccount, DeleteUser,
               DropUser, CodeExpires, vars
<1>3. QED BY <1>1, <1>2, Invariant, PTL DEF Spec

\* An adapter whose stream is open loses its service only by registering for
\* another, to a registration that closes it, or in a restart: unregister spares
\* the successor (component_registry.py:57-65), so the late end of an old stream
\* does no harm.
THEOREM SuccessorIsSpared == Spec => SuccessorStays
<1> DEFINE Spared ==
        \A s \in Services, st \in Streams :
            channel[s] = st /\ channel'[s] # st /\ Phase(st) = "open" =>
                \/ stream'[st].phase = "ended"
                \/ stream'[st].service # s
                \/ channel'[s] # NoStream /\ stream'[st].phase = "closing"
<1>1. Inv /\ Next => Spared
    <2> SUFFICES ASSUME Inv, Next, NEW s \in Services, NEW st \in Streams,
                        channel[s] = st, channel'[s] # st, Phase(st) = "open"
                 PROVE  \/ stream'[st].phase = "ended"
                        \/ stream'[st].service # s
                        \/ channel'[s] # NoStream /\ stream'[st].phase = "closing"
        OBVIOUS
    <2> USE DEF Inv, TypeOK, Phase
    <2>1. ASSUME NEW x \in Streams, NEW r \in Services, Register(x, r)
          PROVE  \/ stream'[st].service # s
                 \/ channel'[s] # NoStream /\ stream'[st].phase = "closing"
        <3>1. CASE x = st
            <4>1. s # r /\ stream'[st].service = r
                BY <2>1, <3>1 DEF Register
            <4>2. QED BY <4>1
        <3>2. CASE x # st
            <4>1. s = r /\ channel'[s] = x
                BY <2>1, <3>2 DEF Register
            <4>2. stream'[st].phase = "closing"
                BY <2>1, <3>2, <4>1 DEF Register
            <4>3. QED BY <4>1, <4>2, AccountLinkingAssumption
        <3>3. QED BY <3>1, <3>2
    <2>2. ASSUME NEW x \in Streams, EndStream(x) PROVE FALSE
        BY <2>2 DEF EndStream, Unregisters
    <2>3. CASE Restart
        BY <2>3 DEF Restart
    <2>4. CASE channel' = channel
        BY <2>4
    <2>5. QED
        BY <2>1, <2>2, <2>3, <2>4
           DEF Next, Connect, Disconnect, Redeem, LinkAccount, CreateLinkToken, UnlinkAccount,
               DeleteUser, DropUser, CodeExpires, Work, FindUser, CheckAccount, CacheHolder,
               CheckLinked, Insert, Compare, Consume
<1>2. Inv /\ [Next]_vars => [Spared]_vars
    BY <1>1
<1>3. QED BY <1>2, Invariant, PTL DEF Spec, SuccessorStays

-----------------------------------------------------------------------------
(* One-time codes.                                                         *)

\* A code that two streams never had in hand at once is in the hands of one at
\* most, and once it has linked an account, only to be consumed; until then it
\* is in somebody's hands, and then it is no longer stored.
OnceOK(t) ==
    t \notin contested =>
        /\ \A v, w \in Streams : work[v].code = t /\ work[w].code = t => v = w
        /\ t \in spent =>
              /\ \A w \in Streams : work[w].code = t => At(w, "consume")
              /\ Store!Stored(t) => \E w \in Streams : work[w].code = t

OnceInv ==
    /\ spent \subseteq issued
    /\ \A c \in Calls : work[c].code = NoToken
    /\ \A t \in Tokens : OnceOK(t)

\* What a worker's step does to its own record, and to no other: it keeps its
\* code or drops it, and a stream at "consume" drops code and entry together.
LEMMA WorkStep ==
    ASSUME Inv, NEW w \in Workers, Work(w)
    PROVE  /\ \A v \in Workers \ {w} : work'[v] = work[v]
           /\ work'[w].code \in {work[w].code, NoToken}
           /\ At(w, "consume") =>
                 work'[w].code = NoToken /\ spent' = spent /\ by_token'[work[w].code] = NoOwner
           /\ w \in Streams /\ spent' # spent =>
                 /\ spent' = spent \cup {work[w].code}
                 /\ work'[w].code = work[w].code /\ At(w, "consume")'
           /\ spent \subseteq spent' /\ spent' \subseteq spent \cup ({work[w].code} \ {NoToken})
           /\ UNCHANGED contested
<1> USE DEF Inv, TypeOK, Workers, At
<1>1. work[w] \in Jobs /\ w \in DOMAIN work
    OBVIOUS
<1>2. ASSUME NEW pc \in Steps, Goto(w, pc)
      PROVE  /\ \A v \in Workers \ {w} : work'[v] = work[v]
             /\ work'[w].code = work[w].code /\ work'[w].pc = pc
    BY <1>1, <1>2 DEF Goto, Jobs
<1>3. ASSUME NEW a \in Answers, Answer(w, a)
      PROVE  /\ \A v \in Workers \ {w} : work'[v] = work[v]
             /\ work'[w].code = NoToken
    BY <1>1, <1>3 DEF Answer, Idle
<1>4. CASE FindUser(w)
    <2>1. CASE work' = [work EXCEPT ![w].pc = "consume", ![w].answer = "unknown"]
        <3>1. work'[w].code = work[w].code /\ \A v \in Workers \ {w} : work'[v] = work[v]
            BY <1>1, <2>1 DEF Jobs
        <3>2. QED BY <1>4, <3>1 DEF FindUser, once
    <2>2. CASE Goto(w, "account") \/ Answer(w, "unknown")
        BY <1>2, <1>3, <1>4, <2>2 DEF FindUser, once, Steps, Answers
    <2>3. QED BY <1>4, <2>1, <2>2 DEF FindUser
<1>5. CASE CheckAccount(w)
    <2>1. ASSUME NEW u \in Users, work' = [work EXCEPT ![w].pc = "cache", ![w].holder = u]
          PROVE  /\ work'[w].code = work[w].code
                 /\ \A v \in Workers \ {w} : work'[v] = work[v]
        BY <1>1, <2>1 DEF Jobs
    <2>2. QED BY <1>2, <1>5, <2>1 DEF CheckAccount, once, Steps
<1>6. CASE CacheHolder(w)
    BY <1>2, <1>3, <1>6 DEF CacheHolder, once, Steps, Answers
<1>7. CASE CheckLinked(w)
    BY <1>2, <1>3, <1>7 DEF CheckLinked, once, Steps, Answers
<1>8. CASE Insert(w)
    <2>1. work[w].pc = "insert" /\ contested' = contested
        BY <1>8 DEF Insert
    <2>2. CASE RowFits(work[w].owner, work[w].account)
        <3>1. /\ spent' = spent \cup ({work[w].code} \ {NoToken})
              /\ IF w \in Streams THEN Goto(w, "consume") ELSE Answer(w, "ok")
            BY <1>8, <2>2 DEF Insert
        <3>2. w \in Streams => work[w].code \in Tokens
            BY <2>1 DEF JobOK, Store!TypeOK
        <3>3. w \in Streams => spent' = spent \cup {work[w].code}
            BY <3>1, <3>2, LinkOwnersAssumption
        <3>4. QED BY <1>2, <1>3, <2>1, <3>1, <3>3 DEF Steps, Answers
    <2>3. CASE ~RowFits(work[w].owner, work[w].account)
        BY <1>3, <1>8, <2>1, <2>3 DEF Insert, Answers
    <2>4. QED BY <2>2, <2>3
<1>9. ASSUME w \in Streams, Compare(w) PROVE work[w].pc = "compare" /\ UNCHANGED once
    BY <1>9 DEF Compare
<1>10. ASSUME w \in Streams, Compare(w)
       PROVE  \/ Goto(w, "consume")
              \/ Answer(w, "already")
    BY <1>10 DEF Compare
<1>11. ASSUME w \in Streams, Consume(w) PROVE by_token'[work[w].code] = NoOwner
    <2>1. work[w].code \in Tokens
        BY <1>11 DEF Consume, JobOK, Store!TypeOK
    <2>2. QED BY <1>11, <2>1 DEF Consume, Store!Consume, Store!Remove, Store!Without, Store!Stored
<1>12. ASSUME w \in Streams, Consume(w)
       PROVE  (\E a \in Answers : Answer(w, a)) /\ UNCHANGED once
    BY <1>12 DEF Consume, Answers
<1>13. ASSUME w \in Streams, Compare(w) \/ Consume(w)
       PROVE  /\ \A v \in Workers \ {w} : work'[v] = work[v]
              /\ work'[w].code \in {work[w].code, NoToken}
              /\ At(w, "consume") =>
                    work'[w].code = NoToken /\ spent' = spent /\ by_token'[work[w].code] = NoOwner
              /\ spent' = spent /\ UNCHANGED contested
    BY <1>2, <1>3, <1>9, <1>10, <1>11, <1>12, <1>13 DEF once, Steps, Answers, Compare
<1>14. QED BY <1>4, <1>5, <1>6, <1>7, <1>8, <1>13 DEF Work

\* A step of another worker, or one that drops a code nobody needs any more.
LEMMA WorkOnce ==
    ASSUME Inv, Inv', OnceInv, NEW w \in Workers, Work(w), [Next]_vars
    PROVE  OnceInv'
<1> USE DEF OnceInv, Workers
<1>1. /\ \A v \in Workers \ {w} : work'[v] = work[v]
      /\ work'[w].code \in {work[w].code, NoToken}
      /\ At(w, "consume") =>
            work'[w].code = NoToken /\ spent' = spent /\ by_token'[work[w].code] = NoOwner
      /\ w \in Streams /\ spent' # spent =>
            /\ spent' = spent \cup {work[w].code}
            /\ work'[w].code = work[w].code /\ At(w, "consume")'
      /\ spent \subseteq spent' /\ spent' \subseteq spent \cup ({work[w].code} \ {NoToken})
      /\ contested' = contested
    BY WorkStep
<1>2. \A t \in issued : t \in issued' /\ by_token'[t] \in {by_token[t], NoOwner}
    BY StoreKept
<1>3. \A c \in Calls : work'[c].code = NoToken
    BY <1>1
<1>4. spent' \subseteq issued'
    <2>1. CASE w \in Calls
        BY <1>1, <1>2, <2>1
    <2>2. CASE w \in Streams
        <3>1. work[w].pc # "ready" => work[w].code \in issued
            BY <2>2 DEF Inv, JobOK
        <3>2. work[w].pc = "ready" => work[w].code = NoToken
            BY DEF Inv, JobOK
        <3>3. QED BY <1>1, <1>2, <3>1, <3>2
    <2>3. QED BY <2>1, <2>2
<1>5. w \in Calls => spent' = spent
    BY <1>1
<1>6. ASSUME NEW t \in Tokens PROVE OnceOK(t)'
    <2> SUFFICES ASSUME t \notin contested
                 PROVE  /\ \A v, x \in Streams : work'[v].code = t /\ work'[x].code = t => v = x
                        /\ t \in spent' =>
                              /\ \A x \in Streams : work'[x].code = t => work'[x].pc = "consume"
                              /\ by_token'[t] # NoOwner => \E x \in Streams : work'[x].code = t
        BY <1>1 DEF OnceOK, At, Store!Stored
    <2>0. t # NoToken
        BY LinkOwnersAssumption
    <2>1. /\ \A v, x \in Streams : work[v].code = t /\ work[x].code = t => v = x
          /\ t \in spent =>
                /\ \A x \in Streams : work[x].code = t => work[x].pc = "consume"
                /\ by_token[t] # NoOwner => \E x \in Streams : work[x].code = t
        BY DEF OnceOK, At, Store!Stored
    <2>2. \A x \in Streams : work'[x].code = t => work[x].code = t
        BY <1>1, <2>0
    <2>3. \A v, x \in Streams : work'[v].code = t /\ work'[x].code = t => v = x
        BY <2>1, <2>2
    <2>4. CASE t \in spent' \ spent
        <3>1. w \in Streams /\ t = work[w].code /\ work'[w].code = t /\ work'[w].pc = "consume"
            BY <1>1, <1>5, <2>4 DEF At
        <3>2. QED BY <2>3, <3>1
    <2>5. CASE t \in spent
        <3>1. by_token'[t] # NoOwner => by_token[t] # NoOwner
            BY <1>2, <2>5
        <3>2. ASSUME NEW x \in Streams, work'[x].code = t PROVE work'[x].pc = "consume"
            <4>1. work[x].code = t /\ work[x].pc = "consume"
                BY <2>1, <2>2, <2>5, <3>2
            <4>2. x # w
                BY <1>1, <2>0, <3>2, <4>1 DEF At
            <4>3. QED BY <1>1, <4>1, <4>2
        <3>3. ASSUME by_token'[t] # NoOwner PROVE \E x \in Streams : work'[x].code = t
            <4>1. PICK x \in Streams : work[x].code = t
                BY <2>1, <2>5, <3>1, <3>3
            <4>2. x # w
                BY <1>1, <2>1, <2>5, <3>3, <4>1 DEF At
            <4>3. QED BY <1>1, <4>1, <4>2
        <3>4. QED BY <2>3, <3>2, <3>3
    <2>6. QED BY <2>3, <2>4, <2>5
<1>7. QED BY <1>3, <1>4, <1>6

\* Taking up a code that somebody else has in hand makes it contested, and one
\* that has linked is taken up by nobody else.
LEMMA RedeemOnce ==
    ASSUME Inv, OnceInv, NEW st \in Streams, NEW s \in Tokens, NEW a \in Accounts,
           Redeem(st, s, a), [Next]_vars
    PROVE  OnceInv'
<1> USE DEF OnceInv, Workers
<1>1. /\ \A t \in issued : t \in issued' /\ by_token'[t] \in {by_token[t], NoOwner}
      /\ spent' = spent /\ contested \subseteq contested'
    BY StoreKept DEF Redeem
<1>2. /\ work[st].code = NoToken
      /\ \A v \in Workers \ {st} : work'[v] = work[v]
    BY DEF Redeem, At, Answer, Inv, TypeOK, JobOK
<1>3. \A c \in Calls : work'[c].code = NoToken
    BY <1>2, AccountLinkingAssumption
<1>4. \/ work'[st].code = NoToken
      \/ /\ work'[st].code = s /\ Store!Stored(s)
         /\ contested' = contested \cup {u \in {s} : \E x \in Streams : work[x].code = u}
    BY DEF Redeem, Answer, Idle, Job, Inv, TypeOK, Store!LookupOK, Store!Known
<1>5. ASSUME NEW t \in Tokens PROVE OnceOK(t)'
    <2> SUFFICES ASSUME t \notin contested'
                 PROVE  /\ \A v, x \in Streams : work'[v].code = t /\ work'[x].code = t => v = x
                        /\ t \in spent =>
                              /\ \A x \in Streams : work'[x].code = t => work'[x].pc = "consume"
                              /\ by_token'[t] # NoOwner => \E x \in Streams : work'[x].code = t
        BY <1>1 DEF OnceOK, At, Store!Stored
    <2>0. t # NoToken
        BY LinkOwnersAssumption
    <2>1. /\ \A v, x \in Streams : work[v].code = t /\ work[x].code = t => v = x
          /\ t \in spent =>
                /\ \A x \in Streams : work[x].code = t => work[x].pc = "consume"
                /\ by_token[t] # NoOwner => \E x \in Streams : work[x].code = t
        BY <1>1 DEF OnceOK, At, Store!Stored
    <2>2. CASE work'[st].code = t
        <3>1. t = s /\ by_token[t] # NoOwner /\ \A x \in Streams : work[x].code # t
            BY <1>4, <2>0, <2>2 DEF Store!Stored
        <3>2. t \notin spent
            BY <2>1, <3>1
        <3>3. QED BY <1>2, <2>2, <3>1, <3>2
    <2>3. CASE work'[st].code # t
        <3>1. \A x \in Streams : work'[x].code = t <=> work[x].code = t
            BY <1>2, <2>0, <2>3
        <3>2. \A x \in Streams : work'[x].code = t => work'[x] = work[x]
            BY <1>2, <2>3
        <3>3. t \in spent /\ by_token'[t] # NoOwner => by_token[t] # NoOwner
            BY <1>1
        <3>4. QED BY <2>1, <3>1, <3>2, <3>3
    <2>4. QED BY <2>2, <2>3
<1>6. QED BY <1>1, <1>3, <1>5

LEMMA OnceStep == Inv /\ Inv' /\ OnceInv /\ [Next]_vars => OnceInv'
<1> SUFFICES ASSUME Inv, Inv', OnceInv, [Next]_vars PROVE OnceInv'
    OBVIOUS
<1>1. \A t \in issued : t \in issued' /\ by_token'[t] \in {by_token[t], NoOwner}
    BY StoreKept
<1>2. CASE UNCHANGED <<work, once>>
    BY <1>1, <1>2 DEF OnceInv, OnceOK, Store!Stored, At, once
<1>3. ASSUME NEW c \in Calls, NEW o \in Owners, NEW a \in Accounts, LinkAccount(c, o, a)
      PROVE  OnceInv'
    <2>1. work'[c].code = NoToken /\ \A v \in Workers \ {c} : work'[v] = work[v]
        BY <1>3 DEF LinkAccount, Job, Inv, TypeOK, Workers
    <2>2. \A x \in Streams : work'[x] = work[x]
        BY <2>1, AccountLinkingAssumption DEF Workers
    <2>3. \A v \in Calls : work'[v].code = NoToken
        BY <2>1 DEF OnceInv, Workers
    <2>4. spent' = spent /\ contested' = contested
        BY <1>3 DEF LinkAccount, once
    <2>5. QED BY <1>1, <2>2, <2>3, <2>4 DEF OnceInv, OnceOK, Store!Stored, At
<1>4. CASE Restart
    <2>1. \A v \in Workers : work'[v].code = NoToken
        BY <1>4 DEF Restart, Idle
    <2>2. spent' = spent /\ \A t \in Tokens : by_token'[t] = NoOwner
        BY <1>4 DEF Restart, LoseStore, Store!Restart, once
    <2>3. \A x \in Streams, t \in Tokens : work'[x].code # t
        BY <2>1, LinkOwnersAssumption DEF Workers
    <2>4. \A t \in Tokens : OnceOK(t)'
        BY <2>2, <2>3 DEF OnceOK, Store!Stored
    <2>5. QED BY <1>1, <2>1, <2>2, <2>4 DEF OnceInv, Workers
<1>5. QED
    BY <1>2, <1>3, <1>4, WorkOnce, RedeemOnce
       DEF Next, Connect, Disconnect, EndStream, Register, CreateLinkToken, UnlinkAccount,
           DeleteUser, DropUser, CodeExpires, vars

\* A code links a second time only when two streams had it in hand at once:
\* lookup and consume are two locked sections with the link between them
\* (grpc_server.py:2069-2091, link_tokens.py:60-77), and nothing else that
\* happens between them, an unlinking, a deletion, a displaced stream or a
\* restart of Core, gives a code that has linked a second use.
THEOREM SecondLinkAlwaysContested == Spec => []SecondLinkIsContested
<1>1. Init => OnceInv
    BY LinkOwnersAssumption DEF Init, OnceInv, OnceOK, Idle, Workers
<1>2. Inv /\ OnceInv => SecondLinkIsContested
    <2> SUFFICES ASSUME Inv, OnceInv, NEW st \in Streams, At(st, "insert"), work[st].code \in spent,
                        work[st].code \notin contested
                 PROVE  FALSE
        BY DEF SecondLinkIsContested
    <2>1. work[st].code \in Tokens
        BY DEF Inv, TypeOK
    <2>2. At(st, "consume")
        BY <2>1 DEF OnceInv, OnceOK
    <2>3. QED BY <2>2 DEF At
<1>3. QED BY <1>1, <1>2, OnceStep, Invariant, PTL DEF Spec

\* The whole of what the run of account linking checks in a state, for any
\* number of users, codes, streams and calls (grpc_server.py:566-663, 1998-2096).
THEOREM LinkingStaysSound == Spec => []LinkingIsSound
BY TypeCorrect, CodesAlwaysAgree, RegisteredStaysAlive, LinksOnlyItsOwner, PTL DEF LinkingIsSound
=============================================================================
