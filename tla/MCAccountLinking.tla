-------------------------- MODULE MCAccountLinking --------------------------
(* Two instances of AccountLinking for TLC (mode): two streams of two       *)
(* services and one account; or one stream, one service, a LinkAccount call *)
(* and two accounts.                                                        *)
EXTENDS AccountLinking, Naturals, FiniteSets, TLC

CONSTANT First
VARIABLE mode

InUse == ({links[o] : o \in Owners} \cup {work[w].account : w \in Workers}) \ {NoAccount}
OnlyFirst == /\ \A t \in Tokens : by_token[t] # NoOwner => by_token[t][2] = First
             /\ \A o \in Owners : links[o] # NoAccount => o[2] = First
             /\ \A st \in Streams : stream[st].service \in {First, NoOwner}
             /\ \A w \in Workers : work[w].owner # NoOwner => work[w].owner[2] = First
\* Bounds of the two instances; one user at most is deleted.
Within ==
    /\ users # {}
    /\ \/ /\ mode = "streams" /\ Cardinality(InUse) <= 1
          /\ \A c \in Calls : work[c] = Idle("none")
       \/ /\ mode = "calls" /\ OnlyFirst /\ expired = {}
          /\ Cardinality({st \in Streams : Phase(st) # "new"}) <= 1

MCInit == Init /\ mode \in {"streams", "calls"}
MCNext == Next /\ mode' = mode /\ Within'
MCSpec == MCInit /\ [][MCNext]_<<vars, mode>>
MCSymmetry == Permutations(Users) \cup Permutations(Accounts) \cup Permutations(Tokens)
                \cup Permutations(Streams)
=============================================================================
