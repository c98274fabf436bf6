---------------------------- MODULE MCAccountPool ----------------------------
(* Instances of AccountPool for TLC. *)
EXTENDS AccountPool, TLC

CONSTANTS r1, r2, r3, s1, s2

\* All requests continue one conversation: they are interchangeable.  A second
\* session may have an affinity from an earlier life of the server.
OneConversation == [r \in {r1, r2, r3} |-> s1]
AnyRequest == Permutations({r1, r2, r3})

\* r1 and r2 continue one conversation, r3 another one
TwoConversations == (r1 :> s1) @@ (r2 :> s1) @@ (r3 :> s2)
===============================================================================
