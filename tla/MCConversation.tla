---------------------------- MODULE MCConversation ----------------------------
(* Two requests of one client on two accounts; neither pair has an order. *)
EXTENDS Conversation, TLC

CONSTANTS r1, r2, a1, a2

Sym == Permutations({r1, r2}) \cup Permutations({a1, a2})
===============================================================================
