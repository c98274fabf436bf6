---------------------------- MODULE RetriedAnswers ----------------------------
(***************************************************************************)
(* The two clients that try a request again after a part of its stream was *)
(* read: Mistral, whose requests overlap, and Duck.ai.                     *)
(***************************************************************************)
EXTENDS MistralChat, DuckChat

\* Whatever is retried, what a caller was told is of one attempt, the last: nothing is told
\* twice, and no part of an answer is told before its attempt is given up for another.
RetriesAreUnseen == MistralRetriesAreUnseen /\ DuckRetriesAreUnseen
=============================================================================
