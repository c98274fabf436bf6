----------------------------- MODULE CountedTurns -----------------------------
(***************************************************************************)
(* What is counted of an answer: by Qwen, whose counters are those of a    *)
(* whole chat, and by the tracker that all providers tell their usage to.  *)
(***************************************************************************)
EXTENDS QwenChat, UsageTracker

\* What is billed of a chat is what its committed answers cost, by counters that are billed once,
\* and by an estimate besides only where requests overlapped or the counters were missing; the
\* counters of the tracker are those of its totals, in memory and in its store.
TurnsAddUp == QwenTurnsAddUp /\ UsageAddsUp
=============================================================================
