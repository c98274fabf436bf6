------------------------------ MODULE QwenStream ------------------------------
(***************************************************************************)
(* The message of Qwen rebuilt from the deltas of a stream (qwen/stream.py,*)
(* QwenStreamReconstructor): links to images are looked for in a text that *)
(* arrives in pieces, and a summary of the reasoning is sent again and     *)
(* again as it grows.  A text is a sequence of symbols: "h" and "t" are    *)
(* the two halves of where a link begins, "m" is what opens a link in      *)
(* markdown, "p" is punctuation, "s" a space and "x" another character of  *)
(* a link.  Reasoning is a sequence of numbered pieces.                    *)
(***************************************************************************)
EXTENDS Naturals, Sequences, SequencesExt, FiniteSets

CONSTANTS
  Inputs,   \* texts that may be sent
  MaxPieces \* bound on the pieces of reasoning

VARIABLES
  input,
  fed,      \* symbols of it that came
  cuts,     \* where the stream has cut it
  scanTail, \* _image_scan_tail
  images,   \* image_urls
  base,     \* _reasoning_parts
  summary,  \* _summary_parts, and _summary_committed once it is told
  told,     \* what take_diffs has told of the reasoning
  pieces,   \* pieces of reasoning so far
  replaced, \* a summary came that does not go on from the one before
  late,     \* reasoning came after a summary
  over      \* finalize was called

vars == <<input, fed, cuts, scanTail, images, base, summary, told, pieces, replaced, late, over>>
links == <<fed, cuts, scanTail, images>>
reasoned == <<base, summary, told, pieces, replaced, late>>

TypeOK ==
  /\ input \in Inputs /\ fed \in 0 .. Len(input) /\ cuts \subseteq 1 .. Len(input)
  /\ Len(scanTail) <= Len(input) /\ IsInjective(images)
  /\ {base, summary, told} \subseteq Seq(1 .. MaxPieces) /\ pieces \in 0 .. MaxPieces
  /\ {replaced, late, over} \subseteq BOOLEAN

Init ==
  /\ input \in Inputs /\ fed = 0 /\ cuts = {} /\ scanTail = <<>> /\ images = <<>>
  /\ base = <<>> /\ summary = <<>> /\ told = <<>> /\ pieces = 0
  /\ replaced = FALSE /\ late = FALSE /\ over = FALSE

-------------------------------------------------------------------------------
(* Links to images *)

LastOf(S) == CHOOSE x \in S : \A y \in S : y <= x
Opens(text) == {i \in 1 .. Len(text) - 1 : text[i] = "h" /\ text[i + 1] = "t"}

\* _IMAGE_URL_RE: a link goes on to the next space and is not empty
LinkEnd(text, i) == LastOf({j \in i .. Len(text) : \A k \in i .. j : text[k] # "s"})
Links(text) ==
  {i \in Opens(text) : LinkEnd(text, i) > i + 1 /\ \A j \in Opens(text) : j < i => LinkEnd(text, j) < i}

\* _trailing_open_url: a link that may go on in the next piece
OpenLinks(text) == {i \in Links(text) : LinkEnd(text, i) = Len(text) /\ text[Len(text)] # "p"}

\* a link without the punctuation after it
Link(text, i) ==
  SubSeq(text, i, LastOf({j \in i .. LinkEnd(text, i) : text[j] # "p"}))

\* a faulty Extract: what is there of a link is taken for the link
ExtractHalf(text) ==
  LET first == SetToSortSeq(Links(text), <)
  IN [n \in 1 .. Len(first) |-> Link(text, first[n])]

\* _extract_image_urls
ExtractAll(text) ==
  LET first == SetToSortSeq(Links(text), <)
  IN [n \in 1 .. Len(first) |-> Link(text, first[n])]
Extract(text) == ExtractAll(IF OpenLinks(text) = {} THEN text ELSE SubSeq(text, 1, LastOf(OpenLinks(text)) - 1))

\* _incomplete_tail: from an open link, the "![" before it and the last link before that
Earlier(text, at, mark) ==
  LET found == {i \in 1 .. at - 1 : IF mark = "m" THEN text[i] = "m" ELSE i \in Opens(text) /\ i + 1 < at}
  IN IF found = {} THEN at ELSE LastOf(found)
IncompleteTail(text) ==
  LET at == IF OpenLinks(text) = {} THEN Len(text) + 1 ELSE LastOf(OpenLinks(text))
      from == Earlier(text, Earlier(text, at, "m"), "h")
  IN SubSeq(text, from, Len(text))

Merged(found) == FoldLeft(LAMBDA known, u : IF Contains(known, u) THEN known ELSE Append(known, u), images, found)

\* a delta of an answer or of an image
Answer(n) ==
  /\ ~over /\ fed + n <= Len(input)
  /\ LET window == scanTail \o SubSeq(input, fed + 1, fed + n)
     IN images' = Merged(Extract(window)) /\ scanTail' = IncompleteTail(window)
  /\ fed' = fed + n /\ cuts' = cuts \cup {fed + n}
  /\ UNCHANGED <<input, reasoned, over>>

Finalize ==
  /\ ~over /\ fed = Len(input) /\ over' = TRUE
  /\ images' = Merged(ExtractAll(scanTail)) /\ scanTail' = <<>>
  /\ UNCHANGED <<input, fed, cuts, reasoned>>

-------------------------------------------------------------------------------
(* Reasoning; texts and reasoning share nothing and are tried apart *)

Reasons == ~over /\ input = <<>> /\ pieces < MaxPieces

Think ==
  /\ Reasons /\ pieces' = pieces + 1
  /\ base' = Append(base, pieces + 1) /\ told' = Append(told, pieces + 1)
  /\ late' = (late \/ summary # <<>>)
  /\ UNCHANGED <<input, links, summary, replaced, over>>

\* _summary_delta
SummaryDelta(committed, updated) ==
  IF IsPrefix(committed, updated) THEN SubSeq(updated, Len(committed) + 1, Len(updated)) ELSE <<>>

\* the summary so far, or another one
Summary ==
  /\ Reasons /\ pieces' = pieces + 1
  /\ \E kept \in 0 .. Len(summary) :
       LET updated == Append(SubSeq(summary, 1, kept), pieces + 1)
       IN /\ summary' = updated
          /\ told' = told \o SummaryDelta(summary, updated)
          /\ replaced' = (replaced \/ kept < Len(summary))
  /\ UNCHANGED <<input, links, base, late, over>>

Next == Think \/ Summary \/ Finalize \/ \E n \in 1 .. Len(input) : Answer(n)

Spec == Init /\ [][Next]_vars
-------------------------------------------------------------------------------
Reasoning == base \o summary

\* a link was cut in the middle of where it begins, or after punctuation inside it
CutBadly ==
  \E i \in cuts \ {Len(input)} :
    \/ input[i] = "h" /\ input[i + 1] = "t"
    \/ input[i] = "p" /\ \E j \in Links(input) : i \in j .. LinkEnd(input, j)

=============================================================================
