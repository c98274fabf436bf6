------------------------------ MODULE SseReader ------------------------------
(***************************************************************************)
(* Server-sent events read from chunks (sseutil.py, IncrementalSSE): the   *)
(* buffer is cut at the first pair of line ends, of any of three kinds,    *)
(* and what comes before it is parsed by itself.  The symbols are "e" and  *)
(* "d" for the two prefixes of a line, "x" for any other text, and the two *)
(* characters of line ends.                                                *)
(***************************************************************************)
EXTENDS Naturals, Sequences, FiniteSets, SequencesExt, Folds

CONSTANTS
  Inputs,   \* what the upstream sends, sequences of symbols
  MaxBuffer,\* MAX_BUFFER_BYTES
  CompactAt \* _COMPACT_THRESHOLD

VARIABLES
  input,    \* what is sent in this run
  fed,      \* how much of it has been fed
  buffer,   \* IncrementalSSE._buffer from its _pos on
  pos,      \* IncrementalSSE._pos: what is before it was read and is still in the buffer
  events,   \* what was yielded
  state     \* "open", "finished", "overflow"

vars == <<input, fed, buffer, pos, events, state>>

CR == "r"
LF == "n"
Symbols == {"e", "d", "x", CR, LF}

TypeOK ==
  /\ input \in Inputs /\ fed \in 0 .. Len(input)
  /\ buffer \in Seq(Symbols) /\ pos \in 0 .. MaxBuffer /\ pos + Len(buffer) <= MaxBuffer
  /\ \A i \in DOMAIN events : events[i].name \in Seq(Seq(Symbols)) /\ events[i].data \in Seq(Seq(Symbols))
  /\ state \in {"open", "finished", "overflow"}

-------------------------------------------------------------------------------
\* parse_sse

\* the lines of a text: CR LF is one end of a line
Ends(text) == {i \in DOMAIN text : text[i] = LF \/ text[i] = CR}
LineEnd(text, i) == text[i] = CR /\ i < Len(text) /\ text[i + 1] = LF
Lines(text) ==
  LET ends == {i \in Ends(text) : ~(i > 1 /\ LineEnd(text, i - 1))}
      cuts == SetToSortSeq(ends, <)
      first(k) == IF k = 1 THEN 1 ELSE cuts[k - 1] + (IF LineEnd(text, cuts[k - 1]) THEN 2 ELSE 1)
      last(k) == IF k > Len(cuts) THEN Len(text) ELSE cuts[k] - 1
  IN [k \in 1 .. Len(cuts) + 1 |-> SubSeq(text, first(k), last(k))]

\* an event has at most one name and lines of data; a name alone is no event
Blank == [name |-> <<>>, data |-> <<>>]
Emitted(acc) == IF acc.now.data = <<>> THEN acc.events ELSE Append(acc.events, acc.now)

Line(acc, line) ==
  CASE line = <<>> -> [events |-> Emitted(acc), now |-> Blank]
    [] line # <<>> /\ line[1] = "e" -> [acc EXCEPT !.now.name = <<Tail(line)>>]
    [] line # <<>> /\ line[1] = "d" -> [acc EXCEPT !.now.data = Append(@, Tail(line))]
    [] OTHER -> acc

Parsed(text) == Emitted(FoldLeft(Line, [events |-> <<>>, now |-> Blank], Lines(text)))

-------------------------------------------------------------------------------
\* _next_boundary: the first pair of line ends and its width
IsPair(text, i, width) ==
  /\ i + width - 1 <= Len(text)
  /\ SubSeq(text, i, i + width - 1) \in IF width = 2 THEN {<<LF, LF>>, <<CR, CR>>} ELSE {<<CR, LF, CR, LF>>}

Boundaries(text) == {b \in (DOMAIN text) \X {2, 4} : IsPair(text, b[1], b[2])}

NextBoundary(text) == CHOOSE b \in Boundaries(text) : \A c \in Boundaries(text) : b[1] <= c[1]

\* the parts that the boundaries cut off, and what is left
Cut[text \in Seq(Symbols)] ==
  IF Boundaries(text) = {} THEN [events |-> <<>>, rest |-> text]
  ELSE LET b == NextBoundary(text)
           next == Cut[SubSeq(text, b[1] + b[2], Len(text))]
       IN [events |-> Parsed(SubSeq(text, 1, b[1] - 1)) \o next.events, rest |-> next.rest]

Init ==
  /\ input \in Inputs
  /\ fed = 0 /\ buffer = <<>> /\ pos = 0 /\ events = <<>> /\ state = "open"

\* feed: what was read is dropped from the buffer from a certain length on, or when nothing is
\* left behind it, and counts for the size of the buffer until then
Feed(n) ==
  LET text == buffer \o SubSeq(input, fed + 1, fed + n)
      cut == Cut[text]
      read == pos + Len(text) - Len(cut.rest)
  IN /\ state = "open" /\ fed + n <= Len(input)
     /\ fed' = fed + n
     /\ events' = events \o cut.events
     /\ LET kept == IF read >= CompactAt \/ cut.rest = <<>> THEN 0 ELSE read
        IN IF kept + Len(cut.rest) > MaxBuffer
             THEN buffer' = <<>> /\ pos' = 0 /\ state' = "overflow"
             ELSE buffer' = cut.rest /\ pos' = kept /\ UNCHANGED state
     /\ UNCHANGED input

\* the tail is parsed too, unless it is blank
Finish ==
  /\ state = "open" /\ fed = Len(input)
  /\ events' = IF \A i \in DOMAIN buffer : buffer[i] \in {CR, LF} THEN events ELSE events \o Parsed(buffer)
  /\ buffer' = <<>> /\ pos' = 0 /\ state' = "finished"
  /\ UNCHANGED <<input, fed>>

Next == Finish \/ \E n \in 1 .. Len(input) : Feed(n)

Spec == Init /\ [][Next]_vars
-------------------------------------------------------------------------------
=============================================================================
