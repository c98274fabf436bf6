----------------------------- MODULE StreamLimits -----------------------------
(***************************************************************************)
(* The limits on a streamed text: stop markers (sseutil.py,                *)
(* StreamStopFilter) and then a budget of estimated tokens (tokens.py,     *)
(* StreamBudget), as content_piece of api/deepseek.py chains them, against *)
(* the limits on a whole text (_apply_limits of api/shaping.py).  A text   *)
(* is a sequence of symbols: "c" is a CJK character, "s" a space.          *)
(***************************************************************************)
EXTENDS Integers, Sequences, FiniteSets, SequencesExt

CONSTANTS
  Inputs,   \* texts a provider may send
  Stops,    \* lists of stop markers a request may have, as sets of sequences
  Budgets,  \* max_tokens a request may have
  PerUnit,  \* other characters that make one unit, 4 in the code
  Unbounded \* no max_tokens

VARIABLES
  input, markers, budget,
  fed,      \* symbols of the input that were fed
  held,     \* StreamStopFilter._buf
  hit,      \* stop_hit
  passed,   \* StreamBudget.text
  done,     \* StreamBudget.done
  sent,     \* what the caller was sent
  over      \* the stream has ended

vars == <<input, markers, budget, fed, held, hit, passed, done, sent, over>>

TypeOK ==
  /\ input \in Inputs /\ markers \in Stops /\ budget \in Budgets \cup {Unbounded}
  /\ fed \in 0 .. Len(input) /\ {hit, done, over} \subseteq BOOLEAN
  /\ {Len(held), Len(passed), Len(sent)} \subseteq 0 .. Len(input)

Init ==
  /\ input \in Inputs /\ markers \in Stops /\ budget \in Budgets \cup {Unbounded}
  /\ fed = 0 /\ held = <<>> /\ passed = <<>> /\ sent = <<>>
  /\ hit = FALSE /\ done = FALSE /\ over = FALSE

LeastOf(S) == CHOOSE x \in S : \A y \in S : x <= y
From(s, i) == SubSeq(s, i, Len(s))
UpTo(s, i) == SubSeq(s, 1, i)

-------------------------------------------------------------------------------
(* StreamStopFilter *)

\* where a marker begins in a text
Found(text, marker) ==
  {i \in 1 .. Len(text) - Len(marker) + 1 : SubSeq(text, i, i + Len(marker) - 1) = marker}
Cuts(text) == UNION {Found(text, m) : m \in markers}


\* the most symbols that may be the start of a marker
Hold == IF markers = {} THEN 0 ELSE Len(CHOOSE m \in markers : \A o \in markers : Len(m) >= Len(o)) - 1

\* feed: what passes and what is held back
Filtered(piece) ==
  LET text == held \o piece
      keep == IF Hold < Len(text) THEN Hold ELSE Len(text)
  IN IF piece = <<>> THEN [out |-> <<>>, held |-> held, hit |-> FALSE]
     ELSE IF Cuts(text) # {} THEN [out |-> UpTo(text, LeastOf(Cuts(text)) - 1), held |-> <<>>, hit |-> TRUE]
     ELSE [out |-> UpTo(text, Len(text) - keep), held |-> From(text, Len(text) - keep + 1), hit |-> FALSE]

-------------------------------------------------------------------------------
(* The estimate and trim_to_tokens *)

Cjk(text) == Cardinality({i \in DOMAIN text : text[i] = "c"})
Estimate(text) ==
  LET other == Len(text) - Cjk(text)
  IN Cjk(text) + (IF other = 0 THEN 0 ELSE IF other < PerUnit THEN 1 ELSE other \div PerUnit)

WithinBudget(text) == budget = Unbounded \/ Estimate(text) <= budget

Blanks(text) == IF \A i \in DOMAIN text : text[i] = "s" THEN Len(text) ELSE LeastOf({i \in DOMAIN text : text[i] # "s"}) - 1
LeftStripped(text) == From(text, Blanks(text) + 1)
RightStripped(text) == Reverse(LeftStripped(Reverse(text)))

\* the last of the ends of words up to which all are within the budget
WordEnds(text) == {i \in 0 .. Len(text) : i = Len(text) \/ text[i + 1] = "s"}
Fits(text) ==
  {i \in WordEnds(text) : \A j \in WordEnds(text) : j <= i => WithinBudget(UpTo(text, j))}
LastFit(text) == IF Fits(text) = {} THEN 0 ELSE CHOOSE i \in Fits(text) : \A j \in Fits(text) : j <= i

\* _head_length: the symbols of a first word that are within the budget
HeadOf(text) == UpTo(text, CHOOSE i \in 0 .. Len(text) :
                             /\ \A j \in 0 .. i : WithinBudget(UpTo(text, j))
                             /\ i = Len(text) \/ ~WithinBudget(UpTo(text, i + 1)))
FirstWord(text) == UpTo(text, LeastOf(WordEnds(text)))

Trimmed(text) ==
  IF WithinBudget(text) THEN text
  ELSE IF LastFit(text) > 0
    THEN IF RightStripped(UpTo(text, LastFit(text))) # <<>> THEN RightStripped(UpTo(text, LastFit(text)))
                                                            ELSE UpTo(text, LastFit(text))
  ELSE IF FirstWord(text) = <<>> THEN HeadOf(LeftStripped(text)) ELSE HeadOf(FirstWord(text))

-------------------------------------------------------------------------------
(* StreamBudget.feed: what is sent of a piece and the text kept *)

Budgeted(text, isDone, piece) ==
  LET whole == text \o piece
  IN IF piece = <<>> \/ isDone THEN [out |-> <<>>, text |-> text, done |-> isDone]
     ELSE IF WithinBudget(whole) THEN [out |-> piece, text |-> whole, done |-> FALSE]
     ELSE [out |-> IF IsPrefix(text, Trimmed(whole)) THEN From(Trimmed(whole), Len(text) + 1) ELSE <<>>,
           text |-> Trimmed(whole), done |-> TRUE]

\* content_piece
Feed(n) ==
  /\ ~over /\ fed + n <= Len(input)
  /\ fed' = fed + n
  /\ IF hit THEN UNCHANGED <<held, hit, passed, done, sent>>
     ELSE LET f == Filtered(SubSeq(input, fed + 1, fed + n))
              b == Budgeted(passed, done, f.out)
          IN /\ held' = f.held /\ hit' = f.hit
             /\ passed' = b.text /\ done' = b.done /\ sent' = sent \o b.out
  /\ UNCHANGED <<input, markers, budget, over>>

\* content_piece at the end: what the filter holds is no marker
Finish ==
  /\ ~over /\ fed = Len(input)
  /\ over' = TRUE /\ held' = <<>>
  /\ LET b == Budgeted(passed, done, held)
     IN passed' = b.text /\ done' = b.done /\ sent' = sent \o b.out
  /\ UNCHANGED <<input, markers, budget, fed, hit>>

Next == Finish \/ \E n \in 1 .. Len(input) : Feed(n)

Spec == Init /\ [][Next]_vars
-------------------------------------------------------------------------------
\* _apply_limits: the whole text up to a marker, or trimmed if there is none
Limited == IF Cuts(input) # {} THEN UpTo(input, LeastOf(Cuts(input)) - 1) ELSE Trimmed(input)

\* what comes before the marker that is complete first
BeforeMarker ==
  LET ends == {<<i, i + Len(m) - 1>> : i \in DOMAIN input, m \in markers}
      complete == {e \in ends : \E m \in markers : e[1] \in Found(input, m) /\ e[2] = e[1] + Len(m) - 1}
      first == {e \in complete : \A o \in complete : e[2] <= o[2]}
  IN IF complete = {} THEN input ELSE UpTo(input, (CHOOSE e \in first : \A o \in first : e[1] >= o[1])[1] - 1)

\* However a text is cut into pieces, the caller is sent no more tokens than it asked for and
\* nothing of a stop marker or after it, and what a caller without streaming gets is not left
\* out, unless it was trimmed to a text that does not begin with what was sent.
StreamKeepsLimits ==
  /\ WithinBudget(sent)
  /\ IsPrefix(sent, BeforeMarker) \/ IsPrefix(sent, LeftStripped(BeforeMarker))
  /\ over => IsPrefix(Trimmed(Limited), sent) \/ LeftStripped(input) # input
=============================================================================
