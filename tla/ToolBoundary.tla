----------------------------- MODULE ToolBoundary -----------------------------
(***************************************************************************)
(* Where a tool call begins in a text that still grows                     *)
(* (tools/boundary.py): what comes before it is shown at once, what may    *)
(* become a call is held back.  The answer for a text is kept for the      *)
(* texts that go on from it, in a cache that all streams with the same     *)
(* tools share.  A text is a sequence of symbols: "t" and "c" are the two  *)
(* halves of tool_calls (a key, a tag and a word), "a" and "m" those of    *)
(* name (a key and an attribute), "f" and "g" those of the name of a tool, *)
(* "h" is the name of a tag of HTML, "D" is DSML, "q" is a quotation mark, *)
(* "_" a space, "n" the end of a line and "x" another letter.              *)
(***************************************************************************)
EXTENDS Naturals, Sequences

CONSTANTS
  Inputs,      \* texts of a stream
  Others,      \* texts of the other streams
  CachePrefix, \* _BOUNDARY_CACHE_PREFIX, of what the cache keeps a text
  LookAhead    \* _BOUNDARY_LOOKAHEAD, how far beyond the kept place is looked again

VARIABLES
  input,
  fed,    \* symbols of it that came
  shown,  \* symbols of it that were shown
  hidden, \* a call has begun
  cache   \* _boundary_cache: a text and where a call begins in it, or nothing

vars == <<input, fed, shown, hidden, cache>>

Nothing == [text |-> <<>>, best |-> 0]

TypeOK ==
  /\ input \in Inputs /\ 0 <= shown /\ shown <= fed /\ fed <= Len(input) /\ hidden \in BOOLEAN
  /\ 0 <= cache.best /\ cache.best <= Len(cache.text)

Init == input \in Inputs /\ fed = 0 /\ shown = 0 /\ hidden = FALSE /\ cache = Nothing

-------------------------------------------------------------------------------
Letters == {"t", "c", "a", "m", "f", "g", "h", "D", "x"}
Blank == {"_"}
Space == {"_", "n"}
Key == {<<"t", "c">>, <<"a", "m">>} \* TOOL_STREAM_JSON_KEYS
Tag == <<"t", "c">>                 \* TOOL_STREAM_TAGS
Tool == <<"f", "g">>                \* _stream_names
Literals ==                         \* TOOL_STREAM_MARKERS
  {<<"{", "q">> \o key \o <<"q">> : key \in Key} \cup {<<"<">> \o Tag, Tag \o <<":">>, <<"[", "{">>}

At(text, n) == IF n \in DOMAIN text THEN text[n] ELSE "end"
Past(text, n, S) == CHOOSE m \in n .. Len(text) + 1 : At(text, m) \notin S /\ \A k \in n .. m - 1 : text[k] \in S
Inside(text, n) == Past(text, n, {"t", "c", "a", "m", "f", "g", "h", "D", "x", "_", "n", "q", ":", "(", "=", "|", "/", "{", "}", "[", "]"})
Reads(text, n, word) == n + Len(word) - 1 <= Len(text) /\ SubSeq(text, n, n + Len(word) - 1) = word
Whole(text, n, word) == Reads(text, n, word) /\ At(text, n + Len(word)) \notin Letters
AfterSlash(text, n) ==
  LET m == Past(text, n + 1, Space) IN IF At(text, m) = "/" THEN Past(text, m + 1, Space) ELSE m

\* the patterns, each at a position
IsLiteral(text, n) == \E marker \in Literals : Reads(text, n, marker)
IsTag(text, n) ==
  LET name == AfterSlash(text, n)
  IN text[n] = "<" /\ Whole(text, name, Tag) /\ At(text, Inside(text, name)) = ">"
IsJson(text, n) ==
  LET open == Past(text, n + 1, Space)
      name == IF At(text, open) = "q" THEN open + 1 ELSE open
  IN text[n] = "{" /\ \E key \in Key :
       LET close == name + Len(key)
           colon == Past(text, IF At(text, close) = "q" THEN close + 1 ELSE close, Space)
       IN Reads(text, name, key) /\ At(text, colon) = ":"
IsArray(text, n) == text[n] = "[" /\ At(text, Past(text, n + 1, Space)) = "{"
HasNameAttr(text, n) ==
  LET name == AfterSlash(text, n)
  IN /\ text[n] = "<" /\ At(text, name) \in Letters /\ ~Whole(text, name, <<"h">>)
     /\ \E k \in name + 1 .. Inside(text, name) - 1 :
          Reads(text, k, <<"a", "m">>) /\ text[k - 1] \notin Letters /\ At(text, Past(text, k + 2, Space)) = "="
IsToolTag(text, n) == text[n] = "<" /\ Whole(text, AfterSlash(text, n), Tool)
IsDsml(text, n) ==
  LET run == AfterSlash(text, n)
      word == Past(text, Past(text, run, {"|"}), Space)
  IN text[n] = "<" /\ At(text, run) = "|" /\ At(text, word) = "D" /\ At(text, Past(text, word + 1, Space)) = "|"
\* _yaml_marker, _line_head: the head of a line whose first word it is
LineHead(text, n) == \A k \in 1 .. n - 1 : (\A m \in k + 1 .. n - 1 : text[m] \in Blank) => text[k] \in Blank \cup {"n"}
HeadOf(text, n) == CHOOSE m \in 1 .. n : (\A k \in m .. n - 1 : text[k] \in Blank) /\ (m = 1 \/ text[m - 1] \notin Blank)
IsYaml(text, n) == Reads(text, n, Tag) /\ At(text, Past(text, n + 2, Space)) = ":" /\ LineHead(text, n)
\* _call_marker
IsCall(text, n) ==
  LET name == Past(text, n, Blank)
  IN (n = 1 \/ text[n - 1] = "n") /\ Reads(text, name, Tool) /\ At(text, Past(text, name + 2, Blank)) = "("

-------------------------------------------------------------------------------
(* What may become a call; n is the first position that was not shown *)

LastAt(text, n, c) == IF \E k \in n .. Len(text) : text[k] = c
                      THEN CHOOSE k \in n .. Len(text) : text[k] = c /\ \A m \in k + 1 .. Len(text) : text[m] # c ELSE 0
Without(text, n, c) == \A k \in n .. Len(text) : text[k] # c
Onward(text, n) == SubSeq(text, n, Len(text))

\* each the positions held, at most one of them
LiteralHold(text, n) ==
  LET held == {k \in n .. Len(text) : \E marker \in Literals : Len(text) - k < Len(marker) /\ Reads(text, k, SubSeq(marker, 1, Len(text) - k + 1))}
  IN {k \in held : \A m \in held : k <= m}
JsonHold(text, n) ==
  LET brace == LastAt(text, n, "{")
      open == Past(text, brace + 1, Space)
      body == Onward(text, IF At(text, open) = "q" THEN open + 1 ELSE open)
  IN {k \in {brace} \ {0} :
        /\ Without(text, brace, "}")
        /\ \/ open > Len(text)
           \/ \E key \in Key, size \in 1 .. 2 : body = SubSeq(key, 1, size)}
TagHold(text, n) ==
  LET open == LastAt(text, n, "<")
      body == AfterSlash(text, open)
      name == SubSeq(text, body, Past(text, body, Letters) - 1)
  IN {k \in {open} :
        /\ open # 0 /\ Without(text, open, ">")
        /\ \/ body > Len(text) \/ At(text, body) = "|"
           \/ /\ name # <<>> /\ name # <<"h">>
              /\ \/ \E word \in {Tag, Tool}, size \in 1 .. 2 : name = SubSeq(word, 1, size)
                 \/ text[Len(text)] = "a" /\ (body = Len(text) \/ text[Len(text) - 1] \in {"_", "q", "="})
                 \/ \E j \in body .. Len(text) : Reads(text, j, <<"a", "m">>)}
ArrayHold(text, n) ==
  LET bracket == LastAt(text, n, "[")
  IN {k \in {bracket} : bracket # 0 /\ Past(text, bracket + 1, Space) > Len(text)}

Holds(text, n) == LiteralHold(text, n) \cup JsonHold(text, n) \cup TagHold(text, n) \cup ArrayHold(text, n)

\* a faulty BoundaryHold: the last position held
BoundaryHoldLast(text, n) == LET held == Holds(text, n) IN {k \in held : \A m \in held : m <= k}

\* _boundary_hold: the first of them
BoundaryHold(text, n) == LET held == Holds(text, n) IN {k \in held : \A m \in held : k <= m}

-------------------------------------------------------------------------------
\* _boundary_may_start
MayStart(text, n) ==
  LET head == Past(text, n, Blank)
  IN \/ \E k \in n .. Len(text) : text[k] \in {"{", "[", "<", ">", "n"}
     \/ /\ n = 1 \/ text[n - 1] = "n"
        /\ n <= Len(text) /\ (head > Len(text) \/ At(text, head) \in {"t", "f"})

\* where calls begin: by _stream_patterns, and all
Patterns(text, n) ==
  {k \in n .. Len(text) : \/ IsTag(text, k) \/ IsJson(text, k) \/ IsArray(text, k) \/ HasNameAttr(text, k) \/ IsToolTag(text, k)}
Begins(text, n) ==
  Patterns(text, n)
  \cup {k \in n .. Len(text) : IsLiteral(text, k) \/ IsDsml(text, k) \/ IsCall(text, k)}
  \cup {HeadOf(text, k) : k \in {j \in n .. Len(text) : IsYaml(text, j)}}
Front(text, size) == SubSeq(text, 1, IF size < Len(text) THEN size ELSE Len(text))
FirstOf(S) == {k \in S : \A m \in S : k <= m}

\* the answers: where the shown part ends, whether a call begins there, and the cache from then on
Answer(upTo, complete, kept) == [upTo |-> upTo, complete |-> complete, kept |-> kept]

Fresh(text, n, kept) ==
  LET best == FirstOf(Begins(text, n))
      hold == BoundaryHold(text, n)
  IN IF ~MayStart(text, n) THEN {Answer(k, FALSE, kept) : k \in hold}
     ELSE IF n \in Patterns(text, n) THEN {Answer(n, TRUE, kept)}
     ELSE IF \E k \in hold : \A b \in best : k < b THEN {Answer(k, FALSE, kept) : k \in hold}
     ELSE {Answer(b, TRUE, IF b <= CachePrefix THEN [text |-> Front(text, CachePrefix), best |-> b] ELSE kept) : b \in best}

\* a faulty Earlier: what came before is not looked at again
EarlierNever(text, n, limit) == FALSE

\* _boundary_earlier: but for the literal markers, only what ends within the look-ahead counts
Window(text, limit) == Front(text, limit - 1 + LookAhead)
Earlier(text, n, limit) ==
  \E k \in n .. limit - 1 :
    \/ IsLiteral(text, k) \/ k \in Patterns(Window(text, limit), n)
    \/ IsDsml(Window(text, limit), k) \/ IsCall(Window(text, limit), k) \/ IsYaml(Window(text, limit), k)

\* tool_call_boundary: at most one answer
Boundary(text, n, kept) ==
  LET old == kept.best
      goesOn == Reads(text, 1, kept.text) /\ Len(kept.text) <= Len(text)
      hold == BoundaryHold(text, n)
  IN IF old # 0 /\ old <= Len(kept.text) /\ n <= old /\ goesOn /\ ~Earlier(text, n, old)
     THEN IF \E k \in hold : k < old THEN {Answer(k, FALSE, kept) : k \in hold} ELSE {Answer(old, TRUE, kept)}
     ELSE Fresh(text, n, kept)

\* tool_visible
Visible(n) ==
  LET text == SubSeq(input, 1, n)
      found == Boundary(text, shown + 1, cache)
  IN /\ fed < n /\ fed' = n /\ UNCHANGED input
     /\ \/ hidden /\ UNCHANGED <<shown, hidden, cache>>
        \/ ~hidden /\ found = {} /\ shown' = n /\ UNCHANGED <<hidden, cache>>
        \/ ~hidden /\ \E b \in found : shown' = b.upTo - 1 /\ hidden' = b.complete /\ cache' = b.kept

\* another stream asks
Other(text) ==
  /\ \E b \in Boundary(text, 1, cache) : cache' = b.kept
  /\ UNCHANGED <<input, fed, shown, hidden>>

Next ==
  \/ \E n \in 1 .. Len(input) : Visible(n)
  \/ \E text \in Others : Other(text)

Spec == Init /\ [][Next]_vars

-------------------------------------------------------------------------------
\* a call as the models write it: an object, an array or a tag
Call(n) == IsTag(input, n) \/ IsArray(input, n) \/ IsToolTag(input, n) \/ (IsLiteral(input, n) /\ input[n] # "t")

\* the look at what was kept may go wrong in two ways: a call that begins before it ends beyond
\* the look-ahead; or what was found is no call in this text, which goes on in another way beyond
\* what is kept, or with more letters of a name
Overlooked(text, n, kept) == \E k \in Begins(text, n) : k < kept.best /\ ~Earlier(text, n, kept.best)
Outgrown(text, n, kept) == kept.best # 0 /\ kept.best \notin Begins(text, n)

=============================================================================
