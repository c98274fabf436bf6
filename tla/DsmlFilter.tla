------------------------------ MODULE DsmlFilter ------------------------------
(***************************************************************************)
(* The markup of DeepSeek's own prompts, taken out of what the caller gets *)
(* (tools/dsml.py): of a whole text by strip_dsml, of a stream by          *)
(* DsmlFilter, which releases the beginning of what came as soon as        *)
(* nothing of a marker can be in it.  A text is a sequence of symbols: "d" *)
(* and "s" are the two halves of the word DSML, "|" is a pipe and "u"      *)
(* another character outside ASCII that is no letter, "h" the name of a    *)
(* part to hide and "i" another name, "_" a space, "x" other text.  The    *)
(* caps on the lengths of runs, of what dangles and of the buffer are      *)
(* above these texts.                                                      *)
(***************************************************************************)
EXTENDS Naturals, Sequences, SequencesExt

CONSTANT Inputs  \* texts that may be sent

VARIABLES
  input,
  fed,     \* symbols of it that came
  buf,     \* _buf
  out,     \* what was released
  flushed  \* the stream has ended

vars == <<input, fed, buf, out, flushed>>

TypeOK ==
  /\ input \in Inputs /\ fed \in 0 .. Len(input) /\ flushed \in BOOLEAN
  /\ IsSuffix(buf, SubSeq(input, 1, fed)) \/ flushed
  /\ Len(out) <= Len(input)

Init == input \in Inputs /\ fed = 0 /\ buf = <<>> /\ out = <<>> /\ flushed = FALSE

-------------------------------------------------------------------------------
Letters == {"d", "s", "h", "i", "x"}
Blank == {"_"}
Pipe == {"|"}
Foreign == {"|", "u"}                          \* _DSML_CHAR
Symbols == Letters \cup Blank \cup Foreign \cup {"<", ">", "/"}
Within == Letters \cup Blank \cup Foreign \cup {"/"} \* of a tag

At(text, n) == IF n \in DOMAIN text THEN text[n] ELSE "end"
Past(text, n, S) == CHOOSE m \in n .. Len(text) + 1 : At(text, m) \notin S /\ \A k \in n .. m - 1 : text[k] \in S
\* the first position from n on, or the one after the text
First(text, n, Is(_)) == CHOOSE m \in n .. Len(text) + 1 : (m > Len(text) \/ Is(m)) /\ \A k \in n .. m - 1 : ~Is(k)
Word(text, n) == At(text, n) = "d" /\ At(text, n + 1) = "s"
Present(text) == \E n \in DOMAIN text : Word(text, n)
From(text, n) == SubSeq(text, n, Len(text))
\* each part a space: the parts are pairs of a first position and the one after the last
Drop(text, parts) ==
  LET kept == SelectSeq([n \in DOMAIN text |-> n], LAMBDA n : \A p \in parts : n <= p[1] \/ p[2] <= n)
  IN [k \in DOMAIN kept |-> IF \E p \in parts : p[1] = kept[k] THEN "_" ELSE text[kept[k]]]

NoTag == [end |-> 0, hides |-> FALSE, closing |-> FALSE, selfClosing |-> FALSE]
AfterSlash(text, n) == Past(text, IF At(text, n + 1) = "/" THEN n + 2 ELSE n + 1, Blank)

\* _dsml_tag_at: a tag with the word, and whether it is of a part to hide
TagAt(text, n) ==
  LET run == AfterSlash(text, n)
      afterRun == Past(text, run, Foreign)
      word == Past(text, afterRun, Blank)
      name == Past(text, Past(text, Past(text, word + 2, Blank), Foreign), Blank)
      close == Past(text, name, Within)
  IN IF text[n] # "<" \/ afterRun = run \/ ~Word(text, word) \/ At(text, close) # ">" THEN NoTag
     ELSE [end |-> close + 1, hides |-> SubSeq(text, name, Past(text, name, Letters) - 1) = <<"h">>, closing |-> At(text, n + 1) = "/",
           selfClosing |-> \E k \in name .. close - 1 : text[k] = "/" /\ \A m \in k + 1 .. close - 1 : text[m] = "_"]
Tags(text) == [n \in DOMAIN text |-> TagAt(text, n)]
Opening(tag) == tag.hides /\ ~tag.closing /\ ~tag.selfClosing

\* _dsml_close_pattern: something in angles with the name
Named(text, n) ==
  LET close == Past(text, n + 1, Within)
  IN text[n] = "<" /\ At(text, close) = ">"
     /\ \E k \in n + 1 .. close - 1 : text[k] = "h" /\ text[k - 1] \notin Letters /\ text[k + 1] \notin Letters

\* _dsml_matching_close: of the part that begins before n, the parts within it counted; 0 for none
MatchingClose(text, tags, n) ==
  LET from[pos \in 1 .. Len(text) + 1, depth \in 1 .. Len(text)] ==
        LET next == First(text, pos, LAMBDA m : tags[m].hides /\ Named(text, m))
            tag == tags[next]
        IN IF next > Len(text) THEN 0
           ELSE IF tag.closing /\ depth = 1 THEN tag.end
           ELSE from[tag.end, IF tag.closing THEN depth - 1 ELSE IF tag.selfClosing THEN depth ELSE depth + 1]
  IN from[n, 1]

\* _hidden_spans
HiddenSpans(text, tags) ==
  LET from[pos \in 1 .. Len(text) + 1] ==
        LET first == First(text, pos, LAMBDA m : Opening(tags[m]))
            close == MatchingClose(text, tags, tags[first].end)
        IN IF first > Len(text) THEN {}
           ELSE IF close = 0 THEN {<<first, Len(text) + 1>>}
           ELSE {<<first, close>>} \cup from[close]
  IN from[1]

\* a marker that begins at n: where it ends, or 0
Marker(text, n) ==
  LET word == Past(text, Past(text, n, Foreign), Blank)
      run == Past(text, word + 2, Blank)
  IN IF At(text, n) \in Foreign /\ Word(text, word) /\ At(text, run) \in Foreign THEN Past(text, run, Foreign) ELSE 0

\* _DSML_HIDDEN_PATS and _DSML_HIDDEN_CLOSE_PATS: a tag of a part to hide, self-closing or not
StrictTag(text, n, closing) ==
  LET start == IF closing THEN n + 2 ELSE n + 1
      name == Past(text, Marker(text, start), Blank)
      close == IF closing THEN Past(text, name + 1, Blank) ELSE Past(text, name + 1, Within)
  IN IF /\ text[n] = "<" /\ (closing => At(text, n + 1) = "/") /\ Marker(text, start) # 0
        /\ At(text, name) = "h" /\ At(text, name + 1) \notin Letters /\ At(text, close) = ">"
     THEN close + 1 ELSE 0

StrictTags(text, closing) == [n \in DOMAIN text |-> StrictTag(text, n, closing)]

\* _drop_regex_spans
StrictSpans(text, opens, closes) ==
  LET from[pos \in 1 .. Len(text) + 1] ==
        LET first == First(text, pos, LAMBDA m : opens[m] # 0)
            last == First(text, opens[first], LAMBDA m : closes[m] # 0)
        IN IF first > Len(text) \/ last > Len(text) THEN {} ELSE {<<first, closes[last]>>} \cup from[closes[last]]
  IN from[1]

\* _DSML_TAG and _DSML_NAKED: the parts with the ends that are given
Parts(text, ends) ==
  LET from[pos \in 1 .. Len(text) + 1] ==
        LET first == First(text, pos, LAMBDA m : ends[m] # 0)
        IN IF first > Len(text) THEN {} ELSE {<<first, ends[first]>>} \cup from[ends[first]]
  IN from[1]
MarkedTag(text, n) ==
  LET blank == Past(text, n + 1, Blank)
      run == IF At(text, blank) = "/" THEN Past(text, blank + 1, Blank) ELSE blank
      close == Past(text, Marker(text, run), Within)
  IN IF text[n] = "<" /\ Marker(text, run) # 0 /\ At(text, close) = ">" THEN close + 1 ELSE 0

\* _DSML_DANGLING: what the end of a text leaves of a marker
Rest(text) ==
  LET name == Past(text, Past(text, Past(text, 1, Blank), Pipe), Blank)
      after == Past(text, name, Letters)
      more == SubSeq(text, after, Len(text))
  IN \/ text = <<>> \/ Past(text, Past(text, 1, Blank), Pipe) > Len(text)
     \/ /\ after > name /\ (more = <<>> \/ more[1] = "_")
        /\ {more[n] : n \in DOMAIN more} \subseteq Within
Partial(text, n) == IF Word(text, n) THEN {n + 1, n + 2} ELSE IF At(text, n) = "d" THEN {n + 1} ELSE {}
Dangles(text, n) ==
  LET run == IF text[n] = "<" THEN AfterSlash(text, n) ELSE n
      after == Past(text, run, Pipe)
      partials == Partial(text, Past(text, after, Blank))
  IN /\ after > run
     /\ \/ text[n] = "<" /\ Rest(From(text, after))
        \/ text[n] = "<" /\ \E p \in partials : Rest(From(text, p))
        \/ text[n] = "|" /\ \E p \in partials : Past(text, Past(text, p, Blank), Pipe) > Len(text)
DropDangling[text \in Seq(Symbols)] ==
  LET start == First(text, 1, LAMBDA n : text[n] \in {"<", "|"} /\ Dangles(text, n))
  IN IF start > Len(text) THEN text ELSE Append(SubSeq(text, 1, start - 1), "_")

\* _strip_markers, as _strip_output asks for it; of its 10 rounds these texts need no more than 2
Shown[text \in Seq(Symbols)] == Drop(text, HiddenSpans(text, Tags(text)))
ShownStrictly[text \in Seq(Symbols)] == Drop(text, StrictSpans(text, StrictTags(text, FALSE), StrictTags(text, TRUE)))
Round[text \in Seq(Symbols)] == IF Present(text) THEN ShownStrictly[Shown[text]] ELSE text
Untagged[text \in Seq(Symbols)] == Drop(text, Parts(text, [n \in DOMAIN text |-> MarkedTag(text, n)]))
Markers(text) == Parts(text, [n \in DOMAIN text |-> Marker(text, n)])
Bare[text \in Seq(Symbols)] == Drop(text, Markers(text))
Kept[text \in Seq(Symbols), dropTail \in BOOLEAN] == IF dropTail THEN DropDangling[text] ELSE text
StripOutput[text \in Seq(Symbols), dropTail \in BOOLEAN] ==
  IF Present(text) THEN Bare[Untagged[Kept[Round[Round[text]], dropTail]]] ELSE Kept[text, dropTail]

-------------------------------------------------------------------------------
(* The stream *)

\* _dsml_run_start, _dsml_hold_start: how much of the text from floor on cannot begin a marker
RunStart(text, end, floor) ==
  Min({m \in floor .. end : \A k \in m + 1 .. end : text[k] \in {"_", "<", ">", "/"} \cup Foreign})
PartialEnd(text, end, floor) ==
  IF end - 1 > floor /\ Word(text, end - 1) THEN end - 2 ELSE IF end > floor /\ text[end] = "d" THEN end - 1 ELSE end
HoldStart(text, floor) ==
  LET size == Len(text)
      end == IF size > floor THEN PartialEnd(text, size, floor) ELSE size
      has(from, to, S) == \E k \in from + 1 .. to : text[k] \in S
      signal == IF end < size THEN {"<"} \cup Foreign ELSE {"<"} \cup Pipe
      back[start \in floor .. size] ==
        LET lead == PartialEnd(text, start, floor)
            run == RunStart(text, lead, floor)
        IN IF lead = start \/ run = lead \/ ~has(run, lead, {"<"} \cup Foreign) THEN start ELSE back[run]
      run0 == RunStart(text, end, floor)
  IN IF end < size /\ ~has(floor, end, signal) THEN size
     ELSE IF run0 = end \/ ~has(back[run0], end, signal) THEN end
     ELSE back[run0]

\* _dsml_tag_may_start, _dsml_tag_pending, _dsml_dangling_pending
Pending(text, n) ==
  LET run == AfterSlash(text, n)
      afterRun == Past(text, run, Foreign)
      word == Past(text, afterRun, Blank)
  IN /\ At(text, run) \in Foreign
     /\ \/ afterRun > Len(text) \/ word > Len(text)
        \/ At(text, word) = "d" /\ At(text, word + 1) \in {"s", "end"}
        \/ At(text, run) \in Pipe

\* a faulty ScanCut: a part to hide is released as it comes
ScanCutAnyway(text, tags) ==
  LET from[pos \in 1 .. Len(text) + 1, floor \in 0 .. Len(text)] ==
        LET first == First(text, pos, LAMBDA m : text[m] = "<")
            tag == tags[first]
        IN IF first > Len(text) THEN HoldStart(text, floor)
           ELSE IF tag = NoTag THEN IF Pending(text, first) THEN first - 1 ELSE from[first + 1, floor]
           ELSE from[tag.end, tag.end - 1]
  IN from[1, 0]

\* _dsml_scan_cut: how much can be released
ScanCut(text, tags) ==
  LET from[pos \in 1 .. Len(text) + 1, floor \in 0 .. Len(text)] ==
        LET first == First(text, pos, LAMBDA m : text[m] = "<")
            tag == tags[first]
        IN IF first > Len(text) THEN HoldStart(text, floor)
           ELSE IF tag = NoTag THEN IF Pending(text, first) THEN first - 1 ELSE from[first + 1, floor]
           ELSE IF Opening(tag) /\ MatchingClose(text, tags, tag.end) = 0 THEN first - 1
           ELSE from[tag.end, tag.end - 1]
  IN from[1, 0]

\* _dsml_straddle_start: not within a marker
Straddle(text, cut) ==
  LET across == {p \in Markers(text) : p[1] <= cut /\ cut + 1 < p[2]}
  IN IF across = {} THEN cut ELSE Min({p[1] - 1 : p \in across})

\* DsmlFilter.feed
Release(text, cut) ==
  /\ buf' = From(text, cut + 1)
  /\ out' = out \o StripOutput[SubSeq(text, 1, cut), FALSE]
Feed(n) ==
  /\ ~flushed /\ fed < n /\ fed' = n
  /\ \E text \in {buf \o SubSeq(input, fed + 1, n)} : Release(text, Straddle(text, ScanCut(text, Tags(text))))
  /\ UNCHANGED <<input, flushed>>

\* DsmlFilter.flush
Flush ==
  /\ ~flushed /\ fed = Len(input) /\ flushed' = TRUE
  /\ buf' = <<>> /\ out' = out \o StripOutput[buf, TRUE]
  /\ UNCHANGED <<input, fed>>

Next == Flush \/ \E n \in 1 .. Len(input) : Feed(n)

Spec == Init /\ [][Next]_vars

-------------------------------------------------------------------------------
\* a part to hide with a tag in it that is never finished
Torn ==
  \E part \in HiddenSpans(input, Tags(input)) : \E n \in part[1] .. part[2] - 1 :
    input[n] = "<" /\ TagAt(input, n) = NoTag /\ Pending(input, n)


\* "matches direct strip for every chunking" (tests/test_tools.py:2653): what the caller of a
\* stream gets is what the whole text is stripped to.
MatchesDirectStrip == flushed => out = StripOutput[input, TRUE]
=============================================================================
