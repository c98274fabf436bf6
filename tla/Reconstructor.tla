---------------------------- MODULE Reconstructor ----------------------------
(***************************************************************************)
(* The message of DeepSeek rebuilt from deltas (sseutil.py,                *)
(* MessageReconstructor): deltas change a list of fragments, the texts of  *)
(* the fragments are aggregated lazily, and take_diffs tells after each    *)
(* event what is new.  A text is the sequence of the pieces that made it,  *)
(* pieces are numbered; the list of fragments has an identity, 0 for no    *)
(* list.  Deltas that no list of fragments fits, and hints, are left out.  *)
(***************************************************************************)
EXTENDS Integers, Sequences, SequencesExt

CONSTANTS
  Types,      \* of fragments: "main", "think" and "other"
  MaxPieces,  \* bound on the pieces of text
  MaxEvents   \* bound on the events

VARIABLES
  rec,        \* the reconstructor: its message and its aggregates
  emitted,    \* by kind of text, what take_diffs has returned so far
  pieces,     \* pieces of text made
  events,     \* events handled
  rewritten,  \* a text was replaced, or continued before another of its kind: the diffs cannot add up any more
  renumbered  \* a fragment that was appended to the list was continued by its number

vars == <<rec, emitted, pieces, events, rewritten, renumbered>>

Kinds == {"main", "think"}      \* MAIN_RESPONSE_TYPES, THINK_TYPES
Texts == [Kinds -> Seq(1 .. MaxPieces)]
Fragment == [type : Types, text : Seq(1 .. MaxPieces), appended : BOOLEAN]

TypeOK ==
  /\ rec.list \in Nat /\ rec.agg \in Nat /\ rec.idx \in Nat
  /\ rec.frags \in Seq(Fragment)
  /\ rec.base \in Texts /\ rec.prev \in Texts /\ emitted \in Texts
  /\ \A k \in Kinds : rec.reported[k] <= Len(rec.parts[k])
  /\ {rec.appendOnly, rec.dirty, rewritten, renumbered} \subseteq BOOLEAN
  /\ pieces \in 0 .. MaxPieces /\ events \in 0 .. MaxEvents

Empty == [k \in Kinds |-> <<>>]

Init ==
  /\ rec = [list |-> 0, frags |-> <<>>, agg |-> 0, idx |-> 0, base |-> Empty, parts |-> Empty,
            reported |-> [k \in Kinds |-> 0], appendOnly |-> TRUE, dirty |-> TRUE, prev |-> Empty]
  /\ emitted = Empty /\ pieces = 0 /\ events = 0 /\ rewritten = FALSE /\ renumbered = FALSE

\* the text of some fragments, from the n-th on
TextOf(frags, k, n) == FlattenSeq([i \in 1 .. Len(frags) |-> IF i >= n /\ frags[i].type = k THEN frags[i].text ELSE <<>>])

-------------------------------------------------------------------------------
(* _apply_delta: a change of the list of fragments; at is the place as the delta writes it *)

\* an index from the end is negative
Place(r, at) == IF at < 0 THEN Len(r.frags) + at + 1 ELSE at + 1
There(r, at) == Place(r, at) \in DOMAIN r.frags

Applied(r, delta) ==
  CASE delta.op = "list" -> [r EXCEPT !.list = events + 1, !.frags = <<delta.frag>>]
    [] delta.op = "fragment" ->
         IF r.list = 0 THEN [r EXCEPT !.list = events + 1, !.frags = <<delta.frag>>]
         ELSE [r EXCEPT !.frags = Append(@, [delta.frag EXCEPT !.appended = TRUE])]
    [] delta.op = "append" /\ There(r, delta.at) -> [r EXCEPT !.frags[Place(r, delta.at)].text = @ \o delta.text]
    [] delta.op = "set" /\ There(r, delta.at) -> [r EXCEPT !.frags[Place(r, delta.at)].text = delta.text]
    [] OTHER -> r

-------------------------------------------------------------------------------
(* The aggregates *)

\* _fast_append_tail: the last fragment, aggregated already, is continued by its number
Fast(r, delta) ==
  /\ delta.op = "append" /\ r.list # 0 /\ r.list = r.agg
  /\ r.idx = Len(r.frags) /\ delta.at = r.idx - 1 /\ r.idx > 0
  /\ r.frags[r.idx].type \in Kinds

\* a faulty Touches: what was aggregated never changes
TouchesNone(r, deltas) == FALSE

\* _touches_aggregated_fragment; an index from the end always does
Touches(r, deltas) == \E i \in DOMAIN deltas : deltas[i].op \in {"append", "set"} /\ deltas[i].at < r.idx

\* handle, of one delta or a batch of several
Handled(old, deltas) ==
  LET r == FoldLeft(Applied, old, deltas)
  IN IF Len(deltas) = 1 /\ Fast(r, deltas[1])
       THEN [r EXCEPT !.parts[r.frags[r.idx].type] = Append(@, deltas[1].text), !.dirty = FALSE]
       ELSE [r EXCEPT !.appendOnly = FALSE, !.dirty = TRUE,
                      !.agg = IF r.idx # 0 /\ Touches(r, deltas) THEN 0 ELSE @]

\* _aggregates: nothing is new, or the fragments after those aggregated are, or all of them
Aggregated(r) ==
  IF r.list = r.agg /\ ~r.dirty THEN r
  ELSE IF r.list # 0 /\ r.list = r.agg /\ Len(r.frags) > r.idx
    THEN [r EXCEPT !.parts = [k \in Kinds |-> @[k] \o
                     [i \in 1 .. Len(SelectSeq(SubSeq(r.frags, r.idx + 1, Len(r.frags)), LAMBDA f : f.type = k)) |->
                        SelectSeq(SubSeq(r.frags, r.idx + 1, Len(r.frags)), LAMBDA f : f.type = k)[i].text]],
                   !.idx = Len(r.frags), !.dirty = FALSE]
  ELSE [r EXCEPT !.base = [k \in Kinds |-> TextOf(r.frags, k, 1)], !.parts = Empty,
                 !.reported = [k \in Kinds |-> 0], !.idx = Len(r.frags), !.agg = r.list, !.dirty = FALSE]

\* content and reasoning
Whole(r, k) == r.base[k] \o FlattenSeq(r.parts[k])

\* _fold_content and _fold_reasoning: the parts that were not reported
Unreported(r, k) == FlattenSeq(SubSeq(r.parts[k], r.reported[k] + 1, Len(r.parts[k])))
Folded(r) ==
  [r EXCEPT !.base = [k \in Kinds |-> r.base[k] \o FlattenSeq(SubSeq(r.parts[k], 1, r.reported[k]))],
            !.parts = [k \in Kinds |-> SubSeq(r.parts[k], r.reported[k] + 1, Len(r.parts[k]))],
            !.reported = [k \in Kinds |-> Len(r.parts[k]) - r.reported[k]],
            !.prev = [k \in Kinds |-> IF r.parts[k] = <<>> THEN r.prev[k] ELSE Whole(r, k)]]

\* _diff_suffix
Suffix(before, now) ==
  IF IsPrefix(before, now) THEN SubSeq(now, Len(before) + 1, Len(now)) ELSE now

\* take_diffs of a reconstructor that has handled something since
OnlyAppended(r) == r.appendOnly /\ r.list = r.agg /\ ~r.dirty
Diff(r, k) == IF OnlyAppended(r) THEN Unreported(r, k) ELSE Suffix(r.prev[k], Whole(Aggregated(r), k))
Taken(r) ==
  IF OnlyAppended(r) THEN Folded(r)
  ELSE [Aggregated(r) EXCEPT !.appendOnly = TRUE, !.prev = [k \in Kinds |-> Whole(Aggregated(r), k)]]

-------------------------------------------------------------------------------
Piece == <<pieces + 1>>
Frag(type) == [type |-> type, text |-> Piece, appended |-> FALSE]
Indices == {-1} \cup 0 .. MaxEvents

\* a message or a list of fragments; a further fragment; text for a fragment; a new text for
\* it; anything else, as a status
Deltas ==
  [op : {"list", "fragment"}, frag : {Frag(t) : t \in Types}]
  \cup [op : {"append", "set"}, at : {i \in Indices : i < Len(rec.frags)}, text : {Piece}]
Other == [op |-> "status"]

\* _drain_event: an event is handled and what it changed is sent on
Event(deltas) ==
  /\ events < MaxEvents /\ pieces < MaxPieces
  /\ LET r == Handled(rec, deltas)
     IN rec' = Taken(r) /\ emitted' = [k \in Kinds |-> emitted[k] \o Diff(r, k)]
  /\ events' = events + 1
  /\ pieces' = IF \E i \in DOMAIN deltas : deltas[i] # Other THEN pieces + 1 ELSE pieces
  /\ rewritten' = (rewritten \/ \E i \in DOMAIN deltas :
       \/ deltas[i].op = "set"
       \/ deltas[i].op = "list" /\ \E k \in Kinds : TextOf(rec.frags, k, 1) # <<>>
       \/ deltas[i].op = "append" /\ \E m \in Place(rec, deltas[i].at) + 1 .. Len(rec.frags) :
            There(rec, deltas[i].at) /\ rec.frags[m].type = rec.frags[Place(rec, deltas[i].at)].type)
  /\ renumbered' = (renumbered \/ \E i \in DOMAIN deltas :
       deltas[i].op = "append" /\ deltas[i].at >= 0 /\ rec.frags[deltas[i].at + 1].appended)

\* extend_with: a continuation brings its fragments after the stream has ended
Extend(type) ==
  /\ rec.list # 0 /\ events < MaxEvents /\ pieces < MaxPieces
  /\ LET old == Aggregated(rec)
         r == [old EXCEPT !.frags = Append(@, [Frag(type) EXCEPT !.appended = TRUE]),
                          !.prev = [k \in Kinds |-> Whole(old, k)], !.dirty = TRUE]
     IN rec' = Taken(r) /\ emitted' = [k \in Kinds |-> emitted[k] \o Diff(r, k)]
  /\ events' = events + 1 /\ pieces' = pieces + 1
  /\ UNCHANGED <<rewritten, renumbered>>

Next ==
  \/ \E delta \in Deltas : Event(<<delta>>)
  \/ \E delta \in Deltas, other \in Deltas \cup {Other} :
       delta.op = "fragment" /\ other.op # "fragment" /\ Event(<<delta, other>>)
  \/ Event(<<Other>>)
  \/ \E type \in Types : Extend(type)

Spec == Init /\ [][Next]_vars
-------------------------------------------------------------------------------
=============================================================================
