--------------------------- MODULE AnthropicEvents ---------------------------
(***************************************************************************)
(* The stream of a chat completion translated into the events of the       *)
(* Anthropic API, and the body of one translated into its message          *)
(* (api/anthropic.py).  A delta brings a piece of reasoning or of text, or *)
(* of the arguments of the tool call of a slot.  A piece has two parts,    *)
(* which are numbered, so that it can be cut.  The stop filter is that of  *)
(* StreamLimits: it holds back the end of the text, and a marker may begin *)
(* anywhere in what it has.                                                *)
(***************************************************************************)
EXTENDS Naturals, Sequences, FiniteSets, SequencesExt

CONSTANTS
  Slots,     \* indices of tool calls
  MaxDeltas, \* bound on the deltas of a stream
  Holds      \* how many parts a stop filter may hold

VARIABLES
  filtering, \* the request has stop sequences
  hold,      \* _hold of their filter
  deltas,    \* the deltas so far
  finish,    \* finish_reason of the stream, "none" before
  failed,    \* an error came among the chunks
  text,      \* text_index while text_open, else 0
  thinking,  \* thinking_index while thinking_open, else 0
  toolIndex, \* tool_index: by slot, 0 for none
  started,   \* tool_started
  toolOpen,  \* tool_open, 0 for none
  next,      \* next_index, from 1 on
  held,      \* what the stop filter holds
  stopped,   \* stop_sequence
  sent,      \* the events sent
  pc         \* "streaming", "over", "aborted"

vars == <<filtering, hold, deltas, finish, failed, text, thinking, toolIndex, started, toolOpen, next, held, stopped, sent, pc>>
blocks == <<text, thinking, toolIndex, started, toolOpen, next>>

Reasons == {"stop", "length", "tool_calls"}
request == <<filtering, hold>>
Kinds == {"thinking", "text", "tool_use"}
Indices == 0 .. MaxDeltas + 1

TypeOK ==
  /\ {filtering, failed, stopped} \subseteq BOOLEAN /\ finish \in Reasons \cup {"none"}
  /\ Len(deltas) <= MaxDeltas
  /\ {text, thinking, toolOpen, next} \subseteq Indices /\ toolIndex \in [Slots -> Indices] /\ started \subseteq Indices
  /\ hold \in Holds \cup {0} /\ held \in Seq(1 .. 2 * MaxDeltas) /\ Len(held) <= hold /\ pc \in {"streaming", "over", "aborted"}
  /\ \A i \in DOMAIN sent : sent[i].event \in {"message_start", "start", "delta", "stop", "error", "message_delta", "message_stop"}

Event(event) == [event |-> event]
Starts(index, kind) == [event |-> "start", index |-> index, kind |-> kind]
Delta(index, parts) == [event |-> "delta", index |-> index, parts |-> parts]
Stops(index) == [event |-> "stop", index |-> index]
StopOf(index) == IF index = 0 THEN <<>> ELSE <<Stops(index)>>

Init ==
  /\ filtering \in BOOLEAN /\ hold \in IF filtering THEN Holds ELSE {0}
  /\ deltas = <<>> /\ finish = "none" /\ failed = FALSE
  /\ text = 0 /\ thinking = 0 /\ toolIndex = [s \in Slots |-> 0] /\ started = {} /\ toolOpen = 0 /\ next = 1
  /\ held = <<>> /\ stopped = FALSE
  /\ sent = <<Event("message_start")>> /\ pc = "streaming"

-------------------------------------------------------------------------------
(* The deltas *)

More == pc = "streaming" /\ Len(deltas) < MaxDeltas
PieceOf(delta) == <<2 * delta - 1, 2 * delta>>
Piece == PieceOf(Len(deltas) + 1)

\* thinking_delta
Thinking ==
  /\ More /\ deltas' = Append(deltas, "thinking")
  /\ text' = 0
  /\ thinking' = IF thinking = 0 THEN next ELSE thinking
  /\ next' = IF thinking = 0 THEN next + 1 ELSE next
  /\ sent' = sent \o StopOf(text) \o (IF thinking = 0 THEN <<Starts(next, "thinking")>> ELSE <<>>)
                  \o <<Delta(thinking', Piece)>>
  /\ UNCHANGED <<request, finish, failed, toolIndex, started, toolOpen, held, stopped, pc>>

\* _emit_text, of the parts that the filter lets through
EmitText(before, parts) ==
  LET starts == parts # <<>> /\ text = 0
      index == IF starts THEN next ELSE text
  IN /\ text' = index
     /\ next' = IF starts THEN next + 1 ELSE next
     /\ sent' = before \o (IF starts THEN <<Starts(next, "text")>> ELSE <<>>)
                       \o (IF parts # <<>> THEN <<Delta(index, parts)>> ELSE <<>>)

\* text_delta; the filter passes all but what it holds, or what precedes a marker
TextDelta ==
  /\ More /\ deltas' = Append(deltas, "text")
  /\ thinking' = 0
  /\ LET before == sent \o StopOf(thinking)
         all == held \o Piece
         passed == IF Len(all) > hold THEN Len(all) - hold ELSE 0
     IN \/ ~filtering /\ EmitText(before, Piece) /\ UNCHANGED <<held, stopped>>
        \/ filtering /\ stopped /\ EmitText(before, <<>>) /\ UNCHANGED <<held, stopped>>
        \/ /\ filtering /\ ~stopped
           /\ \/ EmitText(before, SubSeq(all, 1, passed)) /\ held' = SubSeq(all, passed + 1, Len(all)) /\ UNCHANGED stopped
              \/ \E cut \in 0 .. Len(all) - 1 : EmitText(before, SubSeq(all, 1, cut)) /\ held' = <<>> /\ stopped' = TRUE
  /\ UNCHANGED <<request, finish, failed, toolIndex, started, toolOpen, pc>>

\* a faulty CloseForTool: reasoning may stay open
CloseTextForTool == [thinking |-> thinking, out |-> StopOf(text)]

\* close_for_tool
CloseForTool == [thinking |-> 0, out |-> StopOf(thinking) \o StopOf(text)]

\* a part of a tool call: tool_start, and close_tool for the one before
ToolDelta(slot) ==
  /\ More /\ deltas' = Append(deltas, slot)
  /\ thinking' = CloseForTool.thinking /\ text' = 0
  /\ LET index == IF toolIndex[slot] = 0 THEN next ELSE toolIndex[slot]
         starts == index \notin started
         closes == starts /\ toolOpen \in started
     IN /\ toolIndex' = [toolIndex EXCEPT ![slot] = index]
        /\ next' = IF toolIndex[slot] = 0 THEN next + 1 ELSE next
        /\ started' = (IF closes THEN started \ {toolOpen} ELSE started) \cup {index}
        /\ toolOpen' = IF starts THEN index ELSE toolOpen
        /\ sent' = sent \o CloseForTool.out \o (IF closes THEN <<Stops(toolOpen)>> ELSE <<>>)
                        \o (IF starts THEN <<Starts(index, "tool_use")>> ELSE <<>>) \o <<Delta(index, Piece)>>
  /\ UNCHANGED <<request, finish, failed, held, stopped, pc>>

\* the first finish_reason counts
Finishes(reason) ==
  /\ pc = "streaming" /\ finish = "none"
  /\ finish' = reason
  /\ UNCHANGED <<request, deltas, failed, blocks, held, stopped, sent, pc>>

Fails ==
  /\ pc = "streaming" /\ ~failed /\ failed' = TRUE
  /\ UNCHANGED <<request, deltas, finish, blocks, held, stopped, sent, pc>>

-------------------------------------------------------------------------------
(* The end of the stream *)

Sorted(indices) == SetToSortSeq(indices, <)

\* close_all
CloseAll(th, tx) == StopOf(th) \o StopOf(tx) \o [i \in 1 .. Cardinality(started) |-> Stops(Sorted(started)[i])]

StopReason ==
  IF finish = "length" THEN "max_tokens"
  ELSE IF stopped THEN "stop_sequence"
  ELSE IF finish = "tool_calls" \/ (finish = "none" /\ \E s \in Slots : toolIndex[s] # 0) THEN "tool_use"
  ELSE "end_turn"

Closed == text' = 0 /\ thinking' = 0 /\ toolOpen' = 0 /\ started' = {} /\ toolIndex' = [s \in Slots |-> 0]

\* flush_stop, close_all and finish
End ==
  /\ pc = "streaming" /\ pc' = "over"
  /\ LET opens == held # <<>> /\ text = 0
         index == IF opens THEN next ELSE text
     IN sent' = sent \o (IF opens THEN <<Starts(next, "text")>> ELSE <<>>) \o (IF held # <<>> THEN <<Delta(index, held)>> ELSE <<>>)
                     \o CloseAll(thinking, index)
                     \o (IF failed THEN <<Event("error")>> ELSE <<>>)
                     \o <<[event |-> "message_delta", reason |-> IF failed THEN "end_turn" ELSE StopReason], Event("message_stop")>>
  /\ Closed /\ held' = <<>>
  /\ UNCHANGED <<request, deltas, finish, failed, next, stopped>>

\* the generator of the chat raises
Abort ==
  /\ pc = "streaming" /\ pc' = "aborted"
  /\ sent' = sent \o CloseAll(thinking, text) \o <<Event("error")>>
  /\ Closed
  /\ UNCHANGED <<request, deltas, finish, failed, next, held, stopped>>

Next ==
  \/ Thinking \/ TextDelta \/ Fails \/ End \/ Abort
  \/ \E slot \in Slots : ToolDelta(slot)
  \/ \E reason \in Reasons : Finishes(reason)

Spec == Init /\ [][Next]_vars
-------------------------------------------------------------------------------
(* build_content and build_message, of the same completion without streaming *)

\* what the provider sent of a kind, or of the call of a slot
Parts(kind) == FlattenSeq([d \in DOMAIN deltas |-> IF deltas[d] = kind THEN PieceOf(d) ELSE <<>>])

KindOf(index) == sent[CHOOSE n \in DOMAIN sent : sent[n].event = "start" /\ sent[n].index = index].kind
PartsIn(Test(_)) == FlattenSeq([n \in DOMAIN sent |-> IF sent[n].event = "delta" /\ Test(sent[n].index) THEN sent[n].parts ELSE <<>>])
SentParts(kind) == PartsIn(LAMBDA index : KindOf(index) = kind)

\* the blocks open after the first n events
OpenAfter(n) ==
  {x \in Indices : LET last == {j \in 1 .. n : sent[j].event \in {"start", "stop"} /\ sent[j].index = x}
                   IN last # {} /\ sent[CHOOSE j \in last : \A k \in last : k <= j].event = "start"}
\* a call goes on after another one began
CallsAreMixed == \E i, j, k \in DOMAIN deltas : i < j /\ j < k /\ deltas[i] = deltas[k] /\ {deltas[i], deltas[j]} \subseteq Slots /\ deltas[i] # deltas[j]

\* text or reasoning comes after a call
CallsAreNotLast == \E i, j \in DOMAIN deltas : i < j /\ deltas[i] \in Slots /\ deltas[j] \notin Slots

\* the filter gave what it held at the end, after blocks that came later
HeldIsLate == pc = "over" /\ filtering

\* Every event is about a block that is open, and every start about one that was never open,
\* but for a call that goes on after another one began: its block is started again, with its old
\* index.  One block is open at a time, but for text or reasoning that comes after a call, whose
\* block stays open beside theirs, and for what the stop filter holds until the stream ends,
\* which opens a block of text beside what is open then.  A stream that ends has closed all
\* blocks and has sent what the whole message would have.
EventsInOrder ==
  /\ sent[1] = Event("message_start")
  /\ \A n \in DOMAIN sent :
       /\ sent[n].event \in {"delta", "stop"} => sent[n].index \in OpenAfter(n - 1)
       /\ sent[n].event = "start" =>
            /\ sent[n].index \notin OpenAfter(n - 1)
            /\ \/ \A m \in 1 .. n - 1 : sent[m].event = "start" => sent[m].index < sent[n].index
               \/ sent[n].kind = "tool_use" /\ KindOf(sent[n].index) = "tool_use" /\ CallsAreMixed
       /\ sent[n].event \in {"error", "message_delta", "message_stop"} => OpenAfter(n) = {}
       /\ \A x, y \in OpenAfter(n) : x # y =>
            /\ KindOf(x) # KindOf(y)
            /\ HeldIsLate \/ (CallsAreNotLast /\ "tool_use" \in {KindOf(x), KindOf(y)})
  /\ pc = "over" =>
       /\ SentParts("thinking") = Parts("thinking")
       /\ IF stopped THEN IsPrefix(SentParts("text"), Parts("text")) ELSE SentParts("text") = Parts("text")
       /\ \A slot \in Slots : Parts(slot) = <<>> \/ \E x \in Indices : Parts(slot) = PartsIn(LAMBDA index : index = x)
=============================================================================
