--------------------------- MODULE ResponsesEvents ---------------------------
(***************************************************************************)
(* The stream of a chat completion translated into the events of the       *)
(* Responses API, the body of one translated into its output, and the      *)
(* output made into the history of the next turn (api/responses.py).       *)
(* A delta brings a piece of reasoning or of text, or a part of the tool   *)
(* call of a slot; pieces are numbered, and the id of a call is the number *)
(* of the delta that named its slot first.  The providers send the         *)
(* finish_reason after the deltas.  An output_index counts from 1 here.    *)
(***************************************************************************)
EXTENDS Naturals, Sequences, FiniteSets, SequencesExt

CONSTANTS
  Slots,     \* indices of tool calls
  MaxDeltas  \* bound on the deltas of a stream

VARIABLES
  deltas,    \* how many deltas came
  message,   \* what the provider said: the message of the body
  items,     \* the items by output_index
  parts,     \* reasoning_parts and message_parts
  current,   \* reasoning_index and message_index while open, else 0
  tools,     \* tool_items: output_index by slot, 0 for none
  finish,    \* finish_reason
  error,     \* the error among the chunks
  wire,      \* the events sent
  status     \* of the response; "left" when the caller went away

vars == <<deltas, message, items, parts, current, tools, finish, error, wire, status>>

Kinds == {"reasoning", "message"}
Finishes == {"none", "stop", "length", "tool_calls", "content_filter", "response_incomplete"}
Errors == {"none", "error", "response_incomplete"}
Indices == 0 .. MaxDeltas
Pieces == Seq(1 .. MaxDeltas)

TypeOK ==
  /\ deltas \in Indices /\ finish \in Finishes /\ error \in Errors
  /\ parts \in [Kinds -> Pieces] /\ current \in [Kinds -> Indices] /\ tools \in [Slots -> Indices]
  /\ Len(items) <= MaxDeltas
  /\ \A i \in DOMAIN items : items[i].text \in Pieces /\ items[i].waits \in Pieces /\ items[i].state \in {"seen", "open", "done"}
  /\ message.reasoning \in Pieces /\ message.text \in Pieces /\ Len(message.calls) <= MaxDeltas
  /\ status \in {"in_progress", "completed", "incomplete", "failed", "left"}

Event(event, index, piece) == [event |-> event, index |-> index, piece |-> piece]
Told(event) == <<Event(event, 0, 0)>>

Init ==
  /\ deltas = 0 /\ message = [reasoning |-> <<>>, text |-> <<>>, calls |-> <<>>]
  /\ items = <<>> /\ parts = [k \in Kinds |-> <<>>] /\ current = [k \in Kinds |-> 0] /\ tools = [s \in Slots |-> 0]
  /\ finish = "none" /\ error = "none"
  /\ wire = Told("created") \o Told("in_progress") /\ status = "in_progress"

-------------------------------------------------------------------------------
(* Items are closed.  A step of the stream works on st = [items, current, wire]. *)

\* close_message, close_reasoning: the text is that of all the parts of the kind
Closed(st, k) ==
  LET i == st.current[k]
  IN IF i = 0 THEN st
     ELSE [items |-> [st.items EXCEPT ![i].text = parts[k], ![i].state = "done"],
           current |-> [st.current EXCEPT ![k] = 0],
           wire |-> Append(st.wire, Event("done", i, 0))]

\* _open_tool_item: told once, with the arguments that came before the name
Opened(st, i) ==
  IF st.items[i].state # "seen" THEN st
  ELSE [st EXCEPT !.items[i].state = "open", !.items[i].waits = <<>>,
                  !.wire = @ \o <<Event("added", i, 0)>>
                             \o [n \in 1 .. Len(st.items[i].waits) |-> Event("delta", i, st.items[i].waits[n])]]

\* _close_tool: also a call that never got a name is told
ClosedTool(st, i) ==
  LET o == Opened(st, i)
  IN IF st.items[i].state = "done" THEN st
     ELSE [o EXCEPT !.items[i].state = "done", !.wire = Append(@, Event("done", i, 0))]

\* close_all, in the order of the output
ClosedAll(st) ==
  LET Close(i, s) == CASE s.items[i].kind = "function_call" -> ClosedTool(s, i)
                       [] i \in {s.current[k] : k \in Kinds} -> Closed(s, s.items[i].kind)
                       [] OTHER -> s
  IN FoldRight(Close, [n \in 1 .. Len(st.items) |-> Len(st.items) + 1 - n], st)

State == [items |-> items, current |-> current, wire |-> wire]
Become(st) == items' = st.items /\ current' = st.current /\ wire' = st.wire

-------------------------------------------------------------------------------
(* The deltas *)

More == status = "in_progress" /\ finish = "none" /\ deltas < MaxDeltas
Piece == deltas + 1

Other(k) == CHOOSE o \in Kinds : o # k
Item(kind, slot) == [kind |-> kind, slot |-> slot, text |-> <<>>, waits |-> <<>>, named |-> FALSE, id |-> Piece,
                     state |-> IF kind = "function_call" THEN "seen" ELSE "open"]

\* reasoning_delta, message_delta: the other of the two is closed
TextDelta(k, field) ==
  /\ More /\ deltas' = Piece
  /\ message' = [message EXCEPT ![field] = Append(@, Piece)]
  /\ parts' = [parts EXCEPT ![k] = Append(@, Piece)]
  /\ LET st == Closed(State, Other(k))
         i == IF st.current[k] = 0 THEN Len(items) + 1 ELSE st.current[k]
         starts == st.current[k] = 0
     IN Become([items |-> IF starts THEN Append(st.items, Item(k, "none")) ELSE st.items,
                current |-> [st.current EXCEPT ![k] = i],
                wire |-> st.wire \o (IF starts THEN <<Event("added", i, 0)>> ELSE <<>>)
                                 \o <<Event("delta", i, Piece)>>])
  /\ UNCHANGED <<tools, finish, error, status>>

ReasoningDelta == TextDelta("reasoning", "reasoning")
MessageDelta == TextDelta("message", "text")

\* a faulty TextClosed: a tool call does not close the text
NothingClosed == State

\* what a tool call closes
TextClosed == Closed(Closed(State, "message"), "reasoning")

\* tool_delta: arguments that come before the name wait for it
ToolDelta(slot, name, arguments) ==
  /\ More /\ deltas' = Piece
  /\ LET i == IF tools[slot] = 0 THEN Len(items) + 1 ELSE tools[slot]
         args == IF arguments THEN <<Piece>> ELSE <<>>
         seen == IF tools[slot] = 0 THEN [TextClosed EXCEPT !.items = Append(@, Item("function_call", slot))] ELSE TextClosed
         told == seen.items[i].state = "open"
         taken == [seen EXCEPT !.items[i].text = @ \o args,
                               !.items[i].waits = IF told THEN @ ELSE @ \o args,
                               !.items[i].named = @ \/ name,
                               !.wire = IF told THEN @ \o [n \in 1 .. Len(args) |-> Event("delta", i, args[n])] ELSE @]
     IN /\ Become(IF taken.items[i].named THEN Opened(taken, i) ELSE taken)
        /\ tools' = [tools EXCEPT ![slot] = i]
        /\ LET said == {n \in DOMAIN message.calls : message.calls[n].slot = slot}
           IN message' = IF said = {} THEN [message EXCEPT !.calls = Append(@, [slot |-> slot, id |-> Piece, named |-> name, text |-> args])]
                         ELSE [message EXCEPT !.calls = [n \in DOMAIN @ |->
                                IF n \in said THEN [@[n] EXCEPT !.named = @ \/ name, !.text = @ \o args] ELSE @[n]]]
  /\ UNCHANGED <<parts, finish, error, status>>

\* a chunk with a finish_reason
Finish(reason) ==
  /\ status = "in_progress" /\ finish = "none" /\ finish' = reason
  /\ UNCHANGED <<deltas, message, items, parts, current, tools, error, wire, status>>

\* a chunk with an error: the stream is read on, to its end
ErrorChunk(kind) ==
  /\ status = "in_progress" /\ error = "none" /\ error' = kind
  /\ UNCHANGED <<deltas, message, items, parts, current, tools, finish, wire, status>>

-------------------------------------------------------------------------------
(* The end *)

Incomplete(reason) == reason \in {"length", "content_filter"}   \* INCOMPLETE_REASONS

\* _terminal_lines
Terminal(st, as, more) == Become([st EXCEPT !.wire = @ \o Told(as) \o more]) /\ status' = as

\* _failure_lines
Failure(st, kind) ==
  IF kind = "response_incomplete" THEN Terminal(st, "incomplete", <<>>) ELSE Terminal(st, "failed", Told("error"))

\* the chunks end
StreamEnds ==
  /\ status = "in_progress"
  /\ IF error # "none" THEN Failure(ClosedAll(State), error)
     ELSE Terminal(ClosedAll(State), IF Incomplete(finish) THEN "incomplete" ELSE "completed", <<>>)
  /\ UNCHANGED <<deltas, message, parts, tools, finish, error>>

\* the generator of the chunks raises
Aborts ==
  /\ status = "in_progress"
  /\ Failure(ClosedAll(State), "error")
  /\ error' = "error"
  /\ UNCHANGED <<deltas, message, parts, tools, finish>>

\* the caller goes away: nothing more is sent
Leaves ==
  /\ status = "in_progress" /\ status' = "left"
  /\ UNCHANGED <<deltas, message, items, parts, current, tools, finish, error, wire>>

Next ==
  \/ ReasoningDelta \/ MessageDelta
  \/ \E slot \in Slots, part \in {{"name"}, {"arguments"}, {"name", "arguments"}} :
       ToolDelta(slot, "name" \in part, "arguments" \in part)
  \/ \E reason \in Finishes \ {"none"} : Finish(reason)
  \/ \E kind \in Errors \ {"none"} : ErrorChunk(kind)
  \/ StreamEnds \/ Aborts \/ Leaves

Spec == Init /\ [][Next]_vars

-------------------------------------------------------------------------------
(* The body, and the next turn *)

\* output_items_from_message
OutputOf(m) ==
  LET Of(kind, text) == IF text = <<>> THEN <<>> ELSE <<[kind |-> kind, text |-> text]>>
  IN Of("reasoning", m.reasoning)
     \o (IF m.text # <<>> \/ m.calls = <<>> THEN <<[kind |-> "message", text |-> m.text]>> ELSE <<>>)
     \o [n \in 1 .. Len(m.calls) |-> [kind |-> "function_call", text |-> m.calls[n].text, id |-> m.calls[n].id]]

\* response_from_chat
StatusOf(failure, reason) ==
  CASE "response_incomplete" \in {failure, reason} -> "incomplete"
    [] failure = "error" /\ reason # "response_incomplete" -> "failed"
    [] failure = "none" /\ reason # "response_incomplete" -> IF Incomplete(reason) THEN "incomplete" ELSE "completed"

\* ordered_output: the items that are done
Output == SelectSeq(items, LAMBDA item : item.state = "done")

OfKind(output, kind) == SelectSeq(output, LAMBDA item : item.kind = kind)

\* messages_from_output: the calls that the next turn is told of
CallsOf(output) == {OfKind(output, "function_call")[n].id : n \in DOMAIN OfKind(output, "function_call")}

\* validate_tool_chain, for the result of a call sent after the output
ChainIsValid(output, id) == id \in CallsOf(output)

-------------------------------------------------------------------------------
About(i) == SelectSeq(wire, LAMBDA e : e.index = i)
IsOver == status \notin {"in_progress", "left"}

\* Responses streams: an item is told as added, then piece by piece, then as done, all its
\* pieces and each once; text grows only in the last item, and all are done at the end.
EventsInOrder ==
  /\ \A i \in DOMAIN items :
       LET told == About(i)
       IN /\ \A n \in DOMAIN told : told[n].event = CASE n = 1 -> "added" [] n = Len(told) /\ items[i].state = "done" -> "done" [] OTHER -> "delta"
          /\ (IsOver => items[i].state = "done")
          /\ LET pieces == [n \in 1 .. Len(SelectSeq(told, LAMBDA e : e.event = "delta")) |-> told[n + 1].piece]
             IN (items[i].state = "done" => IsSuffix(pieces, items[i].text))
  /\ \A k \in Kinds : current[k] # 0 => current[k] = Len(items) /\ items[current[k]].kind = k

Called(output) == [n \in DOMAIN OfKind(output, "function_call") |->
  <<OfKind(output, "function_call")[n].id, OfKind(output, "function_call")[n].text>>]

\* Responses: the output of a stream is that of the body, of the same message.  The calls are
\* the same, in their order.  Where the body has one item of reasoning and one of text, the
\* stream has one whenever the kind changes, each with all the text of its kind up to there, the
\* last one as the body.  An answer without text and calls has an empty text in the body, and
\* none in the stream.  The status is the same too, but for a finish_reason response_incomplete
\* that comes without its error: only the body is incomplete then.
SameAnswer ==
  IsOver =>
    /\ \A k \in Kinds :
         LET stream == OfKind(Output, k)
             body == OfKind(OutputOf(message), k)
         IN \/ /\ stream # <<>> /\ Len(body) = 1 /\ stream[Len(stream)].text = body[1].text
               /\ \A n \in DOMAIN stream : IsPrefix(stream[n].text, body[1].text)
            \/ stream = <<>> /\ body = <<>>
            \/ k = "message" /\ stream = <<>> /\ message.calls = <<>> /\ body[1].text = <<>>
    /\ Called(Output) = Called(OutputOf(message))
    /\ \/ status = StatusOf(error, finish)
       \/ finish = "response_incomplete" /\ error # "response_incomplete"

\* Responses: the result of every call that the stream told of is accepted in the next turn.
AnswersMatchCalls ==
  IsOver => \A n \in DOMAIN wire :
    wire[n].event = "added" /\ items[wire[n].index].kind = "function_call" => ChainIsValid(Output, items[wire[n].index].id)
=============================================================================
