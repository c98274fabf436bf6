------------------------------ MODULE QwenAnswer ------------------------------
(***************************************************************************)
(* The answer to one prompt for Qwen (qwen/api.py), produced twice from    *)
(* the same behaviour of the provider: as lines of a stream                *)
(* (stream_openai) and as one body (collect_non_stream).  The chat that    *)
(* the prompt goes to is the matter of QwenChat, the message rebuilt from  *)
(* the deltas that of QwenStream, limits on the text that of StreamLimits. *)
(* A message is a sequence of pieces: "t" text, "c" what looks like a      *)
(* tool call, "r" reasoning.                                               *)
(***************************************************************************)
EXTENDS Naturals, Sequences, SequencesExt

CONSTANTS
  MaxRetries,  \* MAX_RETRIES
  MaxPieces    \* bound on the pieces of a message

VARIABLES
  had,      \* had_cached_session, with messages to rebuild the prompt from
  tools,    \* tool_mode
  parses,   \* what looks like tool calls can be parsed
  choices,  \* n
  stream,   \* the local state of stream_openai
  lines,    \* what it has sent
  whole,    \* the local state of collect_non_stream
  body      \* what it has returned or raised

asked == <<had, tools, parses, choices>>
vars == <<asked, stream, lines, whole, body>>

HttpErrors == {"stale", "retryable", "auth", "context", "fatal"}
Errors == {"none", "retryable", "context", "other"}
Messages == UNION {[1 .. n -> {"t", "c", "r"}] : n \in 0 .. MaxPieces}
Local == [pc : {"send", "read", "commit", "over"}, tries : 0 .. MaxRetries, stale : BOOLEAN,
          rec : Messages, error : Errors]

TypeOK ==
  /\ {had, tools, parses} \subseteq BOOLEAN /\ choices \in 1 .. 2
  /\ stream \in Local /\ whole \in Local
  /\ \A i \in DOMAIN lines : lines[i].kind \in {"role", "text", "reason", "calls", "error", "finish", "done"}
  /\ body.kind \in {"none", "error", "answer"}

Start == [pc |-> "send", tries |-> 0, stale |-> FALSE, rec |-> <<>>, error |-> "none"]

Init ==
  /\ had \in BOOLEAN /\ tools \in BOOLEAN /\ parses \in BOOLEAN /\ choices \in 1 .. 2
  /\ stream = Start /\ whole = Start /\ lines = <<>> /\ body = [kind |-> "none"]

Line(kind) == [kind |-> kind, choice |-> 1]
Piece(p, c) == [kind |-> IF p = "r" THEN "reason" ELSE "text", piece |-> p, choice |-> c]
Error(why) == [kind |-> "error", why |-> why]
Over(d) == [d EXCEPT !.pc = "over"]

-------------------------------------------------------------------------------
(* An attempt *)

\* the request is refused
Refused(d, kind) ==
  CASE kind = "stale" /\ had /\ ~d.stale -> [d EXCEPT !.stale = TRUE]
    [] kind = "retryable" /\ d.tries < MaxRetries -> [d EXCEPT !.tries = @ + 1]
    [] OTHER -> Over(d)

\* _stream_error_lines and _stream_context_limit_lines
Failed(why) == <<Error(why), Line("done")>>

Http(kind) ==
  /\ stream.pc = "send"
  /\ stream' = Refused(stream, kind) /\ whole' = Refused(whole, kind)
  /\ lines' = lines \o (IF stream'.pc = "over" THEN Failed(kind) ELSE <<>>)
  /\ body' = IF whole'.pc = "over" THEN Error(kind) ELSE body
  /\ UNCHANGED asked

\* the stream begins; its local state is that of a new attempt
Opened ==
  /\ stream.pc = "send"
  /\ stream' = [stream EXCEPT !.pc = "read", !.rec = <<>>] /\ whole' = [whole EXCEPT !.pc = "read", !.rec = <<>>]
  /\ UNCHANGED <<asked, lines, body>>

Hidden(rec) == tools /\ Contains(rec, "c")

\* pump: a piece, unless it belongs to a call, after the role
Visible(p) == p = "r" \/ ~Hidden(Append(stream.rec, p))
Shown(p) ==
  IF ~Visible(p) THEN <<>>
  ELSE (IF lines = <<>> THEN <<Line("role")>> ELSE <<>>) \o <<Piece(p, 1)>>

Event(p) ==
  /\ stream.pc = "read" /\ Len(stream.rec) < MaxPieces
  /\ stream' = [stream EXCEPT !.rec = Append(@, p)] /\ whole' = [whole EXCEPT !.rec = Append(@, p)]
  /\ lines' = lines \o Shown(p)
  /\ UNCHANGED <<asked, body>>

GotContent == lines # <<>>

\* a faulty StreamHeard: an error is retried although the caller has text of the attempt
StreamHeardAgain(d, error) ==
  IF error = "retryable" /\ d.tries < MaxRetries THEN [d EXCEPT !.tries = @ + 1, !.pc = "send"]
  ELSE [d EXCEPT !.pc = "commit", !.error = error]

\* stream_openai: what the caller has cannot be tried again
StreamHeard(d, error) ==
  IF ~GotContent /\ error = "retryable" /\ d.rec = <<>> /\ d.tries < MaxRetries
    THEN [d EXCEPT !.tries = @ + 1, !.pc = "send"]
    ELSE [d EXCEPT !.pc = "commit", !.error = error]

\* _collect_response: nor can a message that has content
WholeHeard(d, error) ==
  IF error = "retryable" /\ d.rec = <<>> /\ d.tries < MaxRetries
    THEN [d EXCEPT !.tries = @ + 1, !.pc = "send"]
    ELSE [d EXCEPT !.pc = "commit", !.error = error]

EndOfStream(error) ==
  /\ stream.pc = "read"
  /\ stream' = StreamHeard(stream, error) /\ whole' = WholeHeard(whole, error)
  /\ UNCHANGED <<asked, lines, body>>

\* the connection breaks: _stream_guard ends the stream, the other raises 502
Breaks ==
  /\ stream.pc = "read"
  /\ stream' = Over(stream) /\ whole' = Over(whole)
  /\ lines' = lines \o Failed("internal") /\ body' = Error("broken")
  /\ UNCHANGED asked

-------------------------------------------------------------------------------
(* The end *)

Texts(rec) == SelectSeq(rec, LAMBDA p : p # "r")
HasCalls(d) == Hidden(d.rec) /\ parses
Ends(d) == d.error = "context" \/ (d.rec = <<>> /\ d.error # "none")

\* text that looked like a call and was none is told at the end
Remainder == IF Hidden(stream.rec) /\ ~parses
               THEN LET text == Texts(stream.rec)
                        from == CHOOSE i \in DOMAIN text : text[i] = "c" /\ \A j \in 1 .. i - 1 : text[j] # "c"
                    IN [i \in 1 .. Len(text) - from + 1 |-> Piece(text[from + i - 1], 1)]
               ELSE <<>>

Finish(d) == IF HasCalls(d) THEN "tool_calls" ELSE "stop"
FinishOf(c) == [kind |-> "finish", finish |-> Finish(stream), choice |-> c]

\* extra_choice_lines: the calls, or else the whole text
Extra(c) ==
  LET text == Texts(stream.rec)
  IN (IF HasCalls(stream) THEN <<[Line("calls") EXCEPT !.choice = c]>> ELSE [i \in DOMAIN text |-> Piece(text[i], c)])
     \o <<FinishOf(c)>>

StreamEnd ==
  LET called == IF HasCalls(stream) THEN <<Line("calls")>> ELSE Remainder
  IN (lines \o called) \o (IF GotContent THEN <<>> ELSE <<Line("role")>>)
     \o <<FinishOf(1)>> \o (IF choices = 2 THEN Extra(2) ELSE <<>>) \o <<Line("done")>>

\* _build_limited_message: the text around calls, or all of it
Message(d) ==
  [kind |-> "answer", text |-> SelectSeq(Texts(d.rec), LAMBDA p : p = "t" \/ ~HasCalls(d)),
   reason |-> SelectSeq(d.rec, LAMBDA p : p = "r"), calls |-> HasCalls(d), finish |-> Finish(d)]

End ==
  /\ stream.pc = "commit"
  /\ stream' = Over(stream) /\ whole' = Over(whole)
  /\ lines' = IF Ends(stream) THEN lines \o Failed(stream.error) ELSE StreamEnd
  /\ body' = IF Ends(whole) THEN Error(whole.error) ELSE Message(whole)
  /\ UNCHANGED asked

\* the account is not free in time for the commit
Busy ==
  /\ stream.pc = "commit"
  /\ stream' = Over(stream) /\ whole' = Over(whole)
  /\ lines' = lines \o Failed("internal") /\ body' = Error("busy")
  /\ UNCHANGED asked

Next ==
  \/ \E kind \in HttpErrors : Http(kind)
  \/ \E p \in {"t", "c", "r"} : Event(p)
  \/ \E error \in Errors : EndOfStream(error)
  \/ Opened \/ Breaks \/ End \/ Busy

Spec == Init /\ [][Next]_vars
-------------------------------------------------------------------------------
Of(kind, c) == SelectSeq(lines, LAMBDA l : l.kind = kind /\ l.choice = c)
Pieces(sent) == [i \in DOMAIN sent |-> sent[i].piece]
Lasts(kind) == lines[Len(lines)].kind = "done" /\ lines[Len(lines) - 1].kind = kind

\* A caller who streams and one who does not get the same of the same provider: the same text,
\* reasoning, calls, finish reason or error, after the same attempts, in every choice.  The
\* stream alone leaves out the text after a tool call, and, in the choices that repeat the
\* first, the text before one.
SameAnswer ==
  /\ stream = whole
  /\ stream.pc = "over" =>
       \/ body.kind = "error" /\ Lasts("error") /\ lines[Len(lines) - 1].why \in {body.why, "internal"}
       \/ /\ body.kind = "answer" /\ Lasts("finish")
          /\ Pieces(Of("reason", 1)) = body.reason
          /\ IF body.calls THEN IsPrefix(Pieces(Of("text", 1)), body.text) ELSE Pieces(Of("text", 1)) = body.text
          /\ \A c \in 1 .. choices :
               /\ Len(Of("finish", c)) = 1 /\ Of("finish", c)[1].finish = body.finish
               /\ body.calls <=> Of("calls", c) # <<>>
               /\ ~body.calls => Pieces(Of("text", c)) = body.text
=============================================================================
