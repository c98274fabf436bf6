---------------------------- MODULE DeepseekAnswer ----------------------------
(***************************************************************************)
(* The answer to one prompt for DeepSeek (api/deepseek.py), produced twice *)
(* from the same behaviour of the provider: as lines of a stream           *)
(* (_stream_openai) and as one body (_collect_non_stream), which are two   *)
(* pieces of code.  The chat the prompt goes to is the matter of           *)
(* Conversation, limits on the text that of StreamLimits.  What the        *)
(* provider says about its state is the hint of a message; a text is the   *)
(* sequence of its pieces, some of which are tool calls; reasoning is      *)
(* treated as content is.  The retries of a continuation are those of      *)
(* Conversation: here it is what comes of them.                            *)
(***************************************************************************)
EXTENDS Naturals, Sequences, SequencesExt

CONSTANTS
  MaxRetries,  \* MAX_RETRIES and MESSAGE_TOO_FREQUENT_MAX_RETRIES
  Rounds       \* MAX_CONTINUE_ROUNDS

VARIABLES
  had,      \* had_cached_session, with messages to rebuild the prompt from
  calls,    \* which pieces are tool calls of the tools of the request
  variants, \* there are reduced prompts
  pieces,   \* pieces of text the provider has sent
  stream,   \* the local state of _stream_openai
  lines,    \* what it has sent
  whole,    \* the local state of _collect_non_stream
  body      \* what it has returned or raised

vars == <<had, calls, variants, pieces, stream, lines, whole, body>>

MaxPieces == Rounds + 1
Hints == {"none", "frequent", "fake", "busy", "other", "context", "input"}
Statuses == {"stop", "length"}                    \* as _finish_reason has them
HttpErrors == {"input", "stale", "frequent", "retryable", "fatal"}

NoBody == [kind |-> "none"]
Error(why) == [kind |-> "error", why |-> why]
Text(t) == [kind |-> "text", text |-> t]
Line(kind) == [kind |-> kind]

Local == [pc : {"send", "judge", "continue", "reduce", "end", "over"}, tries : 0 .. MaxRetries, rates : 0 .. MaxRetries,
          stale : BOOLEAN, text : Seq(1 .. MaxPieces), hint : Hints, status : Statuses,
          rounds : 0 .. Rounds, tools : BOOLEAN, incomplete : BOOLEAN, notice : BOOLEAN]

TypeOK ==
  /\ {had, variants} \subseteq BOOLEAN /\ calls \subseteq 1 .. MaxPieces /\ pieces \in 0 .. MaxPieces
  /\ stream \in Local /\ whole \in Local
  /\ \A i \in DOMAIN lines : lines[i].kind \in {"role", "text", "calls", "error", "finish", "done"}
  /\ body.kind \in {"none", "error", "answer"}

Start == [pc |-> "send", tries |-> 0, rates |-> 0, stale |-> FALSE, text |-> <<>>, hint |-> "none", status |-> "stop",
          rounds |-> 0, tools |-> TRUE, incomplete |-> FALSE, notice |-> FALSE]

Init ==
  /\ had \in BOOLEAN /\ calls \in SUBSET (1 .. MaxPieces) /\ variants \in BOOLEAN
  /\ pieces = 0 /\ stream = Start /\ whole = Start /\ lines = <<>> /\ body = NoBody

Over(d) == [d EXCEPT !.pc = "over"]
Told(d, o) == [d EXCEPT !.text = o.text, !.hint = o.hint, !.status = o.status, !.pc = "judge"]

-------------------------------------------------------------------------------
(* What becomes of an attempt *)

\* the provider refuses the request
Refused(d, kind) ==
  CASE kind = "input" -> [d EXCEPT !.hint = "input", !.text = <<>>, !.status = "stop", !.pc = "judge"]
    [] kind = "stale" /\ had /\ ~d.stale -> [d EXCEPT !.stale = TRUE]
    [] kind = "frequent" /\ d.rates < MaxRetries -> [d EXCEPT !.rates = @ + 1]
    [] kind = "retryable" /\ d.tries < MaxRetries -> [d EXCEPT !.tries = @ + 1]
    [] OTHER -> Over(d)

\* _stream_openai: whatever the caller has cannot be tried again
StreamHeard(d, o) ==
  CASE o.text # <<>> -> Told(d, o)
    [] o.text = <<>> /\ o.hint = "frequent" /\ d.rates < MaxRetries -> [d EXCEPT !.rates = @ + 1]
    [] o.text = <<>> /\ o.hint = "fake" /\ had /\ ~d.stale -> [d EXCEPT !.stale = TRUE]
    [] o.text = <<>> /\ o.hint \in {"busy", "fake"} /\ d.tries < MaxRetries /\ ~(o.hint = "fake" /\ had /\ ~d.stale) ->
         [d EXCEPT !.tries = @ + 1]
    [] OTHER -> Told(d, o)

\* a faulty WholeHeard: text that came with a hint is thrown away and asked for again
WholeHeardAgain(d, o) ==
  IF o.hint = "frequent" /\ d.rates < MaxRetries THEN [d EXCEPT !.rates = @ + 1]
  ELSE IF o.hint = "fake" /\ had /\ ~d.stale THEN [d EXCEPT !.stale = TRUE]
  ELSE IF o.hint \in {"busy", "fake"} /\ d.tries < MaxRetries THEN [d EXCEPT !.tries = @ + 1]
  ELSE Told(d, o)

\* _collect_non_stream: nor can a message that has text
WholeHeard(d, o) ==
  LET nothing == o.text = <<>> /\ o.hint # "input"
  IN IF nothing /\ o.hint = "frequent" /\ d.rates < MaxRetries THEN [d EXCEPT !.rates = @ + 1]
     ELSE IF nothing /\ o.hint = "fake" /\ had /\ ~d.stale THEN [d EXCEPT !.stale = TRUE]
     ELSE IF nothing /\ o.hint \in {"busy", "fake"} /\ d.tries < MaxRetries THEN [d EXCEPT !.tries = @ + 1]
     ELSE Told(d, o)

\* a call is one where the prompt named the tools
IsCall(d, piece) == d.tools /\ piece \in calls
CallsIn(d) == SelectSeq(d.text, LAMBDA piece : IsCall(d, piece))

\* a faulty AroundCalls: a message with calls has no text
NoneAroundCalls(d) == IF CallsIn(d) # <<>> THEN <<>> ELSE d.text

\* the content of the message is what is left of the text
AroundCalls(d) == SelectSeq(d.text, LAMBDA piece : ~IsCall(d, piece))

\* what the caller of the stream sees of more text: its role comes first, and from the first
\* call on everything is hidden
Shown(d, text) ==
  IF text = <<>> THEN lines
  ELSE LET hidden == CallsIn([d EXCEPT !.text = @ \o text]) # <<>>
       IN (IF lines = <<>> THEN <<Line("role")>> ELSE lines) \o (IF hidden THEN <<>> ELSE <<Text(text)>>)

Failed(sent, why) == sent \o <<Error(why), Line("done")>>

Texts == {<<>>} \cup (IF pieces < MaxPieces THEN {<<pieces + 1>>} ELSE {})
Messages == [text : Texts, hint : Hints, status : Statuses]

Http(kind) ==
  /\ stream.pc = "send"
  /\ stream' = Refused(stream, kind) /\ whole' = Refused(whole, kind)
  /\ lines' = IF stream'.pc = "over" THEN Failed(lines, kind) ELSE lines
  /\ body' = IF whole'.pc = "over" THEN Error(kind) ELSE body
  /\ UNCHANGED <<had, calls, variants, pieces>>

\* requests come too often and the deadline is over: _stream_guard ends the stream
Expired ==
  /\ stream.pc = "send" /\ stream.rates < MaxRetries
  /\ stream' = Over(stream) /\ whole' = Over(whole)
  /\ lines' = Failed(lines, "internal") /\ body' = Error("frequent")
  /\ UNCHANGED <<had, calls, variants, pieces>>

Message(o) ==
  /\ stream.pc = "send"
  /\ pieces' = pieces + Len(o.text)
  /\ stream' = StreamHeard(stream, o) /\ whole' = WholeHeard(whole, o)
  /\ lines' = Shown(stream, o.text)
  /\ UNCHANGED <<had, calls, variants, body>>

\* the connection breaks: _stream_guard ends the stream, the other raises 502
Breaks(text) ==
  /\ stream.pc = "send" /\ pieces' = pieces + Len(text)
  /\ stream' = Over(stream) /\ whole' = Over(whole)
  /\ lines' = Failed(Shown(stream, text), "internal") /\ body' = Error("broken")
  /\ UNCHANGED <<had, calls, variants>>

-------------------------------------------------------------------------------
(* What becomes of a message *)

Judged(d) ==
  IF d.hint = "input" THEN [d EXCEPT !.pc = "continue", !.incomplete = TRUE] ELSE [d EXCEPT !.pc = "end"]

TooLong(d) == d.hint = "context" /\ d.text = <<>>

Judge ==
  /\ stream.pc = "judge"
  /\ stream' = IF TooLong(stream) THEN Over(stream) ELSE Judged(stream)
  /\ whole' = IF TooLong(whole) THEN Over(whole) ELSE Judged(whole)
  /\ lines' = IF TooLong(stream) THEN Failed(lines, "context") ELSE lines
  /\ body' = IF TooLong(whole) THEN Error("context") ELSE body
  /\ UNCHANGED <<had, calls, variants, pieces>>

\* a continuation has brought a message
Continued(d, o) ==
  LET r == [d EXCEPT !.text = @ \o o.text, !.hint = o.hint, !.status = o.status, !.rounds = @ + 1]
  IN IF o.hint # "input" THEN [r EXCEPT !.incomplete = FALSE, !.pc = "end"]
     ELSE IF o.text = <<>> \/ r.rounds = Rounds THEN [r EXCEPT !.pc = "reduce"]
     ELSE r

\* its retries are over, so that a message with a hint it retries may have no text
Continue(o) ==
  /\ stream.pc = "continue" /\ pieces' = pieces + Len(o.text)
  /\ stream' = Continued(stream, o) /\ whole' = Continued(whole, o)
  /\ lines' = Shown(stream, o.text)
  /\ UNCHANGED <<had, calls, variants, body>>

\* the deadline is reached, or there is no continuation
NoContinuation ==
  /\ stream.pc = "continue"
  /\ stream' = [stream EXCEPT !.pc = "reduce"] /\ whole' = [whole EXCEPT !.pc = "reduce"]
  /\ UNCHANGED <<had, calls, variants, pieces, lines, body>>

ContinuationBreaks ==
  /\ stream.pc = "continue"
  /\ stream' = Over(stream) /\ whole' = Over(whole)
  /\ lines' = Failed(lines, "internal") /\ body' = Error("broken")
  /\ UNCHANGED <<had, calls, variants, pieces>>

\* _collect_reduced is tried for a message without text: one of its prompts, which names the
\* tools or leaves them out, is answered, or none
Reduced(d, text, status, tools) ==
  IF d.text = <<>> /\ variants /\ text # <<>>
    THEN [d EXCEPT !.text = text, !.hint = "none", !.status = status, !.tools = tools, !.notice = TRUE, !.pc = "end"]
    ELSE [d EXCEPT !.pc = "end"]

Reduce(text, status, tools) ==
  /\ stream.pc = "reduce"
  /\ stream' = Reduced(stream, text, status, tools) /\ whole' = Reduced(whole, text, status, tools)
  /\ lines' = IF stream'.notice THEN Shown([stream EXCEPT !.tools = tools], text) ELSE lines
  /\ pieces' = IF stream'.notice THEN pieces + 1 ELSE pieces
  /\ UNCHANGED <<had, calls, variants, body>>

-------------------------------------------------------------------------------
(* The end *)

Hollow(d) == d.text = <<>> /\ d.hint # "none"
Unfinished(d) == d.incomplete /\ ~d.notice
Why(d) == IF Unfinished(d) THEN "incomplete" ELSE IF d.hint = "fake" THEN "fake" ELSE "busy"
HasCalls(d) == CallsIn(d) # <<>>
CutCall == HasCalls(stream) /\ stream.status = "length"
Finish(d) == IF d.notice THEN "response_incomplete" ELSE IF HasCalls(d) THEN "tool_calls" ELSE d.status

StreamEnd ==
  LET roled == IF lines = <<>> THEN <<Line("role")>> ELSE lines
  IN IF Unfinished(stream) \/ Hollow(stream) THEN Failed(lines, Why(stream))
     ELSE IF CutCall THEN Failed(lines, "length")
     ELSE (IF HasCalls(stream) THEN Append(roled, [kind |-> "calls", calls |-> CallsIn(stream)]) ELSE roled)
          \o <<[kind |-> "finish", finish |-> Finish(stream)], Line("done")>>

WholeEnd ==
  IF Unfinished(whole) \/ Hollow(whole) THEN Error(Why(whole))
  ELSE [kind |-> "answer", text |-> AroundCalls(whole), calls |-> CallsIn(whole), finish |-> Finish(whole)]

End ==
  /\ stream.pc = "end"
  /\ stream' = Over(stream) /\ whole' = Over(whole)
  /\ lines' = StreamEnd /\ body' = WholeEnd
  /\ UNCHANGED <<had, calls, variants, pieces>>

Next ==
  \/ \E kind \in HttpErrors : Http(kind)
  \/ \E o \in Messages : Message(o)
  \/ \E o \in Messages : Continue(o)
  \/ \E text \in Texts : Breaks(text) \/ \E status \in Statuses, tools \in BOOLEAN : Reduce(text, status, tools)
  \/ Expired \/ Judge \/ NoContinuation \/ ContinuationBreaks \/ End

Spec == Init /\ [][Next]_vars
-------------------------------------------------------------------------------
Sent(kind) == SelectSeq(lines, LAMBDA line : line.kind = kind)
SentText == FlattenSeq([i \in DOMAIN Sent("text") |-> Sent("text")[i].text])
SentCalls == FlattenSeq([i \in DOMAIN Sent("calls") |-> Sent("calls")[i].calls])
EndsWith(kind) == lines[Len(lines) - 1].kind = kind
TextAfterCall(d) == \E i, j \in DOMAIN d.text : i < j /\ IsCall(d, d.text[i]) /\ ~IsCall(d, d.text[j])

\* A caller who streams and one who does not get the same of the same provider: the same text,
\* calls, finish reason or error, after the same attempts; the stream has one role, before the
\* text, and one end.  Two things are told apart: text that stands behind a tool call is in the
\* body only, whose content is all the text around the calls, and a call that was cut off fails
\* the stream only.
SameAnswer ==
  /\ stream = whole
  /\ \A i \in DOMAIN lines : lines[i].kind = "role" <=> i = 1 /\ lines[1].kind # "error"
  /\ \A i \in DOMAIN lines : lines[i].kind \in {"error", "finish"} => i = Len(lines) - 1 /\ lines[Len(lines)].kind = "done"
  /\ stream.pc = "over" =>
       \/ CutCall /\ EndsWith("error")
       \/ body.kind = "error" /\ EndsWith("error") /\ lines[Len(lines) - 1].why \in {body.why, "internal"}
       \/ /\ body.kind = "answer" /\ EndsWith("finish") /\ lines[Len(lines) - 1].finish = body.finish
          /\ SentCalls = body.calls
          /\ IsPrefix(SentText, body.text) /\ (SentText = body.text \/ TextAfterCall(whole))
=============================================================================
