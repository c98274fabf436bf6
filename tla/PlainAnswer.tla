----------------------------- MODULE PlainAnswer -----------------------------
(***************************************************************************)
(* The providers that pass a chat through, OpenCode Zen and GigaChat       *)
(* (opencode/api.py, gigachat/api.py and their clients): one request, as a *)
(* stream or as a body, with its retries and its response, and the text    *)
(* cut at a stop marker, piece by piece or as a whole.  A character is     *)
(* "a", or one of the two of the marker, "s" and "t".                      *)
(***************************************************************************)
EXTENDS Naturals, Sequences, SequencesExt

CONSTANTS
  MaxRetries, \* MAX_RETRIES
  Pieces,     \* texts of a delta
  MaxEvents   \* bound on the events of an answer

VARIABLES
  provider,   \* "opencode" or "gigachat"
  streaming,  \* a stream was asked for
  stopping,   \* a stop marker was given
  pc,         \* "sending", "waiting", "reading", "over"
  attempt,    \* transport errors so far, of _send
  retries,    \* retryable statuses so far, of _request
  open,       \* the response is open
  whole,      \* what the provider said
  sent,       \* what the caller was sent
  hit,        \* stop_hit
  emitted,    \* a delta was sent
  broken,     \* the account was given up
  outcome     \* "none", "answered", "told" an error, "raised", "left", "left reading" a refusal, "broken off"

vars == <<provider, streaming, stopping, pc, attempt, retries, open, whole, sent, hit, emitted, broken, outcome>>
request == <<provider, streaming, stopping>>

Nothing == [pieces |-> <<>>, reasoning |-> 0, calls |-> 0, finish |-> <<>>]

TypeOK ==
  /\ provider \in {"opencode", "gigachat"} /\ {streaming, stopping, open, hit, emitted, broken} \subseteq BOOLEAN
  /\ pc \in {"sending", "waiting", "reading", "over"} /\ {attempt, retries} \subseteq 0 .. MaxRetries
  /\ \A said \in {whole, sent} : said.reasoning + said.calls + Len(said.pieces) + Len(said.finish) <= MaxEvents + 1
  /\ outcome \in {"none", "answered", "told", "raised", "left", "left reading", "broken off"}

Init ==
  /\ provider \in {"opencode", "gigachat"} /\ streaming \in BOOLEAN /\ stopping \in BOOLEAN
  /\ pc = "sending" /\ attempt = 0 /\ retries = 0 /\ open = FALSE
  /\ whole = Nothing /\ sent = Nothing /\ hit = FALSE /\ emitted = FALSE /\ broken = FALSE /\ outcome = "none"

-------------------------------------------------------------------------------
(* The request *)

Over(how) == pc' = "over" /\ open' = FALSE /\ outcome' = how

\* a body's errors are raised; a stream tells of those of sending
Failed == Over(IF streaming THEN "told" ELSE "raised")

\* _send: the attempt starts its statuses anew
TransportFails ==
  /\ pc = "sending"
  /\ \/ /\ attempt < MaxRetries /\ attempt' = attempt + 1 /\ retries' = 0 /\ pc' = "waiting"
        /\ UNCHANGED <<open, outcome>>
     \/ attempt = MaxRetries /\ Failed /\ UNCHANGED <<attempt, retries>>
  /\ UNCHANGED <<request, whole, sent, hit, emitted, broken>>

\* _request: the response is closed before it waits
Retryable ==
  /\ pc = "sending" /\ retries < MaxRetries
  /\ retries' = retries + 1 /\ pc' = "waiting"
  /\ UNCHANGED <<request, attempt, open, whole, sent, hit, emitted, broken, outcome>>

Waited ==
  /\ pc = "waiting" /\ pc' = "sending"
  /\ UNCHANGED <<request, attempt, retries, open, whole, sent, hit, emitted, broken, outcome>>

\* GigaChat's token is refused: _send gives the account up
TokenRefused ==
  /\ provider = "gigachat" /\ pc = "sending"
  /\ \E auth \in BOOLEAN : broken' = (broken \/ auth)
  /\ Failed
  /\ UNCHANGED <<request, attempt, retries, whole, sent, hit, emitted>>

\* a response, of which the status is not known yet
Responds ==
  /\ pc = "sending" /\ pc' = "reading" /\ open' = TRUE
  /\ UNCHANGED <<request, attempt, retries, whole, sent, hit, emitted, broken, outcome>>

\* a faulty OpencodeRefused: the response of a refusal stays open
OpencodeRefusedOpen == pc' = "over" /\ outcome' = (IF streaming THEN "told" ELSE "raised") /\ UNCHANGED open

\* the refusal is told, after _close_quietly
OpencodeRefused == Failed

\* GigaChat: the refusal is raised in the stream too
GigachatRefused == Over("raised")

\* _raise_upstream: retries are over or make no sense
Refused ==
  /\ pc = "reading" /\ whole = Nothing
  /\ \E auth \in BOOLEAN : broken' = (broken \/ auth)
  /\ IF provider = "opencode" THEN OpencodeRefused ELSE GigachatRefused
  /\ UNCHANGED <<request, attempt, retries, whole, sent, hit, emitted>>

\* collect_non_stream: the body is read, or cannot be
Collected ==
  /\ pc = "reading" /\ ~streaming
  /\ \E how \in {"answered", "raised"} : Over(how)
  /\ UNCHANGED <<request, attempt, retries, whole, sent, hit, emitted, broken>>

-------------------------------------------------------------------------------
(* The stream *)

Events(said) == Len(said.pieces) + said.reasoning + said.calls + Len(said.finish)
More == pc = "reading" /\ streaming /\ Events(whole) < MaxEvents

\* _apply_stop
ApplyStop(text) ==
  LET at == {i \in 1 .. Len(text) - 1 : text[i] = "s" /\ text[i + 1] = "t"}
  IN IF ~stopping \/ at = {} THEN text ELSE SubSeq(text, 1, (CHOOSE i \in at : \A j \in at : i <= j) - 1)

\* a faulty Kept: the text after a marker is looked at anew
KeptAnew(piece) == ApplyStop(piece)

\* what of a piece is sent: after a marker nothing
Kept(piece) == IF hit THEN <<>> ELSE ApplyStop(piece)

\* a delta with text
Text(piece) ==
  /\ More
  /\ LET kept == Kept(piece)
     IN /\ hit' = (hit \/ kept # piece)
        /\ sent' = IF kept = <<>> THEN sent ELSE [sent EXCEPT !.pieces = Append(@, kept)]
        /\ emitted' = (emitted \/ kept # <<>>)
  /\ whole' = [whole EXCEPT !.pieces = Append(@, piece)]
  /\ UNCHANGED <<request, pc, attempt, retries, open, broken, outcome>>

\* a delta without text passes as it is
Passed(field) ==
  /\ More
  /\ whole' = [whole EXCEPT ![field] = @ + 1] /\ sent' = [sent EXCEPT ![field] = @ + 1]
  /\ emitted' = TRUE
  /\ UNCHANGED <<request, pc, attempt, retries, open, hit, broken, outcome>>

\* _delta_from_event: what of a delta is passed; GigaChat's has no reasoning
OpencodeDelta == \E field \in {"reasoning", "calls"} : Passed(field)
GigachatDelta == Passed("calls")
Delta == IF provider = "opencode" THEN OpencodeDelta ELSE GigachatDelta

\* normalize_finish_reason
OpencodeFinish(reason) ==
  CASE reason \in {"tool_calls", "function_call"} -> "tool_calls" [] reason \in {"length", "content_filter"} -> reason [] OTHER -> "stop"
GigachatFinish(reason) ==
  CASE reason = "function_call" -> "tool_calls" [] reason = "length" -> "length" [] reason = "blacklist" -> "content_filter" [] OTHER -> "stop"
FinishOf(reason) == IF provider = "opencode" THEN OpencodeFinish(reason) ELSE GigachatFinish(reason)

Finish(reason) ==
  /\ More /\ whole.finish = <<>>
  /\ whole' = [whole EXCEPT !.finish = <<reason>>] /\ sent' = [sent EXCEPT !.finish = Append(@, FinishOf(reason))]
  /\ UNCHANGED <<request, pc, attempt, retries, open, hit, emitted, broken, outcome>>

\* the provider's stream ends: a role, if nothing was sent, and [DONE]
Ends ==
  /\ pc = "reading" /\ streaming
  /\ emitted' = TRUE /\ Over("answered")
  /\ UNCHANGED <<request, attempt, retries, whole, sent, hit, broken>>

\* the connection fails: raised out of the stream, without [DONE]
Breaks ==
  /\ pc = "reading" /\ streaming /\ Over("raised")
  /\ UNCHANGED <<request, attempt, retries, whole, sent, hit, emitted, broken>>

\* any other failure: the stream ends as if the answer were whole
Fails ==
  /\ pc = "reading" /\ streaming /\ Over("broken off")
  /\ sent' = [sent EXCEPT !.finish = Append(@, "stop")]
  /\ UNCHANGED <<request, attempt, retries, whole, hit, emitted, broken>>

\* the caller goes away, or the request is cancelled
Leaves ==
  /\ pc # "over" /\ Over("left")
  /\ UNCHANGED <<request, attempt, retries, whole, sent, hit, emitted, broken>>

\* a stream of OpenCode is cancelled while it reads a refusal: nothing closes the response
LeavesRefusal ==
  /\ provider = "opencode" /\ streaming /\ pc = "reading" /\ whole = Nothing
  /\ pc' = "over" /\ outcome' = "left reading"
  /\ UNCHANGED <<request, attempt, retries, open, whole, sent, hit, emitted, broken>>

Next ==
  \/ TransportFails \/ Retryable \/ Waited \/ TokenRefused \/ Responds \/ Refused \/ Collected
  \/ \E piece \in Pieces : Text(piece)
  \/ Delta
  \/ \E reason \in {"blacklist", "length", "function_call"} : Finish(reason)
  \/ Ends \/ Breaks \/ Fails \/ Leaves \/ LeavesRefusal

Spec == Init /\ [][Next]_vars

-------------------------------------------------------------------------------
TextOf(said) == FlattenSeq(said.pieces)

\* no marker lies across the pieces
Uncut == \A n \in 1 .. Len(whole.pieces) - 1 : ~(whole.pieces[n][Len(whole.pieces[n])] = "s" /\ whole.pieces[n + 1][1] = "t")

\* OpenCode and GigaChat: a stream sends the text of the body, unless the deltas cut a marker,
\* and then no less than it; reasoning, calls and finish_reason are those of the body.  However
\* a request ends, its response is closed, but for a stream of OpenCode that is cancelled while
\* it reads the refusal of its provider: the finally of the stream comes after that.
SameAnswer ==
  /\ pc = "over" /\ outcome # "left reading" => ~open
  /\ outcome = "answered" /\ streaming =>
       /\ IsPrefix(ApplyStop(TextOf(whole)), TextOf(sent)) /\ IsPrefix(TextOf(sent), TextOf(whole))
       /\ stopping /\ Uncut => TextOf(sent) = ApplyStop(TextOf(whole))
       /\ sent.reasoning = whole.reasoning /\ sent.calls = whole.calls
       /\ sent.finish = [n \in DOMAIN whole.finish |-> FinishOf(whole.finish[n])]
=============================================================================
