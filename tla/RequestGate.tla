----------------------------- MODULE RequestGate -----------------------------
(***************************************************************************)
(* What a request passes before its handler (api/core.py): two middlewares *)
(* that may read the body for the rate headers and the log, a limit on the *)
(* bytes received that is kept in the scope of the request, and the        *)
(* conversion of what the handler raises.  Bodies come in chunks, with or  *)
(* without a declared length; sizes are in units.                          *)
(***************************************************************************)
EXTENDS Naturals, Integers, Sequences, PrefixFunctions

CONSTANTS
  ChatLimit, \* MAX_CHAT_BODY_BYTES
  GateLimit, \* MAX_REQUEST_BODY
  LogLimit,  \* MAX_LOGGED_BODY, at most either limit
  Bodies     \* the chunks a client may send

VARIABLES
  gateReq,  \* the request: what its path is, its chunks and its declared length, -1 without
  gatePc,   \* where it is
  left,     \* chunks the server has not been asked for
  seen,     \* _BodyLimit.seen
  exceeded, \* _BodyLimit.exceeded
  body,     \* Request._body: the bytes in memory once the body was read, else -1
  given,    \* bytes the handler was given
  status    \* of the response

gateVars == <<gateReq, gatePc, left, seen, exceeded, body, given, status>>

ASSUME GateAssumption ==
  /\ {ChatLimit, GateLimit, LogLimit} \subseteq Nat /\ LogLimit <= ChatLimit /\ LogLimit <= GateLimit
  /\ Bodies \subseteq Seq(Nat)

GateTypeOK ==
  /\ gateReq.path \in {"chat", "limited", "other"} /\ gateReq.chunks \in Bodies /\ gateReq.declared \in {-1, Total(gateReq.chunks)}
  /\ gatePc \in {"outer", "inner", "handler", "after", "over"}
  /\ left \in Seq(Nat) /\ seen \in Nat /\ exceeded \in BOOLEAN
  /\ body \in {-1, Total(gateReq.chunks)} /\ given \in Nat
  /\ status \in {0, 200, 400, 413}

\* the server gives a request with a length exactly that many bytes
GateInit ==
  /\ \E path \in {"chat", "limited", "other"}, chunks \in Bodies, declared \in {TRUE, FALSE} :
       /\ gateReq = [path |-> path, chunks |-> chunks, declared |-> IF declared THEN Total(chunks) ELSE -1]
       /\ left = chunks
  /\ gatePc = "outer" /\ seen = 0 /\ exceeded = FALSE /\ body = -1 /\ given = 0 /\ status = 0

\* _body_limit_for: completions have a limit of their own
LimitOf == IF gateReq.path = "chat" /\ ChatLimit < GateLimit THEN ChatLimit ELSE GateLimit

-------------------------------------------------------------------------------
\* a faulty Receive: each message is held against the limit
ReceiveAlone ==
  /\ left # <<>> /\ left' = Tail(left)
  /\ seen' = Head(left) /\ exceeded' = (exceeded \/ Head(left) > LimitOf)

\* _bounded_receive: the next message, counted
Receive ==
  /\ left # <<>> /\ left' = Tail(left)
  /\ seen' = seen + Head(left) /\ exceeded' = (exceeded \/ seen' > LimitOf)

\* _extract_request_body reads bodies of a declared length that is worth logging
Readable == body = -1 /\ gateReq.declared > 0 /\ gateReq.declared <= LogLimit

Extract(next) ==
  IF ~Readable THEN gatePc' = next /\ UNCHANGED <<left, seen, exceeded, body>>
  ELSE IF left # <<>> THEN Receive /\ UNCHANGED <<gatePc, body>>
  ELSE body' = Total(gateReq.chunks) /\ gatePc' = next /\ UNCHANGED <<left, seen, exceeded>>

\* _rate_limit_pool of the outer middleware; what it raises is not told
Outer ==
  /\ gatePc = "outer"
  /\ IF gateReq.path = "other" \/ gateReq.declared > LimitOf THEN gatePc' = "inner" /\ UNCHANGED <<left, seen, exceeded, body>>
     ELSE Extract("inner")
  /\ UNCHANGED <<gateReq, given, status>>

Refuse == gatePc' = "over" /\ status' = 413

\* _log_requests before the handler
Inner(logging) ==
  /\ gatePc = "inner"
  /\ IF gateReq.declared > LimitOf THEN Refuse /\ UNCHANGED <<left, seen, exceeded, body>>
     ELSE IF exceeded THEN Refuse /\ UNCHANGED <<left, seen, exceeded, body>>
     ELSE /\ IF logging THEN Extract("handler") ELSE gatePc' = "handler" /\ UNCHANGED <<left, seen, exceeded, body>>
          /\ UNCHANGED status
  /\ UNCHANGED <<gateReq, given>>

\* a handler that needs the body reads it to its end, from memory if it is there
Handle ==
  /\ gatePc = "handler"
  /\ IF body # -1 \/ left = <<>>
       THEN /\ given' = Total(gateReq.chunks) /\ gatePc' = "after"
            /\ \E s \in {200, 400} : status' = s
            /\ UNCHANGED <<left, seen, exceeded>>
       ELSE /\ Receive /\ UNCHANGED given
            /\ IF exceeded' THEN gatePc' = "after" /\ status' = 413 ELSE UNCHANGED <<gatePc, status>>
  /\ UNCHANGED <<gateReq, body>>

\* a handler that does not, or that fails before
Skip ==
  /\ gatePc = "handler" /\ gatePc' = "after"
  /\ \E s \in {200, 400} : status' = s
  /\ UNCHANGED <<gateReq, left, seen, exceeded, body, given>>

\* _log_requests after the handler: an exceeded limit is the answer, whatever it made of it
After ==
  /\ gatePc = "after" /\ gatePc' = "over"
  /\ status' = IF exceeded THEN 413 ELSE status
  /\ UNCHANGED <<gateReq, left, seen, exceeded, body, given>>

GateNext == Outer \/ (\E logging \in BOOLEAN : Inner(logging)) \/ Handle \/ Skip \/ After

GateSpec == GateInit /\ [][GateNext]_gateVars
-------------------------------------------------------------------------------
\* A handler is never given a body over the limit of its path, however the body is cut and
\* whether or not a length is declared, and no request within it is answered 413.
LimitIsKept ==
  /\ given <= LimitOf
  /\ gatePc = "over" /\ status = 413 => Total(gateReq.chunks) > LimitOf
=============================================================================
