----------------------------- MODULE AliceSocket -----------------------------
(***************************************************************************)
(* The web socket of an Alice account (alice/client.py) and the asks made  *)
(* over it (alice/api.py), one at a time under the account's lock.  Frames *)
(* carry nothing that ties them to a prompt: whatever comes while an       *)
(* exchange is open goes into its queue.                                   *)
(***************************************************************************)
EXTENDS Naturals, Sequences, FiniteSets

CONSTANTS
  MaxAsks,         \* requests, one after the other
  Retries,         \* MAX_RETRIES
  Continuations,   \* MAX_CONTINUATIONS
  Backlog          \* MAX_PENDING_FRAMES

ASSUME AliceAssumption == MaxAsks \in Nat /\ Retries \in Nat /\ Continuations \in Nat /\ Backlog \in Nat

VARIABLES
  ws,          \* the socket: "none", "open", "dead" (its reader has ended)
  exchange,    \* the queue of the exchange, a sequence of at most one queue
  owed,        \* prompts the server has not answered, on this socket
  ask,         \* the ask under way: its number, where it is, its attempt and continuations
  outcome      \* what became of each ask

aliceVars == <<ws, exchange, owed, ask, outcome>>

Prompts == (1 .. MaxAsks) \X (0 .. Retries)
Content == {"text", "refusal", "timeout refusal", "placeholder"}
System == {"GoAway", "InvalidAuth", "EventException"}
\* what the server may send unasked: a frame of its system, or one without a text
Unasked == System \cup {"textless"}
Frames == [kind : Content \cup Unasked \cup {"closed"}, of : Prompts \cup {<<0, 0>>}]
SystemFrame(kind) == [kind |-> kind, of |-> <<0, 0>>]

\* The socket, the frames that wait in the exchange, no more than its backlog, the prompts that
\* are owed an answer, and the attempts and continuations of an ask, which are bounded.
AliceTypeOK ==
  /\ ws \in {"none", "open", "dead"}
  /\ Len(exchange) <= 1
  /\ \A i \in DOMAIN exchange : Len(exchange[i]) <= Backlog /\ \A j \in DOMAIN exchange[i] : exchange[i][j] \in Frames
  /\ \A i \in DOMAIN owed : owed[i] \in Prompts
  /\ ask \in [n : 0 .. MaxAsks, pc : {"idle", "connect", "send", "wait"}, attempt : 0 .. Retries, step : 0 .. Continuations]
  /\ outcome \in [1 .. MaxAsks -> [kind : {"none", "failed", "cancelled"}] \cup [kind : {"answered"}, of : Prompts, own : Prompts, owing : BOOLEAN]]

AliceInit ==
  /\ ws = "none" /\ exchange = <<>> /\ owed = <<>>
  /\ ask = [n |-> 0, pc |-> "idle", attempt |-> 0, step |-> 0]
  /\ outcome = [n \in 1 .. MaxAsks |-> [kind |-> "none"]]

\* ask: an empty prompt is refused before the socket is touched
Ask ==
  /\ ask.pc = "idle" /\ ask.n < MaxAsks
  /\ ask' = [n |-> ask.n + 1, pc |-> "connect", attempt |-> 0, step |-> 0]
  /\ UNCHANGED <<ws, exchange, owed, outcome>>

-------------------------------------------------------------------------------
\* _route: a frame without an exchange, or beyond its backlog, is dropped
Routed(frame) ==
  IF exchange # <<>> /\ Len(exchange[1]) < Backlog THEN <<Append(exchange[1], frame)>> ELSE exchange

Over(result) == ask' = [ask EXCEPT !.pc = "idle"] /\ outcome' = [outcome EXCEPT ![ask.n] = result]

\* a faulty Retry: the attempts share the socket
RetryOnSocket ==
  /\ ask' = [ask EXCEPT !.pc = "connect", !.attempt = @ + 1, !.step = 0]
  /\ UNCHANGED <<ws, owed, outcome>>

\* _ask: a retry closes the socket first
Retry ==
  /\ ws' = "none" /\ owed' = <<>>
  /\ ask' = [ask EXCEPT !.pc = "connect", !.attempt = @ + 1, !.step = 0]
  /\ UNCHANGED outcome

\* an ask that fails for good leaves the socket as it is
Fails(retryable) ==
  /\ exchange' = <<>>
  /\ IF retryable /\ ask.attempt < Retries THEN Retry
     ELSE Over([kind |-> "failed"]) /\ UNCHANGED <<ws, owed>>

\* _ensure_connected: an open socket is used again, otherwise the old one is closed and a new
\* one opened and synchronized
Connect(ok) ==
  /\ ask.pc = "connect"
  /\ IF ws = "open" THEN ask' = [ask EXCEPT !.pc = "send"] /\ UNCHANGED <<ws, exchange, owed, outcome>>
     ELSE IF ok
       THEN /\ ws' = "open" /\ exchange' = <<>> /\ owed' = <<>>
            /\ ask' = [ask EXCEPT !.pc = "send"] /\ UNCHANGED outcome
       ELSE /\ ws' = "none" /\ owed' = <<>> /\ exchange' = <<>>
            /\ IF ask.attempt < Retries THEN Retry ELSE Over([kind |-> "failed"])

\* _pump up to its loop: a fresh exchange, then the prompt
Send ==
  /\ ask.pc = "send"
  /\ IF ws = "open"
       THEN /\ exchange' = <<<<>>>> /\ owed' = Append(owed, <<ask.n, ask.attempt>>)
            /\ ask' = [ask EXCEPT !.pc = "wait"] /\ UNCHANGED <<ws, outcome>>
       ELSE Fails(TRUE)

\* the continuation asks for the rest of an answer whose text is a placeholder, or after a frame
\* without a text
Continue(queue) ==
  IF ws # "open" THEN Fails(TRUE)
  ELSE /\ owed' = Append(owed, <<ask.n, ask.attempt>>)
       /\ exchange' = <<queue>>
       /\ ask' = [ask EXCEPT !.step = @ + 1]
       /\ UNCHANGED <<ws, outcome>>

\* one round of _pump; the text of an answer is refused by its wording
Take ==
  /\ ask.pc = "wait" /\ exchange[1] # <<>> /\ ask.step < Continuations
  /\ LET frame == Head(exchange[1])
     IN CASE frame.kind = "text" ->
               /\ exchange' = <<>>
               /\ Over([kind |-> "answered", of |-> frame.of, own |-> <<ask.n, ask.attempt>>, owing |-> owed # <<>>])
               /\ UNCHANGED <<ws, owed>>
          [] frame.kind \in {"placeholder", "textless"} -> Continue(Tail(exchange[1]))
          [] OTHER -> Fails(frame.kind \in {"timeout refusal", "GoAway", "closed"})

\* the loop of _pump is over, or waited too long for a frame
TimeOut == ask.pc = "wait" /\ Fails(TRUE)

\* the caller goes away; a socket that is being synchronized stays
AskCancelled(opened) ==
  /\ ask.pc # "idle"
  /\ exchange' = <<>>
  /\ IF opened /\ ask.pc = "connect" /\ ws # "open" THEN ws' = "open" /\ owed' = <<>> ELSE UNCHANGED <<ws, owed>>
  /\ Over([kind |-> "cancelled"])

-------------------------------------------------------------------------------
\* the server answers prompts in their order, or sends a frame of its own
Answer(kind) ==
  /\ ws = "open" /\ owed # <<>>
  /\ owed' = Tail(owed)
  /\ exchange' = Routed([kind |-> kind, of |-> Head(owed)])
  /\ UNCHANGED <<ws, ask, outcome>>

Notice(kind) ==
  /\ ws = "open" /\ exchange # <<>> /\ Len(exchange[1]) < Backlog
  /\ exchange' = Routed(SystemFrame(kind))
  /\ UNCHANGED <<ws, owed, ask, outcome>>

\* _read_loop ends: an open exchange is told
Drop ==
  /\ ws = "open"
  /\ ws' = "dead" /\ owed' = <<>>
  /\ exchange' = Routed(SystemFrame("closed"))
  /\ UNCHANGED <<ask, outcome>>

AliceNext ==
  \/ Ask \/ Send \/ Take \/ TimeOut \/ Drop
  \/ \E b \in BOOLEAN : Connect(b) \/ AskCancelled(b)
  \/ \E kind \in Content : Answer(kind)
  \/ \E kind \in Unasked : Notice(kind)

AliceSpec == AliceInit /\ [][AliceNext]_aliceVars
-------------------------------------------------------------------------------
\* an ask that failed for good or was cancelled, or got its answer while the server owed it
\* another one
LostAsk(n) ==
  \/ outcome[n].kind \in {"failed", "cancelled"}
  \/ outcome[n].kind = "answered" /\ outcome[n].owing

\* An ask is answered with the text of its own prompt, of this very attempt.  The exception:
\* nothing closes the socket of an ask that failed for good, was cancelled, or took a frame
\* without a text for the beginning of its answer and asked for more than was owed; from then
\* on every ask may get an answer that is owed to one before it.
AnswerIsOwn ==
  \A n \in 1 .. MaxAsks : outcome[n].kind = "answered" =>
    LET of == outcome[n].of
    IN of = outcome[n].own \/ (of[1] < n /\ \E p \in 1 .. of[1] : LostAsk(p))
=============================================================================
