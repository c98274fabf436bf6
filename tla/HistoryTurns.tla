----------------------------- MODULE HistoryTurns -----------------------------
(***************************************************************************)
(* A conversation with tool calls on its way to a provider that is given   *)
(* the whole of it: what the Anthropic and the Responses APIs make of the  *)
(* turns of the caller (api/anthropic.py, api/responses.py), and what      *)
(* OpenCode, GigaChat and Duck.ai are sent (their build_messages).         *)
(* A message has a role, the ids of its calls, the id of the call that it  *)
(* answers, and text or none.                                              *)
(***************************************************************************)
EXTENDS Naturals, Sequences, FiniteSets, SequencesExt

CONSTANTS
  Ids,      \* ids of calls
  None,     \* no call
  MaxTurns  \* bound on the turns

VARIABLES
  origin,  \* the API of the caller: "openai", "anthropic", "responses"
  same,    \* the calls name the same function
  named,   \* the caller puts the function's name on results
  turns,   \* how many turns there were
  last,    \* the calls of the last turn
  late,    \* a result came later than in the turn after its call
  chat     \* the messages

vars == <<origin, same, named, turns, last, late, chat>>

Message(role, calls, answers, text) == [role |-> role, calls |-> calls, answers |-> answers, text |-> text]
Messages == [role : {"user", "assistant", "tool"}, calls : UNION {[1 .. n -> Ids] : n \in 0 .. 2}, answers : Ids \cup {None}, text : BOOLEAN]

TypeOK ==
  /\ origin \in {"openai", "anthropic", "responses"} /\ {same, named} \subseteq BOOLEAN /\ turns \in 0 .. MaxTurns
  /\ last \subseteq Ids /\ late \in BOOLEAN
  /\ \A n \in DOMAIN chat : chat[n] \in Messages

Init ==
  /\ origin \in {"openai", "anthropic", "responses"} /\ same \in BOOLEAN /\ named \in BOOLEAN
  /\ turns = 0 /\ last = {} /\ late = FALSE /\ chat = <<>>

Results(ids) == [n \in 1 .. Len(ids) |-> Message("tool", <<>>, ids[n], TRUE)]
TextOf(role, text) == IF text THEN <<Message(role, <<>>, None, TRUE)>> ELSE <<>>

\* a faulty AnthropicTurn: the text of a turn comes before its results
AnthropicTurnTextFirst(role, calls, results, text) ==
  IF calls # <<>> THEN <<Message("assistant", calls, None, text)>> \o Results(results) ELSE TextOf(role, text) \o Results(results)

\* normalize_messages: a turn's results come before its text
AnthropicTurn(role, calls, results, text) ==
  IF calls # <<>> THEN <<Message("assistant", calls, None, text)>> \o Results(results) ELSE Results(results) \o TextOf(role, text)

\* normalize_input: each item is a message of its own
ResponsesTurn(role, calls, results, text) ==
  Results(results) \o TextOf(role, text) \o [n \in 1 .. Len(calls) |-> Message("assistant", <<calls[n]>>, None, FALSE)]

\* the messages of the chat API are passed as they are
ChatTurn(role, calls, results, text) ==
  Results(results) \o (IF text \/ calls # <<>> THEN <<Message(role, calls, None, text)>> ELSE <<>>)

Turn(role, calls, results, text) ==
  CASE origin = "anthropic" -> AnthropicTurn(role, calls, results, text)
    [] origin = "responses" -> ResponsesTurn(role, calls, results, text)
    [] OTHER -> ChatTurn(role, calls, results, text)

Called == UNION {ToSet(chat[n].calls) : n \in DOMAIN chat}
Answered == {chat[n].answers : n \in DOMAIN chat}

Say(more) == turns < MaxTurns /\ turns' = turns + 1 /\ chat' = chat \o more /\ UNCHANGED <<origin, same, named>>

\* the model's turn: it calls functions that it has not called before
Answers ==
  \E calls \in {<<>>} \cup {<<i>> : i \in Ids} \cup {<<i, j>> : i \in Ids, j \in Ids}, text \in BOOLEAN :
    /\ ToSet(calls) \cap Called = {} /\ Cardinality(ToSet(calls)) = Len(calls)
    /\ text \/ calls # <<>>
    /\ Say(Turn("assistant", calls, <<>>, text))
    /\ last' = ToSet(calls) /\ UNCHANGED late

\* the caller's turn: results, in any order, and text
Asks ==
  \E results \in {<<>>} \cup {<<i>> : i \in Ids} \cup {<<i, j>> : i \in Ids, j \in Ids}, text \in BOOLEAN :
    /\ ToSet(results) \subseteq Called \ Answered /\ Cardinality(ToSet(results)) = Len(results)
    /\ text \/ results # <<>>
    /\ Say(Turn("user", <<>>, results, text))
    /\ last' = {} /\ late' = (late \/ ~(ToSet(results) \subseteq last))

Next == Answers \/ Asks

Spec == Init /\ [][Next]_vars

-------------------------------------------------------------------------------
(* What the providers are sent.  A message is [role, calls, answers], with *)
(* functions in the place of ids for GigaChat.                             *)

Sent(role, calls, answers) == [role |-> role, calls |-> calls, answers |-> answers]

\* messages before the first one of the user are dropped
FromUser(body) ==
  LET users == {n \in DOMAIN body : body[n].role = "user"}
  IN IF users = {} THEN <<>> ELSE SubSeq(body, CHOOSE n \in users : \A m \in users : n <= m, Len(body))

\* build_messages of OpenCode
Opencode == FromUser([n \in DOMAIN chat |-> Sent(chat[n].role, chat[n].calls, chat[n].answers)])

NameOf(id) == IF same THEN "function" ELSE id

\* build_messages of GigaChat: of several calls it takes the first, and holds it back until it
\* is answered or something else is said
GigaResult(st, m) ==
  LET known == named \/ m.answers \in st.ids
      release == st.pending # None /\ NameOf(st.pending) = NameOf(m.answers)
  IN IF ~known THEN st
     ELSE [st EXCEPT !.body = @ \o (IF release THEN <<Sent("assistant", <<NameOf(st.pending)>>, None)>> ELSE <<>>)
                                \o <<Sent("tool", <<>>, NameOf(m.answers))>>,
                     !.pending = IF release THEN None ELSE @]
Released(st) == IF st.pending = None THEN st.body ELSE Append(st.body, Sent("assistant", <<NameOf(st.pending)>>, None))
GigaStep(st, m) ==
  CASE m.role = "tool" -> GigaResult(st, m)
    [] m.role = "assistant" /\ m.calls # <<>> -> [body |-> Released(st), pending |-> m.calls[1], ids |-> st.ids \cup {m.calls[1]}]
    [] OTHER -> [st EXCEPT !.body = Append(Released(st), Sent(m.role, <<>>, None)), !.pending = None]
Gigachat == FromUser(FoldLeft(GigaStep, [body |-> <<>>, pending |-> None, ids |-> {}], chat).body)

\* flush_assistant_parts of Duck.ai: results join the assistant's message of their calls
Flushed(st) ==
  LET tail == st.out[Len(st.out)]
      joins == st.out # <<>> /\ tail.role = "assistant"
      called == IF joins THEN ToSet(tail.calls) ELSE {}
      matched == SelectSeq(st.waits, LAMBDA id : id \in called)
      orphans == SelectSeq(st.waits, LAMBDA id : id \notin called)
      joined == IF joins THEN [st.out EXCEPT ![Len(st.out)].answers = @ \o matched] ELSE st.out
  IN IF st.waits = <<>> THEN st
     ELSE [out |-> joined \o (IF orphans = <<>> THEN <<>> ELSE <<Sent("assistant", <<>>, orphans)>>), waits |-> <<>>]
\* build_messages of Duck.ai
DuckStep(st, m) ==
  IF m.role = "tool" THEN [st EXCEPT !.waits = Append(@, m.answers)]
  ELSE [Flushed(st) EXCEPT !.out = Append(@, Sent(m.role, m.calls, <<>>))]
Duckai == Flushed(FoldLeft(DuckStep, [out |-> <<>>, waits |-> <<>>], chat)).out

-------------------------------------------------------------------------------
StartsWithUser == chat # <<>> /\ chat[1].role = "user"
AnswersOf(body) == {body[n].answers : n \in DOMAIN body} \ {None}
InOrder(body) == \A n \in DOMAIN body : body[n].answers # None => \E m \in 1 .. n : body[n].answers \in ToSet(body[m].calls)
Between(body, role) ==
  \E k, m, n \in DOMAIN body : k < m /\ m < n /\ body[n].answers \in ToSet(body[k].calls) /\ body[m].role = role
First(id) == \E n \in DOMAIN chat : chat[n].calls # <<>> /\ chat[n].calls[1] = id

\* Histories: a provider is told of no result without its call, and of every result that the
\* caller gave (GigaChat: of those of first calls), right after the call if that is how the
\* caller gave it; for GigaChat only if callers that name the function on a result have no
\* turn with several calls.
AnswersMatchCalls ==
  StartsWithUser =>
    /\ InOrder(Opencode) /\ AnswersOf(Opencode) = Answered \ {None}
    /\ ~late => ~Between(Opencode, "user")
    /\ LET one == \A n \in DOMAIN chat : Len(chat[n].calls) <= 1
       IN (~named \/ one) => /\ InOrder(Gigachat)
                             /\ {NameOf(id) : id \in {i \in Answered \ {None} : First(i)}} = AnswersOf(Gigachat)
    /\ \A n \in DOMAIN Duckai, id \in Ids : id \in ToSet(Duckai[n].answers) => \E m \in 1 .. n : id \in ToSet(Duckai[m].calls)
    /\ UNION {ToSet(Duckai[n].answers) : n \in {m \in DOMAIN Duckai : Duckai[m].role = "assistant"}} = Answered \ {None}
=============================================================================
