------------------------------- MODULE QwenChat -------------------------------
(***************************************************************************)
(* The chats of one Qwen account under one session id of a client          *)
(* (qwen/api.py, QwenSessionRegistry of qwen/accounts.py).  Unlike         *)
(* DeepSeek's, the lock of the account is free between the attempts of a   *)
(* request, and between the end of a response and its commit.  A chat is   *)
(* abstracted to the turns on the branch that ends in the last message of  *)
(* its session, and to the tokens of its responses the provider has        *)
(* counted in it, of which each has one; an answer has text.  Whether an   *)
(* account is broken is the matter of AccountPool.                         *)
(***************************************************************************)
EXTENDS Naturals, FiniteSets

CONSTANTS
  QwenReqs,       \* requests of the client
  QwenModels,     \* models that it asks for
  MaxTurns,       \* bound on its turns
  MaxChats,       \* bound on the chats created
  QwenMaxRetries, \* MAX_RETRIES
  NoReq           \* no request

QwenAssumption == MaxTurns \in Nat /\ MaxChats \in Nat /\ QwenMaxRetries \in Nat /\ QwenModels # {} /\ NoReq \notin QwenReqs
ASSUME QwenAssumption

VARIABLES
  qwenLock, \* who holds account.sem
  chat,     \* the chat registered under the session id, 0 for none
  chats,    \* chats created
  model,    \* by chat, its model
  last,     \* by chat, what its last_response_id stands for: a chat and the turns on that branch
  counted,  \* by chat, the tokens counted by the provider
  acc,      \* by chat, accumulated_output_tokens
  billed,   \* by chat, the tokens in the usage of the answers that are counted ones
  guessed,  \* by chat, the answers whose usage is an estimate of their text
  silent,   \* a response came without its counters
  turns,    \* turns of the client
  answered, \* turns it has an answer to; 0 for what it came with
  crossed,  \* requests of the client overlapped
  job       \* the local variables of each request

upstream == <<chats, model, counted>>
qwenVars == <<qwenLock, chat, upstream, last, acc, billed, guessed, silent, turns, answered, crossed, job>>

Chats == 1 .. MaxChats
QwenTurns == 0 .. MaxTurns
Job == [pc : {"idle", "waiting", "sending", "backoff", "collected"},
        model : QwenModels, cached : Chats \cup {0}, prompt : {"delta", "full"}, hist : SUBSET QwenTurns, turn : QwenTurns,
        blind : BOOLEAN, had : BOOLEAN, stale : BOOLEAN, tries : 0 .. QwenMaxRetries, chat : Chats \cup {0},
        know : SUBSET QwenTurns, usage : Nat, outcome : {"none", "answer", "error", "context"}]

Idle == [pc |-> "idle"]

QwenTypeOK ==
  /\ qwenLock \in QwenReqs \cup {NoReq} /\ chat \in Chats \cup {0} /\ chats \in Chats \cup {0}
  /\ model \in [Chats -> QwenModels]
  /\ last \in [Chats -> [chat : Chats \cup {0}, know : SUBSET QwenTurns]]
  /\ {counted, acc, billed, guessed} \subseteq [Chats -> Nat] /\ silent \in BOOLEAN
  /\ turns \in QwenTurns /\ answered \subseteq QwenTurns /\ crossed \in BOOLEAN
  /\ job \in [QwenReqs -> Job \cup {Idle}]

QwenInit ==
  /\ qwenLock = NoReq /\ chat = 0 /\ chats = 0 /\ model = [c \in Chats |-> CHOOSE m \in QwenModels : TRUE]
  /\ last = [c \in Chats |-> [chat |-> 0, know |-> {}]]
  /\ counted = [c \in Chats |-> 0] /\ acc = [c \in Chats |-> 0] /\ billed = [c \in Chats |-> 0]
  /\ guessed = [c \in Chats |-> 0] /\ silent = FALSE
  /\ turns = 0 /\ answered = {0} /\ crossed = FALSE
  /\ job = [r \in QwenReqs |-> Idle]

QwenLeave(r) == job' = [job EXCEPT ![r] = Idle] /\ qwenLock' = IF qwenLock = r THEN NoReq ELSE qwenLock

-------------------------------------------------------------------------------
(* The prompt and the session *)

\* QwenSessionRegistry._reuse: a chat is of one model
Reusable(m) == chat # 0 /\ model[chat] = m

\* _acquire_and_build: the prompt is built before the lock is taken
QwenArrive(r, m) ==
  /\ job[r].pc = "idle" /\ turns < MaxTurns /\ turns' = turns + 1
  /\ job' = [job EXCEPT ![r] =
       [pc |-> "waiting", model |-> m, cached |-> IF Reusable(m) THEN chat ELSE 0,
        prompt |-> IF Reusable(m) THEN "delta" ELSE "full", hist |-> answered, turn |-> turns + 1,
        blind |-> Reusable(m) /\ 0 \notin last[chat].know, had |-> FALSE, stale |-> FALSE, tries |-> 0, chat |-> 0,
        know |-> {}, usage |-> 0, outcome |-> "none"]]
  /\ crossed' = (crossed \/ \E o \in QwenReqs : job[o].pc # "idle")
  /\ UNCHANGED <<qwenLock, chat, upstream, last, acc, billed, guessed, silent, answered>>

\* _prepare_session: the session of the id, or a new one under it
Obtained(m) ==
  \/ Reusable(m) /\ UNCHANGED <<chat, chats, model>>
  \/ ~Reusable(m) /\ chats < MaxChats /\ chats' = chats + 1 /\ chat' = chats + 1 /\ model' = [model EXCEPT ![chats + 1] = m]

\* a faulty Prompt: the prompt stays as it was built
PromptAsBuilt(j, c) == j.prompt

\* _ensure_prepared: a session other than the one it was built for needs the whole history
Prompt(j, c) == IF c = j.cached THEN j.prompt ELSE "full"

Sending(r, c, j) ==
  /\ job' = [job EXCEPT ![r] = [j EXCEPT !.pc = "sending", !.chat = c]]
  /\ qwenLock' = r

QwenEnter(r) ==
  /\ job[r].pc = "waiting" /\ qwenLock = NoReq
  /\ Obtained(job[r].model)
  /\ Sending(r, chat', [job[r] EXCEPT !.had = chat # 0, !.prompt = Prompt(job[r], chat')])
  /\ UNCHANGED <<counted, last, acc, billed, guessed, silent, turns, answered, crossed>>

\* another attempt of a request: it has its session
Resend(r) ==
  /\ job[r].pc = "backoff" /\ qwenLock = NoReq
  /\ Sending(r, job[r].chat, job[r])
  /\ UNCHANGED <<chat, upstream, last, acc, billed, guessed, silent, turns, answered, crossed>>

\* the session cannot be created, or the caller gives up waiting for the account
NotEntered(r) ==
  /\ job[r].pc \in {"waiting", "backoff"}
  /\ QwenLeave(r)
  /\ UNCHANGED <<chat, upstream, last, acc, billed, guessed, silent, turns, answered, crossed>>

-------------------------------------------------------------------------------
(* An attempt *)

Resting(r, j) == job' = [job EXCEPT ![r] = [j EXCEPT !.pc = "backoff"]] /\ qwenLock' = NoReq

\* the provider does not know the chat: once, the whole history goes to another one
QwenStale(r) ==
  /\ job[r].pc = "sending" /\ job[r].had /\ ~job[r].stale
  /\ chats < MaxChats /\ chats' = chats + 1
  /\ chat' = chats + 1 /\ model' = [model EXCEPT ![chats + 1] = job[r].model]
  /\ Resting(r, [job[r] EXCEPT !.stale = TRUE, !.prompt = "full", !.chat = chats + 1])
  /\ UNCHANGED <<counted, last, acc, billed, guessed, silent, turns, answered, crossed>>

\* a status or an error code that is worth another attempt; the lock is free meanwhile
QwenRetry(r) ==
  /\ job[r].pc = "sending" /\ job[r].tries < QwenMaxRetries
  /\ Resting(r, [job[r] EXCEPT !.tries = @ + 1])
  /\ UNCHANGED <<chat, upstream, last, acc, billed, guessed, silent, turns, answered, crossed>>

\* the context is full: the session is dropped; or the attempt fails for good
QwenFail(r, full) ==
  /\ job[r].pc = "sending"
  /\ chat' = IF full THEN 0 ELSE chat
  /\ QwenLeave(r)
  /\ UNCHANGED <<upstream, last, acc, billed, guessed, silent, turns, answered, crossed>>

\* the response is read to its end: what the branch of its message knows now, and what the
\* provider has counted in the chat, if it says so
Told(r) == (IF last[job[r].chat].chat = job[r].chat THEN last[job[r].chat].know ELSE {})
           \cup {job[r].turn} \cup (IF job[r].prompt = "full" THEN job[r].hist ELSE {})
Heard(r, outcome, reported) ==
  /\ job[r].pc = "sending"
  /\ counted' = [counted EXCEPT ![job[r].chat] = @ + 1]
  /\ job' = [job EXCEPT ![r] = [@ EXCEPT !.pc = "collected", !.know = Told(r), !.usage = IF reported THEN counted'[job[r].chat] ELSE 0, !.outcome = outcome]]
  /\ qwenLock' = NoReq /\ silent' = (silent \/ ~reported)
  /\ UNCHANGED <<chat, chats, model, last, acc, billed, guessed, turns, answered, crossed>>

\* a faulty Accumulated: the last response to be committed has the sum
AccumulatedLast(a, usage) == usage

\* _accumulate_usage: responses may be committed in another order than they were sent in
Accumulated(a, usage) == IF a > usage THEN a ELSE usage

\* _commit_usage: the last message of whatever session has the id; text that adds nothing to
\* what was counted is billed as estimated
Commit(r) ==
  LET c == job[r].chat
      j == job[r]
  IN /\ j.pc = "collected" /\ qwenLock = NoReq
     /\ IF j.outcome = "context" THEN chat' = 0 /\ UNCHANGED <<last, acc, billed, guessed>>
        ELSE /\ last' = IF chat = 0 THEN last ELSE [last EXCEPT ![chat] = [chat |-> c, know |-> j.know]]
             /\ billed' = [billed EXCEPT ![c] = @ + IF j.usage > acc[c] THEN j.usage - acc[c] ELSE 0]
             /\ guessed' = IF j.usage <= acc[c] /\ j.outcome = "answer" THEN [guessed EXCEPT ![c] = @ + 1] ELSE guessed
             /\ acc' = [acc EXCEPT ![c] = Accumulated(@, j.usage)]
             /\ UNCHANGED chat
     /\ answered' = IF j.outcome = "answer" THEN answered \cup {j.turn} ELSE answered
     /\ QwenLeave(r)
     /\ UNCHANGED <<upstream, silent, turns, crossed>>

\* the caller goes away, the connection breaks or the account is not free in time: what the
\* provider has of it stays
Lost(r) ==
  /\ job[r].pc \in {"sending", "collected"}
  /\ counted' = IF job[r].pc = "sending" THEN [counted EXCEPT ![job[r].chat] = @ + 1] ELSE counted
  /\ QwenLeave(r)
  /\ UNCHANGED <<chat, chats, model, last, acc, billed, guessed, silent, turns, answered, crossed>>

\* a session outlives its ttl
Expire ==
  /\ chat # 0 /\ chat' = 0
  /\ UNCHANGED <<qwenLock, upstream, last, acc, billed, guessed, silent, turns, answered, crossed, job>>

QwenNext ==
  \/ \E r \in QwenReqs :
       \/ QwenEnter(r) \/ Resend(r) \/ NotEntered(r) \/ QwenStale(r) \/ QwenRetry(r) \/ Commit(r) \/ Lost(r)
       \/ \E m \in QwenModels : QwenArrive(r, m)
       \/ \E full \in BOOLEAN : QwenFail(r, full)
       \/ \E outcome \in {"answer", "error", "context"}, reported \in BOOLEAN : Heard(r, outcome, reported)
  \/ Expire

QwenSpec == QwenInit /\ [][QwenNext]_qwenVars
-------------------------------------------------------------------------------
\* What is billed by the provider's counters is not billed by them again, in whatever order
\* responses are committed.  An estimate is billed besides only if requests of the client have
\* overlapped, where the answer that is committed late was counted with the one before it and is
\* billed a second time, or if the provider left out its counters; else no token is billed twice,
\* and none of a committed response is missed.  A prompt without the history of the client goes
\* to the chat that it was built for; if it is put below a message there, that comes after the
\* whole history, unless no prompt with the history was answered on the branch when it was
\* built, or requests of the client have overlapped.
QwenTurnsAddUp ==
  /\ \A c \in Chats : billed[c] <= counted[c] /\ (guessed[c] > 0 => crossed \/ silent)
  /\ \A r \in QwenReqs : job[r].pc = "sending" /\ job[r].prompt = "delta" =>
       /\ job[r].chat = job[r].cached
       /\ crossed \/ job[r].blind \/ job[r].hist \subseteq last[job[r].chat].know
  /\ \A c \in Chats : last[c].chat # 0 => silent \/ billed[last[c].chat] > 0
=============================================================================
