----------------------------- MODULE Conversation -----------------------------
(***************************************************************************)
(* One conversation of a client with the DeepSeek provider: api/chats.py,  *)
(* api/deepseek.py and sessions.py.  A prompt is either the whole message  *)
(* list of the request or, when the account already has a chat for the     *)
(* session, only what came after the last answer.  A chat upstream is a    *)
(* tree of messages: the session remembers the last one and the next       *)
(* prompt hangs below it.  What a chat knows is abstracted to the set of   *)
(* turns on the branch that ends in that message.                          *)
(***************************************************************************)
EXTENDS Naturals, FiniteSets

CONSTANTS
  Accounts,    \* accounts of the pool
  Requests,    \* requests of the client that may be in flight together
  Conv,        \* a session id of the client's own making
  NoKey,       \* no session id
  NoReq,
  MaxTurns,    \* bound: turns of the conversation
  MaxChats,    \* bound: chats created upstream
  MAX_RETRIES, \* api/retry.py; MESSAGE_TOO_FREQUENT_MAX_RETRIES has its value
  MAX_CONTINUE_ROUNDS,
  Variants     \* how many reduced prompts _reduced_prompt_variants finds

Chats == 1 .. MaxChats
Keys  == Chats \cup {Conv}        \* session ids: a chat's own, or the client's
Turns == 0 .. MaxTurns            \* turn 0 is what the client brings along

ASSUME ConversationAssumption ==
  /\ MaxTurns \in Nat /\ MaxChats \in Nat /\ MAX_RETRIES \in Nat
  /\ MAX_CONTINUE_ROUNDS \in Nat /\ Variants \in Nat
  /\ Conv \notin Chats /\ NoKey \notin Keys
  /\ NoReq \notin Requests /\ 0 \notin Accounts

VARIABLES
  turns,     \* turns the client has asked so far
  answered,  \* turns it has an answer of: the history of its next request
  mine,      \* the session id it puts into its requests
  chats,     \* chats created so far
  branch,    \* what a chat knows on the branch of session.last_message_id
  reg,       \* account.sessions: the chat of a session id, 0 for none
  aff,       \* pool._by_session: the account of a session id, 0 for none
  broken,    \* account.broken
  holder,    \* who is inside account_lock(account.sem)
  job        \* the local variables of each request

client == <<turns, answered, mine>>
vars == <<turns, answered, mine, chats, branch, reg, aff, broken, holder, job>>

Places == {"idle", "waiting", "entered", "sending", "backoff", "rebuild", "continuing",
           "reducing", "reduced"}

Job == [pc      : Places,
        acct    : Accounts \cup {0},
        key     : Keys \cup {NoKey},   \* existing_sid
        cached  : 0 .. MaxChats,       \* cached_session
        known   : 0 .. MaxChats,       \* chats that existed when the prompt was built
        had     : BOOLEAN,             \* had_cached_session
        chat    : 0 .. MaxChats,       \* session
        skey    : Keys \cup {NoKey},   \* session_key
        parent  : SUBSET Turns,        \* the branch of parent_message_id
        prompt  : {"none", "full", "delta", "less"},
        hist    : SUBSET Turns,        \* turns in req.messages
        turn    : Turns,               \* and the new one
        left    : 0 .. MaxChats,       \* the chat stale_rebuilt left, 0 for none
        tries   : 0 .. MAX_RETRIES,    \* attempt, of the loop the request is in
        rates   : 0 .. MAX_RETRIES,    \* rate_attempt of that loop
        rounds  : 0 .. MAX_CONTINUE_ROUNDS,
        got     : BOOLEAN,             \* rec.content or rec.reasoning
        reached : BOOLEAN,             \* the prompt stands on the branch of cont_parent
        tried   : 0 .. Variants]       \* reduced prompts tried

NoJob == [pc |-> "idle", acct |-> 0, key |-> NoKey, cached |-> 0, known |-> 0, had |-> FALSE,
          chat |-> 0, skey |-> NoKey, parent |-> {}, prompt |-> "none", hist |-> {}, turn |-> 0,
          left |-> 0, tries |-> 0, rates |-> 0, rounds |-> 0, got |-> FALSE, reached |-> FALSE,
          tried |-> 0]

TypeOK ==
  /\ turns \in Turns /\ answered \subseteq Turns /\ mine \in Keys \cup {NoKey}
  /\ chats \in 0 .. MaxChats
  /\ branch \in [Chats -> SUBSET Turns]
  /\ reg \in [Accounts -> [Keys -> 0 .. MaxChats]]
  /\ aff \in [Keys -> Accounts \cup {0}]
  /\ broken \in [Accounts -> BOOLEAN]
  /\ holder \in [Accounts -> Requests \cup {NoReq}]
  /\ job \in [Requests -> Job]

Init ==
  /\ turns = 0 /\ answered = {0} /\ mine \in {Conv, NoKey}
  /\ chats = 0 /\ branch = [c \in Chats |-> {}]
  /\ reg = [a \in Accounts |-> [k \in Keys |-> 0]]
  /\ aff = [k \in Keys |-> 0]
  /\ broken = [a \in Accounts |-> FALSE]
  /\ holder = [a \in Accounts |-> NoReq]
  /\ job = [r \in Requests |-> NoJob]

-------------------------------------------------------------------------------
(* SessionRegistry and pool *)

\* sessions.get: the chat of a session id on an account
Registered(a, k) == IF k = NoKey THEN 0 ELSE reg[a][k]

\* pool.register: the affinity of a session id
Affine(k, a) == [aff EXCEPT ![k] = a]

\* pool.forget and sessions.forget of _drop_session: this id, and not the ids
\* the chat is also known by
Dropped(r) ==
  /\ reg' = [reg EXCEPT ![job[r].acct][job[r].skey] = 0]
  /\ aff' = [aff EXCEPT ![job[r].skey] = 0]

\* the request is over and its lock is free
Leave(r) ==
  /\ job' = [job EXCEPT ![r] = NoJob]
  /\ holder' = [a \in Accounts |-> IF holder[a] = r THEN NoReq ELSE holder[a]]

-------------------------------------------------------------------------------
(* _acquire_and_build *)

\* The session id of the request.  A client that sends none may be recognised by the
\* messages it repeats: pool.resolve_context then gives the id of some earlier chat.
Named == IF mine # NoKey THEN {mine} ELSE {NoKey} \cup 1 .. chats

\* The pool hands out the account of the session id, or else any healthy one; the
\* prompt is built at once, before the account's lock is taken.  An id found by
\* context is of use only with its account.
Arrive(r) ==
  /\ job[r].pc = "idle" /\ turns < MaxTurns
  /\ turns' = turns + 1
  /\ \E a \in Accounts, id \in Named :
       LET stuck == id # NoKey /\ aff[id] # 0
           found == stuck /\ ~broken[aff[id]]
           k     == IF mine = NoKey /\ ~found THEN NoKey ELSE id
       IN  /\ ~broken[a]
           /\ found => a = aff[id]
           /\ aff' = IF stuck /\ ~found THEN [aff EXCEPT ![id] = 0] ELSE aff
           /\ job' = [job EXCEPT ![r] =
                [NoJob EXCEPT !.pc = "waiting", !.acct = a, !.key = k,
                              !.cached = Registered(a, k),
                              !.known = IF Registered(a, k) = 0 THEN 0 ELSE chats,
                              !.prompt = IF Registered(a, k) = 0 THEN "full" ELSE "delta",
                              !.hist = answered, !.turn = turns + 1]]
  /\ UNCHANGED <<answered, mine, chats, branch, reg, broken, holder>>

\* a faulty Enter: the account is not locked
EnterUnlocked(r) ==
  /\ job[r].pc = "waiting"
  /\ holder' = [holder EXCEPT ![job[r].acct] = r]
  /\ job' = [job EXCEPT ![r].pc = "entered"]
  /\ UNCHANGED <<client, chats, branch, reg, aff, broken>>

\* account_lock
Enter(r) ==
  /\ job[r].pc = "waiting" /\ holder[job[r].acct] = NoReq
  /\ holder' = [holder EXCEPT ![job[r].acct] = r]
  /\ job' = [job EXCEPT ![r].pc = "entered"]
  /\ UNCHANGED <<client, chats, branch, reg, aff, broken>>

\* AccountPoolBusy
Busy(r) ==
  /\ job[r].pc = "waiting"
  /\ Leave(r)
  /\ UNCHANGED <<client, chats, branch, reg, aff, broken>>

-------------------------------------------------------------------------------
(* _prepare_session *)

Preparing(r) == job[r].pc \in {"entered", "rebuild"}

\* a faulty WithSession: the prompt stays as it was built before the lock
WithSessionAsBuilt(r, c, k, know) ==
  [job[r] EXCEPT !.pc = "sending", !.chat = c, !.skey = k, !.parent = know, !.cached = 0,
                 !.had = Registered(job[r].acct, job[r].key) # 0]

\* the job once its session is c: the prompt is rebuilt unless c is the session it
\* was built for
WithSession(r, c, k, know) ==
  [job[r] EXCEPT !.pc = "sending", !.chat = c, !.skey = k, !.parent = know, !.cached = 0,
                 !.had = IF job[r].pc = "entered" THEN Registered(job[r].acct, job[r].key) # 0
                         ELSE @,
                 !.prompt = IF c # job[r].cached \/ k # job[r].key THEN "full" ELSE @,
                 !.known = IF c # job[r].cached \/ k # job[r].key THEN 0 ELSE @]

\* obtain finds the session
Resume(r) ==
  LET j == job[r]
      c == Registered(j.acct, j.key)
  IN  /\ Preparing(r) /\ c # 0
      /\ aff' = Affine(j.key, j.acct)
      /\ job' = [job EXCEPT ![r] = WithSession(r, c, j.key, branch[c])]
      /\ UNCHANGED <<client, chats, branch, reg, broken, holder>>

\* obtain creates one, known by its own id and by the client's; others may be evicted
Bind(r, k) ==
  /\ chats < MaxChats
  /\ chats' = chats + 1
  /\ LET c == chats + 1
         a == job[r].acct
         s == IF k = NoKey THEN c ELSE k
     IN  /\ \E gone \in SUBSET (Keys \ {c, s}) :
              reg' = [reg EXCEPT ![a] = [i \in Keys |-> IF i \in {c, s} THEN c
                                                        ELSE IF i \in gone THEN 0 ELSE @[i]]]
         /\ aff' = Affine(s, a)

Create(r) ==
  LET j == job[r]
      c == chats + 1
  IN  /\ Preparing(r) /\ Registered(j.acct, j.key) = 0
      /\ Bind(r, j.key)
      /\ job' = [job EXCEPT ![r] = WithSession(r, c, IF j.key = NoKey THEN c ELSE j.key, {})]
      /\ UNCHANGED <<client, branch, broken, holder>>

\* create_session is refused, perhaps together with the credentials
CreateFails(r) ==
  /\ Preparing(r) /\ Registered(job[r].acct, job[r].key) = 0
  /\ \E auth \in BOOLEAN : broken' = [broken EXCEPT ![job[r].acct] = @ \/ auth]
  /\ Leave(r)
  /\ UNCHANGED <<client, chats, branch, reg, aff>>

-------------------------------------------------------------------------------
(* _collect_non_stream: what the upstream answers to the prompt *)

\* a faulty Told: the prompt is sent without its parent_message_id
ToldAtRoot(r) == {job[r].turn} \cup IF job[r].prompt = "full" THEN job[r].hist ELSE {}

\* what the branch of the prompt knows once the prompt stands on it
Told(r) == job[r].parent \cup {job[r].turn} \cup IF job[r].prompt = "full" THEN job[r].hist ELSE {}

\* _commit_usage: touch_last_message, unless the session id is no longer registered or
\* the answer came without a message id; the client may go on with the session id of the
\* answer
Commit(r, know) ==
  LET c == Registered(job[r].acct, job[r].skey)
  IN  /\ \/ UNCHANGED branch
         \/ c # 0 /\ branch' = [branch EXCEPT ![c] = know]
      /\ answered' = answered \cup {job[r].turn}
      /\ mine' \in {mine, job[r].skey}
      /\ Leave(r)
      /\ UNCHANGED turns

Answer(r) ==
  /\ job[r].pc = "sending"
  /\ Commit(r, Told(r))
  /\ UNCHANGED <<chats, reg, aff, broken>>

\* a faulty Retry: the attempts are not counted
RetryUncounted(r) ==
  /\ job[r].pc = "sending" /\ job[r].tries < MAX_RETRIES
  /\ job' = [job EXCEPT ![r].pc = "backoff"]
  /\ UNCHANGED <<client, chats, branch, reg, aff, broken, holder>>

\* a faulty Retry: one attempt too many
RetryOnceMore(r) ==
  /\ job[r].pc = "sending" /\ job[r].tries <= MAX_RETRIES
  /\ job' = [job EXCEPT ![r].pc = "backoff", ![r].tries = @ + 1]
  /\ UNCHANGED <<client, chats, branch, reg, aff, broken, holder>>

\* a retryable status or hint, and the wait before the next attempt
Retry(r) ==
  /\ job[r].pc = "sending"
  /\ \/ job[r].tries < MAX_RETRIES /\ job' = [job EXCEPT ![r].pc = "backoff", ![r].tries = @ + 1]
     \/ job[r].rates < MAX_RETRIES /\ job' = [job EXCEPT ![r].pc = "backoff", ![r].rates = @ + 1]
  /\ UNCHANGED <<client, chats, branch, reg, aff, broken, holder>>

Resend(r) ==
  /\ job[r].pc = "backoff"
  /\ job' = [job EXCEPT ![r].pc = "sending"]
  /\ UNCHANGED <<client, chats, branch, reg, aff, broken, holder>>

\* a faulty Stale: the session is not dropped
StaleKept(r) ==
  /\ job[r].pc = "sending" /\ job[r].had /\ job[r].left = 0
  /\ job' = [job EXCEPT ![r].pc = "rebuild", ![r].left = job[r].chat, ![r].prompt = "full"]
  /\ UNCHANGED <<client, chats, branch, reg, aff, broken, holder>>

\* the upstream does not know the chat of a cached session, or claims that its
\* context is full: once, the whole history goes into a fresh chat
Stale(r) ==
  /\ job[r].pc = "sending" /\ job[r].had /\ job[r].left = 0
  /\ Dropped(r)
  /\ job' = [job EXCEPT ![r].pc = "rebuild", ![r].left = job[r].chat, ![r].prompt = "full"]
  /\ UNCHANGED <<client, chats, branch, broken, holder>>

\* any other error, an attempt too many, a stream that breaks, or a disconnect of
\* the client: the session stays as it is
Fail(r) ==
  /\ job[r].pc \in {"sending", "backoff", "continuing"}
  /\ \E auth \in BOOLEAN : broken' = [broken EXCEPT ![job[r].acct] = @ \/ auth]
  /\ Leave(r)
  /\ UNCHANGED <<client, chats, branch, reg, aff>>

\* the context is full indeed
ContextLimit(r) ==
  /\ job[r].pc = "sending"
  /\ Dropped(r)
  /\ Leave(r)
  /\ UNCHANGED <<client, chats, branch, broken>>

\* the input is too long: refused with an HTTP error, which leaves no message, or
\* with a hint below a message that may have some content
InputExceeds(r) ==
  /\ job[r].pc = "sending"
  /\ \E got, reached \in BOOLEAN :
       /\ got => reached
       /\ job' = [job EXCEPT ![r].pc = "continuing", ![r].got = got, ![r].reached = reached,
                             ![r].tries = 0, ![r].rates = 0]
  /\ UNCHANGED <<client, chats, branch, reg, aff, broken, holder>>

-------------------------------------------------------------------------------
(* _collect_continuation: at most MAX_CONTINUE_ROUNDS rounds, each a loop of its own with
   counters of its own; those of the first prompt are not used any more *)

\* a retryable status or hint in a round: the round is sent again after a wait
ContinueAgain(r) ==
  /\ job[r].pc = "continuing" /\ job[r].rounds < MAX_CONTINUE_ROUNDS
  /\ \/ job[r].tries < MAX_RETRIES /\ job' = [job EXCEPT ![r].tries = @ + 1]
     \/ job[r].rates < MAX_RETRIES /\ job' = [job EXCEPT ![r].rates = @ + 1]
  /\ UNCHANGED <<client, chats, branch, reg, aff, broken, holder>>

\* a faulty ContinueOn: the rounds are not counted
ContinueOnForever(r) ==
  /\ job[r].pc = "continuing" /\ job[r].rounds + 1 < MAX_CONTINUE_ROUNDS
  /\ job' = [job EXCEPT ![r].tries = 0, ![r].rates = 0, ![r].got = TRUE]
  /\ UNCHANGED <<client, chats, branch, reg, aff, broken, holder>>

\* a round gives content and may ask for another one, which counts its attempts anew
ContinueOn(r) ==
  /\ job[r].pc = "continuing" /\ job[r].rounds + 1 < MAX_CONTINUE_ROUNDS
  /\ job' = [job EXCEPT ![r].rounds = @ + 1, ![r].tries = 0, ![r].rates = 0, ![r].got = TRUE]
  /\ UNCHANGED <<client, chats, branch, reg, aff, broken, holder>>

\* ... or completes the answer
ContinueEnds(r) ==
  /\ job[r].pc = "continuing" /\ job[r].rounds < MAX_CONTINUE_ROUNDS
  /\ Commit(r, IF job[r].reached THEN Told(r) ELSE job[r].parent)
  /\ UNCHANGED <<chats, reg, aff, broken>>

\* ... or there is none: without any content, reduced prompts are tried in chats of
\* their own
ContinueStops(r) ==
  /\ job[r].pc = "continuing" /\ ~job[r].got /\ Variants > 0
  /\ \E auth \in BOOLEAN : broken' = [broken EXCEPT ![job[r].acct] = @ \/ auth]
  /\ Dropped(r)
  /\ job' = [job EXCEPT ![r].pc = "reducing"]
  /\ UNCHANGED <<client, chats, branch, holder>>

-------------------------------------------------------------------------------
(* _collect_reduced *)

TryReduced(r) ==
  /\ job[r].pc = "reducing" /\ job[r].tried < Variants
  /\ Bind(r, NoKey)
  /\ job' = [job EXCEPT ![r].pc = "reduced", ![r].tried = @ + 1, ![r].prompt = "less",
                        ![r].chat = chats + 1, ![r].skey = chats + 1, ![r].parent = {}]
  /\ UNCHANGED <<client, branch, broken, holder>>

NoReducedChat(r) ==
  /\ job[r].pc = "reducing" /\ job[r].tried < Variants
  /\ \E auth \in BOOLEAN : broken' = [broken EXCEPT ![job[r].acct] = @ \/ auth]
  /\ job' = [job EXCEPT ![r].tried = @ + 1]
  /\ UNCHANGED <<client, chats, branch, reg, aff, holder>>

ReducedFails(r) ==
  /\ job[r].pc = "reduced"
  /\ \E auth \in BOOLEAN : broken' = [broken EXCEPT ![job[r].acct] = @ \/ auth]
  /\ Dropped(r)
  /\ job' = [job EXCEPT ![r].pc = "reducing"]
  /\ UNCHANGED <<client, chats, branch, holder>>

\* a prompt without tools has all the messages, the others only the last one
ReducedAnswers(r) ==
  /\ job[r].pc = "reduced"
  /\ \E all \in BOOLEAN : Commit(r, {job[r].turn} \cup IF all THEN job[r].hist ELSE {})
  /\ UNCHANGED <<chats, reg, aff, broken>>

\* no reduced prompt was answered
GiveUp(r) ==
  /\ job[r].pc = "reducing" /\ job[r].tried = Variants
  /\ Leave(r)
  /\ UNCHANGED <<client, chats, branch, reg, aff, broken>>

-------------------------------------------------------------------------------
(* Around the requests *)

\* the task is cancelled
Cancel(r) ==
  /\ job[r].pc # "idle"
  /\ Leave(r)
  /\ UNCHANGED <<client, chats, branch, reg, aff, broken>>

\* a session outlives its ttl, or close_all forgets it
Expire(a, k) ==
  /\ reg[a][k] # 0
  /\ reg' = [reg EXCEPT ![a][k] = 0]
  /\ UNCHANGED <<client, chats, branch, aff, broken, holder, job>>

\* an affinity outlives its ttl, or register evicts it
Unstick(k) ==
  /\ aff[k] # 0
  /\ aff' = [aff EXCEPT ![k] = 0]
  /\ UNCHANGED <<client, chats, branch, reg, broken, holder, job>>

Revive(a) ==
  /\ broken[a]
  /\ broken' = [broken EXCEPT ![a] = FALSE]
  /\ UNCHANGED <<client, chats, branch, reg, aff, holder, job>>

\* the server is stopped, which flushes its stores, and started again
Restart ==
  /\ job' = [r \in Requests |-> NoJob]
  /\ holder' = [a \in Accounts |-> NoReq]
  /\ broken' = [a \in Accounts |-> FALSE]
  /\ UNCHANGED <<client, chats, branch, reg, aff>>

-------------------------------------------------------------------------------
Step(r) ==
  \/ Enter(r) \/ Resume(r) \/ Create(r) \/ CreateFails(r)
  \/ Answer(r) \/ Retry(r) \/ Resend(r) \/ Stale(r) \/ Fail(r) \/ ContextLimit(r)
  \/ InputExceeds(r) \/ ContinueAgain(r) \/ ContinueOn(r) \/ ContinueEnds(r) \/ ContinueStops(r)
  \/ TryReduced(r) \/ NoReducedChat(r) \/ ReducedFails(r) \/ ReducedAnswers(r) \/ GiveUp(r)

Next ==
  \/ \E r \in Requests : Arrive(r) \/ Busy(r) \/ Step(r) \/ Cancel(r)
  \/ \E a \in Accounts : Revive(a) \/ \E k \in Keys : Expire(a, k)
  \/ \E k \in Keys : Unstick(k)
  \/ Restart

Spec == Init /\ [][Next]_vars

-------------------------------------------------------------------------------
(* Properties *)

\* A prompt with only the latest messages goes to a chat that existed, on that
\* account and under that session id, when the prompt was built: never to one that
\* was created since, by the request itself or by another one it waited for.
DeltaGoesToKnownChat ==
  \A r \in Requests :
    job[r].pc = "sending" /\ job[r].prompt = "delta" => job[r].chat \in 1 .. job[r].known

\* What a chat was told and has answered stays on its branch: every prompt hangs
\* below the last committed message, however requests for one session id overlap,
\* fail, retry or are rebuilt.
BranchGrows == [][\A c \in Chats : branch[c] \subseteq branch'[c]]_vars

\* A request that left a stale chat never sends it anything again.
StaleChatIsLeft ==
  \A r \in Requests : job[r].pc \in {"sending", "reduced"} => job[r].chat # job[r].left

\* A chat is sent one prompt at a time.
OnePromptAtATime ==
  \A r, q \in Requests :
    /\ job[r].pc \in {"sending", "continuing", "reduced"}
    /\ job[q].pc \in {"sending", "continuing", "reduced"}
    /\ job[r].chat = job[q].chat
    => r = q

\* the attempts of one round of continuation, each with its retries
RoundSteps == 2 * MAX_RETRIES + 1
RoundsLeft(n) == RoundSteps * (MAX_CONTINUE_ROUNDS + 1 - n)

\* An upper bound of the steps a request has before it
Steps(j) ==
  CASE j.pc = "idle" -> 0
    [] j.pc = "reducing" -> 2 * (Variants - j.tried) + 1
    [] j.pc = "reduced" -> 2 * (Variants - j.tried) + 2
    [] j.pc = "continuing" -> 2 * Variants + 2 + RoundsLeft(j.rounds) - j.tries - j.rates
    [] OTHER -> 2 * Variants + 3 + RoundsLeft(0)
                  + 3 * (MAX_RETRIES - j.tries) + 3 * (MAX_RETRIES - j.rates)
                  + (IF j.left = 0 THEN 3 ELSE 0)
                  + (CASE j.pc = "sending" -> 0 [] j.pc = "waiting" -> 2 [] OTHER -> 1)

\* Every request is over in the end: whatever it does, by itself or because the
\* upstream answers, leaves it fewer steps to go.  Its retries, its one rebuild, its
\* rounds of continuation with the retries of each, and its reduced prompts do not feed
\* each other.
EveryStepIsProgress ==
  [][\A r \in Requests :
       job[r].pc # "idle" /\ job'[r] # job[r] => Steps(job'[r]) < Steps(job[r])]_vars

\* A prompt with only the latest messages goes to a chat that has the rest.
DeltaGoesToChatWithHistory ==
  \A r \in Requests :
    job[r].pc = "sending" /\ job[r].prompt = "delta" => job[r].hist \subseteq job[r].parent
===============================================================================
