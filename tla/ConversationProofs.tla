--------------------------- MODULE ConversationProofs ---------------------------
(* Proofs about Conversation, for any accounts and requests and any bounds. *)
EXTENDS Conversation, Integers, TLAPS

-------------------------------------------------------------------------------
(* The inductive invariant *)

\* the request has, or had, a chat to send its prompt to
Sent == {"sending", "backoff", "continuing", "reducing", "reduced"}

\* Whoever is past the lock of its account holds it.
LockInv ==
  \A r \in Requests :
    /\ job[r].pc # "idle" => job[r].acct \in Accounts
    /\ job[r].pc \notin {"idle", "waiting"} => holder[job[r].acct] = r

\* A chat that was not created yet is known to nobody.
ChatInv ==
  /\ \A a \in Accounts, k \in Keys : reg[a][k] <= chats
  /\ \A c \in Chats : c > chats => branch[c] = {}
  /\ \A r \in Requests : job[r].chat <= chats /\ job[r].left <= chats

\* A prompt of the latest messages was built for a chat that existed; it is made anew
\* for any other, and when its chat is left.
PromptInv ==
  \A r \in Requests :
    /\ job[r].pc \in {"waiting", "entered"} /\ job[r].prompt = "delta" =>
         job[r].cached \in 1 .. job[r].known
    /\ job[r].pc = "rebuild" => job[r].prompt = "full"
    /\ job[r].pc \in {"sending", "backoff"} /\ job[r].prompt = "delta" =>
         job[r].chat \in 1 .. job[r].known

\* The session id of a chat that was left is not registered again before the request
\* that left it has another one.
LeftInv ==
  \A r \in Requests :
    /\ job[r].pc \in {"waiting", "entered"} => job[r].left = 0
    /\ job[r].pc \in {"sending", "backoff"} /\ job[r].had /\ job[r].left = 0 =>
         job[r].skey = job[r].key /\ job[r].key # NoKey
    /\ job[r].pc = "rebuild" =>
         job[r].left # 0 /\ job[r].key # NoKey /\ reg[job[r].acct][job[r].key] = 0
    /\ job[r].pc \in Sent => job[r].chat # 0 /\ job[r].chat # job[r].left

\* A chat belongs to one account, whether a session id or a request names it.
OwnerInv ==
  /\ \A a, b \in Accounts, k, l \in Keys : reg[a][k] = reg[b][l] /\ reg[a][k] # 0 => a = b
  /\ \A r \in Requests, b \in Accounts, k \in Keys :
       job[r].pc \in Sent /\ reg[b][k] = job[r].chat => b = job[r].acct
  /\ \A r, q \in Requests :
       job[r].pc \in Sent /\ job[q].pc \in Sent /\ job[r].chat = job[q].chat =>
         job[r].acct = job[q].acct

\* The session id of a request names its chat or nothing, and the prompt hangs below
\* everything that chat has; a reduced prompt is in a chat that has nothing.
BranchInv ==
  \A r \in Requests : job[r].pc \in Sent =>
    /\ Registered(job[r].acct, job[r].skey) \in {0, job[r].chat}
    /\ job[r].pc \in {"sending", "backoff", "continuing"} =>
         branch[job[r].chat] \subseteq job[r].parent
    /\ job[r].pc = "reduced" => branch[job[r].chat] = {}

IInv == TypeOK /\ LockInv /\ ChatInv /\ PromptInv /\ LeftInv /\ OwnerInv /\ BranchInv

-------------------------------------------------------------------------------
(* Types *)

\* What is known of the names.
LEMMA Names ==
  /\ MaxTurns \in Nat /\ MaxChats \in Nat /\ MAX_RETRIES \in Nat
  /\ MAX_CONTINUE_ROUNDS \in Nat /\ Variants \in Nat
  /\ Chats \subseteq Keys /\ \A c \in 1 .. MaxChats : c \in Chats
  /\ NoKey \notin Keys /\ NoReq \notin Requests /\ 0 \notin Accounts
  /\ 0 \in 0 .. MaxChats /\ 0 \in Turns
BY ConversationAssumption DEF Keys, Chats, Turns

\* Every step of a request leaves it a job of the right type.
LEMMA NoJobType == NoJob \in Job
BY Names DEF NoJob, Job, Turns, Places

\* A request that leaves frees the account it holds and forgets its locals.
LEMMA LeaveType ==
  ASSUME TypeOK, NEW r \in Requests, Leave(r)
  PROVE  job' \in [Requests -> Job] /\ holder' \in [Accounts -> Requests \cup {NoReq}]
BY NoJobType DEF TypeOK, Leave

\* forget takes a session from the registry and from the affinities.
LEMMA DroppedType ==
  ASSUME TypeOK, NEW r \in Requests, Dropped(r), job[r].acct \in Accounts
  PROVE  reg' \in [Accounts -> [Keys -> 0 .. MaxChats]] /\ aff' \in [Keys -> Accounts \cup {0}]
<1>1. reg[job[r].acct] \in [Keys -> 0 .. MaxChats]
  BY DEF TypeOK
<1>2. [reg[job[r].acct] EXCEPT ![job[r].skey] = 0] \in [Keys -> 0 .. MaxChats]
  <2> SUFFICES ASSUME NEW f \in [Keys -> 0 .. MaxChats], NEW k
               PROVE  [f EXCEPT ![k] = 0] \in [Keys -> 0 .. MaxChats]
    BY <1>1
  <2> QED
    BY Names
<1>3. reg' = [reg EXCEPT ![job[r].acct] = [reg[job[r].acct] EXCEPT ![job[r].skey] = 0]]
  BY DEF Dropped
<1>4. reg' \in [Accounts -> [Keys -> 0 .. MaxChats]]
  BY <1>2, <1>3 DEF TypeOK
<1>5. aff' \in [Keys -> Accounts \cup {0}]
  BY DEF TypeOK, Dropped
<1> QED
  BY <1>4, <1>5

\* A session id and the chat it names.
LEMMA RegisteredType ==
  ASSUME TypeOK, NEW a \in Accounts, NEW k \in Keys \cup {NoKey}
  PROVE  /\ Registered(a, k) \in 0 .. MaxChats
         /\ Registered(a, k) # 0 => k \in Keys /\ Registered(a, k) \in Chats
BY Names DEF TypeOK, Registered, Chats

\* A fresh chat is registered under the id of the caller and under its own.
LEMMA BindType ==
  ASSUME TypeOK, NEW r \in Requests, NEW k \in Keys \cup {NoKey}, Bind(r, k)
  PROVE  /\ chats' \in 0 .. MaxChats /\ chats + 1 \in Chats /\ chats + 1 \in 1 .. MaxChats
         /\ reg' \in [Accounts -> [Keys -> 0 .. MaxChats]]
         /\ job[r].acct \in Accounts => aff' \in [Keys -> Accounts \cup {0}]
<1>1. chats' \in 0 .. MaxChats /\ chats + 1 \in Chats /\ chats + 1 \in 1 .. MaxChats
  BY Names DEF TypeOK, Bind, Chats
<1>2. reg' \in [Accounts -> [Keys -> 0 .. MaxChats]]
  <2> DEFINE c == chats + 1
             s == IF k = NoKey THEN c ELSE k
             new(gone) == [i \in Keys |-> IF i \in {c, s} THEN c
                                          ELSE IF i \in gone THEN 0 ELSE reg[job[r].acct][i]]
  <2>1. PICK gone \in SUBSET (Keys \ {c, s}) : reg' = [reg EXCEPT ![job[r].acct] = new(gone)]
    BY DEF Bind
  <2>2. job[r].acct \in Accounts => new(gone) \in [Keys -> 0 .. MaxChats]
    BY <1>1, Names DEF TypeOK
  <2> HIDE DEF new
  <2> QED
    BY <2>1, <2>2 DEF TypeOK
<1>3. job[r].acct \in Accounts => aff' \in [Keys -> Accounts \cup {0}]
  BY <1>1, Names DEF TypeOK, Bind, Affine
<1> QED
  BY <1>1, <1>2, <1>3

\* touch_last_message and the end of the request keep every variable typed.
LEMMA CommitType ==
  ASSUME TypeOK, LockInv, NEW r \in Requests, NEW know \in SUBSET Turns, Commit(r, know),
         job[r].pc # "idle", UNCHANGED <<chats, reg, aff, broken>>
  PROVE  TypeOK'
<1>1. job' \in [Requests -> Job] /\ holder' \in [Accounts -> Requests \cup {NoReq}]
  BY LeaveType DEF Commit
<1>2. job[r] \in Job /\ job[r].acct \in Accounts
  BY DEF TypeOK, LockInv
<1>3. job[r].skey \in Keys \cup {NoKey} /\ job[r].turn \in Turns
  BY <1>2 DEF Job
<1>4. branch' \in [Chats -> SUBSET Turns]
  BY <1>2, <1>3, RegisteredType DEF TypeOK, Commit
<1>5. answered' \subseteq Turns /\ mine' \in Keys \cup {NoKey} /\ turns' \in Turns
  BY <1>3 DEF TypeOK, Commit
<1> QED
  BY <1>1, <1>4, <1>5 DEF TypeOK

-------------------------------------------------------------------------------
(* What the steps do to the jobs *)

\* no request but r moves, and its job becomes j
Becomes(r, j) ==
  /\ job' \in [Requests -> Job]
  /\ job'[r] = j
  /\ \A q \in Requests : q # r => job'[q] = job[q]

\* jobs that are in the same chat with the same prompt
Like(i, j) ==
  /\ i.acct = j.acct /\ i.key = j.key /\ i.cached = j.cached /\ i.known = j.known
  /\ i.had = j.had /\ i.chat = j.chat /\ i.skey = j.skey /\ i.parent = j.parent
  /\ i.prompt = j.prompt /\ i.left = j.left

\* steps inside a prompt
Carries(r) ==
  \/ Enter(r) \/ Retry(r) \/ Resend(r) \/ InputExceeds(r) \/ ContinueAgain(r) \/ ContinueOn(r)
  \/ ContinueStops(r) \/ NoReducedChat(r) \/ ReducedFails(r)

\* steps that end a request
Ends(r) ==
  \/ Busy(r) \/ CreateFails(r) \/ Answer(r) \/ Fail(r) \/ ContextLimit(r) \/ ContinueEnds(r)
  \/ ReducedAnswers(r) \/ GiveUp(r) \/ Cancel(r)

\* The bounds of the counters of a job
LEMMA JobCounts ==
  ASSUME TypeOK, NEW r \in Requests
  PROVE  /\ job[r] \in Job /\ job \in [Requests -> Job]
         /\ job[r].tries \in Nat /\ job[r].rates \in Nat /\ job[r].rounds \in Nat
         /\ job[r].tried \in Nat /\ job[r].chat \in Nat /\ job[r].left \in Nat
         /\ job[r].known \in Nat /\ job[r].cached \in Nat
         /\ job[r].tries <= MAX_RETRIES /\ job[r].rates <= MAX_RETRIES
         /\ job[r].rounds <= MAX_CONTINUE_ROUNDS /\ job[r].tried <= Variants
         /\ job[r].pc \in Places /\ job[r].acct \in Accounts \cup {0}
BY Names DEF TypeOK, Job

\* A step of one request changes the locals of that request and of no other.
LEMMA Put ==
  ASSUME job \in [Requests -> Job], NEW r \in Requests, NEW j \in Job,
         job' = [job EXCEPT ![r] = j]
  PROVE  Becomes(r, j)
BY DEF Becomes

\* the flags of a job and the counters of its loop say nothing of its chat
LEMMA FlagsLike ==
  ASSUME NEW j \in Job, NEW g \in BOOLEAN, NEW h \in BOOLEAN, 0 \in 0 .. MAX_RETRIES
  PROVE  LET i == [j EXCEPT !.pc = "continuing", !.got = g, !.reached = h, !.tries = 0,
                            !.rates = 0]
         IN  i \in Job /\ Like(i, j)
BY DEF Job, Like, Places

\* A continuation round changes the counters, not the chat or the prompt.
LEMMA RoundLike ==
  ASSUME NEW j \in Job, NEW n \in 0 .. MAX_CONTINUE_ROUNDS, NEW g \in BOOLEAN,
         0 \in 0 .. MAX_RETRIES
  PROVE  LET i == [j EXCEPT !.rounds = n, !.tries = 0, !.rates = 0, !.got = g]
         IN  i \in Job /\ Like(i, j)
BY DEF Job, Like

\* The steps of a request that touch no chat move it between places and keep its chat and prompt.
LEMMA CarriesFacts ==
  ASSUME TypeOK, NEW r \in Requests, Carries(r)
  PROVE  /\ job' \in [Requests -> Job] /\ Becomes(r, job'[r])
         /\ Like(job'[r], job[r])
<1> USE Names, JobCounts
<1>1. ASSUME NEW i \in Job, job' = [job EXCEPT ![r] = i], Like(i, job[r])
      PROVE  job' \in [Requests -> Job] /\ Becomes(r, job'[r]) /\ Like(job'[r], job[r])
  BY <1>1, Put DEF Becomes
<1>2. CASE Enter(r)
  <2> DEFINE i == [job[r] EXCEPT !.pc = "entered"]
  <2>1. job' = [job EXCEPT ![r] = i]
    BY <1>2 DEF Enter
  <2>2. i \in Job /\ Like(i, job[r])
    BY <1>2 DEF Enter, Job, Like, Places
  <2> QED
    BY <1>1, <2>1, <2>2
<1>3. CASE Resend(r)
  <2> DEFINE i == [job[r] EXCEPT !.pc = "sending"]
  <2>1. job' = [job EXCEPT ![r] = i]
    BY <1>3 DEF Resend
  <2>2. i \in Job /\ Like(i, job[r])
    BY <1>3 DEF Resend, Job, Like, Places
  <2> QED
    BY <1>1, <2>1, <2>2
<1>4. CASE ContinueOn(r)
  <2> DEFINE i == [job[r] EXCEPT !.rounds = @ + 1, !.tries = 0, !.rates = 0, !.got = TRUE]
  <2>1. job' = [job EXCEPT ![r] = i]
    BY <1>4 DEF ContinueOn
  <2>2. i \in Job /\ Like(i, job[r])
    <3>1. job[r].rounds + 1 \in 0 .. MAX_CONTINUE_ROUNDS
      BY <1>4 DEF ContinueOn
    <3>2. 0 \in 0 .. MAX_RETRIES
      OBVIOUS
    <3> QED
      BY <3>1, <3>2, RoundLike, ZenonT(30)
  <2> QED
    BY <1>1, <2>1, <2>2
<1>11. CASE ContinueAgain(r) /\ job[r].tries < MAX_RETRIES
              /\ job' = [job EXCEPT ![r].tries = @ + 1]
  <2> DEFINE i == [job[r] EXCEPT !.tries = @ + 1]
  <2>1. job' = [job EXCEPT ![r] = i]
    BY <1>11
  <2>2. i \in Job /\ Like(i, job[r])
    BY <1>11 DEF Job, Like
  <2> QED
    BY <1>1, <2>1, <2>2
<1>12. CASE ContinueAgain(r) /\ job[r].rates < MAX_RETRIES
              /\ job' = [job EXCEPT ![r].rates = @ + 1]
  <2> DEFINE i == [job[r] EXCEPT !.rates = @ + 1]
  <2>1. job' = [job EXCEPT ![r] = i]
    BY <1>12
  <2>2. i \in Job /\ Like(i, job[r])
    BY <1>12 DEF Job, Like
  <2> QED
    BY <1>1, <2>1, <2>2
<1>5. CASE ContinueStops(r)
  <2> DEFINE i == [job[r] EXCEPT !.pc = "reducing"]
  <2>1. job' = [job EXCEPT ![r] = i]
    BY <1>5 DEF ContinueStops
  <2>2. i \in Job /\ Like(i, job[r])
    BY DEF Job, Like, Places
  <2> QED
    BY <1>1, <2>1, <2>2
<1>6. CASE NoReducedChat(r)
  <2> DEFINE i == [job[r] EXCEPT !.tried = @ + 1]
  <2>1. job' = [job EXCEPT ![r] = i]
    BY <1>6 DEF NoReducedChat
  <2>2. i \in Job /\ Like(i, job[r])
    BY <1>6 DEF NoReducedChat, Job, Like, Places
  <2> QED
    BY <1>1, <2>1, <2>2
<1>7. CASE ReducedFails(r)
  <2> DEFINE i == [job[r] EXCEPT !.pc = "reducing"]
  <2>1. job' = [job EXCEPT ![r] = i]
    BY <1>7 DEF ReducedFails
  <2>2. i \in Job /\ Like(i, job[r])
    BY <1>7 DEF ReducedFails, Job, Like, Places
  <2> QED
    BY <1>1, <2>1, <2>2
<1>8. CASE Retry(r) /\ job[r].tries < MAX_RETRIES
             /\ job' = [job EXCEPT ![r].pc = "backoff", ![r].tries = @ + 1]
  <2> DEFINE i == [job[r] EXCEPT !.pc = "backoff", !.tries = @ + 1]
  <2>1. job' = [job EXCEPT ![r] = i]
    BY <1>8
  <2>2. i \in Job /\ Like(i, job[r])
    BY <1>8 DEF Job, Like, Places
  <2> QED
    BY <1>1, <2>1, <2>2
<1>9. CASE Retry(r) /\ job[r].rates < MAX_RETRIES
             /\ job' = [job EXCEPT ![r].pc = "backoff", ![r].rates = @ + 1]
  <2> DEFINE i == [job[r] EXCEPT !.pc = "backoff", !.rates = @ + 1]
  <2>1. job' = [job EXCEPT ![r] = i]
    BY <1>9
  <2>2. i \in Job /\ Like(i, job[r])
    BY <1>9 DEF Job, Like, Places
  <2> QED
    BY <1>1, <2>1, <2>2
<1>10. CASE InputExceeds(r)
  <2>1. PICK got, reached \in BOOLEAN :
          job' = [job EXCEPT ![r].pc = "continuing", ![r].got = got, ![r].reached = reached,
                             ![r].tries = 0, ![r].rates = 0]
    BY <1>10 DEF InputExceeds
  <2> DEFINE i == [job[r] EXCEPT !.pc = "continuing", !.got = got, !.reached = reached,
                                 !.tries = 0, !.rates = 0]
  <2>2. job' = [job EXCEPT ![r] = i]
    BY <2>1
  <2>3. i \in Job /\ Like(i, job[r])
    <3> 0 \in 0 .. MAX_RETRIES
      OBVIOUS
    <3> QED
      BY FlagsLike, ZenonT(30)
  <2> QED
    BY <1>1, <2>2, <2>3
<1> QED
  BY <1>2, <1>3, <1>4, <1>5, <1>6, <1>7, <1>8, <1>9, <1>10, <1>11, <1>12
     DEF Carries, Retry, ContinueAgain

\* How many attempts, rounds and reduced prompts each step inside a prompt takes
LEMMA CarriesPlaces ==
  ASSUME TypeOK, NEW r \in Requests, Carries(r)
  PROVE  LET i == job'[r]
             j == job[r]
             kept == i.tries = j.tries /\ i.rates = j.rates
             reset == i.tries = 0 /\ i.rates = 0
         IN  \/ j.pc = "waiting" /\ i.pc = "entered" /\ kept /\ Enter(r)
             \/ j.pc = "sending" /\ i.pc = "backoff"
                  /\ \/ i.tries = j.tries + 1 /\ i.rates = j.rates
                     \/ i.rates = j.rates + 1 /\ i.tries = j.tries
             \/ j.pc = "backoff" /\ i.pc = "sending" /\ kept
             \/ j.pc = "sending" /\ i.pc = "continuing" /\ i.rounds = j.rounds /\ reset
             \/ j.pc = "continuing" /\ i.pc = "continuing" /\ i.rounds = j.rounds + 1 /\ reset
             \/ j.pc = "continuing" /\ i.pc = "continuing" /\ i.rounds = j.rounds
                  /\ \/ i.tries = j.tries + 1 /\ i.rates = j.rates
                     \/ i.rates = j.rates + 1 /\ i.tries = j.tries
             \/ j.pc = "continuing" /\ i.pc = "reducing" /\ i.tried = j.tried /\ Dropped(r)
             \/ j.pc = "reducing" /\ i.pc = "reducing" /\ i.tried = j.tried + 1
             \/ j.pc = "reduced" /\ i.pc = "reducing" /\ i.tried = j.tried /\ Dropped(r)
<1> USE JobCounts DEF Job
<1>1. CASE Enter(r) \/ Resend(r) \/ Retry(r)
  BY <1>1 DEF Enter, Resend, Retry
<1>2. CASE InputExceeds(r)
  BY <1>2 DEF InputExceeds
<1>3. CASE ContinueOn(r) \/ ContinueAgain(r) \/ ContinueStops(r)
  BY <1>3 DEF ContinueOn, ContinueAgain, ContinueStops
<1>4. CASE NoReducedChat(r) \/ ReducedFails(r)
  BY <1>4 DEF NoReducedChat, ReducedFails
<1> QED
  BY <1>1, <1>2, <1>3, <1>4 DEF Carries

\* A chat that the upstream has forgotten is left for a rebuild from the full history.
LEMMA StaleFacts ==
  ASSUME TypeOK, NEW r \in Requests, Stale(r)
  PROVE  /\ Becomes(r, job'[r])
         /\ job[r].pc = "sending" /\ job[r].had /\ job[r].left = 0
         /\ job'[r].pc = "rebuild" /\ job'[r].left = job[r].chat /\ job'[r].prompt = "full"
         /\ job'[r].acct = job[r].acct /\ job'[r].key = job[r].key
         /\ job'[r].chat = job[r].chat
         /\ job'[r].tries = job[r].tries /\ job'[r].rates = job[r].rates
<1> DEFINE i == [job[r] EXCEPT !.pc = "rebuild", !.left = job[r].chat, !.prompt = "full"]
<1>1. job' = [job EXCEPT ![r] = i]
  BY DEF Stale
<1>2. i \in Job
  <2> SUFFICES ASSUME NEW j \in Job
               PROVE  [j EXCEPT !.pc = "rebuild", !.left = j.chat, !.prompt = "full"] \in Job
    BY JobCounts
  <2> QED
    BY DEF Job, Places
<1>3. Becomes(r, i)
  BY <1>1, <1>2, JobCounts, Put
<1>4. /\ i.pc = "rebuild" /\ i.left = job[r].chat /\ i.prompt = "full"
      /\ i.acct = job[r].acct /\ i.key = job[r].key
      /\ i.chat = job[r].chat
      /\ i.tries = job[r].tries /\ i.rates = job[r].rates
  BY JobCounts DEF Job
<1> QED
  BY <1>3, <1>4 DEF Becomes, Stale

\* A reduced prompt goes to a fresh chat.
LEMMA TryReducedFacts ==
  ASSUME TypeOK, NEW r \in Requests, TryReduced(r)
  PROVE  /\ Becomes(r, job'[r])
         /\ job[r].pc = "reducing" /\ job[r].tried < Variants
         /\ job'[r].pc = "reduced" /\ job'[r].left = job[r].left
         /\ job'[r].acct = job[r].acct
         /\ job'[r].chat = chats + 1 /\ job'[r].skey = chats + 1
         /\ job'[r].tried = job[r].tried + 1
<1> DEFINE i == [job[r] EXCEPT !.pc = "reduced", !.tried = @ + 1, !.prompt = "less",
                               !.chat = chats + 1, !.skey = chats + 1, !.parent = {}]
<1>0. /\ chats + 1 \in 0 .. MaxChats /\ chats + 1 \in Keys
      /\ job[r].tried + 1 \in 0 .. Variants
  BY BindType, JobCounts, Names DEF TryReduced, Bind, TypeOK
<1>1. job' = [job EXCEPT ![r] = i]
  BY DEF TryReduced
<1>2. i \in Job
  <2> SUFFICES ASSUME NEW j \in Job, j.tried + 1 \in 0 .. Variants
               PROVE  [j EXCEPT !.pc = "reduced", !.tried = @ + 1, !.prompt = "less",
                                !.chat = chats + 1, !.skey = chats + 1, !.parent = {}] \in Job
    BY <1>0, JobCounts
  <2> QED
    BY <1>0 DEF Job, Places
<1>3. Becomes(r, i)
  BY <1>1, <1>2, JobCounts, Put
<1>4. /\ i.pc = "reduced" /\ i.left = job[r].left
      /\ i.acct = job[r].acct
      /\ i.chat = chats + 1 /\ i.skey = chats + 1
      /\ i.tried = job[r].tried + 1
  BY JobCounts DEF Job
<1> QED
  BY <1>3, <1>4 DEF Becomes, TryReduced

\* what obtain gives a request: the chat that is registered, or a new one
Opens(r, c, k, know) ==
  /\ Preparing(r)
  /\ c \in Chats /\ k \in Keys /\ know \in SUBSET Turns
  /\ job' = [job EXCEPT ![r] = WithSession(r, c, k, know)]

\* A prepared session fixes the chat, the id it is known by, and the parent of the prompt.
LEMMA OpensFacts ==
  ASSUME TypeOK, NEW r \in Requests, NEW c, NEW k, NEW know, Opens(r, c, k, know)
  PROVE  /\ Becomes(r, job'[r])
         /\ job'[r].pc = "sending" /\ job'[r].chat = c /\ job'[r].skey = k
         /\ job'[r].parent = know /\ job'[r].left = job[r].left
         /\ job'[r].acct = job[r].acct /\ job'[r].key = job[r].key
         /\ job'[r].tries = job[r].tries /\ job'[r].rates = job[r].rates
         /\ job[r].pc = "entered" => job'[r].had = (Registered(job[r].acct, job[r].key) # 0)
         /\ job'[r].prompt = "delta" => /\ c = job[r].cached /\ job[r].prompt = "delta"
                                        /\ job'[r].known = job[r].known
<1> DEFINE same == ~(c # job[r].cached \/ k # job[r].key)
           had  == IF job[r].pc = "entered" THEN Registered(job[r].acct, job[r].key) # 0
                   ELSE job[r].had
           prompt == IF same THEN job[r].prompt ELSE "full"
           known == IF same THEN job[r].known ELSE 0
           i == [job[r] EXCEPT !.pc = "sending", !.chat = c, !.skey = k, !.parent = know,
                               !.cached = 0, !.had = had, !.prompt = prompt, !.known = known]
<1>1. job' = [job EXCEPT ![r] = i]
  BY JobCounts DEF Opens, WithSession
<1>2. /\ c \in 0 .. MaxChats /\ k \in Keys \cup {NoKey} /\ know \in SUBSET Turns
      /\ had \in BOOLEAN /\ prompt \in {"none", "full", "delta", "less"}
      /\ known \in 0 .. MaxChats
  <2>1. job[r] \in Job
    BY JobCounts
  <2>2. job[r].had \in BOOLEAN /\ job[r].prompt \in {"none", "full", "delta", "less"}
    BY <2>1 DEF Job
  <2>3. job[r].known \in 0 .. MaxChats
    BY <2>1 DEF Job
  <2>4. known \in 0 .. MaxChats
    BY <2>3, Names
  <2>5. had \in BOOLEAN /\ prompt \in {"none", "full", "delta", "less"}
    BY <2>2
  <2> QED
    BY <2>4, <2>5 DEF Opens, Chats
<1>3. /\ i \in Job
      /\ i.pc = "sending" /\ i.chat = c /\ i.skey = k /\ i.parent = know
      /\ i.left = job[r].left /\ i.acct = job[r].acct /\ i.key = job[r].key
      /\ i.tries = job[r].tries /\ i.rates = job[r].rates
      /\ i.had = had /\ i.prompt = prompt /\ i.known = known
  <2> HIDE DEF had, prompt, known
  <2>1. ASSUME NEW j \in Job
        PROVE  LET n == [j EXCEPT !.pc = "sending", !.chat = c, !.skey = k, !.parent = know,
                                  !.cached = 0, !.had = had, !.prompt = prompt, !.known = known]
               IN  /\ n \in Job
                   /\ n.pc = "sending" /\ n.chat = c /\ n.skey = k /\ n.parent = know
                   /\ n.left = j.left /\ n.acct = j.acct /\ n.key = j.key
                   /\ n.tries = j.tries /\ n.rates = j.rates
                   /\ n.had = had /\ n.prompt = prompt /\ n.known = known
    <3> DEFINE n == [j EXCEPT !.pc = "sending", !.chat = c, !.skey = k, !.parent = know,
                              !.cached = 0, !.had = had, !.prompt = prompt, !.known = known]
    <3>1. n \in Job
      <4>1. [j EXCEPT !.pc = "sending", !.chat = c, !.skey = k, !.parent = know] \in Job
        BY <1>2 DEF Job, Places
      <4>2. ASSUME NEW m \in Job
            PROVE  [m EXCEPT !.cached = 0, !.had = had, !.prompt = prompt, !.known = known]
                     \in Job
        BY <1>2, Names DEF Job
      <4>3. n = [[j EXCEPT !.pc = "sending", !.chat = c, !.skey = k, !.parent = know]
                   EXCEPT !.cached = 0, !.had = had, !.prompt = prompt, !.known = known]
        OBVIOUS
      <4> QED
        BY <4>1, <4>2, <4>3
    <3>2. /\ n.pc = "sending" /\ n.chat = c /\ n.skey = k /\ n.parent = know
          /\ n.left = j.left /\ n.acct = j.acct /\ n.key = j.key
      BY DEF Job
    <3>3. /\ n.tries = j.tries /\ n.rates = j.rates
          /\ n.had = had /\ n.prompt = prompt /\ n.known = known
      BY DEF Job
    <3> QED
      BY <3>1, <3>2, <3>3
  <2> QED
    BY <2>1, JobCounts
<1>4. Becomes(r, i)
  BY <1>1, <1>3, JobCounts, Put
<1> QED
  BY <1>3, <1>4 DEF Becomes

\* A request that resumes prompts below the branch of the registered chat.
LEMMA ResumeFacts ==
  ASSUME TypeOK, LockInv, NEW r \in Requests, Resume(r)
  PROVE  LET c == Registered(job[r].acct, job[r].key)
         IN  /\ c # 0 /\ job[r].acct \in Accounts /\ job[r].key \in Keys
             /\ c = reg[job[r].acct][job[r].key]
             /\ Opens(r, c, job[r].key, branch[c])
<1> DEFINE c == Registered(job[r].acct, job[r].key)
<1>1. job[r].acct \in Accounts /\ job[r].key \in Keys \cup {NoKey}
  BY JobCounts DEF LockInv, Resume, Preparing, Job
<1>2. c # 0 /\ c \in Chats /\ job[r].key \in Keys
  BY <1>1, RegisteredType DEF Resume
<1>3. branch[c] \in SUBSET Turns
  BY <1>2 DEF TypeOK
<1>4. c = reg[job[r].acct][job[r].key]
  BY <1>2, Names DEF Registered
<1> QED
  BY <1>1, <1>2, <1>3, <1>4 DEF Resume, Opens

\* A request that finds no chat opens the next one with an empty branch.
LEMMA CreateFacts ==
  ASSUME TypeOK, LockInv, NEW r \in Requests, Create(r)
  PROVE  LET s == IF job[r].key = NoKey THEN chats + 1 ELSE job[r].key
         IN  /\ Registered(job[r].acct, job[r].key) = 0 /\ job[r].acct \in Accounts
             /\ s \in Keys /\ Bind(r, job[r].key)
             /\ Opens(r, chats + 1, s, {})
<1> DEFINE s == IF job[r].key = NoKey THEN chats + 1 ELSE job[r].key
<1>1. job[r].acct \in Accounts /\ job[r].key \in Keys \cup {NoKey}
  BY JobCounts DEF LockInv, Create, Preparing, Job
<1>2. chats + 1 \in Chats /\ s \in Keys
  BY <1>1, BindType, Names DEF Create
<1> QED
  BY <1>1, <1>2 DEF Create, Opens

\* A request arrives with a delta only if the chat it found had part of the turns.
LEMMA ArriveFacts ==
  ASSUME TypeOK, ChatInv, NEW r \in Requests, Arrive(r)
  PROVE  /\ Becomes(r, job'[r]) /\ job[r].pc = "idle"
         /\ job'[r].pc = "waiting" /\ job'[r].acct \in Accounts
         /\ job'[r].chat = 0 /\ job'[r].left = 0
         /\ job'[r].prompt = "delta" => job'[r].cached \in 1 .. job'[r].known
         /\ turns' \in Turns /\ aff' \in [Keys -> Accounts \cup {0}]
<1>1. PICK a \in Accounts, id \in Named :
        LET stuck == id # NoKey /\ aff[id] # 0
            found == stuck /\ ~broken[aff[id]]
            k     == IF mine = NoKey /\ ~found THEN NoKey ELSE id
        IN  /\ aff' = IF stuck /\ ~found THEN [aff EXCEPT ![id] = 0] ELSE aff
            /\ job' = [job EXCEPT ![r] =
                 [NoJob EXCEPT !.pc = "waiting", !.acct = a, !.key = k,
                               !.cached = Registered(a, k),
                               !.known = IF Registered(a, k) = 0 THEN 0 ELSE chats,
                               !.prompt = IF Registered(a, k) = 0 THEN "full" ELSE "delta",
                               !.hist = answered, !.turn = turns + 1]]
  BY DEF Arrive
<1> DEFINE found == id # NoKey /\ aff[id] # 0 /\ ~broken[aff[id]]
           k == IF mine = NoKey /\ ~found THEN NoKey ELSE id
           c == Registered(a, k)
           known == IF c = 0 THEN 0 ELSE chats
           prompt == IF c = 0 THEN "full" ELSE "delta"
           i == [NoJob EXCEPT !.pc = "waiting", !.acct = a, !.key = k, !.cached = c,
                              !.known = known, !.prompt = prompt,
                              !.hist = answered, !.turn = turns + 1]
<1>2. job' = [job EXCEPT ![r] = i]
  BY <1>1
<1>3. id \in Keys \cup {NoKey} /\ k \in Keys \cup {NoKey}
  BY Names DEF Named, TypeOK, Chats
<1>4. c \in 0 .. MaxChats /\ c <= chats
  BY <1>3, RegisteredType, Names DEF ChatInv, Registered, TypeOK
<1>5. /\ known \in 0 .. MaxChats /\ prompt \in {"none", "full", "delta", "less"}
      /\ answered \in SUBSET Turns /\ turns + 1 \in Turns
      /\ prompt = "delta" => c \in 1 .. known
  BY <1>4, Names DEF TypeOK, Turns, Arrive
<1>6. /\ i \in Job /\ i.pc = "waiting" /\ i.acct = a /\ i.chat = 0 /\ i.left = 0
      /\ i.prompt = prompt /\ i.cached = c /\ i.known = known
  <2> HIDE DEF known, prompt, c, k, found
  <2>1. ASSUME NEW j \in Job
        PROVE  [j EXCEPT !.pc = "waiting", !.acct = a, !.key = k, !.cached = c] \in Job
    BY <1>3, <1>4 DEF Job, Places
  <2>2. ASSUME NEW j \in Job
        PROVE  [j EXCEPT !.known = known, !.prompt = prompt, !.hist = answered,
                         !.turn = turns + 1] \in Job
    BY <1>5 DEF Job
  <2>3. i = [[NoJob EXCEPT !.pc = "waiting", !.acct = a, !.key = k, !.cached = c]
               EXCEPT !.known = known, !.prompt = prompt, !.hist = answered, !.turn = turns + 1]
    OBVIOUS
  <2>4. i \in Job
    BY <2>1, <2>2, <2>3, NoJobType
  <2>5. /\ i.pc = "waiting" /\ i.acct = a /\ i.chat = 0 /\ i.left = 0
        /\ i.prompt = prompt /\ i.cached = c /\ i.known = known
    BY DEF NoJob
  <2> QED
    BY <2>4, <2>5
<1>7. Becomes(r, i)
  BY <1>2, <1>6, JobCounts, Put
<1>8. aff' \in [Keys -> Accounts \cup {0}]
  BY <1>1 DEF TypeOK
<1>9. turns' \in Turns /\ job[r].pc = "idle"
  BY <1>5 DEF Arrive
<1> QED
  BY <1>5, <1>6, <1>7, <1>8, <1>9 DEF Becomes

\* Whatever ends a request frees its account and clears its locals.
LEMMA EndsFacts ==
  ASSUME TypeOK, NEW r \in Requests, Ends(r)
  PROVE  Leave(r) /\ Becomes(r, NoJob) /\ job[r].pc # "idle"
<1>1. Leave(r) /\ job[r].pc # "idle"
  BY DEF Ends, Busy, CreateFails, Answer, Fail, ContextLimit, ContinueEnds, ReducedAnswers,
     GiveUp, Cancel, Commit, Preparing
<1>2. Becomes(r, NoJob)
  BY <1>1, NoJobType, JobCounts, Put DEF Leave
<1> QED
  BY <1>1, <1>2

-------------------------------------------------------------------------------
(* Types *)

\* the steps that leave every job as it is
Quiet ==
  \/ \E a \in Accounts : Revive(a) \/ \E k \in Keys : Expire(a, k)
  \/ \E k \in Keys : Unstick(k)
  \/ UNCHANGED vars

\* A step is one of seven kinds of steps of a request, or one that no request takes.
LEMMA StepCases ==
  ASSUME [Next]_vars
  PROVE  \/ \E r \in Requests : \/ Arrive(r) \/ Carries(r) \/ Ends(r) \/ Stale(r) \/ Resume(r)
                                \/ Create(r) \/ TryReduced(r)
         \/ Quiet \/ Restart
BY DEF Next, Step, Carries, Ends, Quiet

\* Every step keeps the types; a chat number is free when one is needed.
LEMMA TypeStep ==
  ASSUME TypeOK, LockInv, ChatInv, [Next]_vars
  PROVE  TypeOK'
<1>1. ASSUME NEW r \in Requests, Arrive(r) PROVE TypeOK'
  <2>1. turns' \in Turns /\ aff' \in [Keys -> Accounts \cup {0}] /\ job' \in [Requests -> Job]
    BY <1>1, ArriveFacts DEF Becomes
  <2> QED
    BY <1>1, <2>1 DEF Arrive, TypeOK
<1>2. ASSUME NEW r \in Requests, Carries(r) PROVE TypeOK'
  <2> job' \in [Requests -> Job]
    BY <1>2, CarriesFacts
  <2>1. CASE Enter(r)
    BY <2>1 DEF Enter, TypeOK, client
  <2>2. CASE Retry(r) \/ Resend(r) \/ InputExceeds(r) \/ ContinueAgain(r)
             \/ ContinueOn(r)
    BY <2>2 DEF Retry, Resend, InputExceeds, ContinueAgain, ContinueOn, TypeOK, client
  <2>3. CASE ContinueStops(r) \/ NoReducedChat(r) \/ ReducedFails(r)
    <3>1. broken' \in [Accounts -> BOOLEAN]
      BY <2>3 DEF ContinueStops, NoReducedChat, ReducedFails, TypeOK
    <3>2. /\ reg' \in [Accounts -> [Keys -> 0 .. MaxChats]]
          /\ aff' \in [Keys -> Accounts \cup {0}]
      BY <2>3, DroppedType DEF ContinueStops, NoReducedChat, ReducedFails, LockInv, TypeOK
    <3> QED
      BY <2>3, <3>1, <3>2 DEF ContinueStops, NoReducedChat, ReducedFails, TypeOK, client
  <2> QED
    BY <1>2, <2>1, <2>2, <2>3 DEF Carries
<1>3. ASSUME NEW r \in Requests, Ends(r) PROVE TypeOK'
  <2>1. job' \in [Requests -> Job] /\ holder' \in [Accounts -> Requests \cup {NoReq}]
        /\ job[r].pc # "idle"
    BY <1>3, EndsFacts, LeaveType
  <2>2. CASE Answer(r) \/ ContinueEnds(r) \/ ReducedAnswers(r)
    <3>1. /\ job[r].parent \in SUBSET Turns /\ job[r].hist \in SUBSET Turns
          /\ job[r].turn \in Turns
      BY JobCounts DEF Job
    <3>2. Told(r) \in SUBSET Turns
      BY <3>1 DEF Told
    <3>3. PICK know \in SUBSET Turns : Commit(r, know)
      <4>1. CASE Answer(r)
        BY <3>2, <4>1 DEF Answer
      <4>2. CASE ContinueEnds(r)
        BY <3>1, <3>2, <4>2 DEF ContinueEnds
      <4>3. CASE ReducedAnswers(r)
        <5>1. PICK all \in BOOLEAN :
                Commit(r, {job[r].turn} \cup IF all THEN job[r].hist ELSE {})
          BY <4>3 DEF ReducedAnswers
        <5>2. ({job[r].turn} \cup IF all THEN job[r].hist ELSE {}) \in SUBSET Turns
          BY <3>1
        <5> QED
          BY <5>1, <5>2
      <4> QED
        BY <2>2, <4>1, <4>2, <4>3
    <3> QED
      BY <2>1, <2>2, <3>3, CommitType DEF Answer, ContinueEnds, ReducedAnswers
  <2>3. CASE CreateFails(r) \/ Fail(r)
    <3>1. broken' \in [Accounts -> BOOLEAN]
      BY <2>3 DEF CreateFails, Fail, TypeOK
    <3> QED
      BY <2>1, <2>3, <3>1 DEF CreateFails, Fail, TypeOK, client
  <2>4. CASE ContextLimit(r)
    <3>1. /\ reg' \in [Accounts -> [Keys -> 0 .. MaxChats]]
          /\ aff' \in [Keys -> Accounts \cup {0}]
      BY <2>4, DroppedType DEF ContextLimit, LockInv
    <3> QED
      BY <2>1, <2>4, <3>1 DEF ContextLimit, TypeOK, client
  <2>5. CASE Busy(r) \/ GiveUp(r) \/ Cancel(r)
    BY <2>1, <2>5 DEF Busy, GiveUp, Cancel, TypeOK, client
  <2> QED
    BY <1>3, <2>2, <2>3, <2>4, <2>5 DEF Ends
<1>4. ASSUME NEW r \in Requests, Stale(r) PROVE TypeOK'
  <2>1. job' \in [Requests -> Job] /\ job[r].pc = "sending"
    BY <1>4, StaleFacts DEF Becomes
  <2>2. /\ reg' \in [Accounts -> [Keys -> 0 .. MaxChats]]
        /\ aff' \in [Keys -> Accounts \cup {0}]
    BY <1>4, <2>1, DroppedType DEF Stale, LockInv
  <2> QED
    BY <1>4, <2>1, <2>2 DEF Stale, TypeOK, client
<1>5. ASSUME NEW r \in Requests, Resume(r) PROVE TypeOK'
  <2>1. job' \in [Requests -> Job] /\ job[r].acct \in Accounts
    BY <1>5, ResumeFacts, OpensFacts DEF Becomes
  <2>2. aff' \in [Keys -> Accounts \cup {0}]
    BY <1>5, <2>1 DEF Resume, Affine, TypeOK
  <2> QED
    BY <1>5, <2>1, <2>2 DEF Resume, TypeOK, client
<1>6. ASSUME NEW r \in Requests, Create(r) PROVE TypeOK'
  <2>1. job' \in [Requests -> Job] /\ job[r].acct \in Accounts /\ Bind(r, job[r].key)
    BY <1>6, CreateFacts, OpensFacts DEF Becomes
  <2>2. job[r].key \in Keys \cup {NoKey}
    BY JobCounts DEF Job
  <2>3. /\ chats' \in 0 .. MaxChats /\ reg' \in [Accounts -> [Keys -> 0 .. MaxChats]]
        /\ aff' \in [Keys -> Accounts \cup {0}]
    BY <2>1, <2>2, BindType
  <2> QED
    BY <1>6, <2>1, <2>3 DEF Create, TypeOK, client
<1>7. ASSUME NEW r \in Requests, TryReduced(r) PROVE TypeOK'
  <2>1. job' \in [Requests -> Job] /\ job[r].acct \in Accounts /\ Bind(r, NoKey)
    BY <1>7, TryReducedFacts DEF Becomes, LockInv, TryReduced
  <2>2. /\ chats' \in 0 .. MaxChats /\ reg' \in [Accounts -> [Keys -> 0 .. MaxChats]]
        /\ aff' \in [Keys -> Accounts \cup {0}]
    BY <2>1, BindType
  <2> QED
    BY <1>7, <2>1, <2>2 DEF TryReduced, TypeOK, client
<1>8. CASE Quiet
  <2>1. ASSUME NEW a \in Accounts, Revive(a) PROVE TypeOK'
    BY <2>1 DEF Revive, TypeOK, client
  <2>2. ASSUME NEW a \in Accounts, NEW k \in Keys, Expire(a, k) PROVE TypeOK'
    <3>1. reg' \in [Accounts -> [Keys -> 0 .. MaxChats]]
      BY <2>2, Names DEF Expire, TypeOK
    <3> QED
      BY <2>2, <3>1 DEF Expire, TypeOK, client
  <2>3. ASSUME NEW k \in Keys, Unstick(k) PROVE TypeOK'
    BY <2>3 DEF Unstick, TypeOK, client
  <2>4. CASE UNCHANGED vars
    BY <2>4 DEF vars, TypeOK
  <2> QED
    BY <1>8, <2>1, <2>2, <2>3, <2>4 DEF Quiet
<1>9. CASE Restart
  <2>1. job' \in [Requests -> Job]
    BY <1>9, NoJobType DEF Restart
  <2> QED
    BY <1>9, <2>1 DEF Restart, TypeOK, client
<1> QED
  BY <1>1, <1>2, <1>3, <1>4, <1>5, <1>6, <1>7, <1>8, <1>9, StepCases

-------------------------------------------------------------------------------
(* Locks, chats and prompts *)

\* no session id names another chat than before
Shrinks ==
  /\ chats' = chats
  /\ \A a \in Accounts, k \in Keys : reg'[a][k] \in {0, reg[a][k]}

\* a new chat on the account of r, which s names
Grows(r, s) ==
  /\ chats' = chats + 1
  /\ \A a \in Accounts, k \in Keys : a # job[r].acct => reg'[a][k] = reg[a][k]
  /\ \A k \in Keys : reg'[job[r].acct][k] \in {0, reg[job[r].acct][k], chats + 1}
  /\ reg'[job[r].acct][s] = chats + 1

\* A session id that is dropped names nothing.
LEMMA DroppedFacts ==
  ASSUME TypeOK, NEW r \in Requests, Dropped(r), job[r].acct \in Accounts
  PROVE  /\ \A a \in Accounts, k \in Keys : reg'[a][k] \in {0, reg[a][k]}
         /\ job[r].skey \in Keys => reg'[job[r].acct][job[r].skey] = 0
<1>1. reg \in [Accounts -> [Keys -> 0 .. MaxChats]]
  BY DEF TypeOK
<1>2. reg' = [reg EXCEPT ![job[r].acct] = [reg[job[r].acct] EXCEPT ![job[r].skey] = 0]]
  BY DEF Dropped
<1>3. \A k \in Keys : reg'[job[r].acct][k] = IF k = job[r].skey THEN 0 ELSE reg[job[r].acct][k]
  BY <1>1, <1>2
<1>4. \A a \in Accounts : a # job[r].acct => reg'[a] = reg[a]
  BY <1>1, <1>2
<1> QED
  BY <1>3, <1>4

\* Opening a chat adds one chat to the registry of one account, and nothing else.
LEMMA BindFacts ==
  ASSUME TypeOK, NEW r \in Requests, NEW k \in Keys \cup {NoKey}, Bind(r, k),
         job[r].acct \in Accounts
  PROVE  Grows(r, IF k = NoKey THEN chats + 1 ELSE k)
<1> DEFINE c == chats + 1
           a == job[r].acct
           s == IF k = NoKey THEN c ELSE k
           new(gone) == [i \in Keys |-> IF i \in {c, s} THEN c
                                        ELSE IF i \in gone THEN 0 ELSE reg[a][i]]
<1>1. PICK gone \in SUBSET (Keys \ {c, s}) : reg' = [reg EXCEPT ![a] = new(gone)]
  BY DEF Bind
<1>2. c \in Keys /\ s \in Keys
  BY BindType, Names
<1>3. \A i \in Keys : new(gone)[i] \in {0, reg[a][i], c}
  OBVIOUS
<1>4. new(gone)[s] = c
  BY <1>2
<1> HIDE DEF new
<1>5. reg'[a] = new(gone) /\ \A b \in Accounts : b # a => reg'[b] = reg[b]
  BY <1>1 DEF TypeOK
<1>6. chats' = c
  BY DEF Bind
<1> QED
  BY <1>3, <1>4, <1>5, <1>6 DEF Grows

\* Only obtain, and a reduced prompt, make a chat.
LEMMA ShrinkSteps ==
  ASSUME TypeOK, LockInv, NEW r \in Requests,
         Arrive(r) \/ Carries(r) \/ Ends(r) \/ Stale(r) \/ Resume(r)
  PROVE  Shrinks
<1>1. CASE ContinueStops(r) \/ ReducedFails(r) \/ ContextLimit(r) \/ Stale(r)
  BY <1>1, DroppedFacts DEF ContinueStops, ReducedFails, ContextLimit, Stale, LockInv, Shrinks
<1>2. CASE ~(ContinueStops(r) \/ ReducedFails(r) \/ ContextLimit(r) \/ Stale(r))
  BY <1>2 DEF Arrive, Carries, Ends, Resume, Enter, Retry, Resend, InputExceeds,
     ContinueAgain, ContinueOn, NoReducedChat, Busy, CreateFails, Answer, Fail, ContinueEnds,
     ReducedAnswers, GiveUp, Cancel, Shrinks
<1> QED
  BY <1>1, <1>2

\* Expiry, eviction, broken accounts and restarts only take entries away.
LEMMA QuietShrinks ==
  ASSUME TypeOK, Quiet \/ Restart
  PROVE  Shrinks
BY DEF Quiet, Restart, Revive, Expire, Unstick, vars, TypeOK, Shrinks

\* Nobody takes a lock that is held.
LEMMA LockStep ==
  ASSUME TypeOK, LockInv, ChatInv, [Next]_vars
  PROVE  LockInv'
<1> USE Names DEF LockInv
<1>1. ASSUME NEW r \in Requests, Arrive(r) PROVE LockInv'
  <2>1. Becomes(r, job'[r]) /\ job'[r].pc = "waiting" /\ job'[r].acct \in Accounts
    BY <1>1, ArriveFacts
  <2>2. holder' = holder
    BY <1>1 DEF Arrive
  <2> QED
    BY <2>1, <2>2 DEF Becomes
<1>2. ASSUME NEW r \in Requests, Carries(r) PROVE LockInv'
  <2>1. Becomes(r, job'[r]) /\ job'[r].acct = job[r].acct
    BY <1>2, CarriesFacts DEF Like
  <2>2. CASE Enter(r)
    <3>1. /\ holder[job[r].acct] = NoReq /\ job[r].pc = "waiting"
          /\ holder' = [holder EXCEPT ![job[r].acct] = r]
      BY <2>2 DEF Enter
    <3>2. job[r].acct \in Accounts /\ holder'[job[r].acct] = r
      BY <3>1 DEF TypeOK
    <3>3. \A a \in Accounts : a # job[r].acct => holder'[a] = holder[a]
      BY <3>1 DEF TypeOK
    <3> QED
      BY <2>1, <3>1, <3>2, <3>3 DEF Becomes
  <2>3. CASE ~Enter(r)
    <3>1. holder' = holder /\ job[r].pc \notin {"idle", "waiting"}
      BY <1>2, <2>3 DEF Carries, Retry, Resend, InputExceeds, ContinueAgain,
         ContinueOn, ContinueStops, NoReducedChat, ReducedFails
    <3> QED
      BY <2>1, <3>1 DEF Becomes
  <2> QED
    BY <2>2, <2>3
<1>3. ASSUME NEW r \in Requests, Ends(r) PROVE LockInv'
  <2>1. /\ Becomes(r, NoJob)
        /\ holder' = [a \in Accounts |-> IF holder[a] = r THEN NoReq ELSE holder[a]]
    BY <1>3, EndsFacts DEF Leave
  <2> QED
    BY <2>1 DEF Becomes, NoJob
<1>4. ASSUME NEW r \in Requests, Stale(r) PROVE LockInv'
  <2>1. Becomes(r, job'[r]) /\ job[r].pc = "sending" /\ job'[r].acct = job[r].acct
    BY <1>4, StaleFacts
  <2>2. holder' = holder
    BY <1>4 DEF Stale
  <2> QED
    BY <2>1, <2>2 DEF Becomes
<1>5. ASSUME NEW r \in Requests, Resume(r) \/ Create(r) PROVE LockInv'
  <2>1. \E c, k, know : Opens(r, c, k, know)
    BY <1>5, ResumeFacts, CreateFacts
  <2>2. Becomes(r, job'[r]) /\ job'[r].acct = job[r].acct
    BY <2>1, OpensFacts
  <2> QED
    BY <1>5, <2>2 DEF Becomes, Resume, Create, Preparing
<1>6. ASSUME NEW r \in Requests, TryReduced(r) PROVE LockInv'
  <2>1. Becomes(r, job'[r]) /\ job[r].pc = "reducing" /\ job'[r].acct = job[r].acct
    BY <1>6, TryReducedFacts
  <2>2. holder' = holder
    BY <1>6 DEF TryReduced
  <2> QED
    BY <2>1, <2>2 DEF Becomes
<1>7. CASE Quiet
  BY <1>7 DEF Quiet, Revive, Expire, Unstick, vars
<1>8. CASE Restart
  BY <1>8 DEF Restart, NoJob
<1> QED
  BY <1>1, <1>2, <1>3, <1>4, <1>5, <1>6, <1>7, <1>8, StepCases

\* Only an answer changes what a chat knows: the chat the session id of the request names.
Answers(r) == Answer(r) \/ ContinueEnds(r) \/ ReducedAnswers(r)

\* A commit changes the branch of the chat that is registered, and of no other.
LEMMA CommitBranch ==
  ASSUME TypeOK, NEW r \in Requests, NEW know, Commit(r, know)
  PROVE  \A c \in Chats : branch'[c] = branch[c]
            \/ (c = Registered(job[r].acct, job[r].skey) /\ branch'[c] = know)
BY DEF Commit, TypeOK

\* No step but an answer changes a branch.
LEMMA BranchKept ==
  /\ \A r \in Requests :
       \/ Arrive(r) \/ Carries(r) \/ (Ends(r) /\ ~Answers(r)) \/ Stale(r) \/ Resume(r)
       \/ Create(r) \/ TryReduced(r)
       => branch' = branch
  /\ Quiet \/ Restart => branch' = branch
<1>1. ASSUME NEW r \in Requests,
             Arrive(r) \/ Carries(r) \/ Stale(r) \/ Resume(r) \/ Create(r) \/ TryReduced(r)
      PROVE  branch' = branch
  BY <1>1 DEF Arrive, Carries, Stale, Resume, Create, TryReduced, Enter, Retry, Resend,
     InputExceeds, ContinueAgain, ContinueOn, ContinueStops, NoReducedChat, ReducedFails
<1>2. ASSUME NEW r \in Requests, Ends(r), ~Answers(r) PROVE branch' = branch
  BY <1>2 DEF Answers, Ends, Busy, CreateFails, Fail, ContextLimit, GiveUp, Cancel
<1>3. ASSUME Quiet \/ Restart PROVE branch' = branch
  BY <1>3 DEF Quiet, Restart, Revive, Expire, Unstick, vars
<1> QED
  BY <1>1, <1>2, <1>3

\* Every step keeps the registry on chats that exist.
LEMMA ChatStep ==
  ASSUME TypeOK, LockInv, ChatInv, [Next]_vars
  PROVE  ChatInv'
<1> USE Names
<1> chats \in Nat /\ \A a \in Accounts, k \in Keys : reg[a][k] \in Nat
  BY DEF TypeOK
<1>1. ASSUME NEW r \in Requests, Arrive(r) PROVE ChatInv'
  <2>1. Becomes(r, job'[r]) /\ job'[r].chat = 0 /\ job'[r].left = 0
    BY <1>1, ArriveFacts
  <2>2. Shrinks /\ branch' = branch
    BY <1>1, ShrinkSteps, BranchKept
  <2> QED
    BY <2>1, <2>2 DEF Becomes, Shrinks, ChatInv
<1>2. ASSUME NEW r \in Requests, Carries(r) PROVE ChatInv'
  <2>1. Becomes(r, job'[r]) /\ job'[r].chat = job[r].chat /\ job'[r].left = job[r].left
    BY <1>2, CarriesFacts DEF Like
  <2>2. Shrinks /\ branch' = branch
    BY <1>2, ShrinkSteps, BranchKept
  <2> QED
    BY <2>1, <2>2 DEF Becomes, Shrinks, ChatInv
<1>3. ASSUME NEW r \in Requests, Ends(r) PROVE ChatInv'
  <2>1. Becomes(r, NoJob) /\ Shrinks /\ job[r].pc # "idle"
    BY <1>3, EndsFacts, ShrinkSteps
  <2>2. \A c \in Chats : c > chats => branch'[c] = {}
    <3>1. CASE ~Answers(r)
      BY <1>3, <3>1, BranchKept DEF ChatInv
    <3>2. CASE Answers(r)
      <4>1. PICK know : Commit(r, know)
        BY <3>2 DEF Answers, Answer, ContinueEnds, ReducedAnswers
      <4>2. job[r].acct \in Accounts /\ job[r].skey \in Keys \cup {NoKey}
        BY <2>1, JobCounts DEF LockInv, Job
      <4>3. Registered(job[r].acct, job[r].skey) <= chats
        BY <4>2 DEF ChatInv, Registered
      <4> QED
        BY <4>1, <4>3, CommitBranch DEF ChatInv, Chats
    <3> QED
      BY <3>1, <3>2
  <2> QED
    BY <2>1, <2>2 DEF Becomes, NoJob, Shrinks, ChatInv
<1>4. ASSUME NEW r \in Requests, Stale(r) PROVE ChatInv'
  <2>1. Becomes(r, job'[r]) /\ job'[r].chat = job[r].chat /\ job'[r].left = job[r].chat
    BY <1>4, StaleFacts
  <2>2. Shrinks /\ branch' = branch
    BY <1>4, ShrinkSteps, BranchKept
  <2> QED
    BY <2>1, <2>2 DEF Becomes, Shrinks, ChatInv
<1>5. ASSUME NEW r \in Requests, Resume(r) PROVE ChatInv'
  <2>1. PICK c : /\ c <= chats /\ Becomes(r, job'[r]) /\ job'[r].chat = c
                 /\ job'[r].left = job[r].left
    BY <1>5, ResumeFacts, OpensFacts DEF ChatInv
  <2>2. Shrinks /\ branch' = branch
    BY <1>5, ShrinkSteps, BranchKept
  <2> QED
    BY <2>1, <2>2 DEF Becomes, Shrinks, ChatInv
<1>6. ASSUME NEW r \in Requests, Create(r) \/ TryReduced(r) PROVE ChatInv'
  <2>1. Becomes(r, job'[r]) /\ job'[r].chat = chats + 1 /\ job'[r].left = job[r].left
    BY <1>6, CreateFacts, OpensFacts, TryReducedFacts
  <2>2. job[r].acct \in Accounts /\ job[r].key \in Keys \cup {NoKey}
    BY <1>6, JobCounts DEF LockInv, Create, TryReduced, Preparing, Job
  <2>3. PICK s : Grows(r, s)
    BY <1>6, <2>2, BindFacts DEF Create, TryReduced
  <2>4. branch' = branch
    BY <1>6, BranchKept
  <2>5. \A a \in Accounts, k \in Keys : reg'[a][k] <= chats + 1
    BY <2>2, <2>3 DEF Grows, ChatInv
  <2>6. \A c \in Chats : c > chats + 1 => branch'[c] = {}
    BY <2>4 DEF ChatInv, Chats
  <2>7. \A q \in Requests : job'[q].chat <= chats + 1 /\ job'[q].left <= chats + 1
    BY <2>1, JobCounts DEF Becomes, ChatInv
  <2> QED
    BY <2>3, <2>5, <2>6, <2>7 DEF Grows, ChatInv
<1>7. CASE Quiet \/ Restart
  <2>1. Shrinks /\ branch' = branch /\ (job' = job \/ job' = [r \in Requests |-> NoJob])
    BY <1>7, QuietShrinks, BranchKept DEF Quiet, Restart, Revive, Expire, Unstick, vars
  <2> QED
    BY <2>1 DEF Shrinks, ChatInv, NoJob
<1> QED
  BY <1>1, <1>2, <1>3, <1>4, <1>5, <1>6, <1>7, StepCases

\* Every step keeps what is said of the prompts under way.
LEMMA PromptStep ==
  ASSUME TypeOK, LockInv, ChatInv, PromptInv, [Next]_vars
  PROVE  PromptInv'
<1>1. ASSUME NEW r \in Requests, Arrive(r) PROVE PromptInv'
  <2>1. Becomes(r, job'[r]) /\ job'[r].pc = "waiting"
        /\ (job'[r].prompt = "delta" => job'[r].cached \in 1 .. job'[r].known)
    BY <1>1, ArriveFacts
  <2> QED
    BY <2>1 DEF Becomes, PromptInv
<1>2. ASSUME NEW r \in Requests, Carries(r) PROVE PromptInv'
  <2>1. Becomes(r, job'[r]) /\ Like(job'[r], job[r])
    BY <1>2, CarriesFacts
  <2>2. \/ job[r].pc = "waiting" /\ job'[r].pc = "entered"
        \/ job[r].pc \in {"sending", "backoff"} /\ job'[r].pc \in {"sending", "backoff"}
        \/ job'[r].pc \in {"continuing", "reducing"}
    BY <1>2, CarriesPlaces
  <2> QED
    BY <2>1, <2>2 DEF Becomes, Like, PromptInv
<1>3. ASSUME NEW r \in Requests, Ends(r) PROVE PromptInv'
  <2>1. Becomes(r, NoJob)
    BY <1>3, EndsFacts
  <2> QED
    BY <2>1 DEF Becomes, NoJob, PromptInv
<1>4. ASSUME NEW r \in Requests, Stale(r) PROVE PromptInv'
  <2>1. Becomes(r, job'[r]) /\ job'[r].pc = "rebuild" /\ job'[r].prompt = "full"
    BY <1>4, StaleFacts
  <2> QED
    BY <2>1 DEF Becomes, PromptInv
<1>5. ASSUME NEW r \in Requests, Resume(r) \/ Create(r) PROVE PromptInv'
  <2>1. PICK c, k, know : Opens(r, c, k, know)
    BY <1>5, ResumeFacts, CreateFacts
  <2>2. /\ Becomes(r, job'[r]) /\ job'[r].pc = "sending" /\ job'[r].chat = c
        /\ job'[r].prompt = "delta" => /\ c = job[r].cached /\ job[r].prompt = "delta"
                                       /\ job'[r].known = job[r].known
    BY <2>1, OpensFacts
  <2>3. job[r].pc \in {"entered", "rebuild"}
    BY <2>1 DEF Opens, Preparing
  <2> QED
    BY <2>2, <2>3 DEF Becomes, PromptInv
<1>6. ASSUME NEW r \in Requests, TryReduced(r) PROVE PromptInv'
  <2>1. Becomes(r, job'[r]) /\ job'[r].pc = "reduced"
    BY <1>6, TryReducedFacts
  <2> QED
    BY <2>1 DEF Becomes, PromptInv
<1>7. CASE Quiet \/ Restart
  <2>1. job' = job \/ job' = [r \in Requests |-> NoJob]
    BY <1>7 DEF Quiet, Restart, Revive, Expire, Unstick, vars
  <2> QED
    BY <2>1 DEF PromptInv, NoJob
<1> QED
  BY <1>1, <1>2, <1>3, <1>4, <1>5, <1>6, <1>7, StepCases

-------------------------------------------------------------------------------
(* Stale chats *)

\* Two requests that are past their locks are on two accounts.
LEMMA Apart ==
  ASSUME LockInv, NEW r \in Requests, NEW q \in Requests, r # q,
         job[r].pc \notin {"idle", "waiting"}, job[q].pc \notin {"idle", "waiting"}
  PROVE  job[r].acct # job[q].acct
BY DEF LockInv

\* The requests that do not move keep what LeftInv says of them.
LEMMA LeftOthers ==
  ASSUME TypeOK, LockInv, LeftInv, NEW r \in Requests, NEW q \in Requests, q # r,
         job'[q] = job[q],
         \/ Shrinks
         \/ \E s : Grows(r, s) /\ job[r].pc \notin {"idle", "waiting"}
  PROVE  job[q].pc = "rebuild" => reg'[job[q].acct][job[q].key] = 0
<1> SUFFICES ASSUME job[q].pc = "rebuild" PROVE reg'[job[q].acct][job[q].key] = 0
  OBVIOUS
<1>1. /\ job[q].acct \in Accounts /\ job[q].key \in Keys
      /\ reg[job[q].acct][job[q].key] = 0
  BY JobCounts DEF LockInv, LeftInv, Job
<1>2. CASE Shrinks
  BY <1>1, <1>2 DEF Shrinks
<1>3. CASE \E s : Grows(r, s) /\ job[r].pc \notin {"idle", "waiting"}
  <2>1. job[q].acct # job[r].acct
    BY <1>3, Apart
  <2> QED
    BY <1>1, <1>3, <2>1 DEF Grows
<1> QED
  BY <1>2, <1>3

\* Every step keeps a chat that was left out of the registry of the account.
LEMMA LeftStep ==
  ASSUME TypeOK, LockInv, ChatInv, LeftInv, [Next]_vars
  PROVE  LeftInv'
<1> USE Names DEF Sent
<1>1. ASSUME NEW r \in Requests, Arrive(r) PROVE LeftInv'
  <2>1. Becomes(r, job'[r]) /\ job'[r].pc = "waiting" /\ job'[r].left = 0
    BY <1>1, ArriveFacts
  <2>2. Shrinks
    BY <1>1, ShrinkSteps
  <2> QED
    BY <2>1, <2>2, LeftOthers DEF Becomes, LeftInv
<1>2. ASSUME NEW r \in Requests, Carries(r) PROVE LeftInv'
  <2>1. Becomes(r, job'[r]) /\ Like(job'[r], job[r])
    BY <1>2, CarriesFacts
  <2>2. \/ job[r].pc = "waiting" /\ job'[r].pc = "entered"
        \/ job[r].pc \in {"sending", "backoff"} /\ job'[r].pc \in {"sending", "backoff"}
        \/ job[r].pc \in Sent /\ job'[r].pc \in {"continuing", "reducing"}
    BY <1>2, CarriesPlaces
  <2>3. Shrinks
    BY <1>2, ShrinkSteps
  <2>4. \A q \in Requests : q # r =>
          job'[q] = job[q] /\ (job[q].pc = "rebuild" => reg'[job[q].acct][job[q].key] = 0)
    BY <2>1, <2>3, LeftOthers DEF Becomes
  <2> QED
    BY <2>1, <2>2, <2>4 DEF Like, LeftInv
<1>3. ASSUME NEW r \in Requests, Ends(r) PROVE LeftInv'
  <2>1. Becomes(r, NoJob) /\ Shrinks
    BY <1>3, EndsFacts, ShrinkSteps
  <2> QED
    BY <2>1, LeftOthers DEF Becomes, NoJob, LeftInv
<1>4. ASSUME NEW r \in Requests, Stale(r) PROVE LeftInv'
  <2>1. /\ Becomes(r, job'[r]) /\ job[r].pc = "sending" /\ job[r].had /\ job[r].left = 0
        /\ job'[r].pc = "rebuild" /\ job'[r].left = job[r].chat
        /\ job'[r].acct = job[r].acct /\ job'[r].key = job[r].key
    BY <1>4, StaleFacts
  <2>2. job[r].skey = job[r].key /\ job[r].key \in Keys /\ job[r].acct \in Accounts
    BY <2>1, JobCounts DEF LeftInv, LockInv, Job
  <2>3. reg'[job[r].acct][job[r].key] = 0
    BY <1>4, <2>2, DroppedFacts DEF Stale
  <2>4. \A q \in Requests : q # r =>
          job'[q] = job[q] /\ (job[q].pc = "rebuild" => reg'[job[q].acct][job[q].key] = 0)
    BY <1>4, <2>1, ShrinkSteps, LeftOthers DEF Becomes
  <2> QED
    BY <2>1, <2>2, <2>3, <2>4 DEF LeftInv
<1>5. ASSUME NEW r \in Requests, Resume(r) PROVE LeftInv'
  <2> DEFINE c == Registered(job[r].acct, job[r].key)
  <2>1. c # 0 /\ c = reg[job[r].acct][job[r].key] /\ Opens(r, c, job[r].key, branch[c])
        /\ job[r].key \in Keys
    BY <1>5, ResumeFacts
  <2>2. /\ Becomes(r, job'[r]) /\ job'[r].pc = "sending" /\ job'[r].chat = c
        /\ job'[r].skey = job[r].key /\ job'[r].left = job[r].left
        /\ job'[r].key = job[r].key
    BY <2>1, OpensFacts
  <2>3. job[r].left = 0
    BY <2>1 DEF Opens, Preparing, LeftInv
  <2>4. \A q \in Requests : q # r =>
          job'[q] = job[q] /\ (job[q].pc = "rebuild" => reg'[job[q].acct][job[q].key] = 0)
    BY <1>5, <2>2, ShrinkSteps, LeftOthers DEF Becomes
  <2> HIDE DEF c
  <2> QED
    BY <2>1, <2>2, <2>3, <2>4 DEF LeftInv
<1>6. ASSUME NEW r \in Requests, Create(r) PROVE LeftInv'
  <2>1. PICK s : Opens(r, chats + 1, s, {})
    BY <1>6, CreateFacts
  <2>2. /\ Becomes(r, job'[r]) /\ job'[r].pc = "sending" /\ job'[r].chat = chats + 1
        /\ job'[r].left = job[r].left
        /\ job[r].pc = "entered" => job'[r].had = (Registered(job[r].acct, job[r].key) # 0)
    BY <2>1, OpensFacts
  <2>3. job[r].pc \in {"entered", "rebuild"} /\ Registered(job[r].acct, job[r].key) = 0
    BY <1>6 DEF Create, Preparing
  <2>4. chats \in Nat /\ job[r].left \in Nat /\ job[r].left <= chats
    BY JobCounts DEF TypeOK, ChatInv
  <2>5. \E k : Grows(r, k)
    BY <1>6, CreateFacts, BindFacts, JobCounts DEF Job
  <2>6. \A q \in Requests : q # r =>
          job'[q] = job[q] /\ (job[q].pc = "rebuild" => reg'[job[q].acct][job[q].key] = 0)
    BY <2>2, <2>3, <2>5, LeftOthers DEF Becomes
  <2>7. ~(job'[r].had /\ job'[r].left = 0)
    BY <2>2, <2>3 DEF LeftInv
  <2> QED
    BY <2>2, <2>4, <2>6, <2>7 DEF LeftInv
<1>7. ASSUME NEW r \in Requests, TryReduced(r) PROVE LeftInv'
  <2>1. /\ Becomes(r, job'[r]) /\ job[r].pc = "reducing" /\ job'[r].pc = "reduced"
        /\ job'[r].chat = chats + 1 /\ job'[r].left = job[r].left
    BY <1>7, TryReducedFacts
  <2>2. chats \in Nat /\ job[r].left \in Nat /\ job[r].left <= chats
    BY JobCounts DEF TypeOK, ChatInv
  <2>3. job[r].acct \in Accounts /\ Bind(r, NoKey)
    BY <1>7, <2>1 DEF TryReduced, LockInv
  <2>4. \E k : Grows(r, k)
    BY <2>3, BindFacts
  <2>5. \A q \in Requests : q # r =>
          job'[q] = job[q] /\ (job[q].pc = "rebuild" => reg'[job[q].acct][job[q].key] = 0)
    BY <2>1, <2>4, LeftOthers DEF Becomes
  <2> QED
    BY <2>1, <2>2, <2>5 DEF LeftInv
<1>8. CASE Quiet \/ Restart
  <2>1. Shrinks /\ (job' = job \/ job' = [r \in Requests |-> NoJob])
    BY <1>8, QuietShrinks DEF Quiet, Restart, Revive, Expire, Unstick, vars
  <2>2. CASE job' = job
    <3>1. \A q \in Requests : job[q].pc = "rebuild" => reg'[job[q].acct][job[q].key] = 0
      BY <2>1, JobCounts DEF Shrinks, LeftInv, LockInv, Job
    <3> QED
      BY <2>2, <3>1 DEF LeftInv
  <2>3. CASE job' = [r \in Requests |-> NoJob]
    BY <2>3 DEF LeftInv, NoJob
  <2> QED
    BY <2>1, <2>2, <2>3
<1> QED
  BY <1>1, <1>2, <1>3, <1>4, <1>5, <1>6, <1>7, <1>8, StepCases

-------------------------------------------------------------------------------
(* Chats and their accounts *)

\* Steps that take entries away and open no chat keep a chat with one account.
LEMMA OwnerKept ==
  ASSUME TypeOK, LeftInv, OwnerInv, Shrinks,
         \A q \in Requests : job'[q].pc \in Sent =>
           job[q].pc \in Sent /\ job'[q].chat = job[q].chat /\ job'[q].acct = job[q].acct
  PROVE  OwnerInv'
<1>1. \A a, b \in Accounts, k, l \in Keys :
        reg'[a][k] = reg'[b][l] /\ reg'[a][k] # 0 => a = b
  BY DEF OwnerInv, Shrinks
<1>2. \A r \in Requests, b \in Accounts, k \in Keys :
        job'[r].pc \in Sent /\ reg'[b][k] = job'[r].chat => b = job'[r].acct
  BY DEF OwnerInv, Shrinks, LeftInv
<1>3. \A r, q \in Requests :
        job'[r].pc \in Sent /\ job'[q].pc \in Sent /\ job'[r].chat = job'[q].chat =>
          job'[r].acct = job'[q].acct
  BY DEF OwnerInv
<1> QED
  BY <1>1, <1>2, <1>3 DEF OwnerInv

\* A chat that is opened is new, so it belongs to the account that opened it alone.
LEMMA OwnerNew ==
  ASSUME TypeOK, ChatInv, LeftInv, OwnerInv, NEW r \in Requests, NEW s, Grows(r, s),
         job[r].acct \in Accounts, Becomes(r, job'[r]), job'[r].chat = chats + 1,
         job'[r].acct = job[r].acct
  PROVE  OwnerInv'
<1> DEFINE a0 == job[r].acct
<1>1. /\ chats \in Nat /\ \A a \in Accounts, k \in Keys : reg[a][k] \in Nat /\ reg[a][k] <= chats
      /\ \A q \in Requests : job[q].chat \in Nat /\ job[q].chat <= chats
  BY JobCounts, Names DEF TypeOK, ChatInv
<1>2. \A a \in Accounts, k \in Keys :
        \/ reg'[a][k] \in {0, reg[a][k]}
        \/ a = a0 /\ reg'[a][k] = chats + 1
  BY DEF Grows
<1>3. \A q \in Requests : q # r => job'[q] = job[q]
  BY DEF Becomes
<1>4. \A a, b \in Accounts, k, l \in Keys :
        reg'[a][k] = reg'[b][l] /\ reg'[a][k] # 0 => a = b
  BY <1>1, <1>2 DEF OwnerInv
<1>5. \A q \in Requests, b \in Accounts, k \in Keys :
        job'[q].pc \in Sent /\ reg'[b][k] = job'[q].chat => b = job'[q].acct
  <2> SUFFICES ASSUME NEW q \in Requests, NEW b \in Accounts, NEW k \in Keys,
                      job'[q].pc \in Sent, reg'[b][k] = job'[q].chat
               PROVE  b = job'[q].acct
    OBVIOUS
  <2>1. CASE q = r
    BY <1>1, <1>2, <2>1
  <2>2. CASE q # r
    <3>1. job'[q] = job[q] /\ job[q].chat # chats + 1
      BY <1>1, <1>3, <2>2
    <3>2. reg'[b][k] \in {0, reg[b][k]}
      BY <1>2, <3>1
    <3>3. CASE reg'[b][k] = reg[b][k]
      BY <3>1, <3>3 DEF OwnerInv
    <3>4. CASE reg'[b][k] = 0 /\ reg[b][k] # 0
      <4>1. job[q].chat # 0
        BY <3>1 DEF LeftInv
      <4> QED
        BY <3>1, <3>4, <4>1
    <3> QED
      BY <3>2, <3>3, <3>4
  <2> QED
    BY <2>1, <2>2
<1>6. \A p, q \in Requests :
        job'[p].pc \in Sent /\ job'[q].pc \in Sent /\ job'[p].chat = job'[q].chat =>
          job'[p].acct = job'[q].acct
  <2> SUFFICES ASSUME NEW p \in Requests, NEW q \in Requests,
                      job'[p].pc \in Sent, job'[q].pc \in Sent, job'[p].chat = job'[q].chat
               PROVE  job'[p].acct = job'[q].acct
    OBVIOUS
  <2>1. CASE p = r \/ q = r
    BY <1>1, <1>3, <2>1
  <2>2. CASE p # r /\ q # r
    BY <1>3, <2>2 DEF OwnerInv
  <2> QED
    BY <2>1, <2>2
<1> QED
  BY <1>4, <1>5, <1>6 DEF OwnerInv

\* A request resumes the chat its own account registers, and makes one that nobody knows.
LEMMA OwnerStep ==
  ASSUME TypeOK, LockInv, ChatInv, LeftInv, OwnerInv, [Next]_vars
  PROVE  OwnerInv'
<1>1. ASSUME NEW r \in Requests, Arrive(r) PROVE OwnerInv'
  <2>1. Becomes(r, job'[r]) /\ job'[r].pc = "waiting"
    BY <1>1, ArriveFacts
  <2>2. Shrinks
    BY <1>1, ShrinkSteps
  <2> QED
    BY <2>1, <2>2, OwnerKept DEF Becomes, Sent
<1>2. ASSUME NEW r \in Requests, Carries(r) PROVE OwnerInv'
  <2>1. Becomes(r, job'[r]) /\ job'[r].chat = job[r].chat /\ job'[r].acct = job[r].acct
    BY <1>2, CarriesFacts DEF Like
  <2>2. job'[r].pc \in Sent => job[r].pc \in Sent
    BY <1>2, CarriesPlaces DEF Sent
  <2>3. Shrinks
    BY <1>2, ShrinkSteps
  <2> QED
    BY <2>1, <2>2, <2>3, OwnerKept DEF Becomes
<1>3. ASSUME NEW r \in Requests, Ends(r) PROVE OwnerInv'
  <2>1. Becomes(r, NoJob) /\ Shrinks
    BY <1>3, EndsFacts, ShrinkSteps
  <2> QED
    BY <2>1, OwnerKept DEF Becomes, NoJob, Sent
<1>4. ASSUME NEW r \in Requests, Stale(r) PROVE OwnerInv'
  <2>1. Becomes(r, job'[r]) /\ job'[r].pc = "rebuild"
    BY <1>4, StaleFacts
  <2>2. Shrinks
    BY <1>4, ShrinkSteps
  <2> QED
    BY <2>1, <2>2, OwnerKept DEF Becomes, Sent
<1>5. ASSUME NEW r \in Requests, Resume(r) PROVE OwnerInv'
  <2>1. PICK c : /\ c # 0 /\ c = reg[job[r].acct][job[r].key]
                 /\ job[r].acct \in Accounts /\ job[r].key \in Keys
                 /\ Becomes(r, job'[r]) /\ job'[r].chat = c /\ job'[r].acct = job[r].acct
    BY <1>5, ResumeFacts, OpensFacts
  <2>2. reg' = reg /\ \A q \in Requests : q # r => job'[q] = job[q]
    BY <1>5, <2>1 DEF Resume, Becomes
  <2>3. \A q \in Requests, b \in Accounts, k \in Keys :
          job'[q].pc \in Sent /\ reg[b][k] = job'[q].chat => b = job'[q].acct
    <3> SUFFICES ASSUME NEW q \in Requests, NEW b \in Accounts, NEW k \in Keys,
                        job'[q].pc \in Sent, reg[b][k] = job'[q].chat
                 PROVE  b = job'[q].acct
      OBVIOUS
    <3>1. CASE q = r
      BY <2>1, <3>1 DEF OwnerInv
    <3>2. CASE q # r
      BY <2>2, <3>2 DEF OwnerInv
    <3> QED
      BY <3>1, <3>2
  <2>4. \A p, q \in Requests :
          job'[p].pc \in Sent /\ job'[q].pc \in Sent /\ job'[p].chat = job'[q].chat =>
            job'[p].acct = job'[q].acct
    <3> SUFFICES ASSUME NEW p \in Requests, NEW q \in Requests,
                        job'[p].pc \in Sent, job'[q].pc \in Sent, job'[p].chat = job'[q].chat
                 PROVE  job'[p].acct = job'[q].acct
      OBVIOUS
    <3>1. CASE p = r /\ q # r
      BY <2>1, <2>2, <3>1 DEF OwnerInv
    <3>2. CASE q = r /\ p # r
      BY <2>1, <2>2, <3>2 DEF OwnerInv
    <3>3. CASE p # r /\ q # r
      BY <2>2, <3>3 DEF OwnerInv
    <3> QED
      BY <3>1, <3>2, <3>3
  <2> QED
    BY <2>2, <2>3, <2>4 DEF OwnerInv
<1>6. ASSUME NEW r \in Requests, Create(r) \/ TryReduced(r) PROVE OwnerInv'
  <2>1. /\ Becomes(r, job'[r]) /\ job'[r].chat = chats + 1 /\ job'[r].acct = job[r].acct
    BY <1>6, CreateFacts, OpensFacts, TryReducedFacts
  <2>2. job[r].acct \in Accounts /\ job[r].key \in Keys \cup {NoKey}
    BY <1>6, JobCounts DEF LockInv, Create, TryReduced, Preparing, Job
  <2>3. PICK s : Grows(r, s)
    BY <1>6, <2>2, BindFacts DEF Create, TryReduced
  <2> QED
    BY <2>1, <2>2, <2>3, OwnerNew
<1>7. CASE Quiet \/ Restart
  <2>1. Shrinks /\ (job' = job \/ job' = [r \in Requests |-> NoJob])
    BY <1>7, QuietShrinks DEF Quiet, Restart, Revive, Expire, Unstick, vars
  <2> QED
    BY <2>1, OwnerKept DEF NoJob, Sent
<1> QED
  BY <1>1, <1>2, <1>3, <1>4, <1>5, <1>6, <1>7, StepCases

-------------------------------------------------------------------------------
(* Branches *)

\* what BranchInv says of one request
BranchOf(q) ==
  job[q].pc \in Sent =>
    /\ Registered(job[q].acct, job[q].skey) \in {0, job[q].chat}
    /\ job[q].pc \in {"sending", "backoff", "continuing"} =>
         branch[job[q].chat] \subseteq job[q].parent
    /\ job[q].pc = "reduced" => branch[job[q].chat] = {}

\* Two requests are never in the same chat.
LEMMA OneChatEach ==
  ASSUME LockInv, OwnerInv, NEW r \in Requests, NEW q \in Requests,
         job[r].pc \in Sent, job[q].pc \in Sent, job[r].chat = job[q].chat
  PROVE  r = q
<1>1. job[r].acct = job[q].acct
  BY DEF OwnerInv
<1> QED
  BY <1>1, Apart DEF Sent

\* An answer goes to the chat of the request.
LEMMA AnswerBranch ==
  ASSUME TypeOK, LeftInv, BranchInv, NEW r \in Requests, Answers(r)
  PROVE  /\ job[r].pc \in Sent
         /\ \A c \in Chats : branch'[c] # branch[c] => c = job[r].chat
         /\ \A c \in Chats : branch[c] \subseteq branch'[c]
<1>1. job[r].pc \in {"sending", "continuing", "reduced"}
  BY DEF Answers, Answer, ContinueEnds, ReducedAnswers
<1>2. PICK know : Commit(r, know) /\ (job[r].pc # "reduced" => job[r].parent \subseteq know)
  <2>1. CASE Answer(r)
    BY <2>1 DEF Answer, Told
  <2>2. CASE ContinueEnds(r)
    BY <2>2 DEF ContinueEnds, Told
  <2>3. CASE ReducedAnswers(r)
    BY <2>3 DEF ReducedAnswers
  <2> QED
    BY <2>1, <2>2, <2>3 DEF Answers
<1>3. job[r].pc \in Sent /\ Registered(job[r].acct, job[r].skey) \in {0, job[r].chat}
  BY <1>1 DEF Sent, BranchInv
<1>4. \A c \in Chats : branch'[c] = branch[c] \/ (c = job[r].chat /\ branch'[c] = know)
  <2> SUFFICES ASSUME NEW c \in Chats, branch'[c] # branch[c]
               PROVE  c = job[r].chat /\ branch'[c] = know
    OBVIOUS
  <2>1. c = Registered(job[r].acct, job[r].skey) /\ branch'[c] = know
    BY <1>2, CommitBranch
  <2>2. c # 0
    BY Names DEF Chats
  <2> QED
    BY <1>3, <2>1, <2>2
<1>5. branch[job[r].chat] \subseteq know
  <2>1. CASE job[r].pc = "reduced"
    BY <1>3, <2>1 DEF BranchInv
  <2>2. CASE job[r].pc # "reduced"
    BY <1>1, <1>2, <1>3, <2>2 DEF BranchInv
  <2> QED
    BY <2>1, <2>2
<1> QED
  BY <1>3, <1>4, <1>5

\* The requests that do not move keep what BranchInv says of them.
LEMMA BranchOthers ==
  ASSUME TypeOK, LockInv, BranchInv, NEW r \in Requests, NEW q \in Requests, q # r,
         job'[q] = job[q],
         job[q].pc \in Sent => branch'[job[q].chat] = branch[job[q].chat],
         \/ Shrinks
         \/ \E s : Grows(r, s) /\ job[r].pc \notin {"idle", "waiting"}
  PROVE  BranchOf(q)'
<1> SUFFICES ASSUME job[q].pc \in Sent
             PROVE  Registered(job[q].acct, job[q].skey)' \in {0, job[q].chat}
  BY DEF BranchOf, BranchInv, Registered
<1>1. /\ job[q].acct \in Accounts /\ job[q].skey \in Keys \cup {NoKey}
      /\ Registered(job[q].acct, job[q].skey) \in {0, job[q].chat}
  BY JobCounts DEF LockInv, BranchInv, Job, Sent
<1>2. CASE Shrinks
  BY <1>1, <1>2 DEF Shrinks, Registered
<1>3. CASE \E s : Grows(r, s) /\ job[r].pc \notin {"idle", "waiting"}
  <2>1. job[q].acct # job[r].acct
    BY <1>3, Apart DEF Sent
  <2> QED
    BY <1>1, <1>3, <2>1 DEF Grows, Registered
<1> QED
  BY <1>2, <1>3

\* Every step keeps the parent of a prompt under way at the branch of its chat: only its holder commits.
LEMMA BranchStep ==
  ASSUME TypeOK, LockInv, ChatInv, LeftInv, OwnerInv, BranchInv, [Next]_vars
  PROVE  BranchInv'
<1> SUFFICES ASSUME NEW q \in Requests PROVE BranchOf(q)'
  BY DEF BranchInv, BranchOf
<1> USE Names
<1>1. ASSUME NEW r \in Requests,
             Arrive(r) \/ Carries(r) \/ Ends(r) \/ Stale(r) \/ Resume(r), q # r
      PROVE  BranchOf(q)'
  <2>1. job'[q] = job[q]
    <3>1. CASE Arrive(r) \/ Carries(r) \/ Ends(r) \/ Stale(r)
      BY <1>1, <3>1, ArriveFacts, CarriesFacts, EndsFacts, StaleFacts DEF Becomes
    <3>2. CASE Resume(r)
      BY <1>1, <3>2, ResumeFacts, OpensFacts DEF Becomes
    <3> QED
      BY <1>1, <3>1, <3>2
  <2>2. Shrinks
    BY <1>1, ShrinkSteps
  <2>3. job[q].pc \in Sent => branch'[job[q].chat] = branch[job[q].chat]
    <3>1. CASE Ends(r) /\ Answers(r)
      <4> SUFFICES ASSUME job[q].pc \in Sent PROVE branch'[job[q].chat] = branch[job[q].chat]
        OBVIOUS
      <4>1. job[q].chat \in Chats
        BY JobCounts DEF LeftInv, Job, Chats
      <4>2. job[r].pc \in Sent /\ job[q].chat # job[r].chat
        BY <1>1, <3>1, AnswerBranch, OneChatEach
      <4> QED
        BY <3>1, <4>1, <4>2, AnswerBranch
    <3>2. CASE ~(Ends(r) /\ Answers(r))
      BY <1>1, <3>2, BranchKept
    <3> QED
      BY <3>1, <3>2
  <2> QED
    BY <1>1, <2>1, <2>2, <2>3, BranchOthers
<1>2. ASSUME NEW r \in Requests, Create(r) \/ TryReduced(r), q # r PROVE BranchOf(q)'
  <2>1. job'[q] = job[q]
    BY <1>2, CreateFacts, OpensFacts, TryReducedFacts DEF Becomes
  <2>2. /\ job[r].acct \in Accounts /\ job[r].key \in Keys \cup {NoKey}
        /\ job[r].pc \notin {"idle", "waiting"}
    BY <1>2, JobCounts DEF LockInv, Create, TryReduced, Preparing, Job
  <2>3. \E s : Grows(r, s)
    BY <1>2, <2>2, BindFacts DEF Create, TryReduced
  <2>4. branch' = branch
    BY <1>2, BranchKept
  <2> QED
    BY <1>2, <2>1, <2>2, <2>3, <2>4, BranchOthers
<1>3. ASSUME Arrive(q) \/ Ends(q) \/ Stale(q) PROVE BranchOf(q)'
  <2>1. job'[q].pc \notin Sent
    BY <1>3, ArriveFacts, EndsFacts, StaleFacts DEF Becomes, NoJob, Sent
  <2> QED
    BY <2>1 DEF BranchOf
<1>4. ASSUME Carries(q) PROVE BranchOf(q)'
  <2>1. Like(job'[q], job[q])
    BY <1>4, CarriesFacts
  <2>2. \/ job'[q].pc \notin Sent
        \/ job[q].pc \in Sent /\ job'[q].pc = "reducing"
        \/ job[q].pc \in {"sending", "backoff", "continuing"}
             /\ job'[q].pc \in {"sending", "backoff", "continuing"}
    BY <1>4, CarriesPlaces DEF Sent
  <2>3. Shrinks /\ branch' = branch
    BY <1>4, ShrinkSteps, BranchKept
  <2> SUFFICES ASSUME job'[q].pc \in Sent PROVE BranchOf(q)'
    BY DEF BranchOf
  <2>4. /\ job[q].acct \in Accounts /\ job[q].skey \in Keys \cup {NoKey}
        /\ Registered(job[q].acct, job[q].skey) \in {0, job[q].chat}
    BY <2>2, JobCounts DEF LockInv, BranchInv, Job, Sent
  <2>5. Registered(job[q].acct, job[q].skey)' \in {0, job'[q].chat}
    BY <2>1, <2>3, <2>4 DEF Like, Shrinks, Registered
  <2>6. /\ job'[q].pc \in {"sending", "backoff", "continuing"} =>
             branch'[job'[q].chat] \subseteq job'[q].parent
        /\ job'[q].pc # "reduced"
    BY <2>1, <2>2, <2>3 DEF Like, BranchInv, Sent
  <2> QED
    BY <2>5, <2>6 DEF BranchOf
<1>5. ASSUME Resume(q) PROVE BranchOf(q)'
  <2>1. PICK c : /\ c # 0 /\ c = reg[job[q].acct][job[q].key] /\ job[q].key \in Keys
                 /\ Opens(q, c, job[q].key, branch[c])
    BY <1>5, ResumeFacts
  <2>2. /\ job'[q].chat = c /\ job'[q].skey = job[q].key /\ job'[q].parent = branch[c]
        /\ job'[q].acct = job[q].acct /\ job'[q].pc = "sending"
    BY <2>1, OpensFacts
  <2>3. reg' = reg /\ branch' = branch
    BY <1>5 DEF Resume
  <2> QED
    BY <2>1, <2>2, <2>3 DEF BranchOf, Registered
<1>6. ASSUME Create(q) PROVE BranchOf(q)'
  <2> DEFINE s == IF job[q].key = NoKey THEN chats + 1 ELSE job[q].key
  <2>1. s \in Keys /\ Opens(q, chats + 1, s, {}) /\ Grows(q, s)
    BY <1>6, CreateFacts, BindFacts, JobCounts DEF Job
  <2>2. /\ job'[q].chat = chats + 1 /\ job'[q].skey = s /\ job'[q].acct = job[q].acct
        /\ job'[q].pc = "sending"
    BY <2>1, OpensFacts
  <2>3. branch'[chats + 1] = {}
    BY <1>6, <2>1, BranchKept DEF Opens, ChatInv, TypeOK
  <2> HIDE DEF s
  <2> QED
    BY <2>1, <2>2, <2>3 DEF BranchOf, Registered, Grows
<1>7. ASSUME TryReduced(q) PROVE BranchOf(q)'
  <2>1. /\ job'[q].chat = chats + 1 /\ job'[q].skey = chats + 1 /\ job'[q].acct = job[q].acct
        /\ job'[q].pc = "reduced" /\ job[q].pc = "reducing"
    BY <1>7, TryReducedFacts
  <2>2. Bind(q, NoKey) /\ job[q].acct \in Accounts
    BY <1>7, <2>1 DEF TryReduced, LockInv
  <2>3. Grows(q, chats + 1) /\ chats + 1 \in Keys /\ chats + 1 \in Chats
    BY <2>2, BindFacts, BindType
  <2>4. branch'[chats + 1] = {}
    BY <1>7, <2>3, BranchKept DEF ChatInv, TypeOK
  <2> QED
    BY <2>1, <2>3, <2>4 DEF BranchOf, Registered, Grows
<1>8. CASE Quiet \/ Restart
  <2>1. Shrinks /\ branch' = branch /\ (job' = job \/ job' = [r \in Requests |-> NoJob])
    BY <1>8, QuietShrinks, BranchKept DEF Quiet, Restart, Revive, Expire, Unstick, vars
  <2>2. CASE job' = [r \in Requests |-> NoJob]
    BY <2>2 DEF BranchOf, NoJob, Sent
  <2>3. CASE job' = job /\ job[q].pc \in Sent
    <3>1. /\ job[q].acct \in Accounts /\ job[q].skey \in Keys \cup {NoKey}
          /\ Registered(job[q].acct, job[q].skey) \in {0, job[q].chat}
      BY <2>3, JobCounts DEF LockInv, BranchInv, Job, Sent
    <3>2. Registered(job[q].acct, job[q].skey)' \in {0, job[q].chat}
      BY <2>1, <2>3, <3>1 DEF Shrinks, Registered
    <3> QED
      BY <2>1, <2>3, <3>2 DEF BranchOf, BranchInv
  <2>4. CASE job' = job /\ job[q].pc \notin Sent
    BY <2>4 DEF BranchOf
  <2> QED
    BY <2>1, <2>2, <2>3, <2>4
<1> QED
  BY <1>1, <1>2, <1>3, <1>4, <1>5, <1>6, <1>7, <1>8, StepCases

-------------------------------------------------------------------------------
(* Progress *)

\* what a request may still do before its prompt is answered
Budget(j) ==
  2 * Variants + 3 + RoundsLeft(0)
    + 3 * (MAX_RETRIES - j.tries) + 3 * (MAX_RETRIES - j.rates)
    + (IF j.left = 0 THEN 3 ELSE 0)

\* The products that the measure counts the attempts of all rounds with.
LEMMA Products ==
  ASSUME NEW a \in Nat, NEW m \in Nat, NEW n \in Nat, n <= m
  PROVE  /\ a * (m + 1 - n) \in Nat /\ a * (m + 1 - 0) \in Nat
         /\ a * (m + 1 - n) >= a
         /\ a * (m + 1 - n) <= a * (m + 1 - 0)
         /\ a * (m + 1 - (n + 1)) = a * (m + 1 - n) - a
<1> DEFINE k == m + 1 - n
<1>1. k \in Nat /\ k > 0
  OBVIOUS
<1>2. a * (m + 1 - (n + 1)) = a * k - a
  OBVIOUS
<1>3. a * (m + 1 - 0) = a * k + a * n
  OBVIOUS
<1> HIDE DEF k
<1>4. a * k \in Nat /\ a * n \in Nat /\ a * k >= a
  BY <1>1
<1>5. a * (m + 1 - n) = a * k
  BY DEF k
<1> QED
  BY <1>2, <1>3, <1>4, <1>5

\* A round has room for its attempts, and every round takes its own.
LEMMA RoundFacts ==
  ASSUME NEW n \in 0 .. MAX_CONTINUE_ROUNDS
  PROVE  /\ RoundsLeft(n) \in Nat /\ RoundsLeft(0) \in Nat
         /\ RoundsLeft(n) > 2 * MAX_RETRIES
         /\ RoundsLeft(n) <= RoundsLeft(0)
         /\ RoundsLeft(n + 1) = RoundsLeft(n) - 2 * MAX_RETRIES - 1
<1>1. /\ MAX_RETRIES \in Nat /\ MAX_CONTINUE_ROUNDS \in Nat
      /\ n \in Nat /\ n <= MAX_CONTINUE_ROUNDS
  BY Names
<1>2. RoundSteps = 2 * MAX_RETRIES + 1 /\ RoundSteps \in Nat
  BY <1>1 DEF RoundSteps
<1>3. /\ RoundsLeft(n) \in Nat /\ RoundsLeft(0) \in Nat
      /\ RoundsLeft(n) >= RoundSteps /\ RoundsLeft(n) <= RoundsLeft(0)
      /\ RoundsLeft(n + 1) = RoundsLeft(n) - RoundSteps
  BY <1>1, <1>2, Products, Zenon DEF RoundsLeft
<1> QED
  BY <1>1, <1>2, <1>3

\* The measure at each place of a request.
LEMMA StepsAt ==
  ASSUME NEW j \in Job
  PROVE  /\ j.pc = "idle" => Steps(j) = 0
         /\ j.pc = "reducing" => Steps(j) = 2 * (Variants - j.tried) + 1
         /\ j.pc = "reduced" => Steps(j) = 2 * (Variants - j.tried) + 2
         /\ j.pc = "continuing" =>
              Steps(j) = 2 * Variants + 2 + RoundsLeft(j.rounds) - j.tries - j.rates
         /\ j.pc = "sending" => Steps(j) = Budget(j)
         /\ j.pc \in {"entered", "rebuild", "backoff"} => Steps(j) = Budget(j) + 1
         /\ j.pc = "waiting" => Steps(j) = Budget(j) + 2
<1>1. /\ MaxChats \in Nat /\ MAX_RETRIES \in Nat /\ MAX_CONTINUE_ROUNDS \in Nat
      /\ Variants \in Nat /\ j.tries \in Nat /\ j.rates \in Nat
  BY Names DEF Job
<1>2. Budget(j) \in Int /\ RoundsLeft(0) \in Nat /\ RoundsLeft(j.rounds) \in Nat
  BY <1>1, RoundFacts DEF Budget, Job
<1> QED
  BY <1>1, <1>2 DEF Steps, Budget

\* The measure is positive while a request is under way.
LEMMA StepsPositive ==
  ASSUME NEW j \in Job, j.pc # "idle"
  PROVE  Steps(j) \in Nat /\ Steps(j) > 0
<1>1. /\ j.tries \in Nat /\ j.rates \in Nat /\ j.tried \in Nat /\ j.rounds \in Nat
      /\ j.tries <= MAX_RETRIES /\ j.rates <= MAX_RETRIES
      /\ j.tried <= Variants /\ j.rounds <= MAX_CONTINUE_ROUNDS
      /\ j.pc \in Places
  BY Names DEF Job
<1>2. /\ Budget(j) \in Nat /\ Budget(j) > 0
      /\ RoundsLeft(j.rounds) \in Nat /\ RoundsLeft(j.rounds) > 2 * MAX_RETRIES
  BY <1>1, RoundFacts, Names DEF Budget, Job
<1> QED
  BY <1>1, <1>2, StepsAt, Names DEF Places

\* A step of a request lowers its measure: every loop has a counter that the measure counts.
LEMMA Progress ==
  ASSUME IInv, [Next]_vars, NEW r \in Requests, job[r].pc # "idle", job'[r] # job[r]
  PROVE  Steps(job'[r]) < Steps(job[r])
<1> USE Names
<1>0. job[r] \in Job /\ job'[r] \in Job
  BY TypeStep DEF IInv, TypeOK
<1>1. /\ job[r].tries \in Nat /\ job[r].rates \in Nat /\ job[r].tried \in Nat
      /\ job[r].rounds \in Nat /\ job[r].chat \in Nat
      /\ job[r].tries <= MAX_RETRIES /\ job[r].rates <= MAX_RETRIES
      /\ job[r].tried <= Variants /\ job[r].rounds <= MAX_CONTINUE_ROUNDS
  BY JobCounts DEF IInv
<1>2. /\ RoundsLeft(0) \in Nat /\ RoundsLeft(job[r].rounds) \in Nat
      /\ RoundsLeft(job[r].rounds) <= RoundsLeft(0)
      /\ RoundsLeft(job[r].rounds) > 2 * MAX_RETRIES
      /\ RoundsLeft(job[r].rounds + 1) = RoundsLeft(job[r].rounds) - 2 * MAX_RETRIES - 1
      /\ Budget(job[r]) \in Nat /\ Budget(job[r]) >= 2 * Variants + 3 + RoundsLeft(0)
  BY <1>1, RoundFacts DEF Budget
<1>3. ASSUME NEW q \in Requests,
             \/ Arrive(q) \/ Carries(q) \/ Ends(q) \/ Stale(q) \/ Resume(q)
             \/ Create(q) \/ TryReduced(q)
      PROVE  q = r /\ ~Arrive(r)
  <2>1. CASE Arrive(q) \/ Carries(q) \/ Ends(q) \/ Stale(q) \/ TryReduced(q)
    BY <2>1, ArriveFacts, CarriesFacts, EndsFacts, StaleFacts, TryReducedFacts
       DEF IInv, Becomes
  <2>2. CASE Resume(q) \/ Create(q)
    <3>1. PICK c, k, know : Opens(q, c, k, know)
      BY <2>2, ResumeFacts, CreateFacts DEF IInv
    <3>2. Becomes(q, job'[q])
      BY <3>1, OpensFacts DEF IInv
    <3> QED
      BY <2>2, <3>2 DEF Resume, Create, Becomes, Arrive, Preparing
  <2> QED
    BY <1>3, <2>1, <2>2
<1>4. CASE Carries(r)
  <2>1. Like(job'[r], job[r])
    BY <1>4, CarriesFacts DEF IInv
  <2>2. job'[r].left = job[r].left
    BY <2>1 DEF Like
  <2>3. CASE job[r].pc = "waiting" /\ job'[r].pc = "entered"
             /\ job'[r].tries = job[r].tries /\ job'[r].rates = job[r].rates
    BY <1>0, <1>1, <1>2, <2>2, <2>3, StepsAt DEF Budget
  <2>4. CASE job[r].pc = "sending" /\ job'[r].pc = "backoff"
             /\ \/ job'[r].tries = job[r].tries + 1 /\ job'[r].rates = job[r].rates
                \/ job'[r].rates = job[r].rates + 1 /\ job'[r].tries = job[r].tries
    BY <1>0, <1>1, <1>2, <2>2, <2>4, StepsAt DEF Budget
  <2>5. CASE job[r].pc = "backoff" /\ job'[r].pc = "sending"
             /\ job'[r].tries = job[r].tries /\ job'[r].rates = job[r].rates
    BY <1>0, <1>1, <1>2, <2>2, <2>5, StepsAt DEF Budget
  <2>6. CASE job[r].pc = "sending" /\ job'[r].pc = "continuing"
             /\ job'[r].rounds = job[r].rounds /\ job'[r].tries = 0 /\ job'[r].rates = 0
    BY <1>0, <1>1, <1>2, <2>6, StepsAt
  <2>7. CASE job[r].pc = "continuing"
             /\ \/ job'[r].pc = "continuing" /\ job'[r].rounds = job[r].rounds + 1
                     /\ job'[r].tries = 0 /\ job'[r].rates = 0
                \/ job'[r].pc = "continuing" /\ job'[r].rounds = job[r].rounds
                     /\ \/ job'[r].tries = job[r].tries + 1 /\ job'[r].rates = job[r].rates
                        \/ job'[r].rates = job[r].rates + 1 /\ job'[r].tries = job[r].tries
                \/ job'[r].pc = "reducing" /\ job'[r].tried = job[r].tried
    BY <1>0, <1>1, <1>2, <2>7, StepsAt
  <2>8. CASE \/ job[r].pc = "reducing" /\ job'[r].pc = "reducing"
                  /\ job'[r].tried = job[r].tried + 1
             \/ job[r].pc = "reduced" /\ job'[r].pc = "reducing"
                  /\ job'[r].tried = job[r].tried
    BY <1>0, <1>1, <2>8, StepsAt
  <2> QED
    BY <1>4, <2>3, <2>4, <2>5, <2>6, <2>7, <2>8, CarriesPlaces DEF IInv
<1>5. CASE Ends(r) \/ Restart
  <2>1. job'[r] = NoJob
    BY <1>5, EndsFacts DEF IInv, Becomes, Restart
  <2>2. Steps(job'[r]) = 0
    BY <1>0, <2>1, StepsAt DEF NoJob
  <2> QED
    BY <1>0, <2>2, StepsPositive
<1>6. CASE Stale(r)
  <2>1. /\ job[r].pc = "sending" /\ job[r].left = 0 /\ job'[r].pc = "rebuild"
        /\ job'[r].left = job[r].chat
        /\ job'[r].tries = job[r].tries /\ job'[r].rates = job[r].rates
    BY <1>6, StaleFacts DEF IInv
  <2>2. job[r].chat # 0
    BY <2>1 DEF IInv, LeftInv, Sent
  <2> QED
    BY <1>0, <1>1, <1>2, <2>1, <2>2, StepsAt DEF Budget
<1>7. CASE Resume(r) \/ Create(r)
  <2>1. PICK c, k, know : Opens(r, c, k, know)
    BY <1>7, ResumeFacts, CreateFacts DEF IInv
  <2>2. /\ job'[r].pc = "sending" /\ job'[r].left = job[r].left
        /\ job'[r].tries = job[r].tries /\ job'[r].rates = job[r].rates
    BY <2>1, OpensFacts DEF IInv
  <2>3. job[r].pc \in {"entered", "rebuild"}
    BY <2>1 DEF Opens, Preparing
  <2> QED
    BY <1>0, <1>1, <1>2, <2>2, <2>3, StepsAt DEF Budget
<1>8. CASE TryReduced(r)
  <2>1. /\ job[r].pc = "reducing" /\ job'[r].pc = "reduced"
        /\ job'[r].tried = job[r].tried + 1
    BY <1>8, TryReducedFacts DEF IInv
  <2> QED
    BY <1>0, <1>1, <2>1, StepsAt
<1>9. CASE Quiet
  BY <1>9 DEF Quiet, Revive, Expire, Unstick, vars
<1> QED
  BY <1>3, <1>4, <1>5, <1>6, <1>7, <1>8, <1>9, StepCases

-------------------------------------------------------------------------------
(* Theorems *)

\* The invariant holds at the start.
LEMMA Initially == Init => IInv
<1> SUFFICES ASSUME Init PROVE IInv
  OBVIOUS
<1> USE Names DEF Init
<1>1. TypeOK
  <2>1. job \in [Requests -> Job]
    BY NoJobType
  <2>2. branch \in [Chats -> SUBSET Turns] /\ reg \in [Accounts -> [Keys -> 0 .. MaxChats]]
    OBVIOUS
  <2>3. /\ aff \in [Keys -> Accounts \cup {0}] /\ broken \in [Accounts -> BOOLEAN]
        /\ holder \in [Accounts -> Requests \cup {NoReq}]
    OBVIOUS
  <2>4. turns \in Turns /\ answered \subseteq Turns /\ mine \in Keys \cup {NoKey}
        /\ chats \in 0 .. MaxChats
    BY DEF Keys
  <2> QED
    BY <2>1, <2>2, <2>3, <2>4 DEF TypeOK
<1>2. LockInv /\ ChatInv /\ PromptInv /\ LeftInv
  BY DEF LockInv, ChatInv, PromptInv, LeftInv, NoJob, Sent
<1>3. OwnerInv /\ BranchInv
  BY DEF OwnerInv, BranchInv, NoJob, Sent
<1> QED
  BY <1>1, <1>2, <1>3 DEF IInv

\* Every step keeps the invariant, part by part.
LEMMA Inductive == IInv /\ [Next]_vars => IInv'
BY TypeStep, LockStep, ChatStep, PromptStep, LeftStep, OwnerStep, BranchStep DEF IInv

\* The invariant the other theorems follow from.
THEOREM Invariance == Spec => []IInv
BY Initially, Inductive, PTL DEF Spec

\* Types: in particular no counter of attempts passes its limit (api/retry.py).
THEOREM TypeCorrect == Spec => []TypeOK
<1>1. IInv => TypeOK
  BY DEF IInv
<1> QED
  BY Invariance, <1>1, PTL

\* A prompt with only the latest messages goes to a chat that existed when it was built,
\* although the account's lock is taken, and the session looked up, long after
\* (_acquire_and_build, _prepare_session).
THEOREM DeltaPromptsFit == Spec => []DeltaGoesToKnownChat
<1>1. IInv => DeltaGoesToKnownChat
  BY DEF IInv, PromptInv, DeltaGoesToKnownChat
<1> QED
  BY Invariance, <1>1, PTL

\* A request that left a stale chat never sends it anything again: the session id is not
\* registered anew before the request has another chat (_drop_session, stale_rebuilt).
THEOREM StaleChatsAreLeft == Spec => []StaleChatIsLeft
<1>1. IInv => StaleChatIsLeft
  BY DEF IInv, LeftInv, Sent, StaleChatIsLeft
<1> QED
  BY Invariance, <1>1, PTL

\* A chat is sent one prompt at a time: it belongs to one account, and the account's lock
\* is held from the look-up of the session to the answer (account_lock).
THEOREM PromptsTakeTurns == Spec => []OnePromptAtATime
<1>1. IInv => OnePromptAtATime
  BY OneChatEach DEF IInv, Sent, OnePromptAtATime
<1> QED
  BY Invariance, <1>1, PTL

\* A commit puts back the parent of its prompt and more, so a branch loses no turn.
LEMMA GrowStep == IInv /\ [Next]_vars => \A c \in Chats : branch[c] \subseteq branch'[c]
<1> SUFFICES ASSUME IInv, [Next]_vars PROVE \A c \in Chats : branch[c] \subseteq branch'[c]
  OBVIOUS
<1>1. ASSUME NEW r \in Requests, Answers(r)
      PROVE  \A c \in Chats : branch[c] \subseteq branch'[c]
  BY <1>1, AnswerBranch DEF IInv
<1>2. CASE ~ \E r \in Requests : Answers(r)
  BY <1>2, BranchKept, StepCases
<1> QED
  BY <1>1, <1>2

\* Nothing that a chat was told leaves its branch: no request answers below a message
\* that another one has moved past (parent_message_id, touch_last_message).
THEOREM BranchesOnlyGrow == Spec => BranchGrows
BY Invariance, GrowStep, PTL DEF Spec, BranchGrows

\* Progress, for all requests.
LEMMA ProgressStep ==
  IInv /\ [Next]_vars =>
    \A r \in Requests :
      job[r].pc # "idle" /\ job'[r] # job[r] => Steps(job'[r]) < Steps(job[r])
BY Progress

\* Every step of a request leaves it fewer steps to go, so no request goes on for ever,
\* whatever the upstream answers (retries, rebuild, continuations, reduced prompts).
THEOREM StepsRunOut == Spec => EveryStepIsProgress
BY Invariance, ProgressStep, PTL DEF Spec, EveryStepIsProgress
===============================================================================
