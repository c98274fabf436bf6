---------------------------- MODULE ProviderProofs ----------------------------
(***************************************************************************)
(* Proofs about what the providers keep between requests: the socket of    *)
(* Alice, the answers of Mistral and Duck, the chats of Qwen, and the      *)
(* usage that all of them count, for any requests and any bounds.          *)
(***************************************************************************)
EXTENDS AliceSocket, RetriedAnswers, CountedTurns, PrefixFacts, TLAPS

-------------------------------------------------------------------------------
(* Alice *)

AliceOutcome ==
  [kind : {"none", "failed", "cancelled"}] \cup [kind : {"answered"}, of : Prompts, own : Prompts, owing : BOOLEAN]
AskType ==
  [n : 0 .. MaxAsks, pc : {"idle", "connect", "send", "wait"}, attempt : 0 .. Retries, step : 0 .. Continuations]

\* The types, with queues as sequences; there is an exchange while an ask waits, and only then.
AliceTypeInv ==
  /\ ws \in {"none", "open", "dead"}
  /\ IF ask.pc = "wait"
       THEN /\ exchange \in Seq(Seq(Frames)) /\ Len(exchange) = 1 /\ Len(exchange[1]) <= Backlog
       ELSE exchange = <<>>
  /\ owed \in Seq(Prompts)
  /\ ask \in AskType /\ (ask.pc # "idle" => ask.n # 0)
  /\ outcome \in [1 .. MaxAsks -> AliceOutcome]

CurrentAsk == <<ask.n, ask.attempt>>

\* one of the first m asks left the server owing an answer
DirtyUpTo(m) == \E n \in 1 .. m : LostAsk(n)

\* a prompt of an ask before, which left the socket to the asks after it
OldFrame(of) == DirtyUpTo(of[1]) /\ (of[1] < ask.n \/ (ask.pc = "idle" /\ of[1] = ask.n))

\* Whatever the server may still answer, and every answer that waits, is for the prompt of this
\* attempt, or for one that was left behind.
OriginInv ==
  /\ \A i \in DOMAIN owed : OldFrame(owed[i]) \/ (ask.pc = "wait" /\ owed[i] = CurrentAsk)
  /\ ask.pc = "wait" => \A i \in DOMAIN exchange[1] :
       exchange[1][i].kind \in Content => OldFrame(exchange[1][i].of) \/ exchange[1][i].of = CurrentAsk

\* Nothing became yet of an ask that is under way or to come.
OutcomeInv == \A n \in 1 .. MaxAsks : n > ask.n \/ (n = ask.n /\ ask.pc # "idle") => outcome[n].kind = "none"

AliceInv == AliceTypeInv /\ OriginInv /\ OutcomeInv /\ AnswerIsOwn

-------------------------------------------------------------------------------
(* Queues, asks and outcomes *)

\* An exchange of one queue.
LEMMA OneQueue ==
  /\ AliceTypeInv /\ ask.pc = "wait" => exchange = <<exchange[1]>> /\ exchange[1] \in Seq(Frames)
  /\ \A q \in Seq(Frames) : <<q>> \in Seq(Seq(Frames)) /\ Len(<<q>>) = 1 /\ <<q>>[1] = q
  BY DEF AliceTypeInv

\* The number of an ask that is under way, and that of a prompt, name an outcome.
LEMMA AliceNumbers ==
  /\ MaxAsks \in Nat /\ Retries \in Nat /\ Continuations \in Nat /\ Backlog \in Nat
  /\ AliceTypeInv => /\ ask.n \in 0 .. MaxAsks /\ ask.attempt \in 0 .. Retries /\ ask.step \in 0 .. Continuations
                     /\ ask.pc \in {"idle", "connect", "send", "wait"}
                     /\ ask.pc # "idle" => ask.n \in 1 .. MaxAsks /\ CurrentAsk \in Prompts /\ CurrentAsk[1] = ask.n
  /\ \A p \in Prompts : p[1] \in 1 .. MaxAsks /\ p[1] \in Nat
<1>1. MaxAsks \in Nat /\ Retries \in Nat /\ Continuations \in Nat /\ Backlog \in Nat
  BY AliceAssumption
<1>2. ASSUME AliceTypeInv
      PROVE  /\ ask.n \in 0 .. MaxAsks /\ ask.attempt \in 0 .. Retries /\ ask.step \in 0 .. Continuations
             /\ ask.pc \in {"idle", "connect", "send", "wait"}
             /\ ask.pc # "idle" => ask.n \in 1 .. MaxAsks
  BY <1>1, <1>2 DEF AliceTypeInv, AskType
<1>3. AliceTypeInv /\ ask.pc # "idle" => CurrentAsk \in Prompts /\ CurrentAsk[1] = ask.n
  BY <1>2 DEF CurrentAsk, Prompts
<1>4. \A p \in Prompts : p[1] \in 1 .. MaxAsks /\ p[1] \in Nat
  BY <1>1 DEF Prompts
<1> QED
  BY <1>1, <1>2, <1>3, <1>4

\* What spoiled an ask spoils those after it.
LEMMA DirtyLater ==
  ASSUME NEW k \in Nat, NEW m \in Nat, k <= m, DirtyUpTo(k)
  PROVE  DirtyUpTo(m)
  BY DEF DirtyUpTo

\* The ask under way comes to an end: the outcomes of the others stay.
LEMMA Outcomes ==
  ASSUME AliceInv, ask.pc # "idle", NEW result \in AliceOutcome, outcome' = [outcome EXCEPT ![ask.n] = result]
  PROVE  /\ outcome' \in [1 .. MaxAsks -> AliceOutcome] /\ outcome'[ask.n] = result
         /\ \A m \in 1 .. MaxAsks : m # ask.n => outcome'[m] = outcome[m]
         /\ \A m \in 0 .. MaxAsks : DirtyUpTo(m) => DirtyUpTo(m)'
<1>1. ask.n \in 1 .. MaxAsks /\ outcome[ask.n].kind = "none"
  BY AliceNumbers DEF AliceInv, OutcomeInv
<1>2. /\ outcome' \in [1 .. MaxAsks -> AliceOutcome] /\ outcome'[ask.n] = result
      /\ \A m \in 1 .. MaxAsks : m # ask.n => outcome'[m] = outcome[m]
  BY <1>1 DEF AliceInv, AliceTypeInv
<1>3. ASSUME NEW m \in 0 .. MaxAsks, DirtyUpTo(m) PROVE DirtyUpTo(m)'
  <2>1. PICK n \in 1 .. m : LostAsk(n)
    BY <1>3 DEF DirtyUpTo
  <2>2. n \in 1 .. MaxAsks /\ n # ask.n
    BY <1>1, <2>1, AliceNumbers DEF LostAsk
  <2>3. LostAsk(n)'
    BY <1>2, <2>1, <2>2 DEF LostAsk
  <2> QED
    BY <2>3 DEF DirtyUpTo
<1> QED
  BY <1>2, <1>3

\* Nothing that was answered becomes wrong.
LEMMA AnswersStay ==
  ASSUME AliceInv, ask.pc # "idle", NEW result \in AliceOutcome, outcome' = [outcome EXCEPT ![ask.n] = result],
         result.kind # "answered"
  PROVE  AnswerIsOwn'
<1> SUFFICES ASSUME NEW n \in 1 .. MaxAsks, outcome'[n].kind = "answered"
             PROVE  \/ outcome'[n].of = outcome'[n].own
                    \/ outcome'[n].of[1] < n /\ \E p \in 1 .. outcome'[n].of[1] : LostAsk(p)'
  BY DEF AnswerIsOwn, LostAsk
<1>1. outcome'[n] = outcome[n]
  BY Outcomes
<1>2. outcome[n].of \in Prompts
  <2>1. outcome[n] \in AliceOutcome /\ outcome[n].kind = "answered"
    BY <1>1 DEF AliceInv, AliceTypeInv
  <2> QED
    BY <2>1 DEF AliceOutcome
<1>3. outcome[n].of = outcome[n].own \/ (outcome[n].of[1] < n /\ DirtyUpTo(outcome[n].of[1]))
  BY <1>1 DEF AliceInv, AnswerIsOwn, DirtyUpTo, LostAsk
<1>4. outcome[n].of[1] \in 0 .. MaxAsks
  BY <1>2, AliceNumbers
<1>5. \A m \in 0 .. MaxAsks : DirtyUpTo(m) => DirtyUpTo(m)'
  BY Outcomes
<1>6. DirtyUpTo(outcome[n].of[1]) => \E p \in 1 .. outcome[n].of[1] : LostAsk(p)'
  <2>1. ASSUME NEW m \in 0 .. MaxAsks, DirtyUpTo(m) PROVE \E p \in 1 .. m : LostAsk(p)'
    BY <1>5, <2>1 DEF DirtyUpTo
  <2> QED
    BY <1>4, <2>1
<1> QED
  BY <1>1, <1>3, <1>6

-------------------------------------------------------------------------------
(* How an ask ends or starts again *)

\* An ask that fails for good or is cancelled leaves what is owed to those after it.
LEMMA LostKeeps ==
  ASSUME AliceInv, ask.pc # "idle", NEW result \in [kind : {"failed", "cancelled"}], Over(result),
         exchange' = <<>>, owed' = owed \/ owed' = <<>>, ws' \in {"none", "open", "dead"}
  PROVE  AliceInv'
<1>0. PICK n \in 1 .. MaxAsks : n = ask.n
  BY AliceNumbers DEF AliceInv
<1>1. result \in AliceOutcome /\ result.kind # "answered" /\ result.kind \in {"failed", "cancelled"}
  BY DEF AliceOutcome
<1>2. outcome' = [outcome EXCEPT ![ask.n] = result]
  BY DEF Over
<1>3. /\ outcome' \in [1 .. MaxAsks -> AliceOutcome] /\ outcome'[n] = result
      /\ \A m \in 1 .. MaxAsks : m # n => outcome'[m] = outcome[m]
      /\ \A m \in 0 .. MaxAsks : DirtyUpTo(m) => DirtyUpTo(m)'
  BY <1>0, <1>1, <1>2, Outcomes
<1>4. AnswerIsOwn'
  BY <1>1, <1>2, AnswersStay
<1>5. ask \in AskType
  BY DEF AliceInv, AliceTypeInv
<1>6. ask' \in AskType /\ ask'.pc = "idle" /\ ask'.n = n
  BY <1>0, <1>5 DEF Over, AskType
<1>7. owed' \in Seq(Prompts) /\ \A i \in DOMAIN owed' : i \in DOMAIN owed /\ owed'[i] = owed[i] /\ owed[i] \in Prompts
  <2>1. owed \in Seq(Prompts)
    BY DEF AliceInv, AliceTypeInv
  <2>2. CASE owed' = <<>>
    BY <2>2
  <2>3. CASE owed' = owed
    BY <2>1, <2>3
  <2> QED
    BY <2>2, <2>3
<1>8. AliceTypeInv'
  BY <1>3, <1>6, <1>7 DEF AliceTypeInv
<1>9. DirtyUpTo(n)'
  <2>1. LostAsk(n)' /\ n \in 1 .. n
    BY <1>1, <1>3 DEF LostAsk
  <2> QED
    BY <2>1 DEF DirtyUpTo
<1>10. OriginInv'
  <2> SUFFICES ASSUME NEW i \in DOMAIN owed' PROVE OldFrame(owed[i])'
    BY <1>6 DEF OriginInv
  <2>1. PICK p \in Prompts : p = owed[i] /\ owed'[i] = p
    BY <1>7
  <2>2. p[1] \in 0 .. MaxAsks /\ p[1] \in Nat
    BY AliceNumbers
  <2>3. (DirtyUpTo(p[1]) /\ p[1] < n) \/ p[1] = n
    BY <1>0, <1>7, <2>1 DEF AliceInv, OriginInv, OldFrame, CurrentAsk
  <2>4. DirtyUpTo(p[1])' /\ (p[1] < n \/ p[1] = n)
    BY <1>3, <1>9, <2>2, <2>3
  <2>5. \E m \in 1 .. p[1] : LostAsk(m)'
    BY <2>4 DEF DirtyUpTo
  <2> QED
    BY <1>6, <2>1, <2>4, <2>5 DEF OldFrame, DirtyUpTo
<1>11. OutcomeInv'
  BY <1>0, <1>3, <1>6 DEF OutcomeInv, AliceInv
<1> QED
  BY <1>4, <1>8, <1>10, <1>11 DEF AliceInv

\* A new attempt has a socket of its own.
LEMMA RetryKeeps ==
  ASSUME AliceInv, ask.pc # "idle", ask.attempt < Retries, Retry, exchange' = <<>>
  PROVE  AliceInv'
<1>1. /\ ws' = "none" /\ owed' = <<>> /\ outcome' = outcome
      /\ ask' = [ask EXCEPT !.pc = "connect", !.attempt = ask.attempt + 1, !.step = 0]
  BY DEF Retry
<1>2. ask \in AskType /\ ask.n # 0
  BY DEF AliceInv, AliceTypeInv
<1>3. ask.attempt + 1 \in 0 .. Retries /\ 0 \in 0 .. Continuations
  BY AliceNumbers DEF AliceInv
<1>4. ask' \in AskType /\ ask'.pc = "connect" /\ ask'.n = ask.n
  BY <1>1, <1>2, <1>3 DEF AskType
<1>5. AliceTypeInv'
  BY <1>1, <1>2, <1>4 DEF AliceTypeInv, AliceInv
<1>6. OriginInv'
  BY <1>1, <1>4 DEF OriginInv
<1>7. OutcomeInv' /\ AnswerIsOwn'
  BY <1>1, <1>4 DEF OutcomeInv, AnswerIsOwn, LostAsk, AliceInv
<1> QED
  BY <1>5, <1>6, <1>7 DEF AliceInv

\* An attempt fails: another one, or the end.
LEMMA FailsKeeps ==
  ASSUME AliceInv, ask.pc # "idle", NEW retryable, Fails(retryable)
  PROVE  AliceInv'
<1>1. CASE retryable /\ ask.attempt < Retries
  BY <1>1, RetryKeeps DEF Fails
<1>2. CASE ~(retryable /\ ask.attempt < Retries)
  <2>1. Over([kind |-> "failed"]) /\ UNCHANGED <<ws, owed>> /\ exchange' = <<>>
    BY <1>2 DEF Fails
  <2>2. ws' \in {"none", "open", "dead"}
    BY <2>1 DEF AliceInv, AliceTypeInv
  <2> QED
    BY <2>1, <2>2, LostKeeps
<1> QED
  BY <1>1, <1>2

-------------------------------------------------------------------------------
(* The steps of an ask *)

\* An ask begins: what is owed is of those before.
LEMMA AskStep ==
  ASSUME AliceInv, Ask
  PROVE  AliceInv'
<1>1. /\ ask.pc = "idle" /\ ask.n < MaxAsks /\ ask' = [n |-> ask.n + 1, pc |-> "connect", attempt |-> 0, step |-> 0]
      /\ UNCHANGED <<ws, exchange, owed, outcome>>
  BY DEF Ask
<1>2. ask.n \in 0 .. MaxAsks /\ 0 \in 0 .. Retries /\ 0 \in 0 .. Continuations
  BY AliceNumbers DEF AliceInv
<1>3. ask' \in AskType /\ ask'.n = ask.n + 1 /\ ask'.pc = "connect" /\ ask'.n # 0
  BY <1>1, <1>2, AliceNumbers DEF AskType
<1>4. AliceTypeInv'
  BY <1>1, <1>3 DEF AliceTypeInv, AliceInv
<1>5. OriginInv'
  <2> SUFFICES ASSUME NEW i \in DOMAIN owed PROVE OldFrame(owed[i])'
    BY <1>1, <1>3 DEF OriginInv
  <2>1. owed[i] \in Prompts /\ OldFrame(owed[i])
    BY <1>1 DEF AliceInv, AliceTypeInv, OriginInv
  <2>2. owed[i][1] \in Nat
    BY <2>1, AliceNumbers
  <2> QED
    BY <1>1, <1>2, <1>3, <2>1, <2>2 DEF OldFrame, DirtyUpTo, LostAsk
<1>6. AnswerIsOwn'
  BY <1>1, <1>3 DEF AnswerIsOwn, LostAsk, AliceInv
<1>7. OutcomeInv'
  BY <1>1, <1>2, <1>3 DEF OutcomeInv, AliceInv
<1> QED
  BY <1>4, <1>5, <1>6, <1>7 DEF AliceInv

\* _ensure_connected: the open socket with what is owed on it, a new one, or none.
LEMMA ConnectStep ==
  ASSUME AliceInv, NEW ok \in BOOLEAN, Connect(ok)
  PROVE  AliceInv'
<1>1. ask.pc = "connect" /\ ask \in AskType /\ ask.n # 0 /\ exchange = <<>>
  BY DEF Connect, AliceInv, AliceTypeInv
<1>2. ASSUME ask' = [ask EXCEPT !.pc = "send"], exchange' = <<>>, owed' = owed \/ owed' = <<>>,
             ws' \in {"none", "open", "dead"}, UNCHANGED outcome
      PROVE  AliceInv'
  <2>1. ask' \in AskType /\ ask'.n = ask.n /\ ask'.pc = "send"
    BY <1>1, <1>2 DEF AskType
  <2>2. AliceTypeInv'
    <3>1. owed' \in Seq(Prompts)
      <4>1. owed \in Seq(Prompts) /\ <<>> \in Seq(Prompts)
        BY DEF AliceTypeInv, AliceInv
      <4> QED
        BY <1>2, <4>1, Zenon
    <3> QED
      BY <1>2, <2>1, <1>1, <3>1 DEF AliceTypeInv, AliceInv
  <2>3. OriginInv'
    <3>1. CASE owed' = <<>>
      BY <2>1, <3>1 DEF OriginInv
    <3>2. CASE owed' = owed
      <4> SUFFICES ASSUME NEW i \in DOMAIN owed PROVE OldFrame(owed[i])'
        BY <2>1, <3>2 DEF OriginInv
      <4>1. OldFrame(owed[i])
        BY <1>1 DEF AliceInv, OriginInv
      <4> QED
        BY <1>1, <1>2, <2>1, <3>2, <4>1 DEF OldFrame, DirtyUpTo, LostAsk
    <3> QED
      BY <1>2, <3>1, <3>2
  <2>4. AnswerIsOwn' /\ OutcomeInv'
    BY <1>1, <1>2, <2>1 DEF AnswerIsOwn, LostAsk, OutcomeInv, AliceInv
  <2> QED
    BY <2>2, <2>3, <2>4 DEF AliceInv
<1>3. CASE ws = "open"
  BY <1>1, <1>2, <1>3 DEF Connect
<1>4. CASE ws # "open" /\ ok
  BY <1>1, <1>2, <1>4 DEF Connect
<1>5. CASE ws # "open" /\ ~ok
  <2>1. /\ ws' = "none" /\ owed' = <<>> /\ exchange' = <<>>
        /\ IF ask.attempt < Retries THEN Retry ELSE Over([kind |-> "failed"])
    BY <1>5 DEF Connect
  <2> QED
    BY <1>1, <2>1, RetryKeeps, LostKeeps
<1> QED
  BY <1>3, <1>4, <1>5

\* A prompt is sent: what else is owed was left behind.
LEMMA SendStep ==
  ASSUME AliceInv, Send
  PROVE  AliceInv'
<1>1. ask.pc = "send" /\ ask \in AskType /\ ask.n # 0 /\ exchange = <<>> /\ owed \in Seq(Prompts)
  BY DEF Send, AliceInv, AliceTypeInv
<1>2. CASE ws # "open"
  BY <1>1, <1>2, FailsKeeps DEF Send
<1>3. CASE ws = "open"
  <2>1. /\ exchange' = <<<<>>>> /\ owed' = Append(owed, CurrentAsk)
        /\ ask' = [ask EXCEPT !.pc = "wait"] /\ UNCHANGED <<ws, outcome>>
    BY <1>3 DEF Send, CurrentAsk
  <2>2. ask' \in AskType /\ ask'.n = ask.n /\ ask'.attempt = ask.attempt /\ ask'.pc = "wait"
    BY <1>1, <2>1 DEF AskType
  <2>3. CurrentAsk' = CurrentAsk /\ CurrentAsk \in Prompts
    BY <1>1, <2>2, AliceNumbers DEF AliceInv, CurrentAsk
  <2>4. exchange' \in Seq(Seq(Frames)) /\ Len(exchange') = 1 /\ exchange'[1] = <<>> /\ Len(exchange'[1]) <= Backlog
    <3>1. <<>> \in Seq(Frames) /\ Len(<<>>) = 0
      OBVIOUS
    <3> QED
      BY <2>1, <3>1, OneQueue, AliceNumbers
  <2>5. AliceTypeInv'
    BY <1>1, <2>1, <2>2, <2>3, <2>4 DEF AliceTypeInv, AliceInv
  <2>6. ASSUME NEW i \in DOMAIN owed PROVE OldFrame(owed[i]) /\ owed[i] \in Prompts
    BY <1>1, <2>6 DEF AliceInv, OriginInv
  <2>7. OriginInv'
    <3>1. ASSUME NEW i \in DOMAIN owed' PROVE OldFrame(owed[i])' \/ owed'[i] = CurrentAsk'
      <4>1. (i \in DOMAIN owed /\ owed'[i] = owed[i]) \/ owed'[i] = CurrentAsk
        BY <1>1, <2>1, <2>3
      <4>2. CASE i \in DOMAIN owed /\ owed'[i] = owed[i]
        BY <1>1, <2>1, <2>2, <2>6, <4>2 DEF OldFrame, DirtyUpTo, LostAsk
      <4> QED
        BY <2>3, <4>1, <4>2
    <3> QED
      BY <2>2, <2>4, <3>1 DEF OriginInv
  <2>8. AnswerIsOwn' /\ OutcomeInv'
    BY <1>1, <2>1, <2>2 DEF AnswerIsOwn, LostAsk, OutcomeInv, AliceInv
  <2> QED
    BY <2>5, <2>7, <2>8 DEF AliceInv
<1> QED
  BY <1>2, <1>3

-------------------------------------------------------------------------------
(* A frame is taken *)

\* The first frame of the exchange and those behind it.
LEMMA FirstFrame ==
  ASSUME AliceInv, ask.pc = "wait", exchange[1] # <<>>
  PROVE  /\ Head(exchange[1]) = exchange[1][1] /\ Head(exchange[1]) \in Frames /\ 1 \in DOMAIN exchange[1]
         /\ Tail(exchange[1]) \in Seq(Frames) /\ Len(Tail(exchange[1])) <= Backlog
         /\ \A i \in DOMAIN Tail(exchange[1]) :
              i # 0 /\ i + 1 # 1 /\ i + 1 \in DOMAIN exchange[1] /\ Tail(exchange[1])[i] = exchange[1][i + 1]
<1> DEFINE q == exchange[1]
<1>1. q \in Seq(Frames) /\ Len(q) <= Backlog /\ q # <<>>
  BY OneQueue DEF AliceInv, AliceTypeInv
<1>2. Len(q) \in Nat /\ Len(q) # 0 /\ DOMAIN q = 1 .. Len(q) /\ Backlog \in Nat
  BY <1>1, AliceNumbers
<1> HIDE DEF q
<1>3. Head(q) = q[1] /\ q[1] \in Frames /\ 1 \in DOMAIN q
  BY <1>1, <1>2
<1>4. Tail(q) \in Seq(Frames) /\ Len(Tail(q)) = Len(q) - 1 /\ Len(Tail(q)) <= Backlog
  BY <1>1, <1>2
<1>5. \A i \in DOMAIN Tail(q) : i # 0 /\ i + 1 # 1 /\ i + 1 \in DOMAIN q /\ Tail(q)[i] = q[i + 1]
  BY <1>1, <1>2, <1>4
<1> QED
  BY <1>3, <1>4, <1>5 DEF q

\* An answer in the exchange is to the prompt of this attempt, or to one that was left behind.
LEMMA Origin ==
  ASSUME AliceInv, ask.pc = "wait", NEW i \in DOMAIN exchange[1], exchange[1][i].kind \in Content
  PROVE  /\ exchange[1][i].of \in Prompts
         /\ OldFrame(exchange[1][i].of) \/ exchange[1][i].of = CurrentAsk
<1>1. exchange[1][i] \in Frames
  BY OneQueue DEF AliceInv
<1>2. PICK of \in Prompts \cup {<<0, 0>>} : of = exchange[1][i].of
  BY <1>1 DEF Frames
<1>3. OldFrame(of) \/ of = CurrentAsk
  BY <1>2 DEF AliceInv, OriginInv
<1>4. CurrentAsk \in Prompts
  BY AliceNumbers DEF AliceInv
<1>5. ~OldFrame(<<0, 0>>)
  BY DEF OldFrame, DirtyUpTo
<1> QED
  BY <1>2, <1>3, <1>4, <1>5

\* The text of an answer ends the ask.
LEMMA AnsweredKeeps ==
  ASSUME AliceInv, ask.pc = "wait", exchange[1] # <<>>, Head(exchange[1]).kind = "text", exchange' = <<>>,
         Over([kind |-> "answered", of |-> Head(exchange[1]).of, own |-> CurrentAsk, owing |-> owed # <<>>]),
         UNCHANGED <<ws, owed>>
  PROVE  AliceInv'
<1>1. PICK n \in 1 .. MaxAsks : n = ask.n
  BY AliceNumbers DEF AliceInv
<1>2. PICK of \in Prompts : of = Head(exchange[1]).of /\ (OldFrame(of) \/ of = CurrentAsk)
  BY FirstFrame, Origin DEF Content
<1>3. PICK own \in Prompts : own = CurrentAsk /\ own[1] = n
  BY <1>1, AliceNumbers DEF AliceInv
<1>4. PICK result \in AliceOutcome : result = [kind |-> "answered", of |-> of, own |-> own, owing |-> owed # <<>>]
  BY DEF AliceOutcome
<1>5. outcome' = [outcome EXCEPT ![ask.n] = result] /\ ask' = [ask EXCEPT !.pc = "idle"]
  BY <1>2, <1>3, <1>4 DEF Over
<1>6. /\ outcome' \in [1 .. MaxAsks -> AliceOutcome] /\ outcome'[n] = result
      /\ \A m \in 1 .. MaxAsks : m # n => outcome'[m] = outcome[m]
      /\ \A m \in 0 .. MaxAsks : DirtyUpTo(m) => DirtyUpTo(m)'
  BY <1>1, <1>5, Outcomes
<1>7. ask \in AskType /\ owed \in Seq(Prompts)
  BY DEF AliceInv, AliceTypeInv
<1>8. ask' \in AskType /\ ask'.pc = "idle" /\ ask'.n = n
  BY <1>1, <1>5, <1>7 DEF AskType
<1>9. AliceTypeInv'
  BY <1>6, <1>7, <1>8 DEF AliceTypeInv, AliceInv
<1>10. OriginInv'
  <2> SUFFICES ASSUME NEW i \in DOMAIN owed PROVE OldFrame(owed[i])'
    BY <1>8 DEF OriginInv
  <2>1. PICK p \in Prompts : p = owed[i] /\ (OldFrame(p) \/ p = CurrentAsk)
    BY <1>7 DEF AliceInv, OriginInv
  <2>2. p[1] \in 0 .. MaxAsks /\ p[1] \in Nat
    BY AliceNumbers
  <2>3. owed # <<>>
    BY <1>7
  <2>4. LostAsk(n)'
    <3>1. result.kind = "answered" /\ result.owing = (owed # <<>>)
      BY <1>4
    <3>2. result.owing
      BY <2>3, <3>1, Zenon
    <3>3. outcome'[n].kind = "answered" /\ outcome'[n].owing
      BY <1>6, <3>1, <3>2, Zenon
    <3> QED
      BY <3>3 DEF LostAsk
  <2>5. (DirtyUpTo(p[1]) /\ p[1] < n) \/ p[1] = n
    BY <1>1, <1>3, <2>1 DEF OldFrame
  <2>6. \E m \in 1 .. p[1] : LostAsk(m)'
    BY <1>6, <2>2, <2>4, <2>5 DEF DirtyUpTo
  <2> QED
    BY <1>8, <2>1, <2>5, <2>6 DEF OldFrame, DirtyUpTo
<1>11. OutcomeInv'
  BY <1>1, <1>6, <1>8 DEF OutcomeInv, AliceInv
<1>12. AnswerIsOwn'
  <2> SUFFICES ASSUME NEW m \in 1 .. MaxAsks, outcome'[m].kind = "answered"
               PROVE  \/ outcome'[m].of = outcome'[m].own
                      \/ outcome'[m].of[1] < m /\ \E p \in 1 .. outcome'[m].of[1] : LostAsk(p)'
    BY DEF AnswerIsOwn, LostAsk
  <2>1. CASE m = n
    <3>1. outcome'[m].of = of /\ outcome'[m].own = own
      BY <1>4, <1>6, <2>1
    <3>2. of = own \/ (of[1] < n /\ DirtyUpTo(of[1]))
      BY <1>1, <1>2, <1>3 DEF OldFrame
    <3>3. of[1] \in 0 .. MaxAsks
      BY AliceNumbers
    <3>4. of = own \/ (of[1] < n /\ \E p \in 1 .. of[1] : LostAsk(p)')
      BY <1>6, <3>2, <3>3 DEF DirtyUpTo
    <3> QED
      BY <2>1, <3>1, <3>4
  <2>2. CASE m # n
    <3>1. outcome'[m] = outcome[m] /\ outcome[m] \in AliceOutcome /\ outcome[m].kind = "answered"
      BY <1>6, <2>2 DEF AliceInv, AliceTypeInv
    <3>2. PICK a \in Prompts : a = outcome[m].of
      BY <3>1 DEF AliceOutcome
    <3>3. a = outcome[m].own \/ (a[1] < m /\ DirtyUpTo(a[1]))
      BY <3>1, <3>2 DEF AliceInv, AnswerIsOwn, DirtyUpTo, LostAsk
    <3>4. a[1] \in 0 .. MaxAsks
      BY AliceNumbers
    <3>5. a = outcome[m].own \/ (a[1] < m /\ \E p \in 1 .. a[1] : LostAsk(p)')
      BY <1>6, <3>3, <3>4 DEF DirtyUpTo
    <3> QED
      BY <3>1, <3>2, <3>5
  <2> QED
    BY <2>1, <2>2
<1> QED
  BY <1>9, <1>10, <1>11, <1>12 DEF AliceInv

\* A placeholder, or a frame without a text, is taken and the rest of the answer asked for.
LEMMA ContinueKeeps ==
  ASSUME AliceInv, ask.pc = "wait", exchange[1] # <<>>,
         ask.step < Continuations, Continue(Tail(exchange[1]))
  PROVE  AliceInv'
<1>1. CASE ws # "open"
  BY <1>1, FailsKeeps DEF Continue
<1>2. CASE ws = "open"
  <2> DEFINE rest == Tail(exchange[1])
  <2>1. /\ owed' = Append(owed, CurrentAsk) /\ exchange' = <<rest>>
        /\ ask' = [ask EXCEPT !.step = ask.step + 1] /\ UNCHANGED <<ws, outcome>>
    BY <1>2 DEF Continue, CurrentAsk
  <2>2. ask \in AskType /\ ask.n # 0 /\ owed \in Seq(Prompts)
    BY DEF AliceInv, AliceTypeInv
  <2>3. ask.step + 1 \in 0 .. Continuations
    BY AliceNumbers DEF AliceInv
  <2>4. ask' \in AskType /\ ask'.n = ask.n /\ ask'.attempt = ask.attempt /\ ask'.pc = "wait"
    BY <2>1, <2>2, <2>3 DEF AskType
  <2>5. CurrentAsk' = CurrentAsk /\ CurrentAsk \in Prompts
    BY <2>4, AliceNumbers DEF AliceInv, CurrentAsk
  <2>6. /\ rest \in Seq(Frames) /\ Len(rest) <= Backlog
        /\ \A i \in DOMAIN rest : i + 1 \in DOMAIN exchange[1] /\ rest[i] = exchange[1][i + 1]
    BY FirstFrame
  <2>7. exchange' \in Seq(Seq(Frames)) /\ Len(exchange') = 1 /\ exchange'[1] = rest
    BY <2>1, <2>6, OneQueue
  <2> HIDE DEF rest
  <2>8. AliceTypeInv'
    BY <2>1, <2>2, <2>4, <2>5, <2>6, <2>7 DEF AliceTypeInv, AliceInv
  <2>9. \A p : OldFrame(p) => OldFrame(p)'
    BY <2>1, <2>4 DEF OldFrame, DirtyUpTo, LostAsk
  <2>10. OriginInv'
    <3>1. ASSUME NEW i \in DOMAIN owed' PROVE OldFrame(owed[i])' \/ owed'[i] = CurrentAsk'
      <4>1. (i \in DOMAIN owed /\ owed'[i] = owed[i]) \/ owed'[i] = CurrentAsk
        BY <2>1, <2>2, <2>5
      <4>2. CASE i \in DOMAIN owed /\ owed'[i] = owed[i]
        <5>1. PICK p \in Prompts : p = owed[i] /\ owed'[i] = p
          BY <2>2, <4>2
        <5>2. OldFrame(p) \/ p = CurrentAsk
          BY <4>2, <5>1 DEF AliceInv, OriginInv
        <5>3. OldFrame(p)' \/ p = CurrentAsk'
          BY <2>5, <2>9, <5>2
        <5> QED
          BY <5>1, <5>3 DEF OldFrame
      <4> QED
        BY <2>5, <4>1, <4>2
    <3>2. ASSUME NEW i \in DOMAIN exchange'[1], exchange'[1][i].kind \in Content
          PROVE  OldFrame(exchange[1][i].of)' \/ exchange'[1][i].of = CurrentAsk'
      <4>1. i + 1 \in DOMAIN exchange[1] /\ exchange'[1][i] = exchange[1][i + 1]
        BY <2>6, <2>7
      <4>2. PICK p : p = exchange'[1][i].of /\ p = exchange[1][i + 1].of
        BY <4>1
      <4>3. OldFrame(p) \/ p = CurrentAsk
        BY <3>2, <4>1, <4>2, Origin
      <4>4. OldFrame(p)' \/ p = CurrentAsk'
        BY <2>5, <2>9, <4>3
      <4> QED
        BY <4>2, <4>4 DEF OldFrame, DirtyUpTo
    <3> QED
      BY <2>4, <2>7, <3>1, <3>2 DEF OriginInv
  <2>11. AnswerIsOwn' /\ OutcomeInv'
    BY <2>1, <2>4 DEF AnswerIsOwn, LostAsk, OutcomeInv, AliceInv
  <2> QED
    BY <2>8, <2>10, <2>11 DEF AliceInv
<1> QED
  BY <1>1, <1>2

\* A round of _pump.
LEMMA TakeStep ==
  ASSUME AliceInv, Take
  PROVE  AliceInv'
<1> DEFINE frame == Head(exchange[1])
<1>1. ask.pc = "wait" /\ exchange[1] # <<>> /\ ask.step < Continuations
  BY DEF Take
<1>2. CASE frame.kind = "text"
  <2>1. /\ exchange' = <<>> /\ UNCHANGED <<ws, owed>>
        /\ Over([kind |-> "answered", of |-> frame.of, own |-> CurrentAsk, owing |-> owed # <<>>])
    BY <1>2 DEF Take, CurrentAsk
  <2> QED
    BY <1>1, <1>2, <2>1, AnsweredKeeps
<1>3. CASE frame.kind \in {"placeholder", "textless"}
  <2>1. Continue(Tail(exchange[1]))
    BY <1>3 DEF Take
  <2> QED
    BY <1>1, <1>3, <2>1, ContinueKeeps
<1>4. CASE frame.kind # "text" /\ frame.kind \notin {"placeholder", "textless"}
  <2>1. CASE frame.kind \in {"timeout refusal", "GoAway", "closed"}
    <3>1. Fails(TRUE)
      BY <1>4, <2>1 DEF Take, Fails
    <3> QED
      BY <1>1, <3>1, FailsKeeps
  <2>2. CASE frame.kind \notin {"timeout refusal", "GoAway", "closed"}
    <3>1. Fails(FALSE)
      BY <1>4, <2>2 DEF Take, Fails
    <3> QED
      BY <1>1, <3>1, FailsKeeps
  <2> QED
    BY <2>1, <2>2
<1> QED
  BY <1>2, <1>3, <1>4

\* The ask is cancelled, or waits too long.
LEMMA LeaveStep ==
  ASSUME AliceInv, TimeOut \/ \E opened \in BOOLEAN : AskCancelled(opened)
  PROVE  AliceInv'
<1>1. CASE TimeOut
  BY <1>1, FailsKeeps DEF TimeOut
<1>2. ASSUME NEW opened \in BOOLEAN, AskCancelled(opened) PROVE AliceInv'
  <2>1. ask.pc # "idle" /\ exchange' = <<>> /\ Over([kind |-> "cancelled"])
    BY <1>2 DEF AskCancelled
  <2>2. (owed' = owed \/ owed' = <<>>) /\ ws' \in {"none", "open", "dead"}
    BY <1>2 DEF AskCancelled, AliceInv, AliceTypeInv
  <2> QED
    BY <2>1, <2>2, LostKeeps
<1> QED
  BY <1>1, <1>2

-------------------------------------------------------------------------------
(* The server *)

\* Where a frame of the socket goes.
LEMMA RoutedFacts ==
  ASSUME AliceInv, NEW frame \in Frames, exchange' = Routed(frame)
  PROVE  /\ ask.pc # "wait" => exchange' = <<>>
         /\ ask.pc = "wait" =>
              /\ exchange' \in Seq(Seq(Frames)) /\ Len(exchange') = 1 /\ Len(exchange'[1]) <= Backlog
              /\ \A i \in DOMAIN exchange'[1] :
                   \/ i \in DOMAIN exchange[1] /\ exchange'[1][i] = exchange[1][i]
                   \/ i \notin DOMAIN exchange[1] /\ exchange'[1][i] = frame /\ \A j \in DOMAIN exchange'[1] : j \in DOMAIN exchange[1] \/ j = i
<1>1. CASE ask.pc # "wait"
  BY <1>1 DEF Routed, AliceInv, AliceTypeInv
<1>2. CASE ask.pc = "wait"
  <2> DEFINE q == exchange[1]
  <2>1. q \in Seq(Frames) /\ exchange = <<q>> /\ Len(q) <= Backlog
    BY <1>2, OneQueue DEF AliceInv, AliceTypeInv
  <2>2. exchange # <<>>
    <3>1. Len(exchange) = 1
      BY <1>2 DEF AliceInv, AliceTypeInv
    <3> QED
      BY <3>1, Len(<<>>) = 0
  <2> HIDE DEF q
  <2>3. CASE Len(q) < Backlog
    <3>1. exchange' = <<Append(q, frame)>>
      BY <2>2, <2>3 DEF Routed, q
    <3>2. Append(q, frame) \in Seq(Frames) /\ Len(Append(q, frame)) = Len(q) + 1 /\ Len(q) \in Nat /\ Backlog \in Nat
      BY <2>1, AliceNumbers
    <3>3. exchange' \in Seq(Seq(Frames)) /\ Len(exchange') = 1 /\ exchange'[1] = Append(q, frame) /\ Len(exchange'[1]) <= Backlog
      BY <2>3, <3>1, <3>2, OneQueue
    <3>4. ASSUME NEW i \in DOMAIN Append(q, frame)
          PROVE  \/ i \in DOMAIN q /\ Append(q, frame)[i] = q[i]
                 \/ i \notin DOMAIN q /\ Append(q, frame)[i] = frame /\ i = Len(q) + 1
      BY <2>1, <3>2
    <3>5. ASSUME NEW j \in DOMAIN Append(q, frame) PROVE j \in DOMAIN q \/ j = Len(q) + 1
      BY <2>1, <3>2
    <3> QED
      BY <1>2, <3>3, <3>4, <3>5 DEF q
  <2>4. CASE ~(Len(q) < Backlog)
    <3>1. exchange' = exchange
      BY <2>2, <2>4 DEF Routed, q
    <3> QED
      BY <1>2, <2>1, <3>1, OneQueue DEF q
  <2> QED
    BY <2>3, <2>4
<1> QED
  BY <1>1, <1>2

\* The server answers the first prompt that is owed, sends a frame of its own or closes: what
\* is on its way moves into the exchange or is dropped.
LEMMA ServerKeeps ==
  ASSUME AliceInv, NEW frame \in Frames, exchange' = Routed(frame), UNCHANGED <<ask, outcome>>,
         ws' \in {"none", "open", "dead"},
         \/ frame.kind \notin Content /\ (owed' = owed \/ owed' = <<>>)
         \/ frame.kind \in Content /\ owed # <<>> /\ frame.of = Head(owed) /\ owed' = Tail(owed)
  PROVE  AliceInv'
<1>1. owed \in Seq(Prompts)
  BY DEF AliceInv, AliceTypeInv
<1>2. \/ owed' = owed \/ owed' = <<>>
      \/ owed # <<>> /\ owed' = Tail(owed)
  OBVIOUS
<1>3. owed' \in Seq(Prompts) /\ \A i \in DOMAIN owed' : \E j \in DOMAIN owed : owed'[i] = owed[j]
  <2>1. CASE owed' = owed
    BY <1>1, <2>1
  <2>2. CASE owed' = <<>>
    BY <2>2
  <2>3. CASE owed # <<>> /\ owed' = Tail(owed)
    <3>1. /\ Tail(owed) \in Seq(Prompts)
          /\ \A i \in DOMAIN Tail(owed) : i + 1 \in DOMAIN owed /\ Tail(owed)[i] = owed[i + 1]
      BY <1>1, <2>3
    <3> QED
      BY <2>3, <3>1
  <2> QED
    BY <1>2, <2>1, <2>2, <2>3
<1>4. AliceTypeInv'
  BY <1>3, RoutedFacts DEF AliceTypeInv, AliceInv
<1>5. \A p : (OldFrame(p) => OldFrame(p)') /\ CurrentAsk' = CurrentAsk
  BY DEF OldFrame, DirtyUpTo, LostAsk, CurrentAsk
<1>6. ASSUME NEW j \in DOMAIN owed PROVE OldFrame(owed[j]) \/ (ask.pc = "wait" /\ owed[j] = CurrentAsk)
  BY DEF AliceInv, OriginInv
<1>7. OriginInv'
  <2>1. ASSUME NEW i \in DOMAIN owed' PROVE OldFrame(owed[i])' \/ (ask.pc = "wait" /\ owed'[i] = CurrentAsk')
    <3>1. PICK p : p = owed'[i] /\ (OldFrame(p) \/ (ask.pc = "wait" /\ p = CurrentAsk))
      BY <1>3, <1>6
    <3>2. OldFrame(p)' \/ (ask.pc = "wait" /\ p = CurrentAsk')
      BY <1>5, <3>1
    <3> QED
      BY <3>1, <3>2 DEF OldFrame, DirtyUpTo
  <2>2. ASSUME ask.pc = "wait", NEW i \in DOMAIN exchange'[1], exchange'[1][i].kind \in Content
        PROVE  OldFrame(exchange[1][i].of)' \/ exchange'[1][i].of = CurrentAsk'
    <3>1. PICK p : p = exchange'[1][i].of
      OBVIOUS
    <3>2. OldFrame(p) \/ p = CurrentAsk
      <4>1. CASE i \in DOMAIN exchange[1] /\ exchange'[1][i] = exchange[1][i]
        BY <2>2, <3>1, <4>1, Origin
      <4>2. CASE exchange'[1][i] = frame
        <5>1. 1 \in DOMAIN owed /\ p = owed[1]
          BY <1>1, <2>2, <3>1, <4>2
        <5> QED
          BY <1>6, <5>1
      <4> QED
        BY <2>2, <4>1, <4>2, RoutedFacts
    <3>3. OldFrame(p)' \/ p = CurrentAsk'
      BY <1>5, <3>2
    <3> QED
      BY <3>1, <3>3 DEF OldFrame, DirtyUpTo
  <2> QED
    BY <2>1, <2>2 DEF OriginInv
<1>8. AnswerIsOwn' /\ OutcomeInv'
  BY DEF AnswerIsOwn, LostAsk, OutcomeInv, AliceInv
<1> QED
  BY <1>4, <1>7, <1>8 DEF AliceInv

\* A frame of the server, or the end of the socket.
LEMMA ServerStep ==
  ASSUME AliceInv, Drop \/ (\E kind \in Content : Answer(kind)) \/ \E kind \in Unasked : Notice(kind)
  PROVE  AliceInv'
<1>1. ASSUME NEW kind \in Content, Answer(kind) PROVE AliceInv'
  <2>1. owed \in Seq(Prompts) /\ owed # <<>>
    BY <1>1 DEF Answer, AliceInv, AliceTypeInv
  <2>2. PICK frame \in Frames : frame = [kind |-> kind, of |-> Head(owed)]
    <3>1. Head(owed) \in Prompts
      BY <2>1
    <3> QED
      BY <3>1 DEF Frames
  <2>3. /\ owed' = Tail(owed) /\ exchange' = Routed(frame) /\ UNCHANGED <<ask, outcome>>
        /\ ws' \in {"none", "open", "dead"}
    BY <1>1, <2>2 DEF Answer
  <2> QED
    BY <2>1, <2>2, <2>3, ServerKeeps
<1>2. \A kind \in Unasked \cup {"closed"} : SystemFrame(kind) \in Frames /\ SystemFrame(kind).kind \notin Content
  BY DEF SystemFrame, Frames, Unasked, System, Content
<1>3. ASSUME NEW kind \in Unasked, Notice(kind) PROVE AliceInv'
  <2>1. exchange' = Routed(SystemFrame(kind)) /\ owed' = owed /\ UNCHANGED <<ask, outcome>> /\ ws' \in {"none", "open", "dead"}
    BY <1>3 DEF Notice
  <2> QED
    BY <1>2, <2>1, ServerKeeps
<1>4. CASE Drop
  <2>1. exchange' = Routed(SystemFrame("closed")) /\ owed' = <<>> /\ UNCHANGED <<ask, outcome>> /\ ws' \in {"none", "open", "dead"}
    BY <1>4 DEF Drop
  <2> QED
    BY <1>2, <2>1, ServerKeeps
<1> QED
  BY <1>1, <1>3, <1>4

-------------------------------------------------------------------------------
(* The theorems *)

\* The invariant holds at the start.
LEMMA AliceInitially == AliceInit => AliceInv
<1> SUFFICES ASSUME AliceInit PROVE AliceInv
  OBVIOUS
<1>1. ask \in AskType /\ ask.pc = "idle" /\ ask.n = 0
  BY AliceNumbers DEF AliceInit, AskType
<1>2. AliceTypeInv
  BY <1>1 DEF AliceInit, AliceTypeInv, AliceOutcome
<1>3. OriginInv
  BY <1>1 DEF AliceInit, OriginInv
<1>4. OutcomeInv /\ AnswerIsOwn
  BY <1>1 DEF AliceInit, OutcomeInv, AnswerIsOwn
<1> QED
  BY <1>2, <1>3, <1>4 DEF AliceInv

\* Every step of an ask or of the server keeps it.
LEMMA AliceStep == AliceInv /\ [AliceNext]_aliceVars => AliceInv'
<1> SUFFICES ASSUME AliceInv, [AliceNext]_aliceVars PROVE AliceInv'
  OBVIOUS
<1>1. CASE AliceNext
  BY <1>1, AskStep, SendStep, TakeStep, LeaveStep, ConnectStep, ServerStep DEF AliceNext
<1>2. CASE UNCHANGED aliceVars
  BY <1>2 DEF aliceVars, AliceInv, AliceTypeInv, OriginInv, OutcomeInv, AnswerIsOwn, OldFrame, DirtyUpTo, LostAsk, CurrentAsk
<1> QED
  BY <1>1, <1>2

\* The inductive invariant holds in every state, whatever the server sends and whenever the
\* socket drops.
THEOREM AliceInvariance == AliceSpec => []AliceInv
<1>1. AliceInit => AliceInv
  BY AliceInitially
<1>2. AliceInv /\ [AliceNext]_aliceVars => AliceInv'
  BY AliceStep
<1> QED
  BY <1>1, <1>2, PTL DEF AliceSpec

\* The socket, its frames and the asks keep their types; no exchange holds more than its backlog
\* (_route) and no ask makes more attempts than it may (_ask).
THEOREM AliceTypeCorrect == AliceSpec => []AliceTypeOK
<1>1. ASSUME AliceInv PROVE AliceTypeOK
  <2>1. AliceTypeInv
    BY <1>1 DEF AliceInv
  <2>2. CASE ask.pc = "wait"
    <3>1. PICK q \in Seq(Frames) : exchange = <<q>> /\ Len(q) <= Backlog
      BY <2>1, <2>2, OneQueue DEF AliceTypeInv
    <3>2. \A j \in DOMAIN q : q[j] \in Frames
      OBVIOUS
    <3> QED
      BY <2>1, <3>1, <3>2 DEF AliceTypeInv, AliceTypeOK, AskType, AliceOutcome
  <2>3. CASE ask.pc # "wait"
    BY <2>1, <2>3 DEF AliceTypeInv, AliceTypeOK, AskType, AliceOutcome
  <2> QED
    BY <2>2, <2>3
<1> QED
  BY <1>1, AliceInvariance, PTL

\* Nothing ties a frame to a prompt, and still an ask is answered with the text of its own prompt
\* and attempt, until an ask fails for good, is cancelled, or is answered while it is owed another
\* answer, and leaves the socket open (_ask, _pump, _route).
THEOREM AnswersAreOwn == AliceSpec => []AnswerIsOwn
<1>1. AliceInv => AnswerIsOwn
  BY DEF AliceInv
<1> QED
  BY <1>1, AliceInvariance, PTL

-------------------------------------------------------------------------------
(* Mistral and Duck *)

\* What a caller was told is of the attempt under way, and nothing was told before it; an
\* attempt is retried only while there is one left, and a request ends once.
MisFits(b, t, holds) ==
  /\ \A n \in DOMAIN t : t[n] = b.attempt
  /\ t # <<>> => b.events > 0 /\ b.pc \in {"reading", "over"}
  /\ b.pc \in {"backoff", "relogin"} => b.attempt < MisMaxRetries
  /\ b.outcome # "none" => b.pc = "over"
  /\ b.outcome = "answered" => ~b.wall
  /\ b.pc \in Working <=> holds
MisInv == MisTypeOK /\ \A r \in MisReqs : MisFits(misReq[r], told[r], misHolder = r)

\* Every script that was served is solved at one place, and what was refused is at none.
DuckScripts ==
  /\ {jsa, warm, check, duckReq.header} \cup duckRefused \subseteq 0 .. served
  /\ jsa # 0 => jsa \notin duckRefused
  /\ warm # 0 => warm \notin duckRefused
  /\ check # 0 => check \notin duckRefused /\ check \notin {jsa, warm, duckReq.header}
  /\ duckReq.pc \in {"solve", "post"} => duckReq.header = 0 \/ duckReq.header \notin duckRefused

\* The caller has the prelude and the events of the attempt under way, each once.
DuckOut ==
  /\ out # <<>> =>
       /\ out[1].kind = "prelude"
       /\ \A i \in 2 .. Len(out) : out[i].kind = "event" => out[i].of = <<duckReq.attempt, i - 1>>
  /\ duckReq.pc # "idle" => Len(out) = duckReq.events + 1 /\ (duckReq.delivered <=> duckReq.events > 0)

DuckInv == DuckTypeOK /\ DuckScripts /\ DuckOut

-------------------------------------------------------------------------------
(* Mistral *)

\* A step of one request: the others are as they were, and hold the account as before.
LEMMA MisMoves ==
  ASSUME MisInv, NEW r \in MisReqs, NEW e \in MisReqStates, NEW t \in Seq(0 .. MisMaxRetries),
         misReq' = [misReq EXCEPT ![r] = e], told' = [told EXCEPT ![r] = t],
         canLogin' \in BOOLEAN, misToken' \in BOOLEAN, misHolder' \in MisReqs \cup {MisNone},
         \A q \in MisReqs \ {r} : misHolder' = q <=> misHolder = q,
         MisFits(e, t, misHolder' = r)
  PROVE  MisInv'
<1>1. /\ misReq \in [MisReqs -> MisReqStates] /\ told \in [MisReqs -> Seq(0 .. MisMaxRetries)]
      /\ \A q \in MisReqs : MisFits(misReq[q], told[q], misHolder = q)
  BY DEF MisInv, MisTypeOK
<1>2. /\ misReq' \in [MisReqs -> MisReqStates] /\ told' \in [MisReqs -> Seq(0 .. MisMaxRetries)]
      /\ misReq'[r] = e /\ told'[r] = t
      /\ \A q \in MisReqs \ {r} : misReq'[q] = misReq[q] /\ told'[q] = told[q]
  BY <1>1
<1>3. MisTypeOK'
  BY <1>2 DEF MisTypeOK
<1>4. ASSUME NEW q \in MisReqs PROVE MisFits(misReq[q], told[q], misHolder = q)'
  <2>1. CASE q = r
    BY <1>2, <2>1 DEF MisFits
  <2>2. CASE q # r
    BY <1>1, <1>2, <2>2 DEF MisFits
  <2>3. QED
    BY <2>1, <2>2
<1>5. QED
  BY <1>3, <1>4 DEF MisInv

\* A step of one request in which nothing is told.
LEMMA MisGoes ==
  ASSUME MisInv, NEW r \in MisReqs, NEW e \in MisReqStates,
         misReq' = [misReq EXCEPT ![r] = e], told' = told,
         canLogin' = canLogin, misToken' \in BOOLEAN, misHolder' \in MisReqs \cup {MisNone},
         \A q \in MisReqs \ {r} : misHolder' = q <=> misHolder = q,
         MisFits(e, told[r], misHolder' = r)
  PROVE  MisInv'
<1>1. told \in [MisReqs -> Seq(0 .. MisMaxRetries)] /\ canLogin \in BOOLEAN
  BY DEF MisInv, MisTypeOK
<1>2. told[r] \in Seq(0 .. MisMaxRetries) /\ told' = [told EXCEPT ![r] = told[r]]
  BY <1>1
<1>3. QED
  BY <1>1, <1>2, MisMoves

\* What a failure leads to.
LEMMA MisFails ==
  ASSUME MisInv, NEW r \in MisReqs, misReq[r].pc \in {"creating", "posting", "reading"}, NEW kind, MisFail(r, kind),
         UNCHANGED <<canLogin, told>>
  PROVE  MisInv'
<1> DEFINE b == misReq[r]
<1>1. /\ b \in MisReqStates /\ MisFits(b, told[r], misHolder = r) /\ misToken \in BOOLEAN /\ misHolder = r
      /\ misReq \in [MisReqs -> MisReqStates] /\ \A q \in MisReqs : q # MisNone
  BY MisAssumption DEF MisInv, MisTypeOK, MisFits, Working
<1>2. misToken' \in BOOLEAN /\ misHolder' \in MisReqs \cup {MisNone} /\ \A q \in MisReqs \ {r} : misHolder' = q <=> misHolder = q
  BY <1>1 DEF MisFail
<1>3. CASE MisMayRetry(r) /\ Goes(r, "relogin") /\ misHolder' = misHolder
  <2> DEFINE e == [b EXCEPT !.pc = "relogin"]
  <2>1. e \in MisReqStates
    BY <1>1 DEF MisReqStates, Working
  <2>2. misReq' = [misReq EXCEPT ![r] = e]
    BY <1>1, <1>3 DEF Goes
  <2>3. MisFits(e, told[r], misHolder' = r)
    BY <1>1, <1>3 DEF MisFits, MisReqStates, MisMayRetry, Working
  <2> HIDE DEF e
  <2>4. QED
    BY <1>2, <2>1, <2>2, <2>3, MisGoes
<1>4. CASE MisMayRetry(r) /\ Waits(r) /\ misHolder' = MisNone
  <2> DEFINE e == [b EXCEPT !.pc = "backoff"]
  <2>1. e \in MisReqStates
    BY <1>1 DEF MisReqStates
  <2>2. misReq' = [misReq EXCEPT ![r] = e]
    BY <1>1, <1>4 DEF Waits
  <2>3. MisFits(e, told[r], misHolder' = r)
    BY <1>1, <1>4 DEF MisFits, MisReqStates, MisMayRetry, Working
  <2> HIDE DEF e
  <2>4. QED
    BY <1>2, <2>1, <2>2, <2>3, MisGoes
<1>5. CASE MisEnds(r, "error") /\ misHolder' = MisNone
  <2> DEFINE e == [b EXCEPT !.pc = "over", !.outcome = "error"]
  <2>1. e \in MisReqStates
    BY <1>1 DEF MisReqStates
  <2>2. misReq' = [misReq EXCEPT ![r] = e]
    BY <1>1, <1>5 DEF MisEnds
  <2>3. MisFits(e, told[r], misHolder' = r)
    BY <1>1, <1>5 DEF MisFits, MisReqStates, Working
  <2> HIDE DEF e
  <2>4. QED
    BY <1>2, <2>1, <2>2, <2>3, MisGoes
<1>6. QED
  BY <1>3, <1>4, <1>5 DEF MisFail

\* At first nothing is asked and nothing told.
LEMMA MisInitially == MisInit => MisInv
<1> SUFFICES ASSUME MisInit PROVE MisInv
  OBVIOUS
<1> DEFINE b == [pc |-> "idle", attempt |-> 0, started |-> FALSE, events |-> 0, chunks |-> FALSE, wall |-> FALSE, outcome |-> "none"]
<1>1. 0 \in 0 .. MisMaxRetries /\ 0 \in 0 .. MaxEvents
  BY MisAssumption
<1>2. b \in MisReqStates
  BY <1>1 DEF MisReqStates
<1>3. misReq = [r \in MisReqs |-> b] /\ told = [r \in MisReqs |-> <<>>] /\ misHolder = MisNone
  BY DEF MisInit
<1>4. MisTypeOK
  BY <1>2, <1>3 DEF MisInit, MisTypeOK
<1>5. MisFits(b, <<>>, FALSE)
  BY DEF MisFits, Working
<1>6. QED
  BY <1>3, <1>4, <1>5, MisAssumption DEF MisInv

\* Every step of a request keeps the invariant.
LEMMA MisStep == MisInv /\ [MisNext]_misVars => MisInv'
<1> SUFFICES ASSUME MisInv, [MisNext]_misVars PROVE MisInv'
  OBVIOUS
<1>1. /\ misReq \in [MisReqs -> MisReqStates] /\ told \in [MisReqs -> Seq(0 .. MisMaxRetries)]
      /\ canLogin \in BOOLEAN /\ misToken \in BOOLEAN /\ misHolder \in MisReqs \cup {MisNone}
      /\ \A r \in MisReqs : MisFits(misReq[r], told[r], misHolder = r) /\ misReq[r] \in MisReqStates /\ r # MisNone
  BY MisAssumption DEF MisInv, MisTypeOK
<1>2. ASSUME NEW r \in MisReqs, MisArrive(r) PROVE MisInv'
  <2> DEFINE e == [misReq[r] EXCEPT !.pc = "queued"]
  <2>1. misReq[r] \in MisReqStates /\ e \in MisReqStates
    <3>1. misReq[r] \in MisReqStates
      BY <1>1
    <3>2. QED
      BY <3>1 DEF MisReqStates
  <2>2. misReq' = [misReq EXCEPT ![r] = e] /\ UNCHANGED <<canLogin, misToken, misHolder, told>>
    BY <1>1, <1>2 DEF MisArrive, Goes
  <2>3. MisFits(e, told[r], misHolder' = r)
    BY <1>1, <1>2, <2>1, <2>2 DEF MisFits, MisReqStates, MisArrive, Working
  <2> HIDE DEF e
  <2>4. QED
    BY <1>1, <2>1, <2>2, <2>3, MisGoes
<1>3. ASSUME NEW r \in MisReqs, MisEnter(r) PROVE MisInv'
  <2> DEFINE to == IF misToken THEN "creating" ELSE "login"
             e == [misReq[r] EXCEPT !.pc = to, !.started = TRUE, !.events = 0, !.chunks = FALSE, !.wall = FALSE]
  <2>1. to \in Working /\ 0 \in 0 .. MaxEvents /\ to # "relogin"
    BY MisAssumption DEF Working
  <2>2. /\ misReq[r].pc = "queued" /\ misHolder = MisNone /\ misHolder' = r /\ UNCHANGED <<canLogin, misToken, told>>
        /\ misReq' = [misReq EXCEPT ![r].pc = to, ![r].started = TRUE, ![r].events = 0, ![r].chunks = FALSE, ![r].wall = FALSE]
    BY <1>3 DEF MisEnter
  <2> HIDE DEF to
  <2>3. misReq[r] \in MisReqStates /\ e \in MisReqStates
    <3>1. misReq[r] \in MisReqStates
      BY <1>1
    <3>2. QED
      BY <2>1, <3>1 DEF MisReqStates
  <2>4. misReq' = [misReq EXCEPT ![r] = e]
    BY <1>1, <2>2
  <2>5. told[r] = <<>> /\ misReq[r].outcome = "none"
    BY <1>1, <2>2 DEF MisFits
  <2>6. e.pc = to /\ e.outcome = "none"
    BY <2>3, <2>5 DEF MisReqStates
  <2>7. MisFits(e, told[r], misHolder' = r)
    BY <2>1, <2>2, <2>5, <2>6 DEF MisFits, Working
  <2>8. \A q \in MisReqs \ {r} : misHolder' = q <=> misHolder = q
    BY <1>1, <2>2
  <2> HIDE DEF e
  <2>9. QED
    BY <1>1, <2>2, <2>3, <2>4, <2>7, <2>8, MisGoes
<1>4. ASSUME NEW r \in MisReqs, LoggedIn(r) \/ Created(r) \/ Posted(r) PROVE MisInv'
  <2>1. PICK to \in {"creating", "posting", "reading"} : Goes(r, to)
    BY <1>4 DEF LoggedIn, Created, Posted
  <2>2. /\ misReq[r].pc \in {"login", "creating", "posting"} /\ misToken' \in BOOLEAN
        /\ UNCHANGED <<canLogin, misHolder, told>>
    BY <1>1, <1>4 DEF LoggedIn, Created, Posted
  <2> DEFINE e == [misReq[r] EXCEPT !.pc = to]
  <2>3. misReq[r] \in MisReqStates /\ e \in MisReqStates /\ misReq' = [misReq EXCEPT ![r] = e]
    <3>1. misReq[r] \in MisReqStates
      BY <1>1
    <3>2. e \in MisReqStates
      BY <2>1, <3>1 DEF MisReqStates, Working
    <3>3. misReq' = [misReq EXCEPT ![r] = e]
      BY <1>1, <2>1 DEF Goes
    <3>4. QED
      BY <3>1, <3>2, <3>3
  <2>4. MisFits(e, told[r], misHolder' = r)
    BY <1>1, <2>2 DEF MisFits, MisReqStates, Working
  <2> HIDE DEF e
  <2>5. QED
    BY <1>1, <2>2, <2>3, <2>4, MisGoes
<1>5. ASSUME NEW r \in MisReqs, NEW how \in {"raised", "error"}, MisEnds(r, how), misReq[r].pc \in {"login", "relogin"},
             misHolder' = MisNone, misToken' = misToken, UNCHANGED <<canLogin, told>>
      PROVE  MisInv'
  <2> DEFINE e == [misReq[r] EXCEPT !.pc = "over", !.outcome = how]
  <2>1. e \in MisReqStates /\ misReq' = [misReq EXCEPT ![r] = e] /\ misHolder = r
    BY <1>1, <1>5 DEF MisEnds, MisReqStates, MisFits, Working
  <2>2. MisFits(e, told[r], misHolder' = r)
    BY <1>1, <1>5 DEF MisFits, MisReqStates, Working
  <2> HIDE DEF e
  <2>3. QED
    BY <1>1, <1>5, <2>1, <2>2, MisGoes
<1>6. ASSUME NEW r \in MisReqs, LoginFails(r) PROVE MisInv'
  BY <1>5, <1>6 DEF LoginFails
<1>7. ASSUME NEW r \in MisReqs, Refused(r) PROVE MisInv'
  BY <1>7, MisFails DEF Refused
<1>8. ASSUME NEW r \in MisReqs, Relogin(r) PROVE MisInv'
  <2>1. CASE Waits(r) /\ misToken' = TRUE
    <3> DEFINE e == [misReq[r] EXCEPT !.pc = "backoff"]
    <3>1. /\ e \in MisReqStates /\ misReq' = [misReq EXCEPT ![r] = e] /\ misHolder = r /\ misHolder' = MisNone
          /\ UNCHANGED <<canLogin, told>> /\ misReq[r].pc = "relogin"
      BY <1>1, <1>8, <2>1 DEF Relogin, Waits, MisReqStates, MisFits, Working
    <3>2. MisFits(e, told[r], misHolder' = r)
      BY <1>1, <3>1 DEF MisFits, MisReqStates, Working
    <3> HIDE DEF e
    <3>3. QED
      BY <1>1, <2>1, <3>1, <3>2, MisGoes
  <2>2. CASE misToken' = misToken /\ \E how \in {"error", "raised"} : MisEnds(r, how)
    BY <1>5, <1>8, <2>2 DEF Relogin
  <2>3. QED
    BY <1>8, <2>1, <2>2 DEF Relogin
<1>9. ASSUME NEW r \in MisReqs, BackoffEnds(r) PROVE MisInv'
  <2> DEFINE n == misReq[r].attempt + 1
             e == [misReq[r] EXCEPT !.pc = "queued", !.attempt = n]
  <2>1. misReq[r].pc = "backoff" /\ misReq[r].attempt < MisMaxRetries /\ told[r] = <<>> /\ misReq[r].outcome = "none"
    BY <1>1, <1>9 DEF BackoffEnds, MisFits
  <2>2. n \in 0 .. MisMaxRetries
    BY <1>1, <2>1, MisAssumption DEF MisReqStates
  <2>3. /\ misReq' = [misReq EXCEPT ![r].pc = "queued", ![r].attempt = n] /\ UNCHANGED <<canLogin, misToken, misHolder, told>>
    BY <1>1, <1>9 DEF BackoffEnds
  <2> HIDE DEF n
  <2>4. misReq[r] \in MisReqStates /\ misReq' = [misReq EXCEPT ![r] = e]
    BY <1>1, <2>3
  <2>5. e \in MisReqStates /\ e.pc = "queued" /\ e.outcome = "none"
    BY <2>1, <2>2, <2>4 DEF MisReqStates
  <2>6. misHolder # r
    BY <1>1, <2>1 DEF MisFits, Working
  <2> HIDE DEF e
  <2>7. MisFits(e, told[r], misHolder' = r)
    BY <2>1, <2>3, <2>5, <2>6 DEF MisFits, Working
  <2>8. \A q \in MisReqs \ {r} : misHolder' = q <=> misHolder = q
    BY <2>3
  <2>9. told' = told /\ canLogin' = canLogin /\ misToken' \in BOOLEAN /\ misHolder' \in MisReqs \cup {MisNone}
    BY <1>1, <2>3
  <2>10. QED
    BY <2>4, <2>5, <2>7, <2>8, <2>9, MisGoes
<1>10. ASSUME NEW r \in MisReqs, NEW text \in BOOLEAN, NEW wall \in BOOLEAN, MisEvent(r, text, wall) PROVE MisInv'
  <2> DEFINE n == misReq[r].events + 1
             c == misReq[r].chunks \/ text
             w == misReq[r].wall \/ wall
             e == [misReq[r] EXCEPT !.events = n, !.chunks = c, !.wall = w]
             t == IF text THEN Append(told[r], misReq[r].attempt) ELSE told[r]
  <2>1. /\ misReq[r].pc = "reading" /\ misReq[r].events < MaxEvents
        /\ misReq' = [misReq EXCEPT ![r].events = n, ![r].chunks = c, ![r].wall = w]
        /\ told' = IF text THEN [told EXCEPT ![r] = Append(@, misReq[r].attempt)] ELSE told
        /\ UNCHANGED <<canLogin, misToken, misHolder>>
    BY <1>1, <1>10 DEF MisEvent
  <2>2. n \in 0 .. MaxEvents /\ n > 0
    BY <1>1, <2>1, MisAssumption DEF MisReqStates
  <2>3. c \in BOOLEAN /\ w \in BOOLEAN
    OBVIOUS
  <2> HIDE DEF n, c, w
  <2>4. e \in MisReqStates /\ misReq' = [misReq EXCEPT ![r] = e] /\ e.pc = "reading" /\ e.events = n
        /\ e.attempt = misReq[r].attempt /\ e.outcome = misReq[r].outcome
    <3>1. misReq[r] \in MisReqStates /\ misReq' = [misReq EXCEPT ![r] = e]
      BY <1>1, <2>1
    <3>2. e \in MisReqStates
      BY <2>2, <2>3, <3>1 DEF MisReqStates
    <3>3. e.pc = "reading" /\ e.events = n /\ e.attempt = misReq[r].attempt /\ e.outcome = misReq[r].outcome
      BY <2>1, <3>1 DEF MisReqStates
    <3>4. QED
      BY <3>1, <3>2, <3>3
  <2>5. misReq[r].attempt \in 0 .. MisMaxRetries /\ told[r] \in Seq(0 .. MisMaxRetries)
    BY <1>1 DEF MisReqStates
  <2>6. t \in Seq(0 .. MisMaxRetries) /\ \A i \in DOMAIN t : t[i] = misReq[r].attempt
    <3>1. \A i \in DOMAIN told[r] : told[r][i] = misReq[r].attempt
      BY <1>1 DEF MisFits
    <3>2. \A i \in DOMAIN Append(told[r], misReq[r].attempt) : Append(told[r], misReq[r].attempt)[i] = misReq[r].attempt
      BY <2>5, <3>1
    <3>3. CASE text
      BY <2>5, <3>2, <3>3
    <3>4. CASE ~text
      BY <2>5, <3>1, <3>4
    <3>5. QED
      BY <3>3, <3>4
  <2>7. told' = [told EXCEPT ![r] = t]
    BY <1>1, <2>1
  <2>8. misReq[r].outcome = "none" /\ (misHolder' = r)
    BY <1>1, <2>1 DEF MisFits, Working
  <2> HIDE DEF e, t
  <2>9. MisFits(e, t, misHolder' = r)
    BY <2>2, <2>4, <2>6, <2>8 DEF MisFits, Working
  <2>10. QED
    BY <1>1, <2>1, <2>4, <2>6, <2>7, <2>9, MisMoves
<1>11. ASSUME NEW r \in MisReqs, StreamEnds(r) PROVE MisInv'
  <2>1. CASE misReq[r].wall
    <3>1. MisFail(r, "auth") /\ misReq[r].pc = "reading" /\ UNCHANGED <<canLogin, told>>
      BY <1>11, <2>1 DEF StreamEnds
    <3>2. QED
      BY <3>1, MisFails
  <2>2. CASE ~misReq[r].wall
    <3> DEFINE e == [misReq[r] EXCEPT !.pc = "over", !.outcome = "answered"]
    <3>1. /\ misReq[r].pc = "reading" /\ MisEnds(r, "answered") /\ misHolder' = MisNone /\ UNCHANGED misToken
          /\ UNCHANGED <<canLogin, told>>
      BY <1>11, <2>2 DEF StreamEnds
    <3>2. e \in MisReqStates /\ misReq' = [misReq EXCEPT ![r] = e] /\ misHolder = r
      BY <1>1, <3>1 DEF MisEnds, MisReqStates, MisFits, Working
    <3>3. MisFits(e, told[r], misHolder' = r)
      BY <1>1, <2>2, <3>1 DEF MisFits, MisReqStates, Working
    <3> HIDE DEF e
    <3>4. QED
      BY <1>1, <3>1, <3>2, <3>3, MisGoes
  <2>3. QED
    BY <2>1, <2>2
<1>12. ASSUME NEW r \in MisReqs, Silent(r) PROVE MisInv'
  BY <1>12, MisFails DEF Silent
<1>13. ASSUME NEW r \in MisReqs, Leaves(r) PROVE MisInv'
  <2> DEFINE e == [misReq[r] EXCEPT !.pc = "over", !.outcome = "left"]
  <2>1. /\ misReq[r].pc \in Working \cup {"queued", "backoff"} /\ MisEnds(r, "left")
        /\ misHolder' = IF misHolder = r THEN MisNone ELSE misHolder
        /\ UNCHANGED <<canLogin, misToken, told>>
    BY <1>13 DEF Leaves
  <2>2. e \in MisReqStates /\ misReq' = [misReq EXCEPT ![r] = e]
    <3>1. misReq[r] \in MisReqStates /\ misReq' = [misReq EXCEPT ![r] = e]
      BY <1>1, <2>1 DEF MisEnds
    <3>2. e \in MisReqStates
      BY <3>1 DEF MisReqStates
    <3>3. QED
      BY <3>1, <3>2
  <2>3. MisFits(e, told[r], misHolder' = r)
    BY <1>1, <2>1 DEF MisFits, MisReqStates, Working
  <2> HIDE DEF e
  <2>4. QED
    BY <1>1, <2>1, <2>2, <2>3, MisGoes
<1>14. ASSUME MisChecked PROVE MisInv'
  BY <1>14 DEF MisChecked, MisInv, MisTypeOK, MisFits
<1>15. ASSUME UNCHANGED misVars PROVE MisInv'
  BY <1>15 DEF misVars, MisInv, MisTypeOK, MisFits
<1>16. QED
  BY <1>2, <1>3, <1>4, <1>6, <1>7, <1>8, <1>9, <1>10, <1>11, <1>12, <1>13, <1>14, <1>15 DEF MisNext

\* The invariant holds of every behaviour of Mistral's requests.
THEOREM MisInvariance == MisSpec => []MisInv
<1>1. QED
  BY MisInitially, MisStep, PTL DEF MisSpec

\* Mistral's requests and what their callers were told keep their types.
THEOREM MisTypeCorrect == MisSpec => []MisTypeOK
<1>1. MisInv => MisTypeOK
  BY DEF MisInv
<1>2. QED
  BY <1>1, MisInvariance, PTL

-------------------------------------------------------------------------------
(* Duck.ai *)

\* One more line to the caller of the attempt under way.
LEMMA DuckTells ==
  ASSUME DuckTypeOK, DuckOut, duckReq.pc # "idle", NEW x \in Sent, out' = Append(out, x),
         duckReq'.attempt = duckReq.attempt, x.kind = "event" => x.of = <<duckReq.attempt, duckReq.events + 1>>
  PROVE  /\ out' \in Seq(Sent) /\ Len(out') = duckReq.events + 2 /\ out' # <<>> /\ out'[1].kind = "prelude"
         /\ \A i \in 2 .. Len(out') : out'[i].kind = "event" => out'[i].of = <<duckReq'.attempt, i - 1>>
<1>1. out \in Seq(Sent) /\ Len(out) = duckReq.events + 1 /\ duckReq.events \in Nat
  BY DuckAssumption DEF DuckTypeOK, DuckReqStates, DuckOut
<1>2. out # <<>> /\ Len(out) \in Nat /\ Len(out) >= 1
  <2>1. Len(out) \in Nat /\ Len(out) >= 1
    BY <1>1
  <2>2. out = <<>> => Len(out) = 0
    OBVIOUS
  <2>3. QED
    BY <2>1, <2>2
<1>3. /\ out[1].kind = "prelude"
      /\ \A i \in 2 .. Len(out) : out[i].kind = "event" => out[i].of = <<duckReq.attempt, i - 1>>
  BY <1>2 DEF DuckOut
<1> HIDE DEF Sent
<1>4. /\ out' \in Seq(Sent) /\ Len(out') = Len(out) + 1 /\ out'[Len(out) + 1] = x
      /\ \A i \in 1 .. Len(out) : out'[i] = out[i]
  BY <1>1
<1>5. out'[1] = out[1] /\ out' # <<>>
  <2>1. 1 \in 1 .. Len(out)
    BY <1>2
  <2>2. out' = <<>> => Len(out') = 0
    OBVIOUS
  <2>3. QED
    BY <1>2, <1>4, <2>1, <2>2
<1>6. ASSUME NEW i \in 2 .. Len(out'), out'[i].kind = "event" PROVE out'[i].of = <<duckReq'.attempt, i - 1>>
  <2>1. CASE i \in 2 .. Len(out)
    <3>1. out'[i] = out[i]
      BY <1>2, <1>4, <2>1
    <3>2. QED
      BY <1>3, <1>6, <2>1, <3>1
  <2>2. CASE i = Len(out) + 1
    <3>1. i - 1 = duckReq.events + 1
      BY <1>1, <2>2
    <3>2. out'[i] = x
      BY <1>4, <2>2
    <3>3. QED
      BY <1>6, <3>1, <3>2
  <2>3. QED
    BY <1>2, <1>4, <2>1, <2>2
<1>7. Len(out') = duckReq.events + 2
  BY <1>1, <1>4
<1>8. out'[1].kind = "prelude"
  BY <1>3, <1>5
<1>9. QED
  BY <1>4, <1>5, <1>6, <1>7, <1>8

\* A failure opens the stream again only if the caller has the prelude alone.
LEMMA DuckFailed ==
  ASSUME DuckTypeOK, DuckOut, duckReq.pc \in {"attest", "post", "stream"}, NEW kind, DuckFail(kind)
  PROVE  /\ duckReq' \in DuckReqStates /\ out' \in Seq(Sent) /\ DuckOut'
         /\ duckReq'.pc \in {"attest", "idle"} /\ duckReq'.header \in {0, duckReq.header}
         /\ jsa' \in {0, jsa} /\ warm' \in {0, warm} /\ (kind = "challenge" => jsa' = 0 /\ warm' = 0)
<1>1. duckReq \in DuckReqStates /\ out \in Seq(Sent)
  BY DEF DuckTypeOK
<1>2. jsa' \in {0, jsa} /\ warm' \in {0, warm} /\ (kind = "challenge" => jsa' = 0 /\ warm' = 0)
  BY DEF DuckFail, Invalidate
<1>3. CASE DuckAgain(kind)
  <2>1. duckReq' = [duckReq EXCEPT !.pc = "attest", !.attempt = @ + 1, !.header = 0, !.events = 0] /\ out' = out
    BY <1>3 DEF DuckFail
  <2>2. duckReq.attempt + 1 \in 0 .. DuckRetries /\ ~duckReq.delivered
    BY <1>1, <1>3, DuckAssumption DEF DuckAgain, DuckReqStates
  <2>3. 0 \in Attestations /\ 0 \in 0 .. DuckEvents
    BY DuckAssumption DEF Attestations
  <2>4. /\ duckReq' \in DuckReqStates /\ duckReq'.pc = "attest" /\ duckReq'.header = 0 /\ duckReq'.events = 0
        /\ duckReq'.delivered = duckReq.delivered
    BY <1>1, <2>1, <2>2, <2>3 DEF DuckReqStates
  <2>5. duckReq.events = 0 /\ Len(out) = duckReq.events + 1
    BY <1>1, <2>2, DuckAssumption DEF DuckOut, DuckReqStates
  <2>6. DuckOut'
    BY <2>1, <2>2, <2>4, <2>5 DEF DuckOut
  <2>7. QED
    BY <1>1, <1>2, <2>1, <2>4, <2>6
<1>4. CASE ~DuckAgain(kind)
  <2>1. duckReq' = [duckReq EXCEPT !.pc = "idle"] /\ out' = Append(out, Line("error"))
    BY <1>4 DEF DuckFail
  <2>2. /\ duckReq' \in DuckReqStates /\ duckReq'.pc = "idle" /\ duckReq'.header = duckReq.header
        /\ duckReq'.attempt = duckReq.attempt
    BY <1>1, <2>1 DEF DuckReqStates
  <2>3. Line("error") \in Sent /\ Line("error").kind # "event"
    BY DEF Line, Sent
  <2>4. /\ out' \in Seq(Sent) /\ out' # <<>> /\ out'[1].kind = "prelude"
        /\ \A i \in 2 .. Len(out') : out'[i].kind = "event" => out'[i].of = <<duckReq'.attempt, i - 1>>
    <3> HIDE DEF Line
    <3>1. QED
      BY <2>1, <2>2, <2>3, DuckTells
  <2>5. DuckOut'
    BY <2>2, <2>4 DEF DuckOut
  <2>6. QED
    BY <1>2, <2>2, <2>4, <2>5
<1>5. QED
  BY <1>3, <1>4

\* A step in the course of a request that tells its caller nothing.
LEMMA DuckQuiet ==
  ASSUME DuckOut, duckReq.pc # "idle", out' = out, duckReq'.attempt = duckReq.attempt,
         duckReq'.events = duckReq.events, duckReq'.delivered = duckReq.delivered
  PROVE  DuckOut'
BY DEF DuckOut

\* At first there is no request, and the attestation is the initial one.
LEMMA DuckInitially == DuckInit => DuckInv
<1> SUFFICES ASSUME DuckInit PROVE DuckInv
  OBVIOUS
<1>1. 0 \in Attestations /\ 0 \in 0 .. DuckRequests /\ 0 \in 0 .. DuckRetries /\ 0 \in 0 .. DuckEvents
  BY DuckAssumption DEF Attestations
<1>2. duckReq = [n |-> 0, pc |-> "idle", attempt |-> 0, header |-> 0, events |-> 0, delivered |-> FALSE]
  BY DEF DuckInit
<1>3. duckReq \in DuckReqStates
  BY <1>1, <1>2 DEF DuckReqStates
<1>4. DuckTypeOK
  BY <1>1, <1>3 DEF DuckInit, DuckTypeOK
<1>5. DuckScripts
  BY <1>2 DEF DuckInit, DuckScripts
<1>6. DuckOut
  BY <1>2 DEF DuckInit, DuckOut
<1>7. QED
  BY <1>4, <1>5, <1>6 DEF DuckInv

\* Every step keeps the invariant.
LEMMA DuckStepKeeps == DuckInv /\ [DuckNext]_duckVars => DuckInv'
<1> SUFFICES ASSUME DuckInv, [DuckNext]_duckVars PROVE DuckInv'
  OBVIOUS
<1>1. DuckTypeOK /\ DuckScripts /\ DuckOut /\ duckReq \in DuckReqStates
  BY DEF DuckInv, DuckTypeOK
<1>2. /\ jsa \in 0 .. Scripts /\ warm \in 0 .. Scripts /\ check \in 0 .. Scripts /\ served \in 0 .. Scripts
      /\ duckRefused \subseteq 0 .. Scripts /\ out \in Seq(Sent) /\ duckReq.header \in 0 .. Scripts
  BY <1>1 DEF DuckTypeOK, DuckReqStates, Attestations
\* a script that is served is new
<1>3. ASSUME NEW next, Serves(next)
      PROVE  /\ next \in 1 .. Scripts /\ served' \in 0 .. Scripts /\ next \in 0 .. served' /\ 0 .. served \subseteq 0 .. served'
             /\ next \notin 0 .. served
  BY <1>2, <1>3, DuckAssumption DEF Serves
<1>4. CASE Begin
  <2>1. /\ duckReq' = [duckReq EXCEPT !.n = @ + 1, !.pc = "attest", !.attempt = 0, !.header = 0, !.events = 0, !.delivered = FALSE]
        /\ out' = <<Line("prelude")>> /\ UNCHANGED <<jsa, warm, check, served, duckRefused>> /\ duckReq.n < DuckRequests
    BY <1>4 DEF Begin
  <2>2. duckReq.n + 1 \in 0 .. DuckRequests /\ 0 \in Attestations /\ 0 \in 0 .. DuckEvents /\ 0 \in 0 .. DuckRetries
    BY <1>1, <2>1, DuckAssumption DEF DuckReqStates, Attestations
  <2>3. /\ duckReq' \in DuckReqStates /\ duckReq'.pc = "attest" /\ duckReq'.header = 0 /\ duckReq'.events = 0
        /\ duckReq'.delivered = FALSE
    BY <1>1, <2>1, <2>2 DEF DuckReqStates
  <2>4. Line("prelude") \in Sent /\ Line("prelude").kind = "prelude"
    BY DEF Line, Sent
  <2>5. out' \in Seq(Sent) /\ Len(out') = 1 /\ out'[1].kind = "prelude"
    BY <2>1, <2>4
  <2>6. DuckTypeOK'
    BY <1>1, <2>1, <2>3, <2>5 DEF DuckTypeOK
  <2>7. DuckScripts'
    BY <1>1, <1>2, <2>1, <2>3 DEF DuckScripts
  <2>8. DuckOut'
    BY <2>3, <2>5 DEF DuckOut
  <2>9. QED
    BY <2>6, <2>7, <2>8 DEF DuckInv
<1>5. CASE Attest
  <2>1. PICK to \in {"post", "solve"}, h \in Attestations :
          /\ duckReq' = [duckReq EXCEPT !.pc = to, !.header = h]
          /\ \/ h = jsa /\ served' = served
             \/ jsa = 0 /\ Serves(h)
             \/ h = 0 /\ served' = served
    <3>1. CASE jsa # 0
      BY <1>1, <1>5, <3>1 DEF Attest, DuckTypeOK
    <3>2. CASE jsa = 0
      BY <1>1, <1>5, <3>2 DEF Attest, DuckTypeOK
    <3>3. QED
      BY <3>1, <3>2
  <2>2. UNCHANGED <<jsa, warm, check, duckRefused, out>> /\ duckReq.pc = "attest"
    BY <1>5 DEF Attest
  <2>3. /\ duckReq' \in DuckReqStates /\ duckReq'.header = h /\ duckReq'.attempt = duckReq.attempt
        /\ duckReq'.events = duckReq.events /\ duckReq'.delivered = duckReq.delivered
    BY <1>1, <2>1 DEF DuckReqStates
  <2>4. served' \in 0 .. Scripts /\ 0 .. served \subseteq 0 .. served' /\ h \in 0 .. served'
        /\ (h = 0 \/ (h # check /\ h \notin duckRefused) \/ (check = 0 /\ h \notin duckRefused))
    BY <1>1, <1>2, <1>3, <2>1 DEF DuckScripts
  <2>5. DuckTypeOK'
    BY <1>1, <2>2, <2>3, <2>4 DEF DuckTypeOK, Attestations
  <2>6. DuckScripts'
    BY <1>1, <2>2, <2>3, <2>4 DEF DuckScripts
  <2>7. DuckOut'
    BY <1>1, <2>2, <2>3, DuckQuiet
  <2>8. QED
    BY <2>5, <2>6, <2>7 DEF DuckInv
<1>6. ASSUME NEW kind, StatusFails(kind) \/ Break(kind) PROVE DuckInv'
  <2>1. /\ duckReq.pc \in {"attest", "post", "stream"} /\ DuckFail(kind) /\ UNCHANGED <<check, served>>
        /\ duckRefused' \in {duckRefused, duckRefused \cup {duckReq.header}}
        /\ kind # "challenge" => duckRefused' = duckRefused
    BY <1>6 DEF StatusFails, Break
  <2>2. /\ duckReq' \in DuckReqStates /\ out' \in Seq(Sent) /\ DuckOut'
        /\ duckReq'.pc \in {"attest", "idle"} /\ duckReq'.header \in {0, duckReq.header}
        /\ jsa' \in {0, jsa} /\ warm' \in {0, warm} /\ (kind = "challenge" => jsa' = 0 /\ warm' = 0)
    BY <1>1, <2>1, DuckFailed
  <2>3. DuckTypeOK'
    BY <1>1, <1>2, <2>1, <2>2, DuckAssumption DEF DuckTypeOK, Attestations
  <2>4. DuckScripts'
    <3>1. CASE kind = "challenge"
      BY <1>1, <1>2, <2>1, <2>2, <3>1 DEF DuckScripts
    <3>2. CASE kind # "challenge"
      BY <1>1, <1>2, <2>1, <2>2, <3>2 DEF DuckScripts
    <3>3. QED
      BY <3>1, <3>2
  <2>5. QED
    BY <2>2, <2>3, <2>4 DEF DuckInv
<1>7. ASSUME NEW solved \in BOOLEAN, Solve(solved) PROVE DuckInv'
  <2>1. /\ duckReq.pc = "solve" /\ jsa' = (IF solved THEN duckReq.header ELSE 0) /\ warm' = (IF solved THEN warm ELSE 0)
        /\ duckReq' = [duckReq EXCEPT !.pc = "post", !.header = jsa'] /\ UNCHANGED <<check, served, duckRefused, out>>
    BY <1>7 DEF Solve
  <2>2. jsa' \in Attestations /\ warm' \in Attestations
    BY <1>2, <2>1, DuckAssumption DEF Attestations
  <2>3. /\ duckReq' \in DuckReqStates /\ duckReq'.header = jsa' /\ duckReq'.attempt = duckReq.attempt
        /\ duckReq'.events = duckReq.events /\ duckReq'.delivered = duckReq.delivered
    BY <1>1, <2>1, <2>2 DEF DuckReqStates
  <2>4. DuckTypeOK'
    BY <1>1, <2>1, <2>2, <2>3 DEF DuckTypeOK
  <2>5. DuckScripts'
    BY <1>1, <1>2, <2>1, <2>3 DEF DuckScripts
  <2>6. DuckOut'
    BY <1>1, <2>1, <2>3, DuckQuiet
  <2>7. QED
    BY <2>4, <2>5, <2>6 DEF DuckInv
<1>8. CASE Accept
  <2>1. /\ duckReq' = [duckReq EXCEPT !.pc = "stream"] /\ UNCHANGED <<jsa, check, duckRefused, out>> /\ duckReq.pc = "post"
        /\ \/ warm' = warm /\ served' = served
           \/ \E next : Serves(next) /\ warm' = IF warm = 0 THEN next ELSE warm
    BY <1>8 DEF Accept
  <2>2. /\ duckReq' \in DuckReqStates /\ duckReq'.header = duckReq.header /\ duckReq'.attempt = duckReq.attempt
        /\ duckReq'.events = duckReq.events /\ duckReq'.delivered = duckReq.delivered /\ duckReq'.pc = "stream"
    BY <1>1, <2>1 DEF DuckReqStates
  <2>3. /\ served' \in 0 .. Scripts /\ warm' \in 0 .. Scripts /\ 0 .. served \subseteq 0 .. served' /\ warm' \in 0 .. served'
        /\ warm' = warm \/ warm' \notin 0 .. served
    BY <1>1, <1>2, <1>3, <2>1 DEF DuckScripts
  <2>4. DuckTypeOK'
    BY <1>1, <2>1, <2>2, <2>3 DEF DuckTypeOK, Attestations
  <2>5. DuckScripts'
    BY <1>1, <2>1, <2>2, <2>3 DEF DuckScripts
  <2>6. DuckOut'
    BY <1>1, <2>1, <2>2, DuckQuiet
  <2>7. QED
    BY <2>4, <2>5, <2>6 DEF DuckInv
<1>9. CASE DuckEvent
  <2> DEFINE x == [kind |-> "event", of |-> <<duckReq.attempt, duckReq.events + 1>>]
  <2>1. /\ duckReq.pc = "stream" /\ duckReq.events < DuckEvents /\ duckReq' = [duckReq EXCEPT !.events = @ + 1, !.delivered = TRUE]
        /\ out' = Append(out, x) /\ UNCHANGED <<jsa, warm, check, served, duckRefused>>
    BY <1>9 DEF DuckEvent
  <2>2. duckReq.events + 1 \in 0 .. DuckEvents /\ duckReq.events + 1 \in 1 .. DuckEvents /\ duckReq.events \in Nat
    BY <1>1, <2>1, DuckAssumption DEF DuckReqStates
  <2>3. /\ duckReq' \in DuckReqStates /\ duckReq'.header = duckReq.header /\ duckReq'.attempt = duckReq.attempt
        /\ duckReq'.events = duckReq.events + 1 /\ duckReq'.delivered = TRUE /\ duckReq'.pc = "stream"
    BY <1>1, <2>1, <2>2 DEF DuckReqStates
  <2>4. x \in Sent /\ x.of = <<duckReq.attempt, duckReq.events + 1>>
    BY <1>1, <2>2 DEF Sent, DuckReqStates
  <2> HIDE DEF x
  <2>5. /\ out' \in Seq(Sent) /\ Len(out') = duckReq.events + 2 /\ out' # <<>> /\ out'[1].kind = "prelude"
        /\ \A i \in 2 .. Len(out') : out'[i].kind = "event" => out'[i].of = <<duckReq'.attempt, i - 1>>
    BY <1>1, <2>1, <2>3, <2>4, DuckTells
  <2>6. DuckTypeOK'
    BY <1>1, <2>1, <2>3, <2>5 DEF DuckTypeOK
  <2>7. DuckScripts'
    BY <1>1, <2>1, <2>3 DEF DuckScripts
  <2>8. DuckOut'
    BY <2>2, <2>3, <2>5 DEF DuckOut
  <2>9. QED
    BY <2>6, <2>7, <2>8 DEF DuckInv
<1>10. CASE Done
  <2>1. /\ duckReq.pc = "join" /\ duckReq' = [duckReq EXCEPT !.pc = "idle"] /\ out' = Append(out, Line("done"))
        /\ UNCHANGED <<jsa, warm, check, served, duckRefused>>
    BY <1>10 DEF Done
  <2>2. /\ duckReq' \in DuckReqStates /\ duckReq'.header = duckReq.header /\ duckReq'.attempt = duckReq.attempt
        /\ duckReq'.pc = "idle"
    BY <1>1, <2>1 DEF DuckReqStates
  <2>3. Line("done") \in Sent /\ Line("done").kind # "event"
    BY DEF Line, Sent
  <2>4. /\ out' \in Seq(Sent) /\ out' # <<>> /\ out'[1].kind = "prelude"
        /\ \A i \in 2 .. Len(out') : out'[i].kind = "event" => out'[i].of = <<duckReq'.attempt, i - 1>>
    <3> HIDE DEF Line
    <3>1. QED
      BY <1>1, <2>1, <2>2, <2>3, DuckTells
  <2>5. DuckTypeOK'
    BY <1>1, <2>1, <2>2, <2>4 DEF DuckTypeOK
  <2>6. DuckScripts'
    BY <1>1, <2>1, <2>2 DEF DuckScripts
  <2>7. DuckOut'
    BY <2>2, <2>4 DEF DuckOut
  <2>8. QED
    BY <2>5, <2>6, <2>7 DEF DuckInv
<1>11. ASSUME NEW to \in {"join", "idle"}, duckReq' = [duckReq EXCEPT !.pc = to], duckReq.pc # "idle",
              UNCHANGED <<jsa, warm, check, served, duckRefused, out>>
       PROVE  DuckInv'
  <2>1. /\ duckReq' \in DuckReqStates /\ duckReq'.header = duckReq.header /\ duckReq'.attempt = duckReq.attempt
        /\ duckReq'.events = duckReq.events /\ duckReq'.delivered = duckReq.delivered /\ duckReq'.pc = to
    BY <1>1, <1>11 DEF DuckReqStates
  <2>2. DuckTypeOK' /\ DuckScripts'
    BY <1>1, <1>11, <2>1 DEF DuckTypeOK, DuckScripts
  <2>3. DuckOut'
    BY <1>1, <1>11, <2>1, DuckQuiet
  <2>4. QED
    BY <2>2, <2>3 DEF DuckInv
<1>12. CASE EndOfStream \/ DuckCancelled
  BY <1>11, <1>12 DEF EndOfStream, DuckCancelled
\* what goes on beside the request
<1>13. ASSUME duckReq' = duckReq, out' = out, duckRefused' = duckRefused,
              jsa' \in Attestations, warm' \in Attestations, check' \in Attestations, served' \in Attestations, DuckScripts'
       PROVE  DuckInv'
  BY <1>1, <1>13 DEF DuckInv, DuckTypeOK, DuckOut
<1>14. ASSUME NEW solved \in BOOLEAN, WarmEnds(solved) PROVE DuckInv'
  <2>1. warm # 0 /\ warm' = 0 /\ jsa' \in {warm, jsa} /\ UNCHANGED <<check, served, duckRefused, duckReq, out>>
    BY <1>14 DEF WarmEnds
  <2>2. DuckScripts'
    BY <1>1, <1>2, <2>1 DEF DuckScripts
  <2>3. jsa' \in Attestations /\ warm' \in Attestations /\ check' \in Attestations /\ served' \in Attestations
    BY <1>2, <2>1, DuckAssumption DEF Attestations
  <2>4. QED
    BY <1>13, <2>1, <2>2, <2>3
<1>15. CASE Check
  <2>1. PICK next : check = 0 /\ Serves(next) /\ check' = next /\ UNCHANGED <<jsa, warm, duckRefused, duckReq, out>>
    BY <1>15 DEF Check
  <2>2. DuckScripts'
    BY <1>1, <1>2, <1>3, <2>1 DEF DuckScripts
  <2>3. jsa' \in Attestations /\ warm' \in Attestations /\ check' \in Attestations /\ served' \in Attestations
    BY <1>2, <1>3, <2>1 DEF Attestations
  <2>4. QED
    BY <1>13, <2>1, <2>2, <2>3
<1>16. ASSUME NEW solved \in BOOLEAN, CheckEnds(solved) PROVE DuckInv'
  <2>1. /\ check # 0 /\ check' = 0 /\ jsa' \in {check, 0} /\ warm' \in {warm, 0} /\ UNCHANGED <<served, duckRefused, out>>
        /\ duckReq' = duckReq \/ (duckReq.pc = "join" /\ duckReq' = [duckReq EXCEPT !.pc = "idle"])
    BY <1>16 DEF CheckEnds
  <2>2. /\ duckReq' \in DuckReqStates /\ duckReq'.header = duckReq.header /\ duckReq'.attempt = duckReq.attempt
        /\ duckReq'.events = duckReq.events /\ duckReq'.delivered = duckReq.delivered
        /\ duckReq' = duckReq \/ (duckReq.pc = "join" /\ duckReq'.pc = "idle")
    BY <1>1, <2>1 DEF DuckReqStates
  <2>3. DuckScripts'
    BY <1>1, <1>2, <2>1, <2>2 DEF DuckScripts
  <2>4. jsa' \in Attestations /\ warm' \in Attestations /\ check' \in Attestations /\ served' \in Attestations
    BY <1>2, <2>1, DuckAssumption DEF Attestations
  <2>5. CASE duckReq' = duckReq
    BY <1>13, <2>1, <2>3, <2>4, <2>5
  <2>6. CASE duckReq.pc = "join" /\ duckReq'.pc = "idle"
    <3>1. DuckTypeOK'
      BY <1>1, <2>1, <2>2, <2>4 DEF DuckTypeOK
    <3>2. DuckOut'
      BY <1>1, <2>1, <2>2, <2>6, DuckQuiet
    <3> QED
      BY <2>3, <3>1, <3>2 DEF DuckInv
  <2>7. QED
    BY <2>2, <2>5, <2>6
<1>17. CASE UNCHANGED duckVars
  BY <1>1, <1>17 DEF duckVars, DuckInv, DuckTypeOK, DuckScripts, DuckOut
<1>18. QED
  BY <1>4, <1>5, <1>6, <1>7, <1>8, <1>9, <1>10, <1>12, <1>14, <1>15, <1>16, <1>17 DEF DuckNext

\* The invariant holds of every behaviour of Duck.ai's requests.
THEOREM DuckInvariance == DuckSpec => []DuckInv
<1>1. QED
  BY DuckInitially, DuckStepKeeps, PTL DEF DuckSpec

\* Duck.ai's attestations and requests keep their types.
THEOREM DuckTypeCorrect == DuckSpec => []DuckTypeOK
<1>1. DuckInv => DuckTypeOK
  BY DEF DuckInv
<1>2. QED
  BY <1>1, DuckInvariance, PTL

\* Whatever the two clients retry, what a caller was told is of one attempt, the last, and a
\* refused attestation is never sent again.
THEOREM RetriesStayUnseen == MisSpec /\ DuckSpec => []RetriesAreUnseen
<1>1. MisInv => MistralRetriesAreUnseen
  BY DEF MisInv, MisFits, MistralRetriesAreUnseen
<1>2. DuckInv => DuckRetriesAreUnseen
  BY DEF DuckInv, DuckOut, DuckScripts, DuckRetriesAreUnseen
<1>3. MisInv /\ DuckInv => RetriesAreUnseen
  BY <1>1, <1>2 DEF RetriesAreUnseen
<1>4. QED
  BY <1>3, MisInvariance, DuckInvariance, PTL

-------------------------------------------------------------------------------
(* Qwen *)

InChat == {"sending", "backoff", "collected"}

\* What is billed in a chat is what the newest response that was committed has counted.
QwenBills ==
  /\ \A c \in Chats : billed[c] = acc[c] /\ acc[c] <= counted[c] /\ (last[c].chat # 0 => silent \/ acc[last[c].chat] > 0)
  /\ \A r \in QwenReqs : job[r].pc = "collected" =>
       job[r].chat # 0 /\ (silent \/ job[r].usage > 0) /\ job[r].usage <= counted[job[r].chat]
\* While requests have not overlapped and are counted, a response counts more than was billed before.
QwenGuesses == crossed \/ silent \/
  /\ \A c \in Chats : guessed[c] = 0
  /\ \A r \in QwenReqs : job[r].pc = "collected" => job[r].usage > acc[job[r].chat]
\* A prompt without the history is in the chat it was built for; no message is in a chat yet to come.
QwenPlaces ==
  /\ chat <= chats /\ \A c \in Chats : c > chats => last[c].know = {}
  /\ \A r \in QwenReqs : job[r].pc # "idle" => job[r].turn # 0
  /\ \A r \in QwenReqs : job[r].pc \in InChat => job[r].chat # 0 /\ (job[r].prompt = "delta" => job[r].chat = job[r].cached)
\* While requests have not overlapped, a branch that was given the history has all of it.
QwenBranches == ~crossed =>
  /\ \A r \in QwenReqs, o \in QwenReqs : job[r].pc # "idle" /\ job[o].pc # "idle" => r = o
  /\ chat # 0 /\ 0 \in last[chat].know => answered \subseteq last[chat].know
  /\ \A r \in QwenReqs : job[r].pc # "idle" =>
       /\ job[r].hist = answered
       /\ job[r].prompt = "delta" /\ ~job[r].blind => job[r].cached # 0 /\ job[r].hist \subseteq last[job[r].cached].know
       /\ job[r].pc \in InChat => chat \in {0, job[r].chat}
       /\ job[r].pc = "collected" /\ chat # 0 /\ 0 \in job[r].know => answered \cup {job[r].turn} \subseteq job[r].know

QwenInv == QwenTypeOK /\ QwenBills /\ QwenGuesses /\ QwenPlaces /\ QwenBranches

\* What the types say of the variables.
LEMMA QwenFacts ==
  ASSUME QwenTypeOK
  PROVE  /\ MaxTurns \in Nat /\ MaxChats \in Nat /\ QwenMaxRetries \in Nat /\ NoReq \notin QwenReqs
         /\ Chats \subseteq Nat /\ 0 \notin Chats /\ QwenTurns \subseteq Nat /\ 0 \in QwenTurns
         /\ chat \in Chats \cup {0} /\ chats \in 0 .. MaxChats /\ model \in [Chats -> QwenModels]
         /\ last \in [Chats -> [chat : Chats \cup {0}, know : SUBSET QwenTurns]]
         /\ counted \in [Chats -> Nat] /\ acc \in [Chats -> Nat] /\ billed \in [Chats -> Nat]
         /\ guessed \in [Chats -> Nat] /\ silent \in BOOLEAN
         /\ turns \in 0 .. MaxTurns /\ answered \subseteq QwenTurns /\ crossed \in BOOLEAN
         /\ job \in [QwenReqs -> Job \cup {Idle}] /\ Idle.pc = "idle"
         /\ \A r \in QwenReqs : job[r].pc # "idle" => job[r] \in Job
<1>1. MaxTurns \in Nat /\ MaxChats \in Nat /\ QwenMaxRetries \in Nat /\ NoReq \notin QwenReqs
  BY QwenAssumption DEF QwenAssumption
<1>2. Chats \subseteq Nat /\ 0 \notin Chats /\ QwenTurns \subseteq Nat /\ 0 \in QwenTurns /\ Chats \cup {0} \subseteq 0 .. MaxChats
  BY <1>1 DEF Chats, QwenTurns
<1>3. job \in [QwenReqs -> Job \cup {Idle}] /\ Idle.pc = "idle"
  BY DEF QwenTypeOK, Idle
<1>4. \A r \in QwenReqs : job[r].pc # "idle" => job[r] \in Job
  BY <1>3
<1>5. QED
  BY <1>1, <1>2, <1>3, <1>4 DEF QwenTypeOK, QwenTurns

\* A request changes its own variables only.
LEMMA JobOf ==
  ASSUME QwenTypeOK, NEW r \in QwenReqs, NEW e \in Job \cup {Idle}, job' = [job EXCEPT ![r] = e]
  PROVE  /\ job' \in [QwenReqs -> Job \cup {Idle}] /\ job'[r] = e
         /\ \A q \in QwenReqs : q # r => job'[q] = job[q]
  BY QwenFacts

\* The fields of a request's variables.
LEMMA JobFields ==
  ASSUME NEW j \in Job
  PROVE  /\ j.pc \in {"idle", "waiting"} \cup InChat /\ j.model \in QwenModels /\ j.cached \in Chats \cup {0}
         /\ j.prompt \in {"delta", "full"} /\ j.hist \subseteq QwenTurns /\ j.turn \in QwenTurns /\ j.blind \in BOOLEAN
         /\ j.tries \in 0 .. QwenMaxRetries /\ j.chat \in Chats \cup {0} /\ j.know \subseteq QwenTurns /\ j.usage \in Nat
  BY DEF Job, InChat

\* Before the first request there is nothing.
LEMMA QwenInitially == QwenInit => QwenInv
<1> SUFFICES ASSUME QwenInit PROVE QwenInv
  OBVIOUS
<1>1. MaxTurns \in Nat /\ MaxChats \in Nat /\ QwenModels # {}
  BY QwenAssumption DEF QwenAssumption
<1>2. QwenTypeOK
  <2>1. model \in [Chats -> QwenModels]
    <3>1. (CHOOSE m \in QwenModels : TRUE) \in QwenModels
      BY <1>1
    <3>2. QED
      BY <3>1 DEF QwenInit
  <2>2. job \in [QwenReqs -> Job \cup {Idle}] /\ last \in [Chats -> [chat : Chats \cup {0}, know : SUBSET QwenTurns]]
    BY DEF QwenInit
  <2>3. turns \in QwenTurns /\ answered \subseteq QwenTurns /\ {counted, acc, billed, guessed} \subseteq [Chats -> Nat]
    BY <1>1 DEF QwenInit, QwenTurns
  <2>4. QED
    BY <2>1, <2>2, <2>3 DEF QwenInit, QwenTypeOK
<1>3. \A r \in QwenReqs : job[r].pc = "idle"
  BY DEF QwenInit, Idle
<1>4. QwenBills
  BY <1>3 DEF QwenInit, QwenBills
<1>5. QwenPlaces
  BY <1>3 DEF QwenInit, QwenPlaces, InChat
<1>6. QwenBranches
  BY <1>3 DEF QwenInit, QwenBranches
<1>7. QwenGuesses
  BY <1>3 DEF QwenInit, QwenGuesses
<1>8. QED
  BY <1>2, <1>4, <1>5, <1>6, <1>7 DEF QwenInv

\* What a request may do that neither begins it nor gets it a chat or a response: it leaves, or
\* tries once more; the provider may count, and the session may end.
GoesOn(q) ==
  \/ job'[q] = Idle \/ job'[q] = job[q]
  \/ /\ job[q].pc \in InChat /\ job'[q] \in Job /\ job'[q].pc \in {"sending", "backoff"}
     /\ job'[q].hist = job[q].hist /\ job'[q].turn = job[q].turn /\ job'[q].prompt = job[q].prompt
     /\ job'[q].cached = job[q].cached /\ job'[q].blind = job[q].blind /\ job'[q].chat = job[q].chat
LEMMA QuietKeeps ==
  ASSUME QwenInv, qwenLock' \in QwenReqs \cup {NoReq}, chat' \in {chat, 0}, counted' \in [Chats -> Nat],
         \A c \in Chats : counted[c] <= counted'[c], job' \in [QwenReqs -> Job \cup {Idle}],
         \A q \in QwenReqs : GoesOn(q), UNCHANGED <<chats, model, last, acc, billed, guessed, silent, turns, answered, crossed>>
  PROVE  QwenInv'
<1>0. QwenTypeOK /\ QwenBills /\ QwenGuesses /\ QwenPlaces /\ QwenBranches
  BY DEF QwenInv
<1>1. QwenTypeOK'
  BY <1>0 DEF QwenTypeOK
<1>2. ASSUME NEW q \in QwenReqs, job'[q].pc # "idle"
      PROVE  /\ job[q].pc # "idle" /\ job'[q].hist = job[q].hist /\ job'[q].turn = job[q].turn /\ job'[q].prompt = job[q].prompt
             /\ job'[q].cached = job[q].cached /\ job'[q].blind = job[q].blind /\ job'[q].chat = job[q].chat
             /\ job'[q].pc \in InChat => job[q].pc \in InChat
             /\ job'[q].pc = "collected" => job'[q] = job[q]
  BY <1>0, <1>2, QwenFacts DEF GoesOn, InChat
<1>3. QwenBills'
  <2>1. ASSUME NEW c \in Chats PROVE billed'[c] = acc'[c] /\ acc'[c] <= counted'[c] /\ (last'[c].chat # 0 => silent' \/ acc'[last'[c].chat] > 0)
    <3>1. acc[c] \in Nat /\ counted[c] \in Nat /\ counted'[c] \in Nat /\ acc[c] <= counted[c] /\ counted[c] <= counted'[c]
      BY <1>0, QwenFacts DEF QwenBills
    <3>2. acc[c] <= counted'[c]
      BY <3>1
    <3>3. QED
      BY <1>0, <3>2 DEF QwenBills
  <2>2. ASSUME NEW q \in QwenReqs, job'[q].pc = "collected"
        PROVE  job'[q].chat # 0 /\ (silent' \/ job'[q].usage > 0) /\ job'[q].usage <= counted'[job'[q].chat]
    <3>1. job'[q] = job[q] /\ job[q] \in Job
      BY <1>0, <1>2, <2>2, QwenFacts
    <3>2. job[q].chat \in Chats /\ job[q].usage \in Nat /\ job[q].chat # 0 /\ (silent \/ job[q].usage > 0) /\ job[q].usage <= counted[job[q].chat]
      BY <1>0, <2>2, <3>1, JobFields DEF QwenBills
    <3> DEFINE x == counted[job[q].chat]
               y == counted'[job[q].chat]
    <3>3. x \in Nat /\ y \in Nat /\ x <= y /\ job[q].usage <= x
      BY <1>0, <3>2, QwenFacts
    <3> HIDE DEF x, y
    <3>4. job[q].usage <= y
      BY <3>2, <3>3
    <3>5. QED
      BY <3>1, <3>2, <3>4 DEF y
  <2>3. QED
    BY <2>1, <2>2 DEF QwenBills
<1>4. QwenPlaces'
  <2>1. chat' <= chats'
    BY <1>0, QwenFacts DEF QwenPlaces
  <2>2. \A q \in QwenReqs : job'[q].pc # "idle" => job'[q].turn # 0
    BY <1>0, <1>2 DEF QwenPlaces
  <2>3. ASSUME NEW q \in QwenReqs, job'[q].pc \in InChat
        PROVE  job'[q].chat # 0 /\ (job'[q].prompt = "delta" => job'[q].chat = job'[q].cached)
    <3>1. job'[q].pc # "idle"
      BY <2>3 DEF InChat
    <3>2. QED
      BY <1>0, <1>2, <2>3, <3>1 DEF QwenPlaces
  <2>4. QED
    BY <1>0, <2>1, <2>2, <2>3 DEF QwenPlaces
<1>5. QwenBranches'
  <2> SUFFICES ASSUME ~crossed' PROVE
        /\ \A r \in QwenReqs, o \in QwenReqs : job'[r].pc # "idle" /\ job'[o].pc # "idle" => r = o
        /\ chat' # 0 /\ 0 \in last'[chat'].know => answered' \subseteq last'[chat'].know
        /\ \A r \in QwenReqs : job'[r].pc # "idle" =>
             /\ job'[r].hist = answered'
             /\ job'[r].prompt = "delta" /\ ~job'[r].blind => job'[r].cached # 0 /\ job'[r].hist \subseteq last'[job'[r].cached].know
             /\ job'[r].pc \in InChat => chat' \in {0, job'[r].chat}
             /\ job'[r].pc = "collected" /\ chat' # 0 /\ 0 \in job'[r].know => answered' \cup {job'[r].turn} \subseteq job'[r].know
    BY DEF QwenBranches
  <2>1. ~crossed
    OBVIOUS
  <2>2. \A r \in QwenReqs, o \in QwenReqs : job'[r].pc # "idle" /\ job'[o].pc # "idle" => r = o
    BY <1>0, <1>2, <2>1 DEF QwenBranches
  <2>3. chat' # 0 /\ 0 \in last'[chat'].know => answered' \subseteq last'[chat'].know
    BY <1>0, <2>1 DEF QwenBranches
  <2>4. ASSUME NEW r \in QwenReqs, job'[r].pc # "idle" PROVE
             /\ job'[r].hist = answered'
             /\ job'[r].prompt = "delta" /\ ~job'[r].blind => job'[r].cached # 0 /\ job'[r].hist \subseteq last'[job'[r].cached].know
             /\ job'[r].pc \in InChat => chat' \in {0, job'[r].chat}
             /\ job'[r].pc = "collected" /\ chat' # 0 /\ 0 \in job'[r].know => answered' \cup {job'[r].turn} \subseteq job'[r].know
    BY <1>0, <1>2, <2>1, <2>4 DEF QwenBranches
  <2>5. QED
    BY <2>2, <2>3, <2>4
<1>6. QwenGuesses'
  <2> SUFFICES ASSUME ~crossed', ~silent'
               PROVE  /\ \A c \in Chats : guessed'[c] = 0
                      /\ \A q \in QwenReqs : job'[q].pc = "collected" => job'[q].usage > acc'[job'[q].chat]
    BY DEF QwenGuesses
  <2>1. /\ \A c \in Chats : guessed[c] = 0
        /\ \A q \in QwenReqs : job[q].pc = "collected" => job[q].usage > acc[job[q].chat]
    BY <1>0 DEF QwenGuesses
  <2>2. \A q \in QwenReqs : job'[q].pc = "collected" => job'[q] = job[q]
    BY <1>2
  <2>3. QED
    BY <2>1, <2>2
<1>7. QED
  BY <1>1, <1>3, <1>4, <1>5, <1>6 DEF QwenInv

\* The steps that are quiet.
LEMMA QuietSteps ==
  ASSUME QwenInv, NEW r \in QwenReqs,
         Resend(r) \/ NotEntered(r) \/ QwenRetry(r) \/ Lost(r) \/ (\E full \in BOOLEAN : QwenFail(r, full))
  PROVE  QwenInv'
<1>0. QwenTypeOK
  BY DEF QwenInv
<1>1. CASE Resend(r)
  <2> DEFINE e == [job[r] EXCEPT !.pc = "sending", !.chat = job[r].chat]
  <2>1. job[r] \in Job /\ job[r].pc = "backoff"
    BY <1>0, <1>1, QwenFacts DEF Resend
  <2>2. /\ e \in Job /\ e.pc = "sending" /\ e.hist = job[r].hist /\ e.turn = job[r].turn /\ e.prompt = job[r].prompt
        /\ e.cached = job[r].cached /\ e.blind = job[r].blind /\ e.chat = job[r].chat
    BY <2>1 DEF Job
  <2>3. job' = [job EXCEPT ![r] = e] /\ qwenLock' = r /\ UNCHANGED <<chat, chats, model, counted, last, acc, billed, guessed, silent, turns, answered, crossed>>
    BY <1>1 DEF Resend, Sending, upstream
  <2> HIDE DEF e
  <2>4. job' \in [QwenReqs -> Job \cup {Idle}] /\ job'[r] = e /\ \A q \in QwenReqs : q # r => job'[q] = job[q]
    BY <1>0, <2>2, <2>3, JobOf
  <2>5. \A q \in QwenReqs : GoesOn(q)
    BY <2>1, <2>2, <2>4 DEF GoesOn, InChat
  <2>6. counted' \in [Chats -> Nat] /\ \A c \in Chats : counted[c] <= counted'[c]
    BY <1>0, <2>3, QwenFacts
  <2>7. QED
    BY <2>3, <2>4, <2>5, <2>6, QuietKeeps
<1>2. CASE QwenRetry(r)
  <2> DEFINE e == [job[r] EXCEPT !.tries = @ + 1, !.pc = "backoff"]
  <2>1. job[r] \in Job /\ job[r].pc = "sending" /\ job[r].tries + 1 \in 0 .. QwenMaxRetries
    BY <1>0, <1>2, QwenFacts, JobFields DEF QwenRetry
  <2>2. /\ e \in Job /\ e.pc = "backoff" /\ e.hist = job[r].hist /\ e.turn = job[r].turn /\ e.prompt = job[r].prompt
        /\ e.cached = job[r].cached /\ e.blind = job[r].blind /\ e.chat = job[r].chat
    BY <2>1 DEF Job
  <2>3. job' = [job EXCEPT ![r] = e] /\ qwenLock' = NoReq /\ UNCHANGED <<chat, chats, model, counted, last, acc, billed, guessed, silent, turns, answered, crossed>>
    BY <1>2, <2>1 DEF QwenRetry, Resting, upstream, Job
  <2> HIDE DEF e
  <2>4. job' \in [QwenReqs -> Job \cup {Idle}] /\ job'[r] = e /\ \A q \in QwenReqs : q # r => job'[q] = job[q]
    BY <1>0, <2>2, <2>3, JobOf
  <2>5. \A q \in QwenReqs : GoesOn(q)
    BY <2>1, <2>2, <2>4 DEF GoesOn, InChat
  <2>6. counted' \in [Chats -> Nat] /\ \A c \in Chats : counted[c] <= counted'[c]
    BY <1>0, <2>3, QwenFacts
  <2>7. QED
    BY <2>3, <2>4, <2>5, <2>6, QuietKeeps
<1>3. CASE NotEntered(r) \/ Lost(r) \/ \E full \in BOOLEAN : QwenFail(r, full)
  <2>1. /\ QwenLeave(r) /\ UNCHANGED <<chats, model, last, acc, billed, guessed, silent, turns, answered, crossed>> /\ chat' \in {chat, 0}
        /\ \/ counted' = counted
           \/ job[r].pc = "sending" /\ counted' = [counted EXCEPT ![job[r].chat] = @ + 1]
    BY <1>3 DEF NotEntered, Lost, QwenFail, upstream
  <2>2. job' = [job EXCEPT ![r] = Idle] /\ qwenLock' \in QwenReqs \cup {NoReq}
    BY <1>0, <2>1 DEF QwenLeave, QwenTypeOK
  <2>3. job' \in [QwenReqs -> Job \cup {Idle}] /\ job'[r] = Idle /\ \A q \in QwenReqs : q # r => job'[q] = job[q]
    BY <1>0, <2>2, JobOf
  <2>4. \A q \in QwenReqs : GoesOn(q)
    BY <2>3 DEF GoesOn
  <2>5. counted' \in [Chats -> Nat] /\ \A c \in Chats : counted[c] <= counted'[c]
    BY <1>0, <2>1, QwenFacts
  <2>6. QED
    BY <2>1, <2>2, <2>3, <2>4, <2>5, QuietKeeps
<1>4. QED
  BY <1>1, <1>2, <1>3

\* The end of a session.
LEMMA ExpireKeeps ==
  ASSUME QwenInv, Expire
  PROVE  QwenInv'
<1>0. QwenTypeOK
  BY DEF QwenInv
<1>1. chat' = 0 /\ UNCHANGED <<qwenLock, chats, model, counted, last, acc, billed, guessed, silent, turns, answered, crossed, job>>
  BY DEF Expire, upstream
<1>2. /\ \A q \in QwenReqs : GoesOn(q)
      /\ qwenLock' \in QwenReqs \cup {NoReq} /\ job' \in [QwenReqs -> Job \cup {Idle}]
  BY <1>0, <1>1 DEF GoesOn, QwenTypeOK
<1>3. counted' \in [Chats -> Nat] /\ \A c \in Chats : counted[c] <= counted'[c]
  BY <1>0, <1>1, QwenFacts
<1>4. QED
  BY <1>1, <1>2, <1>3, QuietKeeps

\* A request that arrives: its prompt leaves out the history if the session has a chat for it.
LEMMA ArriveKeeps ==
  ASSUME QwenInv, NEW r \in QwenReqs, NEW m \in QwenModels, QwenArrive(r, m)
  PROVE  QwenInv'
<1> DEFINE e == [pc |-> "waiting", model |-> m, cached |-> IF Reusable(m) THEN chat ELSE 0,
                 prompt |-> IF Reusable(m) THEN "delta" ELSE "full", hist |-> answered, turn |-> turns + 1,
                 blind |-> Reusable(m) /\ 0 \notin last[chat].know, had |-> FALSE, stale |-> FALSE, tries |-> 0, chat |-> 0,
                 know |-> {}, usage |-> 0, outcome |-> "none"]
<1>0. QwenTypeOK /\ QwenBills /\ QwenGuesses /\ QwenPlaces /\ QwenBranches
  BY DEF QwenInv
<1>1. /\ job[r].pc = "idle" /\ turns < MaxTurns /\ turns' = turns + 1 /\ job' = [job EXCEPT ![r] = e]
      /\ crossed' = (crossed \/ \E o \in QwenReqs : job[o].pc # "idle")
      /\ UNCHANGED <<qwenLock, chat, chats, model, counted, last, acc, billed, guessed, silent, answered>>
  BY DEF QwenArrive, upstream
<1>2. turns + 1 \in QwenTurns /\ turns + 1 # 0 /\ 0 \in 0 .. QwenMaxRetries
  BY <1>0, <1>1, QwenFacts DEF QwenTurns
<1>3. (IF Reusable(m) THEN chat ELSE 0) \in Chats \cup {0}
  BY <1>0, QwenFacts
<1>4. (Reusable(m) /\ 0 \notin last[chat].know) \in BOOLEAN
  BY DEF Reusable
<1>5. e \in Job
  BY <1>0, <1>2, <1>3, <1>4, QwenFacts DEF Job
<1>6. /\ e.pc = "waiting" /\ e.hist = answered /\ e.turn = turns + 1
      /\ e.prompt = "delta" => chat # 0 /\ e.cached = chat /\ (~e.blind => 0 \in last[chat].know)
  BY DEF Reusable
<1> HIDE DEF e
<1>7. job' \in [QwenReqs -> Job \cup {Idle}] /\ job'[r] = e /\ \A q \in QwenReqs : q # r => job'[q] = job[q]
  BY <1>0, <1>1, <1>5, JobOf
<1>8. QwenTypeOK'
  <2>1. turns' \in QwenTurns /\ crossed' \in BOOLEAN
    BY <1>0, <1>1, <1>2, QwenFacts
  <2>2. QED
    BY <1>0, <1>1, <1>7, <2>1 DEF QwenTypeOK
<1>9. QwenBills'
  <2>1. \A q \in QwenReqs : job'[q].pc = "collected" => job'[q] = job[q]
    BY <1>6, <1>7
  <2>2. \A q \in QwenReqs : job'[q].pc = "collected" =>
          job'[q].chat # 0 /\ (silent' \/ job'[q].usage > 0) /\ job'[q].usage <= counted[job'[q].chat]
    BY <1>0, <1>1, <2>1 DEF QwenBills
  <2>3. QED
    BY <1>0, <1>1, <2>2 DEF QwenBills
<1>10. QwenPlaces'
  <2>1. e.pc \notin InChat
    BY <1>6 DEF InChat
  <2>2. QED
    BY <1>0, <1>1, <1>2, <1>6, <1>7, <2>1 DEF QwenPlaces
<1>11. QwenBranches'
  <2> SUFFICES ASSUME ~crossed' PROVE
        /\ \A q \in QwenReqs, o \in QwenReqs : job'[q].pc # "idle" /\ job'[o].pc # "idle" => q = o
        /\ chat' # 0 /\ 0 \in last'[chat'].know => answered' \subseteq last'[chat'].know
        /\ \A q \in QwenReqs : job'[q].pc # "idle" =>
             /\ job'[q].hist = answered'
             /\ job'[q].prompt = "delta" /\ ~job'[q].blind => job'[q].cached # 0 /\ job'[q].hist \subseteq last'[job'[q].cached].know
             /\ job'[q].pc \in InChat => chat' \in {0, job'[q].chat}
             /\ job'[q].pc = "collected" /\ chat' # 0 /\ 0 \in job'[q].know => answered' \cup {job'[q].turn} \subseteq job'[q].know
    BY DEF QwenBranches
  <2>1. ~crossed /\ \A q \in QwenReqs : job[q].pc = "idle"
    BY <1>1
  <2>2. \A q \in QwenReqs : job'[q].pc # "idle" => q = r
    BY <1>7, <2>1
  <2>3. chat # 0 /\ 0 \in last[chat].know => answered \subseteq last[chat].know
    BY <1>0, <2>1 DEF QwenBranches
  <2>4. e.pc \notin InChat /\ e.pc # "collected"
    BY <1>6 DEF InChat
  <2>5. QED
    BY <1>1, <1>6, <1>7, <2>2, <2>3, <2>4
<1>12. QwenGuesses'
  <2>1. crossed' \/ ~crossed
    BY <1>1
  <2>2. \A q \in QwenReqs : job'[q].pc = "collected" => job'[q] = job[q]
    BY <1>6, <1>7
  <2>3. QED
    BY <1>0, <1>1, <2>1, <2>2 DEF QwenGuesses
<1>13. QED
  BY <1>8, <1>9, <1>10, <1>11, <1>12 DEF QwenInv

\* A request that gets a chat, with the history in its prompt unless the chat is the one it knew.
\* The chat is the one of the session, or is new.
LEMMA ChatKeeps ==
  ASSUME QwenInv, NEW r \in QwenReqs, job[r].pc # "idle", NEW e \in Job, job' = [job EXCEPT ![r] = e],
         qwenLock' \in QwenReqs \cup {NoReq}, e.pc \in {"sending", "backoff"}, e.chat = chat',
         e.hist = job[r].hist, e.turn = job[r].turn, e.cached = job[r].cached, e.blind = job[r].blind,
         e.prompt = "delta" => job[r].prompt = "delta" /\ chat' = job[r].cached,
         \/ chat # 0 /\ UNCHANGED <<chat, chats, model>>
         \/ chats < MaxChats /\ chats' = chats + 1 /\ chat' = chats + 1 /\ \E m \in QwenModels : model' = [model EXCEPT ![chats + 1] = m],
         UNCHANGED <<counted, last, acc, billed, guessed, silent, turns, answered, crossed>>
  PROVE  QwenInv'
<1>0. QwenTypeOK /\ QwenBills /\ QwenGuesses /\ QwenPlaces /\ QwenBranches
  BY DEF QwenInv
<1>1. job' \in [QwenReqs -> Job \cup {Idle}] /\ job'[r] = e /\ \A q \in QwenReqs : q # r => job'[q] = job[q]
  BY <1>0, JobOf
<1>2. /\ chat' \in Chats /\ chat' # 0 /\ chats' \in 0 .. MaxChats /\ chat' <= chats' /\ chats <= chats'
      /\ model' \in [Chats -> QwenModels] /\ (chat' # chat => chat' > chats /\ chat' \in Chats)
  <2>1. chats \in Nat /\ MaxChats \in Nat /\ chats <= MaxChats /\ Chats = 1 .. MaxChats /\ chat <= chats /\ chat \in Chats \cup {0}
    BY <1>0, QwenFacts DEF QwenPlaces, Chats
  <2>2. CASE chat # 0 /\ UNCHANGED <<chat, chats, model>>
    BY <1>0, <2>1, <2>2, QwenFacts
  <2>3. CASE chats < MaxChats /\ chats' = chats + 1 /\ chat' = chats + 1 /\ \E m \in QwenModels : model' = [model EXCEPT ![chats + 1] = m]
    <3>1. model' \in [Chats -> QwenModels]
      BY <1>0, <2>3, QwenFacts
    <3>2. QED
      BY <2>1, <2>3, <3>1
  <2>4. QED
    BY <2>2, <2>3
<1>3. QwenTypeOK'
  <2>1. chat' \in Chats \cup {0} /\ chats' \in Chats \cup {0}
    BY <1>0, <1>2, QwenFacts DEF Chats
  <2>2. QED
    BY <1>0, <1>1, <1>2, <2>1 DEF QwenTypeOK
<1>4. QwenBills'
  <2>1. \A q \in QwenReqs : job'[q].pc = "collected" => job'[q] = job[q]
    BY <1>1
  <2>2. \A q \in QwenReqs : job'[q].pc = "collected" =>
          job'[q].chat # 0 /\ (silent' \/ job'[q].usage > 0) /\ job'[q].usage <= counted[job'[q].chat]
    BY <1>0, <2>1 DEF QwenBills
  <2>3. QED
    BY <1>0, <2>2 DEF QwenBills
<1>5. QwenPlaces'
  <2>1. \A c \in Chats : c > chats' => last'[c].know = {}
    BY <1>0, <1>2, QwenFacts DEF QwenPlaces
  <2>2. \A q \in QwenReqs : job'[q].pc # "idle" => job'[q].turn # 0
    BY <1>0, <1>1 DEF QwenPlaces
  <2>3. \A q \in QwenReqs : job'[q].pc \in InChat => job'[q].chat # 0 /\ (job'[q].prompt = "delta" => job'[q].chat = job'[q].cached)
    BY <1>0, <1>1, <1>2 DEF QwenPlaces
  <2>4. QED
    BY <1>2, <2>1, <2>2, <2>3 DEF QwenPlaces
<1>6. QwenBranches'
  <2> SUFFICES ASSUME ~crossed' PROVE
        /\ \A q \in QwenReqs, o \in QwenReqs : job'[q].pc # "idle" /\ job'[o].pc # "idle" => q = o
        /\ chat' # 0 /\ 0 \in last'[chat'].know => answered' \subseteq last'[chat'].know
        /\ \A q \in QwenReqs : job'[q].pc # "idle" =>
             /\ job'[q].hist = answered'
             /\ job'[q].prompt = "delta" /\ ~job'[q].blind => job'[q].cached # 0 /\ job'[q].hist \subseteq last'[job'[q].cached].know
             /\ job'[q].pc \in InChat => chat' \in {0, job'[q].chat}
             /\ job'[q].pc = "collected" /\ chat' # 0 /\ 0 \in job'[q].know => answered' \cup {job'[q].turn} \subseteq job'[q].know
    BY DEF QwenBranches
  <2>1. ~crossed /\ \A q \in QwenReqs : job[q].pc # "idle" => q = r
    BY <1>0 DEF QwenBranches
  <2>2. \A q \in QwenReqs : job'[q].pc # "idle" => q = r
    BY <1>1, <2>1
  <2>3. 0 \in last'[chat'].know => answered' \subseteq last'[chat'].know
    <3>1. CASE chat' = chat
      BY <1>0, <1>2, <2>1, <3>1 DEF QwenBranches
    <3>2. CASE chat' # chat
      BY <1>0, <1>2, <3>2 DEF QwenPlaces
    <3>3. QED
      BY <3>1, <3>2
  <2>4. /\ e.hist = answered
        /\ e.prompt = "delta" /\ ~e.blind => e.cached # 0 /\ e.hist \subseteq last[e.cached].know
    BY <1>0, <2>1 DEF QwenBranches
  <2>5. e.pc # "collected"
    OBVIOUS
  <2>6. QED
    BY <1>1, <2>2, <2>3, <2>4, <2>5
<1>7. QwenGuesses'
  <2>1. \A q \in QwenReqs : job'[q].pc = "collected" => job'[q] = job[q]
    BY <1>1
  <2>2. QED
    BY <1>0, <2>1 DEF QwenGuesses
<1>8. QED
  BY <1>3, <1>4, <1>5, <1>6, <1>7 DEF QwenInv

\* The first attempt, and the one in a new chat for one the provider does not know.
LEMMA ChatSteps ==
  ASSUME QwenInv, NEW r \in QwenReqs, QwenEnter(r) \/ QwenStale(r)
  PROVE  QwenInv'
<1>0. QwenTypeOK
  BY DEF QwenInv
<1>1. CASE QwenEnter(r)
  <2> DEFINE e == [[job[r] EXCEPT !.had = chat # 0, !.prompt = Prompt(job[r], chat')] EXCEPT !.pc = "sending", !.chat = chat']
  <2>1. /\ job[r].pc = "waiting" /\ Obtained(job[r].model) /\ job' = [job EXCEPT ![r] = e] /\ qwenLock' = r
        /\ UNCHANGED <<counted, last, acc, billed, guessed, silent, turns, answered, crossed>>
    BY <1>1 DEF QwenEnter, Sending
  <2>2. job[r] \in Job /\ job[r].model \in QwenModels
    BY <1>0, <2>1, QwenFacts, JobFields
  <2>3. \/ chat # 0 /\ UNCHANGED <<chat, chats, model>>
        \/ chats < MaxChats /\ chats' = chats + 1 /\ chat' = chats + 1 /\ \E m \in QwenModels : model' = [model EXCEPT ![chats + 1] = m]
    BY <2>1, <2>2 DEF Obtained, Reusable
  <2>4. chat' \in Chats
    BY <1>0, <2>3, QwenFacts DEF Chats
  <2>5. Prompt(job[r], chat') \in {"delta", "full"} /\ (Prompt(job[r], chat') = "delta" => job[r].prompt = "delta" /\ chat' = job[r].cached)
    BY <2>2, JobFields DEF Prompt
  <2>6. /\ e \in Job /\ e.pc = "sending" /\ e.chat = chat' /\ e.hist = job[r].hist /\ e.turn = job[r].turn
        /\ e.cached = job[r].cached /\ e.blind = job[r].blind /\ e.prompt = Prompt(job[r], chat')
    BY <2>2, <2>4, <2>5 DEF Job
  <2> HIDE DEF e
  <2>7. job[r].pc # "idle" /\ e.pc \in {"sending", "backoff"} /\ qwenLock' \in QwenReqs \cup {NoReq}
    BY <2>1, <2>6
  <2>8. QED
    BY <2>1, <2>3, <2>5, <2>6, <2>7, ChatKeeps
<1>2. CASE QwenStale(r)
  <2> DEFINE e == [[job[r] EXCEPT !.stale = TRUE, !.prompt = "full", !.chat = chats + 1] EXCEPT !.pc = "backoff"]
  <2>1. /\ job[r].pc = "sending" /\ job' = [job EXCEPT ![r] = e] /\ qwenLock' = NoReq
        /\ chats < MaxChats /\ chats' = chats + 1 /\ chat' = chats + 1 /\ model' = [model EXCEPT ![chats + 1] = job[r].model]
        /\ UNCHANGED <<counted, last, acc, billed, guessed, silent, turns, answered, crossed>>
    BY <1>2 DEF QwenStale, Resting
  <2>2. job[r] \in Job /\ job[r].model \in QwenModels
    BY <1>0, <2>1, QwenFacts, JobFields
  <2>3. chats + 1 \in Chats
    BY <1>0, <2>1, QwenFacts DEF Chats
  <2>4. /\ e \in Job /\ e.pc = "backoff" /\ e.chat = chat' /\ e.hist = job[r].hist /\ e.turn = job[r].turn
        /\ e.cached = job[r].cached /\ e.blind = job[r].blind /\ e.prompt = "full"
    BY <2>1, <2>2, <2>3 DEF Job
  <2> HIDE DEF e
  <2>5. job[r].pc # "idle" /\ e.pc \in {"sending", "backoff"} /\ qwenLock' \in QwenReqs \cup {NoReq} /\ e.prompt # "delta"
    BY <2>1, <2>4
  <2>6. QED
    BY <2>1, <2>2, <2>4, <2>5, ChatKeeps
<1>3. QED
  BY <1>1, <1>2

\* A response that is read: it has counted what is billed at most, and knows what its branch does.
LEMMA HeardKeeps ==
  ASSUME QwenInv, NEW r \in QwenReqs, NEW how \in {"answer", "error", "context"}, NEW reported \in BOOLEAN, Heard(r, how, reported)
  PROVE  QwenInv'
<1> DEFINE c == job[r].chat
           known == Told(r)
           usage == IF reported THEN counted'[c] ELSE 0
           e == [job[r] EXCEPT !.pc = "collected", !.know = known, !.usage = usage, !.outcome = how]
<1>0. QwenTypeOK /\ QwenBills /\ QwenGuesses /\ QwenPlaces /\ QwenBranches
  BY DEF QwenInv
<1>1. /\ job[r].pc = "sending" /\ counted' = [counted EXCEPT ![c] = @ + 1] /\ qwenLock' = NoReq /\ silent' = (silent \/ ~reported)
      /\ UNCHANGED <<chat, chats, model, last, acc, billed, guessed, turns, answered, crossed>>
  BY DEF Heard
<1>2. job[r] \in Job /\ job[r].pc \in InChat /\ job[r].pc # "idle"
  BY <1>0, <1>1, QwenFacts DEF InChat
<1>3. c \in Chats /\ c # 0 /\ (job[r].prompt = "delta" => c = job[r].cached)
  BY <1>0, <1>2, JobFields DEF QwenPlaces
<1>4. /\ counted' \in [Chats -> Nat] /\ counted'[c] = counted[c] + 1 /\ counted[c] \in Nat
      /\ \A d \in Chats : counted[d] \in Nat /\ counted[d] <= counted'[d]
  BY <1>0, <1>1, <1>3, QwenFacts
<1>5. Told(r) \subseteq QwenTurns
  BY <1>0, <1>2, <1>3, QwenFacts, JobFields DEF Told
<1>6. job' = [job EXCEPT ![r] = e]
  BY DEF Heard
<1> HIDE DEF known, usage
<1>7. /\ e \in Job /\ e.pc = "collected" /\ e.know = Told(r) /\ e.usage = (IF reported THEN counted'[c] ELSE 0) /\ e.chat = c /\ e.hist = job[r].hist
      /\ e.turn = job[r].turn /\ e.prompt = job[r].prompt /\ e.cached = job[r].cached /\ e.blind = job[r].blind
  <2>1. known \subseteq QwenTurns /\ usage \in Nat /\ known = Told(r) /\ usage = IF reported THEN counted'[c] ELSE 0
    BY <1>3, <1>4, <1>5 DEF known, usage
  <2>2. QED
    BY <1>2, <2>1 DEF Job
<1> HIDE DEF e, c
<1>8. job' \in [QwenReqs -> Job \cup {Idle}] /\ job'[r] = e /\ \A q \in QwenReqs : q # r => job'[q] = job[q]
  BY <1>0, <1>6, <1>7, JobOf
<1>9. QwenTypeOK'
  <2>1. silent' \in BOOLEAN
    BY <1>1
  <2>2. QED
    BY <1>0, <1>1, <1>4, <1>8, <2>1 DEF QwenTypeOK
<1>10. QwenBills'
  <2>1. ASSUME NEW d \in Chats PROVE billed'[d] = acc'[d] /\ acc'[d] <= counted'[d] /\ (last'[d].chat # 0 => silent' \/ acc'[last'[d].chat] > 0)
    <3>1. acc[d] \in Nat /\ counted[d] \in Nat /\ counted'[d] \in Nat /\ acc[d] <= counted[d] /\ counted[d] <= counted'[d]
      BY <1>0, <1>4, QwenFacts DEF QwenBills
    <3>2. acc[d] <= counted'[d]
      BY <3>1
    <3>3. QED
      BY <1>0, <1>1, <3>2 DEF QwenBills
  <2>2. ASSUME NEW q \in QwenReqs, job'[q].pc = "collected", q # r
        PROVE  job'[q].chat # 0 /\ (silent' \/ job'[q].usage > 0) /\ job'[q].usage <= counted'[job'[q].chat]
    <3>1. job'[q] = job[q] /\ job[q] \in Job
      BY <1>0, <1>8, <2>2, QwenFacts
    <3>2. job[q].chat \in Chats /\ job[q].usage \in Nat /\ job[q].chat # 0 /\ (silent \/ job[q].usage > 0) /\ job[q].usage <= counted[job[q].chat]
      BY <1>0, <2>2, <3>1, JobFields DEF QwenBills
    <3> DEFINE x == counted[job[q].chat]
               y == counted'[job[q].chat]
    <3>3. x \in Nat /\ y \in Nat /\ x <= y /\ job[q].usage <= x
      BY <1>4, <3>2
    <3> HIDE DEF x, y
    <3>4. job[q].usage <= y
      BY <3>2, <3>3
    <3>5. QED
      BY <1>1, <3>1, <3>2, <3>4 DEF y
  <2>3. e.chat # 0 /\ (silent' \/ e.usage > 0) /\ e.usage <= counted'[e.chat]
    <3>1. e.chat = c /\ counted'[c] \in Nat /\ counted'[c] > 0
      BY <1>3, <1>4, <1>7
    <3>2. CASE reported
      BY <1>3, <1>7, <3>1, <3>2
    <3>3. CASE ~reported
      <4>1. silent' /\ e.usage = 0
        BY <1>1, <1>7, <3>3
      <4>2. e.usage <= counted'[c]
        BY <3>1, <4>1
      <4>3. QED
        BY <1>3, <3>1, <4>1, <4>2
    <3>4. QED
      BY <3>2, <3>3
  <2>4. \A q \in QwenReqs : job'[q].pc = "collected" =>
          job'[q].chat # 0 /\ (silent' \/ job'[q].usage > 0) /\ job'[q].usage <= counted'[job'[q].chat]
    BY <1>8, <2>2, <2>3
  <2>5. QED
    BY <2>1, <2>4 DEF QwenBills
<1>11. QwenPlaces'
  <2>1. e.turn # 0 /\ e.chat # 0 /\ (e.prompt = "delta" => e.chat = e.cached)
    BY <1>0, <1>2, <1>3, <1>7 DEF QwenPlaces
  <2>2. \A q \in QwenReqs : job'[q].pc # "idle" => job'[q].turn # 0
    BY <1>0, <1>8, <2>1 DEF QwenPlaces
  <2>3. \A q \in QwenReqs : job'[q].pc \in InChat => job'[q].chat # 0 /\ (job'[q].prompt = "delta" => job'[q].chat = job'[q].cached)
    BY <1>0, <1>8, <2>1 DEF QwenPlaces
  <2>4. QED
    BY <1>0, <1>1, <2>2, <2>3 DEF QwenPlaces
<1>12. QwenBranches'
  <2> SUFFICES ASSUME ~crossed' PROVE
        /\ \A q \in QwenReqs, o \in QwenReqs : job'[q].pc # "idle" /\ job'[o].pc # "idle" => q = o
        /\ chat' # 0 /\ 0 \in last'[chat'].know => answered' \subseteq last'[chat'].know
        /\ \A q \in QwenReqs : job'[q].pc # "idle" =>
             /\ job'[q].hist = answered'
             /\ job'[q].prompt = "delta" /\ ~job'[q].blind => job'[q].cached # 0 /\ job'[q].hist \subseteq last'[job'[q].cached].know
             /\ job'[q].pc \in InChat => chat' \in {0, job'[q].chat}
             /\ job'[q].pc = "collected" /\ chat' # 0 /\ 0 \in job'[q].know => answered' \cup {job'[q].turn} \subseteq job'[q].know
    BY DEF QwenBranches
  <2>1. ~crossed /\ \A q \in QwenReqs : job[q].pc # "idle" => q = r
    BY <1>0, <1>1, <1>2 DEF QwenBranches
  <2>2. \A q \in QwenReqs : job'[q].pc # "idle" => q = r
    BY <1>8, <2>1
  <2>3. /\ chat # 0 /\ 0 \in last[chat].know => answered \subseteq last[chat].know
        /\ e.hist = answered /\ chat \in {0, c}
        /\ e.prompt = "delta" /\ ~e.blind => e.cached # 0 /\ e.hist \subseteq last[e.cached].know
    BY <1>0, <1>2, <1>7, <2>1 DEF QwenBranches, c
  <2>4. ASSUME chat # 0, 0 \in Told(r) PROVE answered \cup {job[r].turn} \subseteq Told(r)
    <3>1. job[r].turn \in Told(r) /\ job[r].turn # 0
      BY <1>0, <1>2 DEF Told, QwenPlaces
    <3>2. CASE job[r].prompt = "full"
      BY <1>7, <2>3, <3>1, <3>2 DEF Told
    <3>3. CASE job[r].prompt # "full"
      <4>1. last[c].chat = c /\ 0 \in last[c].know /\ chat = c
        BY <2>3, <2>4, <3>1, <3>3 DEF Told, c
      <4>2. last[c].know \subseteq Told(r)
        BY <4>1 DEF Told, c
      <4>3. QED
        BY <1>3, <2>3, <3>1, <4>1, <4>2
    <3>4. QED
      BY <3>2, <3>3
  <2>5. QED
    BY <1>1, <1>7, <1>8, <2>2, <2>3, <2>4
<1>13. QwenGuesses'
  <2> SUFFICES ASSUME ~crossed', ~silent'
               PROVE  /\ \A d \in Chats : guessed'[d] = 0
                      /\ \A q \in QwenReqs : job'[q].pc = "collected" => job'[q].usage > acc'[job'[q].chat]
    BY DEF QwenGuesses
  <2>1. /\ \A d \in Chats : guessed[d] = 0
        /\ \A q \in QwenReqs : job[q].pc = "collected" => job[q].usage > acc[job[q].chat]
    BY <1>0, <1>1 DEF QwenGuesses
  <2>2. e.usage = counted[c] + 1 /\ e.chat = c
    BY <1>1, <1>4, <1>7
  <2>3. acc[c] \in Nat /\ acc[c] <= counted[c]
    BY <1>0, <1>3, QwenFacts DEF QwenBills
  <2>4. e.usage > acc[e.chat]
    BY <1>4, <2>2, <2>3
  <2>5. QED
    BY <1>1, <1>8, <2>1, <2>4
<1>14. QED
  BY <1>9, <1>10, <1>11, <1>12, <1>13 DEF QwenInv

\* A response that is committed: only what is beyond what was billed before is billed, and the
\* session goes on after it.
LEMMA CommitKeeps ==
  ASSUME QwenInv, NEW r \in QwenReqs, Commit(r)
  PROVE  QwenInv'
<1> DEFINE j == job[r]
           c == j.chat
           news == [chat |-> c, know |-> j.know]
           more == IF j.usage > acc[c] THEN j.usage - acc[c] ELSE 0
<1>0. QwenTypeOK /\ QwenBills /\ QwenGuesses /\ QwenPlaces /\ QwenBranches
  BY DEF QwenInv
<1>1. /\ j.pc = "collected"
      /\ \/ chat' = 0 /\ UNCHANGED <<last, acc, billed, guessed>>
         \/ /\ last' = IF chat = 0 THEN last ELSE [last EXCEPT ![chat] = news]
            /\ billed' = [billed EXCEPT ![c] = @ + more] /\ acc' = [acc EXCEPT ![c] = Accumulated(@, j.usage)] /\ chat' = chat
            /\ guessed' = IF j.usage <= acc[c] /\ j.outcome = "answer" THEN [guessed EXCEPT ![c] = @ + 1] ELSE guessed
      /\ answered' = IF j.outcome = "answer" THEN answered \cup {j.turn} ELSE answered
      /\ QwenLeave(r) /\ UNCHANGED <<chats, model, counted, silent, turns, crossed>>
  BY DEF Commit, upstream
<1>2. j \in Job /\ j.pc \in InChat /\ j.pc # "idle"
  BY <1>0, <1>1, QwenFacts DEF InChat
<1>3. /\ c \in Chats /\ c # 0 /\ j.turn \in QwenTurns /\ j.turn # 0 /\ j.know \subseteq QwenTurns
      /\ j.usage \in Nat /\ (silent \/ j.usage > 0) /\ j.usage <= counted[c]
  BY <1>0, <1>1, <1>2, JobFields DEF QwenPlaces, QwenBills
<1>4. news \in [chat : Chats \cup {0}, know : SUBSET QwenTurns] /\ news.chat = c /\ news.know = j.know
  BY <1>3
<1>5. job' = [job EXCEPT ![r] = Idle] /\ qwenLock' \in QwenReqs \cup {NoReq}
  BY <1>0, <1>1 DEF QwenLeave, QwenTypeOK
<1>6. /\ job' \in [QwenReqs -> Job \cup {Idle}] /\ job'[r].pc = "idle" /\ \A q \in QwenReqs : q # r => job'[q] = job[q]
  BY <1>0, <1>5, JobOf, QwenFacts
<1> HIDE DEF news, c, j
<1>7. /\ last' \in [Chats -> [chat : Chats \cup {0}, know : SUBSET QwenTurns]]
      /\ \A d \in Chats : last'[d] = last[d] \/ (last'[d] = news /\ d = chat /\ chat' = chat /\ acc' = [acc EXCEPT ![c] = Accumulated(@, j.usage)])
      /\ chat' # 0 => chat' = chat /\ last'[chat] = news
      /\ chat' \in {0, chat}
  BY <1>0, <1>1, <1>4, QwenFacts
<1>8. /\ acc' \in [Chats -> Nat] /\ billed' \in [Chats -> Nat]
      /\ \A d \in Chats : billed'[d] = acc'[d] /\ acc'[d] <= counted[d] /\ acc[d] <= acc'[d]
      /\ acc' = [acc EXCEPT ![c] = Accumulated(@, j.usage)] => silent \/ acc'[c] > 0
  <2>1. acc \in [Chats -> Nat] /\ billed \in [Chats -> Nat] /\ counted \in [Chats -> Nat] /\ \A d \in Chats : billed[d] = acc[d] /\ acc[d] <= counted[d]
    BY <1>0, QwenFacts DEF QwenBills
  <2>2. CASE UNCHANGED <<acc, billed>> /\ acc' # [acc EXCEPT ![c] = Accumulated(@, j.usage)]
    BY <2>1, <2>2
  <2>3. CASE billed' = [billed EXCEPT ![c] = @ + more] /\ acc' = [acc EXCEPT ![c] = Accumulated(@, j.usage)]
    <3> DEFINE u == j.usage
               a == acc[c]
               k == counted[c]
    <3>1. u \in Nat /\ (silent \/ u > 0) /\ a \in Nat /\ k \in Nat /\ a <= k /\ u <= k /\ billed[c] = a
      BY <1>3, <2>1
    <3>2. Accumulated(a, u) \in Nat /\ (silent \/ Accumulated(a, u) > 0) /\ Accumulated(a, u) <= k /\ a <= Accumulated(a, u)
      <4> HIDE DEF u, a, k
      <4>1. QED
        BY <3>1 DEF Accumulated
    <3>3. a + more = Accumulated(a, u) /\ more \in Nat
      <4> DEFINE x == a
      <4>1. x \in Nat /\ u \in Nat /\ more = IF u > x THEN u - x ELSE 0
        BY <3>1
      <4> HIDE DEF u, x, more
      <4>2. x + more = Accumulated(x, u) /\ more \in Nat
        BY <4>1 DEF Accumulated
      <4>3. QED
        BY <4>2 DEF x, u
    <3> HIDE DEF more
    <3>4. acc'[c] = Accumulated(a, u) /\ billed'[c] = a + more /\ \A d \in Chats : d # c => acc'[d] = acc[d] /\ billed'[d] = billed[d]
      BY <1>3, <2>1, <2>3, <3>1
    <3>5. acc' \in [Chats -> Nat] /\ billed' \in [Chats -> Nat]
      BY <1>3, <2>1, <2>3, <3>1, <3>2, <3>3
    <3>6. \A d \in Chats : d # c => acc[d] <= acc'[d]
      BY <2>1, <3>4
    <3>7. QED
      BY <1>3, <2>1, <3>2, <3>3, <3>4, <3>5, <3>6
  <2>4. CASE UNCHANGED <<acc, billed>> /\ acc' = [acc EXCEPT ![c] = Accumulated(@, j.usage)]
    <3>1. acc[c] = Accumulated(acc[c], j.usage) /\ acc[c] \in Nat
      BY <1>3, <2>1, <2>4
    <3>2. silent \/ acc'[c] > 0
      BY <1>3, <2>4, <3>1 DEF Accumulated
    <3>3. QED
      BY <2>1, <2>4, <3>2
  <2>5. QED
    BY <1>1, <2>2, <2>3, <2>4
<1>9. QwenTypeOK'
  <2>1. answered' \subseteq QwenTurns /\ chat' \in Chats \cup {0}
    BY <1>0, <1>1, <1>3, <1>7, QwenFacts
  <2>2. guessed' \in [Chats -> Nat]
    BY <1>0, <1>1, <1>3, QwenFacts
  <2>3. QED
    BY <1>0, <1>1, <1>5, <1>6, <1>7, <1>8, <2>1, <2>2 DEF QwenTypeOK
<1>10. QwenBills'
  <2>1. ASSUME NEW d \in Chats, last'[d].chat # 0 PROVE silent' \/ acc'[last'[d].chat] > 0
    <3>1. CASE last'[d] = last[d]
      <4> DEFINE f == last[d].chat
      <4>1. f \in Chats /\ (silent \/ acc[f] > 0) /\ acc[f] \in Nat /\ acc'[f] \in Nat /\ acc[f] <= acc'[f]
        BY <1>0, <1>8, <2>1, <3>1, QwenFacts DEF QwenBills
      <4>2. QED
        BY <1>1, <3>1, <4>1
    <3>2. CASE last'[d] # last[d]
      BY <1>1, <1>4, <1>7, <1>8, <3>2
    <3>3. QED
      BY <3>1, <3>2
  <2>2. \A q \in QwenReqs : job'[q].pc = "collected" => job'[q] = job[q]
    BY <1>6
  <2>3. \A q \in QwenReqs : job'[q].pc = "collected" =>
          job'[q].chat # 0 /\ (silent' \/ job'[q].usage > 0) /\ job'[q].usage <= counted[job'[q].chat]
    BY <1>0, <1>1, <2>2 DEF QwenBills
  <2>4. QED
    BY <1>1, <1>8, <2>1, <2>3 DEF QwenBills
<1>11. QwenPlaces'
  <2>1. chat' <= chats' /\ (chat # 0 => ~(chat > chats))
    BY <1>0, <1>1, <1>7, QwenFacts DEF QwenPlaces
  <2>2. ASSUME NEW d \in Chats, d > chats' PROVE last'[d].know = {}
    <3>1. d # chat
      BY <1>0, <1>1, <2>1, <2>2, QwenFacts
    <3>2. last'[d] = last[d]
      BY <1>7, <3>1
    <3>3. QED
      BY <1>0, <1>1, <2>2, <3>2 DEF QwenPlaces
  <2>3. \A q \in QwenReqs : job'[q].pc # "idle" => job'[q].turn # 0
    BY <1>0, <1>6 DEF QwenPlaces
  <2>4. \A q \in QwenReqs : job'[q].pc \in InChat => job'[q].chat # 0 /\ (job'[q].prompt = "delta" => job'[q].chat = job'[q].cached)
    <3>1. "idle" \notin InChat
      BY DEF InChat
    <3>2. QED
      BY <1>0, <1>6, <3>1 DEF QwenPlaces
  <2>5. QED
    BY <2>1, <2>2, <2>3, <2>4 DEF QwenPlaces
<1>12. QwenBranches'
  <2> SUFFICES ASSUME ~crossed' PROVE
        /\ \A q \in QwenReqs, o \in QwenReqs : job'[q].pc # "idle" /\ job'[o].pc # "idle" => q = o
        /\ chat' # 0 /\ 0 \in last'[chat'].know => answered' \subseteq last'[chat'].know
        /\ \A q \in QwenReqs : job'[q].pc # "idle" =>
             /\ job'[q].hist = answered'
             /\ job'[q].prompt = "delta" /\ ~job'[q].blind => job'[q].cached # 0 /\ job'[q].hist \subseteq last'[job'[q].cached].know
             /\ job'[q].pc \in InChat => chat' \in {0, job'[q].chat}
             /\ job'[q].pc = "collected" /\ chat' # 0 /\ 0 \in job'[q].know => answered' \cup {job'[q].turn} \subseteq job'[q].know
    BY DEF QwenBranches
  <2>1. ~crossed /\ \A q \in QwenReqs : job[q].pc # "idle" => q = r
    BY <1>0, <1>1, <1>2 DEF QwenBranches, j
  <2>2. \A q \in QwenReqs : job'[q].pc = "idle"
    BY <1>6, <2>1
  <2>3. chat # 0 /\ 0 \in j.know => answered \cup {j.turn} \subseteq j.know
    BY <1>0, <1>1, <1>2, <2>1 DEF QwenBranches, j
  <2>4. chat' # 0 /\ 0 \in last'[chat'].know => answered' \subseteq last'[chat'].know
    BY <1>1, <1>4, <1>7, <2>3
  <2>5. QED
    BY <2>2, <2>4
<1>13. QwenGuesses'
  <2> SUFFICES ASSUME ~crossed', ~silent'
               PROVE  /\ \A d \in Chats : guessed'[d] = 0
                      /\ \A q \in QwenReqs : job'[q].pc = "collected" => job'[q].usage > acc'[job'[q].chat]
    BY DEF QwenGuesses
  <2>1. (\A d \in Chats : guessed[d] = 0) /\ j.usage > acc[c]
    BY <1>0, <1>1 DEF QwenGuesses, j, c
  <2>2. acc[c] \in Nat
    BY <1>0, <1>3, QwenFacts
  <2>3. guessed' = guessed
    BY <1>1, <1>3, <2>1, <2>2
  <2>4. \A q \in QwenReqs : job[q].pc # "idle" => q = r
    BY <1>0, <1>1, <1>2 DEF QwenBranches, j
  <2>5. \A q \in QwenReqs : job'[q].pc = "idle"
    BY <1>6, <2>4
  <2>6. QED
    BY <2>1, <2>3, <2>5
<1>14. QED
  BY <1>9, <1>10, <1>11, <1>12, <1>13 DEF QwenInv

\* One step per action.
LEMMA QwenStep == QwenInv /\ [QwenNext]_qwenVars => QwenInv'
<1> SUFFICES ASSUME QwenInv, [QwenNext]_qwenVars PROVE QwenInv'
  OBVIOUS
<1>1. CASE QwenNext
  BY <1>1, ArriveKeeps, ChatSteps, QuietSteps, HeardKeeps, CommitKeeps, ExpireKeeps DEF QwenNext
<1>2. CASE UNCHANGED qwenVars
  <2>1. UNCHANGED <<qwenLock, chat, chats, model, counted, last, acc, billed, guessed, silent, turns, answered, crossed, job>>
    BY <1>2 DEF qwenVars, upstream
  <2>2. QED
    BY <2>1 DEF QwenInv, QwenTypeOK, QwenBills, QwenGuesses, QwenPlaces, QwenBranches
<1>3. QED
  BY <1>1, <1>2

\* A Qwen account's chats (qwen/api.py, qwen/accounts.py): what is billed is what the newest
\* committed response counted, and a branch that was given the history keeps up with it.
THEOREM QwenInvariance == QwenSpec => []QwenInv
<1>1. QED
  BY QwenInitially, QwenStep, PTL DEF QwenSpec

\* The types of a Qwen account's chats hold for every value of the constants.
THEOREM QwenTypeCorrect == QwenSpec => []QwenTypeOK
<1>1. QwenInv => QwenTypeOK
  BY DEF QwenInv
<1>2. QED
  BY <1>1, QwenInvariance, PTL

\* qwen/api.py: no token of a chat is billed twice by the counters, nor by an estimate while
\* requests do not overlap and the provider counts, and a prompt that leaves out the history is put
\* into the chat that has it.
THEOREM TurnsAreBilledOnce == QwenSpec => []QwenTurnsAddUp
<1>1. QwenInv => QwenTurnsAddUp
  <2> SUFFICES ASSUME QwenInv PROVE QwenTurnsAddUp
    OBVIOUS
  <2>1. \A c \in Chats : billed[c] <= counted[c] /\ (guessed[c] > 0 => crossed \/ silent)
    BY DEF QwenInv, QwenBills, QwenGuesses
  <2>2. ASSUME NEW r \in QwenReqs, job[r].pc = "sending", job[r].prompt = "delta"
        PROVE  job[r].chat = job[r].cached /\ (crossed \/ job[r].blind \/ job[r].hist \subseteq last[job[r].chat].know)
    <3>1. job[r].pc \in InChat /\ job[r].pc # "idle"
      BY <2>2 DEF InChat
    <3>2. QED
      BY <2>2, <3>1 DEF QwenInv, QwenPlaces, QwenBranches
  <2>3. ASSUME NEW c \in Chats, last[c].chat # 0 PROVE silent \/ billed[last[c].chat] > 0
    <3>1. last[c].chat \in Chats
      BY <2>3, QwenFacts DEF QwenInv
    <3>2. QED
      BY <2>3, <3>1 DEF QwenInv, QwenBills
  <2>4. QED
    BY <2>1, <2>2, <2>3 DEF QwenTurnsAddUp
<1>2. QED
  BY <1>1, QwenInvariance, PTL

-------------------------------------------------------------------------------
(* Usage *)

\* What a payload has for the models is no more than its totals.
Within(u) == \A field \in DOMAIN Zero : SumOf(u.byModel, field) <= u.totals[field]
\* a reset that has not stored the cleared usage yet
Clearing(t) == usageJob[t].clears /\ usageJob[t].todo # <<>> /\ Head(usageJob[t].todo) = "usage"

Todos == Seq(Parts \cup {"disk", "release"})

\* Whoever has something left to write holds the lock, and its payload is of the totals there are.
UsageWriters ==
  /\ \A t \in Threads :
       IF usageHolder = t
       THEN usageJob[t].todo # <<>> /\ Last(usageJob[t].todo) = "release" /\ usageJob[t].usage.totals = totals
       ELSE usageJob[t] = UsageIdle
  /\ \A t \in Threads : usageJob[t].clears =>
       usageJob[t].todo \in {<<"usage", "recent", "release">>, <<"recent", "release">>, <<"release">>}
\* Every payload, wherever it is, adds up; those in memory do so exactly until a counter is dropped.
UsageSums ==
  /\ \A field \in DOMAIN Zero :
       SumOf(byModel, field) <= totals[field] /\ (~evicted => SumOf(byModel, field) = totals[field])
  /\ Within(stored.usage) /\ Within(disk.usage) /\ \A t \in Threads : Within(usageJob[t].usage)
UsageNewest ==
  /\ ~unsaved => stored.usage.totals.requests = high
  /\ ~unsaved /\ (\A t \in Threads : ~Clearing(t)) => stored.usage.totals.requests <= totals.requests

UsageInv == UsageTypeOK /\ UsageWriters /\ UsageSums /\ UsageNewest

\* The columns of a bucket are numbers, and change with it.
LEMMA Columns ==
  ASSUME NEW b \in Seq([model : Models, row : Rows]), NEW field \in DOMAIN Zero
  PROVE  /\ Column(b, field) \in Seq(Nat) /\ Len(Column(b, field)) = Len(b) /\ SumOf(b, field) \in Nat
         /\ \A n \in 1 .. Len(b) : Column(b, field)[n] = b[n].row[field] /\ b[n].row[field] \in Nat
<1> DEFINE T == [model : Models, row : Rows]
<1>1. Len(b) \in Nat /\ DOMAIN b = 1 .. Len(b) /\ \A n \in 1 .. Len(b) : b[n] \in T
  <2>1. b \in Seq(T)
    OBVIOUS
  <2> HIDE DEF T
  <2>2. QED
    BY <2>1
<1>2. \A n \in 1 .. Len(b) : b[n].row \in Rows
  BY <1>1
<1>3. \A n \in 1 .. Len(b) : b[n].row[field] \in Nat
  BY <1>2 DEF Rows
<1>4. Column(b, field) \in [1 .. Len(b) -> Nat] /\ \A n \in 1 .. Len(b) : Column(b, field)[n] = b[n].row[field]
  BY <1>1, <1>3 DEF Column
<1>5. Column(b, field) \in Seq(Nat) /\ Len(Column(b, field)) = Len(b)
  BY <1>1, <1>4
<1>6. Len(b) \in 0 .. Len(b)
  BY <1>1
<1>7. Sums(Column(b, field))[Len(b)] \in Nat
  BY <1>5, <1>6, SumsStep
<1>8. QED
  BY <1>3, <1>4, <1>5, <1>7 DEF SumOf, Total

\* A counter at the end adds to every sum.
LEMMA SumAppend ==
  ASSUME NEW b \in Seq([model : Models, row : Rows]), NEW e \in [model : Models, row : Rows], NEW field \in DOMAIN Zero
  PROVE  SumOf(Append(b, e), field) = SumOf(b, field) + e.row[field]
<1>1. Append(b, e) \in Seq([model : Models, row : Rows]) /\ Len(Append(b, e)) = Len(b) + 1 /\ Len(b) \in Nat
  OBVIOUS
<1>2. Append(b, e)[Len(b) + 1] = e /\ \A n \in 1 .. Len(b) : Append(b, e)[n] = b[n]
  OBVIOUS
<1>3. e.row[field] \in Nat
  <2>1. e.row \in Rows
    OBVIOUS
  <2>2. QED
    BY <2>1 DEF Rows
<1> DEFINE a == Append(b, e)
           c == Column(b, field)
           d == Column(a, field)
<1> HIDE DEF a
<1>4. c \in Seq(Nat) /\ Len(c) = Len(b) /\ \A n \in 1 .. Len(b) : c[n] = b[n].row[field]
  BY Columns
<1>5. d \in Seq(Nat) /\ Len(d) = Len(b) + 1 /\ \A n \in 1 .. Len(b) + 1 : d[n] = a[n].row[field]
  BY <1>1, Columns DEF a
<1>6. ASSUME NEW n \in 1 .. Len(b) PROVE d[n] = c[n]
  <2>1. n \in 1 .. Len(b) + 1 /\ a[n] = b[n]
    BY <1>1, <1>2 DEF a
  <2>2. QED
    BY <1>4, <1>5, <2>1
<1>7. d[Len(b) + 1] = e.row[field]
  <2>1. Len(b) + 1 \in 1 .. Len(b) + 1 /\ a[Len(b) + 1] = e
    BY <1>1, <1>2 DEF a
  <2>2. QED
    BY <1>5, <2>1
<1> HIDE DEF c, d
<1>8. d = Append(c, e.row[field])
  <2>1. Append(c, e.row[field]) \in Seq(Nat) /\ Len(Append(c, e.row[field])) = Len(b) + 1
    BY <1>3, <1>4
  <2>2. ASSUME NEW n \in 1 .. Len(b) + 1 PROVE d[n] = Append(c, e.row[field])[n]
    <3>1. CASE n = Len(b) + 1
      <4> DEFINE v == e.row[field]
      <4> HIDE DEF v
      <4>0. c \in Seq(Nat) /\ Len(c) \in Nat
        BY <1>4
      <4>1. Append(c, v)[Len(c) + 1] = v
        BY <4>0
      <4>2. QED
        BY <1>4, <1>7, <3>1, <4>1 DEF v
    <3>2. CASE n # Len(b) + 1
      <4>1. n \in 1 .. Len(b)
        BY <1>1, <3>2
      <4>2. Append(c, e.row[field])[n] = c[n]
        BY <1>3, <1>4, <4>1
      <4>3. QED
        BY <1>6, <4>1, <4>2
    <3>3. QED
      BY <3>1, <3>2
  <2>3. QED
    BY <1>5, <2>1, <2>2
<1>9. Total(d) = Total(c) + e.row[field]
  BY <1>3, <1>4, <1>8, TotalAppend
<1>10. QED
  BY <1>9 DEF SumOf, a, c, d

\* A counter that is taken out is missing in every sum.
LEMMA SumRemove ==
  ASSUME NEW b \in Seq([model : Models, row : Rows]), NEW n \in 1 .. Len(b), NEW field \in DOMAIN Zero
  PROVE  SumOf(RemoveAt(b, n), field) \in Nat /\ SumOf(b, field) = SumOf(RemoveAt(b, n), field) + b[n].row[field]
<1> DEFINE c == Column(b, field)
           d == Column(RemoveAt(b, n), field)
<1>1. /\ RemoveAt(b, n) \in Seq([model : Models, row : Rows]) /\ Len(RemoveAt(b, n)) = Len(b) - 1
      /\ \A i \in 1 .. Len(b) - 1 : RemoveAt(b, n)[i] = IF i < n THEN b[i] ELSE b[i + 1]
  BY RemovedElements
<1>2. Len(b) \in Nat /\ n \in Nat /\ 1 <= n /\ n <= Len(b)
  OBVIOUS
<1>3. c \in Seq(Nat) /\ Len(c) = Len(b) /\ \A i \in 1 .. Len(b) : c[i] = b[i].row[field]
  BY Columns
<1>4. d \in Seq(Nat) /\ Len(d) = Len(b) - 1 /\ \A i \in 1 .. Len(b) - 1 : d[i] = RemoveAt(b, n)[i].row[field]
  BY <1>1, Columns
<1> HIDE DEF c, d
<1>5. ASSUME NEW i \in 1 .. Len(b) - 1 PROVE d[i] = IF i < n THEN c[i] ELSE c[i + 1]
  <2>1. i \in 1 .. Len(b) /\ i + 1 \in 1 .. Len(b)
    BY <1>2
  <2>2. d[i] = IF i < n THEN b[i].row[field] ELSE b[i + 1].row[field]
    BY <1>1, <1>4
  <2>3. c[i] = b[i].row[field] /\ c[i + 1] = b[i + 1].row[field]
    BY <1>3, <2>1
  <2>4. QED
    BY <2>2, <2>3
<1>6. /\ RemoveAt(c, n) \in Seq(Nat) /\ Len(RemoveAt(c, n)) = Len(b) - 1
      /\ \A i \in 1 .. Len(b) - 1 : RemoveAt(c, n)[i] = IF i < n THEN c[i] ELSE c[i + 1]
  <2>1. n \in 1 .. Len(c) /\ c \in Seq(Nat)
    BY <1>2, <1>3
  <2>2. /\ RemoveAt(c, n) \in Seq(Nat) /\ Len(RemoveAt(c, n)) = Len(c) - 1
        /\ \A i \in 1 .. Len(c) - 1 : RemoveAt(c, n)[i] = IF i < n THEN c[i] ELSE c[i + 1]
    BY <2>1, RemovedElements
  <2>3. QED
    BY <1>3, <2>2
<1>7. d = RemoveAt(c, n)
  <2> DEFINE x == RemoveAt(c, n)
  <2>1. x \in Seq(Nat) /\ Len(x) = Len(d) /\ \A i \in 1 .. Len(d) : d[i] = x[i]
    BY <1>4, <1>5, <1>6
  <2> HIDE DEF x
  <2>2. d \in Seq(Nat) /\ Len(d) \in Nat /\ d = [i \in 1 .. Len(d) |-> d[i]] /\ x = [i \in 1 .. Len(x) |-> x[i]]
    BY <1>4, <2>1
  <2>3. d = x
    BY <2>1, <2>2
  <2>4. QED
    BY <2>3 DEF x
<1>8. Total(RemoveAt(c, n)) \in Nat /\ Total(c) = Total(RemoveAt(c, n)) + c[n]
  BY <1>2, <1>3, TotalRemove
<1>9. QED
  BY <1>2, <1>3, <1>7, <1>8 DEF SumOf, c, d

\* What an answer costs is added to each field of a row.
LEMMA PlusFields ==
  ASSUME NEW row \in Rows, NEW usage \in Usages
  PROVE  /\ Plus(row, usage) \in Rows /\ Plus(Zero, usage) \in Rows /\ Zero \in Rows
         /\ \A field \in DOMAIN Zero : /\ Plus(Zero, usage)[field] \in Nat /\ row[field] \in Nat /\ Zero[field] = 0
                                       /\ Plus(row, usage)[field] = row[field] + Plus(Zero, usage)[field]
         /\ Plus(row, usage).requests = row.requests + 1 /\ row.requests = row["requests"]
<1>1. DOMAIN Zero = {"requests", "prompt", "completion", "total"}
  BY DEF Zero
<1>2. usage.prompt \in Nat /\ usage.completion \in Nat /\ usage.total \in Nat
  BY UsageAssumption DEF UsageAssumption
<1>3. UsageTotal(usage) \in Nat
  BY <1>2 DEF UsageTotal
<1> DEFINE p == UsageTotal(usage)
<1> HIDE DEF p
<1>4. row.requests \in Nat /\ row.prompt \in Nat /\ row.completion \in Nat /\ row.total \in Nat
  BY <1>1 DEF Rows
<1>5. QED
  BY <1>1, <1>2, <1>3, <1>4 DEF Rows, Plus, Zero

\* A counter of a model is moved to the end with what an answer costs, or is a new one there.
LEMMA AddedSums ==
  ASSUME NEW b \in Seq([model : Models, row : Rows]), NEW m \in Models, NEW usage \in Usages
  PROVE  /\ UsageAdded(b, m, usage) \in Seq([model : Models, row : Rows])
         /\ Len(UsageAdded(b, m, usage)) <= Len(b) + 1
         /\ \A field \in DOMAIN Zero : SumOf(UsageAdded(b, m, usage), field) = SumOf(b, field) + Plus(Zero, usage)[field]
<1> DEFINE T == [model : Models, row : Rows]
           added == UsageAdded(b, m, usage)
<1>1. Zero \in Rows
  BY DEF Zero, Rows
<1>2. CASE Places(b, m) = {}
  <2> DEFINE e == [model |-> m, row |-> Plus(Zero, usage)]
  <2>1. added = Append(b, e)
    BY <1>2 DEF UsageAdded
  <2>2. e \in T /\ e.row = Plus(Zero, usage)
    BY <1>1, PlusFields
  <2> HIDE DEF e
  <2>3. Append(b, e) \in Seq(T) /\ Len(Append(b, e)) = Len(b) + 1
    BY <2>2
  <2>4. \A field \in DOMAIN Zero : SumOf(Append(b, e), field) = SumOf(b, field) + e.row[field]
    BY <2>2, SumAppend
  <2>5. Len(b) + 1 <= Len(b) + 1
    OBVIOUS
  <2>6. QED
    BY <2>1, <2>2, <2>3, <2>4, <2>5
<1>3. CASE Places(b, m) # {}
  <2> DEFINE n == CHOOSE n \in Places(b, m) : TRUE
             e == [model |-> m, row |-> Plus(b[n].row, usage)]
             r == RemoveAt(b, n)
  <2>1. added = Append(r, e)
    BY <1>3 DEF UsageAdded
  <2>2. n \in 1 .. Len(b)
    <3>1. n \in Places(b, m)
      BY <1>3
    <3>2. DOMAIN b = 1 .. Len(b)
      OBVIOUS
    <3>3. QED
      BY <3>1, <3>2 DEF Places
  <2> HIDE DEF n
  <2>3. b[n] \in T /\ b[n].row \in Rows
    <3>1. b \in Seq(T)
      OBVIOUS
    <3>2. b[n] \in T
      <4> HIDE DEF T
      <4>1. QED
        BY <2>2, <3>1
    <3>3. QED
      BY <3>2
  <2>4. e \in T /\ e.row = Plus(b[n].row, usage)
    BY <2>3, PlusFields
  <2>5. r \in Seq(T) /\ Len(r) = Len(b) - 1
    BY <2>2, RemovedElements
  <2>6. \A field \in DOMAIN Zero : SumOf(r, field) \in Nat /\ SumOf(b, field) = SumOf(r, field) + b[n].row[field]
    BY <2>2, SumRemove
  <2> HIDE DEF e, r
  <2>7. Append(r, e) \in Seq(T) /\ Len(Append(r, e)) = Len(r) + 1
    BY <2>4, <2>5
  <2>8. Len(Append(r, e)) <= Len(b) + 1
    BY <2>5, <2>7
  <2>9. \A field \in DOMAIN Zero : SumOf(Append(r, e), field) = SumOf(r, field) + e.row[field]
    BY <2>4, <2>5, SumAppend
  <2>10. ASSUME NEW field \in DOMAIN Zero PROVE SumOf(Append(r, e), field) = SumOf(b, field) + Plus(Zero, usage)[field]
    <3> DEFINE p == Plus(Zero, usage)[field]
               q == b[n].row[field]
               x == SumOf(r, field)
    <3> DEFINE row == b[n].row
    <3>0. row \in Rows
      BY <2>3
    <3> HIDE DEF row
    <3>1. p \in Nat /\ row[field] \in Nat /\ Plus(row, usage)[field] = row[field] + p
      BY <3>0, PlusFields
    <3>01. p \in Nat /\ q \in Nat /\ e.row[field] = q + p
      BY <2>4, <3>1 DEF row
    <3>2. SumOf(Append(r, e), field) = x + (q + p) /\ SumOf(b, field) = x + q /\ x \in Nat
      BY <2>6, <2>9, <3>01
    <3> HIDE DEF p, q, x
    <3>3. QED
      BY <3>01, <3>2 DEF p
  <2>11. QED
    BY <2>1, <2>7, <2>8, <2>10
<1>4. QED
  BY <1>2, <1>3

\* The first element makes room.
LEMMA NewestElements ==
  ASSUME NEW T, NEW s \in Seq(T), Len(s) <= MaxRecords + 1
  PROVE  /\ Newest(s) \in Seq(T) /\ Len(Newest(s)) <= MaxRecords
         /\ Newest(s) = IF Len(s) > MaxRecords THEN RemoveAt(s, 1) ELSE s
<1>1. MaxRecords \in Nat \ {0} /\ Len(s) \in Nat
  BY UsageAssumption DEF UsageAssumption
<1>2. CASE Len(s) > MaxRecords
  <2>1. 1 \in 1 .. Len(s)
    BY <1>1, <1>2
  <2>2. /\ RemoveAt(s, 1) \in Seq(T) /\ Len(RemoveAt(s, 1)) = Len(s) - 1
        /\ \A i \in 1 .. Len(s) - 1 : RemoveAt(s, 1)[i] = IF i < 1 THEN s[i] ELSE s[i + 1]
    BY <2>1, RemovedElements
  <2>3. s # <<>>
    BY <1>1, <1>2
  <2>4. Tail(s) \in Seq(T) /\ Len(Tail(s)) = Len(s) - 1 /\ \A i \in 1 .. Len(s) - 1 : Tail(s)[i] = s[i + 1]
    BY <2>3
  <2> DEFINE u == Tail(s)
             v == RemoveAt(s, 1)
  <2> HIDE DEF u, v
  <2>5. u \in Seq(T) /\ v \in Seq(T) /\ Len(u) = Len(v) /\ \A i \in 1 .. Len(u) : u[i] = v[i]
    BY <1>1, <2>2, <2>4 DEF u, v
  <2>6. u = [i \in 1 .. Len(u) |-> u[i]] /\ v = [i \in 1 .. Len(v) |-> v[i]]
    BY <2>5
  <2>7. u = v
    BY <2>5, <2>6
  <2>8. Newest(s) = Tail(s)
    BY <1>2 DEF Newest
  <2>9. Len(s) - 1 <= MaxRecords
    BY <1>1
  <2>10. QED
    BY <1>2, <2>4, <2>7, <2>8, <2>9 DEF u, v
<1>3. CASE ~(Len(s) > MaxRecords)
  BY <1>1, <1>3 DEF Newest
<1>4. QED
  BY <1>2, <1>3

\* Nothing adds up to nothing.
LEMMA EmptyFacts ==
  /\ Zero \in Rows /\ <<>> \in Buckets /\ <<>> \in Recents /\ Empty \in Payloads /\ Cleared \in Stores
  /\ UsageIdle \in UsageJobs /\ Within(Empty) /\ \A field \in DOMAIN Zero : SumOf(<<>>, field) = 0 /\ Zero[field] = 0
<1>1. Zero \in Rows /\ \A field \in DOMAIN Zero : Zero[field] = 0
  BY DEF Zero, Rows
<1>2. MaxRecords \in Nat
  BY UsageAssumption DEF UsageAssumption
<1>3. <<>> \in Buckets /\ <<>> \in Recents
  BY <1>2 DEF Buckets, Recents
<1>4. Empty \in Payloads
  BY <1>1, <1>3 DEF Empty, Payloads
<1>5. Cleared \in Stores
  BY <1>3, <1>4 DEF Cleared, Stores
<1>6. UsageIdle \in UsageJobs
  <2>1. <<>> \in Seq(Parts \cup {"disk", "release"})
    OBVIOUS
  <2>2. QED
    BY <1>3, <1>4, <2>1 DEF UsageIdle, UsageJobs
<1>7. ASSUME NEW field \in DOMAIN Zero PROVE SumOf(<<>>, field) = 0
  <2>1. Column(<<>>, field) = <<>>
    BY DEF Column
  <2>2. Len(<<>>) = 0 /\ <<>> \in Seq(Nat)
    OBVIOUS
  <2>3. Sums(<<>>)[0] = 0
    BY <2>2, SumsStep
  <2>4. QED
    BY <2>1, <2>2, <2>3 DEF SumOf, Total
<1>8. Within(Empty)
  BY <1>1, <1>7 DEF Within, Empty
<1>9. QED
  BY <1>1, <1>3, <1>4, <1>5, <1>6, <1>7, <1>8

\* Who does not hold the lock has nothing left to write.
LEMMA OneWriter ==
  ASSUME UsageInv
  PROVE  /\ \A t \in Threads : usageHolder # t => usageJob[t] = UsageIdle
         /\ \A t \in Threads : usageJob[t] # UsageIdle \/ usageJob[t].todo # <<>> => usageHolder = t
         /\ UsageIdle.clears = FALSE /\ UsageIdle.todo = <<>> /\ UsageIdle.usage = Empty
         /\ usageJob \in [Threads -> UsageJobs] /\ Nobody \notin Threads
  BY UsageAssumption DEF UsageInv, UsageWriters, UsageIdle, UsageTypeOK, UsageAssumption

\* Whoever takes the lock has all to write that it took it for.
LEMMA Starts ==
  ASSUME UsageInv, NEW t \in Threads, NEW todo \in Todos, todo # <<>>, Last(todo) = "release", NEW clears \in BOOLEAN,
         clears => todo = <<"usage", "recent", "release">> /\ totals' = Zero,
         Takes(t), Writes(t, todo, clears), totals' \in Rows, byModel' \in Buckets, recent' \in Recents
  PROVE  /\ usageJob' \in [Threads -> UsageJobs] /\ usageHolder' = t /\ UsageWriters'
         /\ \A q \in Threads : usageJob[q] = UsageIdle /\ (q # t => usageJob'[q] = UsageIdle)
         /\ usageJob'[t].clears = clears /\ usageJob'[t].todo = todo
         /\ usageJob'[t].usage = IF clears THEN Empty ELSE [there |-> TRUE, totals |-> totals', byModel |-> byModel']
<1> DEFINE u == IF clears THEN Empty ELSE [there |-> TRUE, totals |-> totals', byModel |-> byModel']
           e == [todo |-> todo, usage |-> u, recent |-> recent', clears |-> clears]
<1>1. usageHolder = Nobody /\ usageHolder' = t
  BY DEF Takes
<1>2. \A q \in Threads : usageJob[q] = UsageIdle
  BY <1>1, OneWriter
<1>3. usageJob' = [usageJob EXCEPT ![t] = e]
  BY DEF Writes, Snapshot
<1>4. u \in Payloads
  BY EmptyFacts DEF Payloads
<1>5. u.totals = totals'
  BY DEF Empty
<1>6. e \in UsageJobs /\ e.todo = todo /\ e.usage = u /\ e.clears = clears
  BY <1>4 DEF UsageJobs, Todos
<1> HIDE DEF e
<1>7. usageJob' \in [Threads -> UsageJobs] /\ usageJob'[t] = e /\ \A q \in Threads : q # t => usageJob'[q] = UsageIdle
  BY <1>2, <1>3, <1>6, OneWriter
<1>8. UsageWriters'
  <2>1. ASSUME NEW q \in Threads PROVE
          IF usageHolder' = q
          THEN usageJob'[q].todo # <<>> /\ Last(usageJob'[q].todo) = "release" /\ usageJob'[q].usage.totals = totals'
          ELSE usageJob'[q] = UsageIdle
    BY <1>1, <1>5, <1>6, <1>7
  <2>2. ASSUME NEW q \in Threads, usageJob'[q].clears PROVE
          usageJob'[q].todo \in {<<"usage", "recent", "release">>, <<"recent", "release">>, <<"release">>}
    BY <1>6, <1>7, <2>2, OneWriter
  <2>3. QED
    BY <2>1, <2>2 DEF UsageWriters
<1>9. QED
  BY <1>1, <1>2, <1>6, <1>7, <1>8

\* Whoever has something left after a write, holds the lock still.
LEMMA GoesOnWriting ==
  ASSUME UsageInv, NEW t \in Threads, usageHolder = t, NEW rest \in Todos, rest # <<>>, Last(rest) = "release",
         usageJob[t].clears => rest \in {<<"recent", "release">>, <<"release">>},
         usageJob' = [usageJob EXCEPT ![t].todo = rest], UNCHANGED <<totals, usageHolder>>
  PROVE  /\ usageJob' \in [Threads -> UsageJobs] /\ UsageWriters' /\ usageJob'[t].todo = rest
         /\ \A q \in Threads : /\ usageJob'[q].usage = usageJob[q].usage /\ usageJob'[q].clears = usageJob[q].clears
                               /\ q # t => usageJob[q] = UsageIdle /\ usageJob'[q] = UsageIdle
<1> DEFINE e == [usageJob[t] EXCEPT !.todo = rest]
<1>1. usageJob[t] \in UsageJobs /\ usageJob[t].usage.totals = totals
  BY OneWriter DEF UsageInv, UsageWriters
<1>2. e \in UsageJobs /\ e.todo = rest /\ e.usage = usageJob[t].usage /\ e.clears = usageJob[t].clears
  BY <1>1 DEF UsageJobs, Todos
<1>3. usageJob' = [usageJob EXCEPT ![t] = e]
  BY <1>1, OneWriter DEF UsageJobs
<1> HIDE DEF e
<1>4. /\ usageJob' \in [Threads -> UsageJobs] /\ usageJob'[t] = e
      /\ \A q \in Threads : q # t => usageJob'[q] = UsageIdle /\ usageJob[q] = UsageIdle
  BY <1>2, <1>3, OneWriter
<1>5. \A q \in Threads : usageJob'[q].usage = usageJob[q].usage /\ usageJob'[q].clears = usageJob[q].clears
  BY <1>2, <1>4
<1>6. UsageWriters'
  <2>1. ASSUME NEW q \in Threads PROVE
          IF usageHolder' = q
          THEN usageJob'[q].todo # <<>> /\ Last(usageJob'[q].todo) = "release" /\ usageJob'[q].usage.totals = totals'
          ELSE usageJob'[q] = UsageIdle
    BY <1>1, <1>2, <1>4
  <2>2. ASSUME NEW q \in Threads, usageJob'[q].clears PROVE
          usageJob'[q].todo \in {<<"usage", "recent", "release">>, <<"recent", "release">>, <<"release">>}
    BY <1>2, <1>4, <2>2, OneWriter
  <2>3. QED
    BY <2>1, <2>2 DEF UsageWriters
<1>7. QED
  BY <1>2, <1>4, <1>5, <1>6

\* After a part that is not the release, the release is still to come.
LEMMA TailTodo ==
  ASSUME NEW todo \in Todos, todo # <<>>, Last(todo) = "release", Head(todo) # "release"
  PROVE  /\ Tail(todo) \in Todos /\ Tail(todo) # <<>> /\ Last(Tail(todo)) = "release"
         /\ todo = <<"usage", "recent", "release">> => Tail(todo) = <<"recent", "release">>
         /\ todo = <<"recent", "release">> => Tail(todo) = <<"release">>
         /\ todo # <<"release">>
<1>1. Len(todo) \in Nat /\ Len(todo) # 0 /\ todo[Len(todo)] = "release" /\ todo[1] # "release"
  BY DEF Last, Todos
<1>0. /\ Len(<<"usage", "recent", "release">>) = 3 /\ Len(<<"recent", "release">>) = 2
      /\ Tail(<<"usage", "recent", "release">>) = <<"recent", "release">> /\ Tail(<<"recent", "release">>) = <<"release">>
      /\ todo # <<"release">>
  BY <1>1
<1>2. Len(todo) > 1
  BY <1>1
<1>3. Tail(todo) \in Todos /\ Len(Tail(todo)) = Len(todo) - 1 /\ \A i \in 1 .. Len(todo) - 1 : Tail(todo)[i] = todo[i + 1]
  BY <1>1 DEF Todos
<1>4. Tail(todo) # <<>>
  BY <1>1, <1>2, <1>3
<1>5. Len(todo) - 1 \in 1 .. Len(todo) - 1 /\ Len(todo) - 1 + 1 = Len(todo)
  BY <1>1, <1>2
<1>6. Last(Tail(todo)) = "release"
  <2>1. Tail(todo)[Len(todo) - 1] = todo[Len(todo)]
    BY <1>3, <1>5
  <2>2. QED
    BY <1>1, <1>3, <2>1 DEF Last
<1>7. QED
  BY <1>0, <1>3, <1>4, <1>6

\* What record writes ends with the release of the lock.
LEMMA RecordTodo ==
  ASSUME NEW S, "release" \in S
  PROVE  /\ Only(<<"usage", "recent", "release">>, S) \in Todos
         /\ Only(<<"usage", "recent", "release">>, S) # <<>> /\ Last(Only(<<"usage", "recent", "release">>, S)) = "release"
<1> DEFINE s == <<"usage", "recent", "release">>
           T == Parts \cup {"disk", "release"}
<1>1. s \in Seq(T) /\ Len(s) = 3 /\ s[3] = "release"
  BY DEF Parts
<1> HIDE DEF s, T
<1>2. /\ Onlys(s, S) \in [0 .. 3 -> Seq(T)]
      /\ \A n \in 1 .. 3 : Onlys(s, S)[n] = IF s[n] \in S THEN Append(Onlys(s, S)[n - 1], s[n]) ELSE Onlys(s, S)[n - 1]
  <2>1. /\ Onlys(s, S) \in [0 .. Len(s) -> Seq(T)]
        /\ \A n \in 1 .. Len(s) :
             Onlys(s, S)[n] = IF s[n] \in S THEN Append(Onlys(s, S)[n - 1], s[n]) ELSE Onlys(s, S)[n - 1]
    <3>1. s \in Seq(T)
      BY <1>1
    <3>2. QED
      BY <3>1, OnlysStep
  <2>2. Len(s) = 3
    BY <1>1
  <2>3. QED
    BY <2>1, <2>2
<1>3. 3 \in 1 .. 3 /\ 2 \in 0 .. 3 /\ 3 - 1 = 2
  OBVIOUS
<1> DEFINE q == Onlys(s, S)[2]
<1>4. Only(s, S) = Append(q, "release") /\ q \in Seq(T)
  BY <1>1, <1>2, <1>3 DEF Only
<1>5. "release" \in T
  BY DEF T
<1> HIDE DEF q
<1>6. Append(q, "release") \in Seq(T) /\ Append(q, "release") # <<>> /\ Last(Append(q, "release")) = "release"
  BY <1>4, <1>5 DEF Last
<1>7. QED
  BY <1>4, <1>6 DEF s, T, Todos

-------------------------------------------------------------------------------
\* Before the first record there is nothing.
LEMMA UsageInitially == UsageInit => UsageInv
<1> SUFFICES ASSUME UsageInit PROVE UsageInv
  OBVIOUS
<1>1. MaxCrashes \in Nat /\ UsageMaxTurns \in Nat /\ Nobody \notin Threads
  BY UsageAssumption DEF UsageAssumption
<1>2. UsageTypeOK
  <2>1. usageJob \in [Threads -> UsageJobs] /\ totals \in Rows /\ stored \in Stores /\ disk \in Stores
    BY EmptyFacts DEF UsageInit
  <2>2. byModel \in Buckets /\ recent \in Recents /\ due \subseteq Parts
    BY EmptyFacts DEF UsageInit
  <2>3. usageHolder \in Threads \cup {Nobody} /\ usageTurns \in 0 .. UsageMaxTurns /\ crashes \in 0 .. MaxCrashes /\ high \in Nat
    BY <1>1 DEF UsageInit
  <2>4. {evicted, unsaved} \subseteq BOOLEAN
    BY DEF UsageInit
  <2>5. QED
    BY <2>1, <2>2, <2>3, <2>4 DEF UsageTypeOK
<1>3. UsageWriters
  BY <1>1 DEF UsageInit, UsageWriters, UsageIdle
<1>4. \A t \in Threads : usageJob[t].usage = Empty
  BY DEF UsageInit, UsageIdle
<1>5. stored.usage = Empty /\ disk.usage = Empty /\ high = 0
  BY DEF UsageInit, Cleared
<1>6. UsageSums
  BY <1>4, <1>5, EmptyFacts DEF UsageInit, UsageSums
<1>7. Empty.totals.requests = 0 /\ totals.requests = 0
  BY DEF Empty, Zero, UsageInit
<1>8. UsageNewest
  BY <1>5, <1>7 DEF UsageNewest
<1>9. QED
  BY <1>2, <1>3, <1>6, <1>8 DEF UsageInv

\* The totals of a payload are numbers.
LEMMA Requests ==
  ASSUME UsageTypeOK
  PROVE  /\ totals.requests \in Nat /\ high \in Nat /\ stored.usage.totals.requests \in Nat
         /\ stored.usage \in Payloads /\ disk.usage \in Payloads /\ disk.usage.totals.requests \in Nat
         /\ stored.recent \in Recents /\ disk.recent \in Recents
         /\ \A t \in Threads : usageJob[t].usage \in Payloads /\ usageJob[t].usage.totals.requests \in Nat
         /\ \A u \in Payloads : u.totals \in Rows /\ u.byModel \in Buckets
         /\ \A row \in Rows : row.requests \in Nat
<1>1. \A row \in Rows : row.requests \in Nat
  BY DEF Rows, Zero
<1>2. \A u \in Payloads : u.totals \in Rows /\ u.byModel \in Buckets
  BY DEF Payloads
<1>3. totals \in Rows /\ high \in Nat /\ stored \in Stores /\ disk \in Stores /\ usageJob \in [Threads -> UsageJobs]
  BY DEF UsageTypeOK
<1>4. stored.usage \in Payloads /\ disk.usage \in Payloads /\ stored.recent \in Recents /\ disk.recent \in Recents
  BY <1>3 DEF Stores
<1>5. \A t \in Threads : usageJob[t] \in UsageJobs
  BY <1>3
<1>6. \A t \in Threads : usageJob[t].usage \in Payloads
  BY <1>5 DEF UsageJobs
<1>7. QED
  BY <1>1, <1>2, <1>3, <1>4, <1>6

\* record.
LEMMA RecordKeeps ==
  ASSUME UsageInv, NEW t \in Threads, NEW m \in Models, NEW usage \in Usages, NEW looped \in BOOLEAN,
         Record(t, m, usage, looped)
  PROVE  UsageInv'
<1> DEFINE added == UsageAdded(byModel, m, usage)
           parts == IF looped THEN due ELSE due \cup {"usage"}
           todo == Only(<<"usage", "recent", "release">>, parts \cup {"release"})
<1>1. /\ UsageTypeOK /\ UsageSums /\ UsageNewest /\ MaxRecords \in Nat \ {0} /\ UsageMaxTurns \in Nat
      /\ totals \in Rows /\ byModel \in Buckets /\ recent \in Recents
  BY UsageAssumption DEF UsageInv, UsageTypeOK, UsageAssumption
<1>2. /\ usageTurns < UsageMaxTurns /\ usageTurns' = usageTurns + 1 /\ totals' = Plus(totals, usage)
      /\ byModel' = Newest(added) /\ recent' = Newest(Append(recent, usageTurns'))
      /\ evicted' = (evicted \/ Len(added) > MaxRecords) /\ due' = due \ parts
      /\ Takes(t) /\ Writes(t, todo, FALSE) /\ UNCHANGED <<stored, disk, crashes, high, unsaved>>
  BY DEF Record
<1>3. totals' \in Rows /\ totals'.requests = totals.requests + 1
  BY <1>1, <1>2, PlusFields
<1>4. /\ byModel \in Seq([model : Models, row : Rows]) /\ Len(byModel) <= MaxRecords
      /\ added \in Seq([model : Models, row : Rows]) /\ Len(added) <= Len(byModel) + 1
      /\ \A field \in DOMAIN Zero : SumOf(added, field) = SumOf(byModel, field) + Plus(Zero, usage)[field]
  BY <1>1, AddedSums DEF Buckets
<1>5. todo \in Todos /\ todo # <<>> /\ Last(todo) = "release"
  BY RecordTodo
<1> HIDE DEF added, todo
<1>6. Len(added) \in Nat /\ Len(byModel) \in Nat /\ Len(added) <= MaxRecords + 1
  BY <1>1, <1>4
<1>7. byModel' \in Buckets /\ byModel' = IF Len(added) > MaxRecords THEN RemoveAt(added, 1) ELSE added
  BY <1>2, <1>4, <1>6, NewestElements DEF Buckets
<1>8. recent' \in Recents
  <2>1. recent \in Seq(1 .. UsageMaxTurns) /\ Len(recent) <= MaxRecords /\ Len(recent) \in Nat
    BY <1>1 DEF Recents
  <2>2. usageTurns' \in 1 .. UsageMaxTurns
    BY <1>1, <1>2 DEF UsageTypeOK
  <2> DEFINE q == Append(recent, usageTurns')
  <2>3. q \in Seq(1 .. UsageMaxTurns) /\ Len(q) = Len(recent) + 1
    BY <2>1, <2>2
  <2> HIDE DEF q
  <2>4. Len(q) <= MaxRecords + 1
    BY <1>1, <2>1, <2>3
  <2>5. Newest(q) \in Seq(1 .. UsageMaxTurns) /\ Len(Newest(q)) <= MaxRecords
    BY <2>3, <2>4, NewestElements
  <2>6. QED
    BY <1>2, <2>5 DEF Recents, q
<1>9. /\ usageJob' \in [Threads -> UsageJobs] /\ usageHolder' = t /\ UsageWriters'
      /\ \A q \in Threads : usageJob[q] = UsageIdle /\ (q # t => usageJob'[q] = UsageIdle)
      /\ usageJob'[t].clears = FALSE
      /\ usageJob'[t].usage = [there |-> TRUE, totals |-> totals', byModel |-> byModel']
  BY <1>2, <1>3, <1>5, <1>7, <1>8, Starts
<1>10. UsageTypeOK'
  <2>1. due' \subseteq Parts /\ usageTurns' \in 0 .. UsageMaxTurns /\ {evicted, unsaved}' \subseteq BOOLEAN
    BY <1>1, <1>2 DEF UsageTypeOK
  <2>2. QED
    BY <1>1, <1>2, <1>3, <1>7, <1>8, <1>9, <2>1 DEF UsageTypeOK
<1>11. ASSUME NEW field \in DOMAIN Zero
       PROVE  SumOf(byModel', field) <= totals'[field] /\ (~evicted' => SumOf(byModel', field) = totals'[field])
  <2> DEFINE p == Plus(Zero, usage)[field]
             x == SumOf(byModel, field)
             y == totals[field]
             z == SumOf(byModel', field)
  <2>1. p \in Nat /\ y \in Nat /\ totals'[field] = y + p
    BY <1>1, <1>2, PlusFields
  <2>2. x \in Nat /\ x <= y /\ (~evicted => x = y)
    BY <1>1, <1>4, Columns DEF UsageSums
  <2>3. SumOf(added, field) = x + p
    BY <1>4
  <2>4. CASE Len(added) > MaxRecords
    <3>1. 1 \in 1 .. Len(added) /\ byModel' = RemoveAt(added, 1)
      BY <1>1, <1>6, <1>7, <2>4
    <3>2. z \in Nat /\ SumOf(added, field) = z + added[1].row[field] /\ added[1].row[field] \in Nat
      BY <1>4, <3>1, SumRemove, Columns
    <3> DEFINE w == added[1].row[field]
    <3>3. z \in Nat /\ x + p = z + w /\ w \in Nat /\ evicted'
      BY <1>2, <2>3, <2>4, <3>2
    <3> HIDE DEF w, x, y, z, p
    <3>4. z <= y + p
      BY <2>1, <2>2, <3>3
    <3>5. QED
      BY <2>1, <3>3, <3>4 DEF z
  <2>5. CASE ~(Len(added) > MaxRecords)
    <3>1. z = x + p /\ evicted' = evicted
      BY <1>1, <1>2, <1>7, <2>3, <2>5 DEF UsageTypeOK
    <3> HIDE DEF x, y, z, p
    <3>2. QED
      BY <2>1, <2>2, <3>1 DEF z
  <2>6. QED
    BY <2>4, <2>5
<1>12. UsageSums'
  <2>1. Within(usageJob'[t].usage)
    BY <1>9, <1>11 DEF Within
  <2>2. ASSUME NEW q \in Threads, q # t PROVE Within(usageJob'[q].usage)
    BY <1>9, <2>2, EmptyFacts, OneWriter
  <2>3. Within(stored.usage)' /\ Within(disk.usage)'
    BY <1>1, <1>2 DEF UsageSums, Within, SumOf, Column
  <2>4. \A q \in Threads : Within(usageJob'[q].usage)
    BY <2>1, <2>2
  <2>5. QED
    BY <1>11, <2>3, <2>4 DEF UsageSums, Within, SumOf, Column
<1>13. UsageNewest'
  <2>1. \A q \in Threads : ~usageJob'[q].clears /\ ~usageJob[q].clears
    BY <1>9, OneWriter
  <2>2. \A q \in Threads : ~Clearing(q)
    BY <2>1 DEF Clearing
  <2>3. QED
    BY <1>1, <1>2, <1>3, <2>2, Requests DEF UsageNewest
<1>14. QED
  BY <1>9, <1>10, <1>12, <1>13 DEF UsageInv

\* flush.
LEMMA FlushKeeps ==
  ASSUME UsageInv, NEW t \in Threads, UsageFlush(t)
  PROVE  UsageInv'
<1> DEFINE todo == <<"usage", "recent", "disk", "release">>
<1>1. /\ Takes(t) /\ Writes(t, todo, FALSE) /\ due' = {} /\ UNCHANGED memory
      /\ UNCHANGED <<stored, disk, usageTurns, crashes, high, evicted, unsaved>>
  BY DEF UsageFlush
<1>2. todo \in Todos /\ todo # <<>> /\ Last(todo) = "release"
  BY DEF Todos, Parts, Last
<1> HIDE DEF todo
<1>3. totals' \in Rows /\ byModel' \in Buckets /\ recent' \in Recents /\ totals' = totals /\ byModel' = byModel
  BY <1>1 DEF UsageInv, UsageTypeOK, memory
<1>4. /\ usageJob' \in [Threads -> UsageJobs] /\ usageHolder' = t /\ UsageWriters'
      /\ \A q \in Threads : usageJob[q] = UsageIdle /\ (q # t => usageJob'[q] = UsageIdle)
      /\ usageJob'[t].clears = FALSE
      /\ usageJob'[t].usage = [there |-> TRUE, totals |-> totals', byModel |-> byModel']
  BY <1>1, <1>2, <1>3, Starts
<1>5. UsageTypeOK'
  <2>1. due' \subseteq Parts /\ usageHolder' \in Threads \cup {Nobody}
    BY <1>1, <1>4
  <2>2. QED
    BY <1>1, <1>3, <1>4, <2>1 DEF UsageInv, UsageTypeOK
<1>6. UsageSums'
  <2>1. Within(usageJob'[t].usage)
    BY <1>3, <1>4 DEF Within, UsageInv, UsageSums
  <2>2. ASSUME NEW q \in Threads, q # t PROVE Within(usageJob'[q].usage)
    BY <1>4, <2>2, EmptyFacts, OneWriter
  <2>3. \A q \in Threads : Within(usageJob'[q].usage)
    BY <2>1, <2>2
  <2>4. QED
    BY <1>1, <1>3, <2>3 DEF UsageInv, UsageSums, Within, SumOf, Column
<1>7. UsageNewest'
  <2>1. \A q \in Threads : ~Clearing(q)
    BY <1>4, OneWriter DEF Clearing
  <2>2. QED
    BY <1>1, <1>3, <2>1 DEF UsageInv, UsageNewest
<1>8. QED
  BY <1>4, <1>5, <1>6, <1>7 DEF UsageInv

\* reset.
LEMMA ResetKeeps ==
  ASSUME UsageInv, NEW t \in Threads, Reset(t)
  PROVE  UsageInv'
<1> DEFINE todo == <<"usage", "recent", "release">>
<1>1. /\ Takes(t) /\ Writes(t, todo, TRUE) /\ due' = Parts /\ totals' = Zero /\ byModel' = <<>> /\ recent' = <<>>
      /\ evicted' = FALSE /\ UNCHANGED <<stored, disk, usageTurns, crashes, high, unsaved>>
  BY DEF Reset
<1>2. todo \in Todos /\ todo # <<>> /\ Last(todo) = "release" /\ Head(todo) = "usage"
  BY DEF Todos, Parts, Last
<1>3. totals' \in Rows /\ byModel' \in Buckets /\ recent' \in Recents
  BY <1>1, EmptyFacts
<1>4. /\ usageJob' \in [Threads -> UsageJobs] /\ usageHolder' = t /\ UsageWriters'
      /\ \A q \in Threads : usageJob[q] = UsageIdle /\ (q # t => usageJob'[q] = UsageIdle)
      /\ usageJob'[t].clears = TRUE /\ usageJob'[t].todo = todo /\ usageJob'[t].usage = Empty
  BY <1>1, <1>2, <1>3, Starts
<1>5. UsageTypeOK'
  <2>1. due' \subseteq Parts /\ usageHolder' \in Threads \cup {Nobody} /\ {evicted, unsaved}' \subseteq BOOLEAN
    BY <1>1, <1>4 DEF UsageInv, UsageTypeOK
  <2>2. QED
    BY <1>1, <1>3, <1>4, <2>1 DEF UsageInv, UsageTypeOK
<1>6. UsageSums'
  <2>1. \A q \in Threads : usageJob'[q].usage = Empty
    BY <1>4, OneWriter
  <2>2. \A field \in DOMAIN Zero : SumOf(byModel', field) = 0 /\ totals'[field] = 0
    BY <1>1, EmptyFacts
  <2>3. Within(stored.usage)' /\ Within(disk.usage)'
    BY <1>1 DEF UsageInv, UsageSums, Within, SumOf, Column
  <2>4. \A q \in Threads : Within(usageJob'[q].usage)
    BY <2>1, EmptyFacts
  <2>5. \A field \in DOMAIN Zero : SumOf(byModel', field) <= totals'[field] /\ SumOf(byModel', field) = totals'[field]
    BY <2>2
  <2>6. QED
    BY <2>3, <2>4, <2>5 DEF UsageSums, Within, SumOf, Column
<1>7. UsageNewest'
  <2>1. usageJob'[t].clears /\ usageJob'[t].todo # <<>> /\ Head(usageJob'[t].todo) = "usage"
    BY <1>2, <1>4
  <2>2. ~(\A q \in Threads : ~Clearing(q))'
    BY <2>1 DEF Clearing
  <2>3. QED
    BY <1>1, <2>2 DEF UsageInv, UsageNewest
<1>8. QED
  BY <1>4, <1>5, <1>6, <1>7 DEF UsageInv

\* set of the usage or of the records.
LEMMA WriteKeeps ==
  ASSUME UsageInv, NEW t \in Threads, Write(t)
  PROVE  UsageInv'
<1> DEFINE todo == usageJob[t].todo
           rest == Tail(todo)
<1>1. PICK part \in Parts :
        /\ NextIs(t, part) /\ stored' = [stored EXCEPT ![part] = IF part = "usage" THEN usageJob[t].usage ELSE usageJob[t].recent]
        /\ high' = IF part = "recent" THEN high
                   ELSE IF unsaved \/ usageJob[t].clears \/ usageJob[t].usage.totals.requests > high
                        THEN usageJob[t].usage.totals.requests ELSE high
        /\ unsaved' = (unsaved /\ part = "recent")
  BY DEF Write
<1>2. UsageDone(t) /\ UNCHANGED <<memory, due, usageHolder, disk, usageTurns, crashes, evicted>>
  BY DEF Write
<1>3. todo # <<>> /\ Head(todo) = part /\ usageHolder = t
  BY <1>1, OneWriter DEF NextIs
<1>4. todo \in Todos /\ Last(todo) = "release" /\ usageJob[t].usage.totals = totals /\ usageJob[t] \in UsageJobs
  BY <1>3, OneWriter DEF UsageInv, UsageWriters, UsageJobs, Todos
<1>5. part = "usage" \/ part = "recent"
  BY DEF Parts
<1>6. /\ rest \in Todos /\ rest # <<>> /\ Last(rest) = "release" /\ todo # <<"release">>
      /\ todo = <<"usage", "recent", "release">> => rest = <<"recent", "release">>
      /\ todo = <<"recent", "release">> => rest = <<"release">>
  BY <1>3, <1>4, <1>5, TailTodo
<1>7. usageJob[t].clears => rest \in {<<"recent", "release">>, <<"release">>}
  BY <1>6 DEF UsageInv, UsageWriters
<1>8. usageJob' = [usageJob EXCEPT ![t].todo = rest]
  BY <1>2 DEF UsageDone
<1> HIDE DEF todo, rest
<1>9. /\ usageJob' \in [Threads -> UsageJobs] /\ UsageWriters' /\ usageJob'[t].todo = rest
      /\ \A q \in Threads : /\ usageJob'[q].usage = usageJob[q].usage /\ usageJob'[q].clears = usageJob[q].clears
                            /\ q # t => usageJob[q] = UsageIdle /\ usageJob'[q] = UsageIdle
  BY <1>2, <1>3, <1>6, <1>7, <1>8, GoesOnWriting DEF memory
<1>10. /\ stored \in Stores /\ usageJob[t].usage \in Payloads /\ usageJob[t].recent \in Recents
       /\ usageJob[t].usage.totals.requests \in Nat /\ high \in Nat /\ totals.requests = usageJob[t].usage.totals.requests
       /\ stored.usage.totals.requests \in Nat
  BY <1>4, Requests DEF UsageInv, UsageTypeOK, UsageJobs
<1>11. /\ stored' \in Stores
       /\ part = "usage" => stored'.usage = usageJob[t].usage
       /\ part = "recent" => stored'.usage = stored.usage
  BY <1>1, <1>5, <1>10 DEF Stores
<1>12. UsageTypeOK'
  <2>1. high' \in Nat /\ {evicted, unsaved}' \subseteq BOOLEAN
    BY <1>1, <1>2, <1>10 DEF UsageInv, UsageTypeOK
  <2>2. QED
    BY <1>2, <1>9, <1>11, <2>1 DEF UsageInv, UsageTypeOK, memory
<1>13. UsageSums'
  <2>1. Within(stored'.usage)
    BY <1>5, <1>11 DEF UsageInv, UsageSums
  <2>2. \A q \in Threads : Within(usageJob'[q].usage)
    BY <1>9 DEF UsageInv, UsageSums
  <2>3. QED
    BY <1>2, <2>1, <2>2 DEF UsageInv, UsageSums, Within, SumOf, Column, memory
<1>14. UsageNewest'
  <2>1. CASE part = "usage"
    <3>1. stored'.usage.totals.requests = totals'.requests
      BY <1>2, <1>10, <1>11, <2>1 DEF memory
    <3>2. ~unsaved /\ ~usageJob[t].clears => stored.usage.totals.requests = high /\ high <= totals.requests
      <4>1. \A q \in Threads : q # t => ~Clearing(q)
        BY <1>9, OneWriter DEF Clearing
      <4>2. ~usageJob[t].clears => ~Clearing(t)
        BY DEF Clearing
      <4>3. QED
        BY <4>1, <4>2 DEF UsageInv, UsageNewest
    <3> DEFINE x == usageJob[t].usage.totals.requests
    <3>3. high' = IF unsaved \/ usageJob[t].clears \/ x > high THEN x ELSE high
      BY <1>1, <2>1
    <3>4. x \in Nat /\ high \in Nat /\ totals.requests = x /\ totals'.requests = x
      BY <1>2, <1>10 DEF memory
    <3> HIDE DEF x
    <3>5. high' = totals'.requests
      BY <3>2, <3>3, <3>4
    <3>6. QED
      BY <3>1, <3>4, <3>5 DEF UsageNewest
  <2>2. CASE part = "recent"
    <3>1. \A q \in Threads : ~Clearing(q)
      <4>1. \A q \in Threads : q # t => ~Clearing(q)
        BY <1>9, OneWriter DEF Clearing
      <4>2. ~Clearing(t)
        BY <1>3, <2>2 DEF Clearing, todo
      <4>3. QED
        BY <4>1, <4>2
    <3>2. high' = high /\ unsaved' = unsaved /\ stored'.usage = stored.usage /\ totals' = totals
      BY <1>1, <1>2, <1>11, <2>2 DEF memory, UsageInv, UsageTypeOK
    <3>3. QED
      BY <3>1, <3>2 DEF UsageInv, UsageNewest
  <2>3. QED
    BY <1>5, <2>1, <2>2
<1>15. QED
  BY <1>9, <1>12, <1>13, <1>14 DEF UsageInv

\* A write that fails.
LEMMA WriteFailsKeeps ==
  ASSUME UsageInv, NEW t \in Threads, UsageWriteFails(t)
  PROVE  UsageInv'
<1>1. /\ usageJob[t].todo # <<>> /\ usageJob' = [usageJob EXCEPT ![t].todo = <<"release">>]
      /\ unsaved' = (unsaved \/ usageJob[t].clears)
      /\ UNCHANGED <<memory, due, usageHolder, stored, disk, usageTurns, crashes, high, evicted>>
  BY DEF UsageWriteFails, NextIs
<1>2. usageHolder = t
  BY <1>1, OneWriter
<1>3. <<"release">> \in Todos /\ <<"release">> # <<>> /\ Last(<<"release">>) = "release"
  BY DEF Todos, Last
<1>4. /\ usageJob' \in [Threads -> UsageJobs] /\ UsageWriters' /\ usageJob'[t].todo = <<"release">>
      /\ \A q \in Threads : /\ usageJob'[q].usage = usageJob[q].usage /\ usageJob'[q].clears = usageJob[q].clears
                            /\ q # t => usageJob[q] = UsageIdle /\ usageJob'[q] = UsageIdle
  BY <1>1, <1>2, <1>3, GoesOnWriting DEF memory
<1>5. unsaved' \in BOOLEAN
  BY <1>1, OneWriter DEF UsageInv, UsageTypeOK, UsageJobs
<1>6. UsageTypeOK'
  BY <1>1, <1>4, <1>5 DEF UsageInv, UsageTypeOK, memory
<1>7. UsageSums'
  <2>1. \A q \in Threads : Within(usageJob'[q].usage)
    BY <1>4 DEF UsageInv, UsageSums
  <2>2. QED
    BY <1>1, <2>1 DEF UsageInv, UsageSums, Within, SumOf, Column, memory
<1>8. UsageNewest'
  <2>1. ~unsaved' => ~unsaved /\ ~Clearing(t)
    BY <1>1 DEF Clearing
  <2>2. \A q \in Threads : q # t => ~Clearing(q)
    BY <1>4, OneWriter DEF Clearing
  <2>3. QED
    BY <1>1, <2>1, <2>2 DEF UsageInv, UsageNewest, memory
<1>9. QED
  BY <1>4, <1>6, <1>7, <1>8 DEF UsageInv

\* The store's write to its file, of the tracker's flush.
LEMMA ToDiskKeeps ==
  ASSUME UsageInv, NEW t \in Threads, ToDisk(t)
  PROVE  UsageInv'
<1> DEFINE todo == usageJob[t].todo
           rest == Tail(todo)
<1>1. /\ NextIs(t, "disk") /\ disk' = stored /\ usageJob' = [usageJob EXCEPT ![t].todo = rest]
      /\ UNCHANGED <<memory, due, usageHolder, stored, usageTurns, crashes, high, evicted, unsaved>>
  BY DEF ToDisk, UsageDone
<1>2. todo # <<>> /\ Head(todo) = "disk" /\ usageHolder = t
  BY <1>1, OneWriter DEF NextIs
<1>3. todo \in Todos /\ Last(todo) = "release"
  BY <1>2, OneWriter DEF UsageInv, UsageWriters, UsageJobs, Todos
<1>4. rest \in Todos /\ rest # <<>> /\ Last(rest) = "release" /\ todo # <<"release">>
  BY <1>2, <1>3, TailTodo
<1>5. ~usageJob[t].clears
  <2>1. Head(<<"usage", "recent", "release">>) = "usage" /\ Head(<<"recent", "release">>) = "recent" /\ Head(<<"release">>) = "release"
    OBVIOUS
  <2>2. QED
    BY <1>2, <2>1 DEF UsageInv, UsageWriters
<1> HIDE DEF todo, rest
<1>6. /\ usageJob' \in [Threads -> UsageJobs] /\ UsageWriters' /\ usageJob'[t].todo = rest
      /\ \A q \in Threads : /\ usageJob'[q].usage = usageJob[q].usage /\ usageJob'[q].clears = usageJob[q].clears
                            /\ q # t => usageJob[q] = UsageIdle /\ usageJob'[q] = UsageIdle
  BY <1>1, <1>2, <1>4, <1>5, GoesOnWriting DEF memory
<1>7. UsageTypeOK'
  BY <1>1, <1>6 DEF UsageInv, UsageTypeOK, memory
<1>8. UsageSums'
  <2>1. \A q \in Threads : Within(usageJob'[q].usage)
    BY <1>6 DEF UsageInv, UsageSums
  <2>2. Within(stored'.usage) /\ Within(disk'.usage)
    BY <1>1 DEF UsageInv, UsageSums
  <2>3. QED
    BY <1>1, <2>1, <2>2 DEF UsageInv, UsageSums, Within, SumOf, Column, memory
<1>9. UsageNewest'
  <2>1. \A q \in Threads : ~Clearing(q)
    BY <1>5, <1>6, OneWriter DEF Clearing
  <2>2. QED
    BY <1>1, <2>1 DEF UsageInv, UsageNewest, memory
<1>10. QED
  BY <1>6, <1>7, <1>8, <1>9 DEF UsageInv

\* The release of the lock.
LEMMA ReleaseKeeps ==
  ASSUME UsageInv, NEW t \in Threads, Release(t)
  PROVE  UsageInv'
<1>1. /\ usageJob[t].todo # <<>> /\ Head(usageJob[t].todo) = "release"
      /\ usageHolder' = Nobody /\ usageJob' = [usageJob EXCEPT ![t] = UsageIdle]
      /\ UNCHANGED <<memory, due, stored, disk, usageTurns, crashes, high, evicted, unsaved>>
  BY DEF Release, NextIs
<1>2. usageHolder = t
  BY <1>1, OneWriter
<1>3. \A q \in Threads : usageJob'[q] = UsageIdle
  BY <1>1, <1>2, OneWriter
<1>4. UsageTypeOK'
  <2>1. usageJob' \in [Threads -> UsageJobs]
    BY <1>1, EmptyFacts, OneWriter
  <2>2. QED
    BY <1>1, <2>1 DEF UsageInv, UsageTypeOK, memory
<1>5. UsageWriters'
  BY <1>1, <1>3, OneWriter DEF UsageWriters
<1>6. UsageSums'
  <2>1. \A q \in Threads : Within(usageJob'[q].usage)
    BY <1>3, EmptyFacts, OneWriter
  <2>2. QED
    BY <1>1, <2>1 DEF UsageInv, UsageSums, Within, SumOf, Column, memory
<1>7. UsageNewest'
  <2>1. \A q \in Threads : ~Clearing(q)
    <3>1. ASSUME usageJob[t].clears PROVE Head(usageJob[t].todo) # "usage"
      BY <1>1
    <3>2. QED
      BY <1>2, <3>1, OneWriter DEF Clearing
  <2>2. QED
    BY <1>1, <2>1 DEF UsageInv, UsageNewest, memory
<1>8. QED
  BY <1>4, <1>5, <1>6, <1>7 DEF UsageInv

\* The store writes its file, or an interval is over.
LEMMA AsidesKeep ==
  ASSUME UsageInv, Saved \/ \E part \in Parts : Passes(part)
  PROVE  UsageInv'
<1>1. /\ disk' = stored \/ disk' = disk
      /\ due' = due \/ \E part \in Parts : due' = due \cup {part}
      /\ UNCHANGED <<memory, usageHolder, usageJob, stored, usageTurns, crashes, high, evicted, unsaved>>
  BY DEF Saved, Passes
<1>2. due' \subseteq Parts /\ disk' \in Stores
  BY <1>1 DEF UsageInv, UsageTypeOK
<1>3. UsageTypeOK'
  BY <1>1, <1>2 DEF UsageInv, UsageTypeOK, memory
<1>4. UsageWriters'
  BY <1>1 DEF UsageInv, UsageWriters, memory
<1>5. UsageSums'
  <2>1. Within(stored'.usage) /\ Within(disk'.usage)
    BY <1>1 DEF UsageInv, UsageSums
  <2>2. QED
    BY <1>1, <2>1 DEF UsageInv, UsageSums, Within, SumOf, Column, memory
<1>6. UsageNewest'
  BY <1>1 DEF UsageInv, UsageNewest, Clearing, memory
<1>7. QED
  BY <1>3, <1>4, <1>5, <1>6 DEF UsageInv

\* A restart reads what the file has.
LEMMA RestartKeeps ==
  ASSUME UsageInv, Restart
  PROVE  UsageInv'
<1>1. /\ crashes < MaxCrashes /\ crashes' = crashes + 1 /\ usageHolder' = Nobody
      /\ usageJob' = [t \in Threads |-> UsageIdle] /\ due' = Parts /\ stored' = disk
      /\ totals' = disk.usage.totals /\ byModel' = disk.usage.byModel
      /\ recent' = (IF disk.usage.there THEN disk.recent ELSE <<>>)
      /\ high' = disk.usage.totals.requests /\ unsaved' = FALSE /\ evicted' = TRUE /\ UNCHANGED <<disk, usageTurns>>
  BY DEF Restart
<1>2. \A q \in Threads : usageJob'[q] = UsageIdle
  BY <1>1
<1>3. UsageTypeOK'
  <2>1. totals' \in Rows /\ byModel' \in Buckets /\ recent' \in Recents /\ high' \in Nat
    BY <1>1, EmptyFacts, Requests DEF UsageInv
  <2>2. crashes' \in 0 .. MaxCrashes
    BY <1>1, UsageAssumption DEF UsageAssumption, UsageInv, UsageTypeOK
  <2>3. usageJob' \in [Threads -> UsageJobs] /\ {evicted, unsaved}' \subseteq BOOLEAN /\ usageHolder' \in Threads \cup {Nobody}
    BY <1>1, EmptyFacts
  <2>4. QED
    BY <1>1, <2>1, <2>2, <2>3 DEF UsageInv, UsageTypeOK
<1>4. UsageWriters'
  BY <1>1, <1>2, OneWriter DEF UsageWriters
<1>5. UsageSums'
  <2>1. \A q \in Threads : Within(usageJob'[q].usage)
    BY <1>2, EmptyFacts, OneWriter
  <2>2. Within(stored'.usage) /\ Within(disk'.usage)
    BY <1>1 DEF UsageInv, UsageSums
  <2>3. \A field \in DOMAIN Zero : SumOf(byModel', field) <= totals'[field]
    BY <1>1 DEF UsageInv, UsageSums, Within
  <2>4. QED
    BY <1>1, <2>1, <2>2, <2>3 DEF UsageSums, Within, SumOf, Column
<1>6. UsageNewest'
  <2>1. stored'.usage.totals.requests = high' /\ totals'.requests = high' /\ high' \in Nat
    BY <1>1, Requests DEF UsageInv
  <2>2. QED
    BY <2>1 DEF UsageNewest
<1>7. QED
  BY <1>3, <1>4, <1>5, <1>6 DEF UsageInv

\* One step per action.
LEMMA UsageStep == UsageInv /\ [UsageNext]_usageVars => UsageInv'
<1> SUFFICES ASSUME UsageInv, [UsageNext]_usageVars PROVE UsageInv'
  OBVIOUS
<1>1. CASE UsageNext
  BY <1>1, RecordKeeps, FlushKeeps, ResetKeeps, WriteKeeps, WriteFailsKeeps, ToDiskKeeps, ReleaseKeeps, AsidesKeep, RestartKeeps
  DEF UsageNext
<1>2. CASE UNCHANGED usageVars
  <2>1. /\ UNCHANGED <<totals, byModel, recent, due, usageHolder, usageJob, stored>>
        /\ UNCHANGED <<disk, usageTurns, crashes, high, evicted, unsaved>>
    BY <1>2 DEF usageVars, memory
  <2>2. UsageTypeOK' /\ UsageWriters'
    BY <2>1 DEF UsageInv, UsageTypeOK, UsageWriters
  <2>3. UsageSums'
    BY <2>1 DEF UsageInv, UsageSums, Within, SumOf, Column
  <2>4. UsageNewest'
    BY <2>1 DEF UsageInv, UsageNewest, Clearing
  <2>5. QED
    BY <2>2, <2>3, <2>4 DEF UsageInv
<1>3. QED
  BY <1>1, <1>2

\* The usage tracker (usage.py): whoever writes holds the lock and writes the totals there are,
\* and every payload, in memory, in the store and in the file, adds up.
THEOREM UsageInvariance == UsageSpec => []UsageInv
<1>1. QED
  BY UsageInitially, UsageStep, PTL DEF UsageSpec

\* The types of the usage tracker's state (usage.py) hold for every value of the constants.
THEOREM UsageTypeCorrect == UsageSpec => []UsageTypeOK
<1>1. UsageInv => UsageTypeOK
  BY DEF UsageInv
<1>2. QED
  BY <1>1, UsageInvariance, PTL

\* usage.py: the counters of the models add up to the totals, and the store has the newest
\* usage that was written, however records, resets, failed writes and restarts interleave.
THEOREM CountersAddUp == UsageSpec => []UsageAddsUp
<1>1. UsageInv => UsageAddsUp
  <2> SUFFICES ASSUME UsageInv PROVE UsageAddsUp
    OBVIOUS
  <2>1. (\A t \in Threads : ~usageJob[t].clears) => \A t \in Threads : ~Clearing(t)
    BY DEF Clearing
  <2>2. QED
    BY <2>1 DEF UsageInv, UsageSums, UsageNewest, UsageAddsUp
<1>2. QED
  BY <1>1, UsageInvariance, PTL

\* qwen/api.py and usage.py: nothing is counted twice or left out, neither of a chat nor by the
\* tracker.
THEOREM NothingIsCountedTwice == QwenSpec /\ UsageSpec => []TurnsAddUp
<1>1. QwenTurnsAddUp /\ UsageAddsUp => TurnsAddUp
  BY DEF TurnsAddUp
<1>2. QED
  BY <1>1, TurnsAreBilledOnce, CountersAddUp, PTL
=============================================================================
