----------------------------- MODULE ServerProofs -----------------------------
(***************************************************************************)
(* Proofs about the server around the handlers: what the start opens and   *)
(* the stop closes, what a body may cost, who holds a client of a pool     *)
(* that a caller brought, and what the calls of tools are answered, for    *)
(* any requests and any bounds.                                            *)
(***************************************************************************)
EXTENDS Lifecycle, RequestGate, ByokPools, McpClient, PrefixFacts, FiniteSetTheorems, TLAPS

-------------------------------------------------------------------------------
(* Lifecycle *)

Starting == {"new", "check", "adopt", "models", "servers"}

\* Where the process is tells what may be published and whether the cleanup runs.
LifeStages ==
  /\ lifePc \in Starting => ~published
  /\ (lifePc \in {"close", "over"}) = (cleanup # "none")
  /\ lifePc = "over" => cleanup = "done"
  /\ lifePc \in {"new", "check"} => lifeNext = 1

\* A client that is open and no account is one that the loop of the start has still to come to.
LifeClients ==
  /\ lifePc = "new" => \A c \in All : lifeClient[c] = "none"
  /\ lifePc \in {"check", "adopt"} =>
       \A c \in All : lifeClient[c] = "open" => \E i \in DOMAIN Clients : i >= lifeNext /\ Clients[i] = c
  /\ lifePc \in {"models", "servers", "serve", "stop"} \/ published => \A c \in All : lifeClient[c] # "open"

\* Only the server that the stop is at, or was at when it was cancelled, is awaited.
LifeServers ==
  \A s \in ServerSet : lifeServer[s] = "closing" =>
    lifePc \in {"stop", "close", "over"} /\ lifeNext <= Len(Servers) /\ s = Servers[lifeNext]

\* What the cleanup has done stays done.
LifeCleaned ==
  /\ cleanup \in {"clients", "done"} => dirty # "yes"
  /\ cleanup = "done" => \A c \in All : lifeClient[c] # "account"
  /\ cleanup \in {"pow", "flush", "clients", "done"} /\ published => \A s \in ServerSet : lifeServer[s] # "running"

LifeInv == LifeTypeOK /\ LifeStages /\ LifeClients /\ LifeServers /\ LifeCleaned

-------------------------------------------------------------------------------
\* Before the start nothing is open and nothing published.
LEMMA LifeInitially == LifeInit => LifeInv
<1>1. 1 \in 1 .. Len(Clients) + Len(Servers) + 1
  BY LifeAssumption
<1>2. LifeInit => LifeTypeOK
  BY <1>1 DEF LifeInit, LifeTypeOK
<1>3. LifeInit => LifeStages /\ LifeClients /\ LifeServers /\ LifeCleaned
  BY DEF LifeInit, LifeStages, LifeClients, LifeServers, LifeCleaned, Starting
<1>4. QED
  BY <1>2, <1>3 DEF LifeInv

\* Every step of the start, of the service and of the stop keeps the invariant.
LEMMA LifeStep == LifeInv /\ [LifeNext]_lifeVars => LifeInv'
<1> SUFFICES ASSUME LifeInv, [LifeNext]_lifeVars PROVE LifeInv'
  OBVIOUS
<1> USE LifeAssumption DEF LifeInv, LifeTypeOK, LifeStages, LifeClients, LifeServers, LifeCleaned, Starting
<1>1. CASE Make
  BY <1>1 DEF Make, All, ServerSet
<1>2. ASSUME NEW passed \in SUBSET (All \ {Added}), LifeChecked(passed) PROVE LifeInv'
  BY <1>2 DEF LifeChecked
<1>3. CASE Adopt
  BY <1>3 DEF Adopt, All
<1>4. CASE Pools
  BY <1>4 DEF Pools
<1>5. CASE LifeModels
  BY <1>5 DEF LifeModels
<1>6. ASSUME NEW starts \in BOOLEAN, AddServer(starts) PROVE LifeInv'
  BY <1>6 DEF AddServer
<1>7. CASE Ready
  BY <1>7 DEF Ready
<1>8. CASE CutOff
  BY <1>8 DEF CutOff
<1>9. CASE Serve
  BY <1>9 DEF Serve
<1>10. CASE HotAdd
  BY <1>10 DEF HotAdd
<1>11. CASE Stop
  BY <1>11 DEF Stop
<1>12. CASE BeginClose
  BY <1>12 DEF BeginClose, ServerSet
<1>13. CASE EndClose
  <2> DEFINE s0 == Servers[lifeNext]
  <2>1. /\ lifePc = "stop" /\ lifeNext \in 1 .. Len(Servers) /\ lifeNext' = lifeNext + 1
        /\ lifeServer' = [lifeServer EXCEPT ![s0] = "closed"]
        /\ UNCHANGED <<lifePc, ok, lifeClient, published, dirty, refresh, cleanup, cancelled>>
    BY <1>13 DEF EndClose
  <2>2. lifeNext' \in 1 .. Len(Clients) + Len(Servers) + 1
    BY <2>1
  <2>3. s0 \in ServerSet
    BY <2>1 DEF ServerSet
  <2> HIDE DEF s0
  <2>4. LifeTypeOK'
    BY <2>1, <2>2, <2>3
  <2>5. \A s \in ServerSet : lifeServer[s] = "closing" => s = s0
    BY <2>1 DEF s0
  <2>6. \A s \in ServerSet : lifeServer'[s] # "closing"
    BY <2>1, <2>3, <2>5
  <2>7. (LifeStages /\ LifeClients /\ LifeCleaned)'
    BY <2>1, <2>3
  <2>8. QED
    BY <2>4, <2>6, <2>7
<1>14. CASE StopEnds
  BY <1>14 DEF StopEnds
<1>15. CASE CleanServers
  BY <1>15 DEF CleanServers
<1>16. CASE CleanPow
  BY <1>16 DEF CleanPow
<1>17. ASSUME NEW written \in BOOLEAN, Flush(written) PROVE LifeInv'
  BY <1>17 DEF Flush
<1>18. ASSUME NEW c \in All, CloseClient(c) PROVE LifeInv'
  BY <1>18 DEF CloseClient
<1>19. CASE CleanDone
  BY <1>19 DEF CleanDone
<1>20. CASE Waited
  BY <1>20 DEF Waited, LifeOver
<1>21. CASE Interrupted
  BY <1>21 DEF Interrupted
<1>22. CASE UNCHANGED lifeVars
  BY <1>22 DEF lifeVars
<1>23. QED
  BY <1>1, <1>2, <1>3, <1>4, <1>5, <1>6, <1>7, <1>8, <1>9, <1>10, <1>11, <1>12, <1>13, <1>14, <1>15, <1>16, <1>17, <1>18, <1>19, <1>20, <1>21, <1>22 DEF LifeNext

\* The inductive invariant holds in every state of the lifespan.
THEOREM LifeInvariance == LifeSpec => []LifeInv
  BY LifeInitially, LifeStep, PTL DEF LifeSpec

\* The fields of Lifecycle keep their types.
THEOREM LifeTypeCorrect == LifeSpec => []LifeTypeOK
<1>1. LifeInv => LifeTypeOK
  BY DEF LifeInv
<1>2. QED
  BY LifeInvariance, <1>1, PTL

\* Once the process is over, whatever step of the start failed and whoever cancelled it, no client
\* is open and no account is left, no server runs but one that the cancelled stop awaited, and no
\* change waits that was not tried to be written (lifespan and its cleanup).
THEOREM ClosedInTheEnd == LifeSpec => []NothingLeftOpen
<1>1. LifeInv => NothingLeftOpen
  BY DEF LifeInv, LifeTypeOK, LifeStages, LifeClients, LifeServers, LifeCleaned, NothingLeftOpen
<1>2. QED
  BY LifeInvariance, <1>1, PTL

-------------------------------------------------------------------------------
(* RequestGate *)

\* what was received is the sum of the chunks before those that are left
GateCounts ==
  /\ \E k \in 0 .. Len(gateReq.chunks) : left = SubSeq(gateReq.chunks, k + 1, Len(gateReq.chunks)) /\ seen = Sums(gateReq.chunks)[k]
  /\ exceeded <=> seen > LimitOf
\* a body in memory is short, a handler runs while nothing is exceeded, a refusal has a reason
GateAnswers ==
  /\ body # -1 => Total(gateReq.chunks) <= LogLimit
  /\ gatePc = "handler" => ~exceeded
  /\ given <= LimitOf
  /\ status = 413 => Total(gateReq.chunks) > LimitOf

GateInv == GateTypeOK /\ GateCounts /\ GateAnswers

-------------------------------------------------------------------------------
\* The sums of a body are numbers, at most its total, and the limits are what they are.
LEMMA GateNumbers ==
  ASSUME GateTypeOK
  PROVE  /\ gateReq.chunks \in Seq(Nat) /\ Total(gateReq.chunks) \in Nat
         /\ \A k \in 0 .. Len(gateReq.chunks) :
              Sums(gateReq.chunks)[k] \in Nat /\ Sums(gateReq.chunks)[k] <= Total(gateReq.chunks)
         /\ LimitOf \in Nat /\ LogLimit \in Nat /\ LogLimit <= LimitOf
<1> DEFINE c == gateReq.chunks
<1>1. c \in Seq(Nat)
  BY GateAssumption DEF GateTypeOK
<1>2. LimitOf \in Nat /\ LogLimit \in Nat /\ LogLimit <= LimitOf
  BY GateAssumption DEF LimitOf
<1> HIDE DEF c
<1>3. Len(c) \in 0 .. Len(c) /\ \A k \in 0 .. Len(c) : Len(c) \in k .. Len(c)
  BY <1>1
<1>4. \A k \in 0 .. Len(c) : Sums(c)[k] \in Nat /\ Sums(c)[k] <= Total(c)
  BY <1>1, <1>3, SumsStep, SumsGrow DEF Total
<1>5. Total(c) \in Nat
  BY <1>3, <1>4 DEF Total
<1>6. QED
  BY <1>1, <1>2, <1>4, <1>5 DEF c

\* Whoever reads a chunk counts it.
LEMMA ReceiveCounts ==
  ASSUME GateInv, Receive, UNCHANGED gateReq
  PROVE  GateCounts' /\ left' \in Seq(Nat) /\ seen' \in Nat /\ exceeded' \in BOOLEAN
<1> DEFINE c == gateReq.chunks
<1>1. c \in Seq(Nat) /\ Len(c) \in Nat /\ LimitOf \in Nat
  BY GateNumbers DEF GateInv
<1>2. PICK k \in 0 .. Len(c) : left = SubSeq(c, k + 1, Len(c)) /\ seen = Sums(c)[k]
  BY DEF GateInv, GateCounts
<1>3. left # <<>> /\ left' = Tail(left) /\ seen' = seen + Head(left) /\ exceeded' = (exceeded \/ seen' > LimitOf)
  BY DEF Receive
<1>4. LimitOf' = LimitOf
  BY DEF LimitOf
<1>5. (exceeded <=> seen > LimitOf) /\ seen \in Nat
  BY DEF GateInv, GateCounts, GateTypeOK
<1> HIDE DEF c
<1>6. k < Len(c)
  <2>1. CASE k = Len(c)
    BY <1>1, <1>2, <1>3, <2>1
  <2>2. QED
    BY <1>1, <2>1
<1>7. k + 1 \in 1 .. Len(c) /\ k + 1 \in 0 .. Len(c) /\ k + 1 - 1 = k
  BY <1>1, <1>6
<1>8. Head(left) = c[k + 1] /\ Tail(left) = SubSeq(c, (k + 1) + 1, Len(c)) /\ c[k + 1] \in Nat
  BY <1>1, <1>2, <1>7
<1>9. seen' = Sums(c)[k + 1] /\ seen' \in Nat
  <2>1. Sums(c)[k + 1] = Sums(c)[k] + c[k + 1]
    BY <1>1, <1>7, SumsStep
  <2>2. QED
    BY <1>2, <1>3, <1>5, <1>8, <2>1
<1>10. exceeded' <=> seen' > LimitOf
  <2> DEFINE h == Head(left)
  <2>1. h \in Nat /\ seen' = seen + h /\ seen \in Nat
    BY <1>3, <1>5, <1>8
  <2> HIDE DEF h
  <2>2. seen' >= seen
    <3>1. \A x, y \in Nat : x + y >= x
      OBVIOUS
    <3>2. QED
      BY <2>1, <3>1
  <2>3. seen > LimitOf => seen' > LimitOf
    BY <1>1, <1>5, <1>9, <2>2
  <2>4. (exceeded' <=> (exceeded \/ seen' > LimitOf)) /\ (exceeded <=> seen > LimitOf)
    BY <1>3, <1>5
  <2>5. QED
    BY <2>3, <2>4
<1>11. left' \in Seq(Nat)
  <2>1. SubSeq(c, (k + 1) + 1, Len(c)) \in Seq(Nat)
    BY <1>1, <1>7
  <2>2. QED
    BY <1>3, <1>8, <2>1
<1>12. \E n \in 0 .. Len(c) : left' = SubSeq(c, n + 1, Len(c)) /\ seen' = Sums(c)[n]
  BY <1>3, <1>7, <1>8, <1>9
<1>13. c = gateReq'.chunks
  BY DEF c
<1>14. GateCounts'
  <2>1. exceeded' <=> seen' > LimitOf'
    BY <1>4, <1>10
  <2>2. \E n \in 0 .. Len(gateReq'.chunks) :
          left' = SubSeq(gateReq'.chunks, n + 1, Len(gateReq'.chunks)) /\ seen' = Sums(gateReq'.chunks)[n]
    BY <1>12, <1>13
  <2>3. QED
    BY <2>1, <2>2 DEF GateCounts
<1>15. exceeded' \in BOOLEAN
  BY <1>3
<1>16. QED
  BY <1>9, <1>11, <1>14, <1>15

\* The server may start with any request, of which nothing was received.
LEMMA GateInitially == GateInit => GateInv
<1> SUFFICES ASSUME GateInit PROVE GateInv
  OBVIOUS
<1>1. PICK path \in {"chat", "limited", "other"}, chunks \in Bodies, declared \in {TRUE, FALSE} :
        /\ gateReq = [path |-> path, chunks |-> chunks, declared |-> IF declared THEN Total(chunks) ELSE -1]
        /\ left = chunks
  BY DEF GateInit
<1>2. gatePc = "outer" /\ seen = 0 /\ exceeded = FALSE /\ body = -1 /\ given = 0 /\ status = 0
  BY DEF GateInit
<1>3. gateReq.path = path /\ gateReq.chunks = chunks /\ gateReq.declared \in {-1, Total(chunks)}
  BY <1>1
<1>4. chunks \in Seq(Nat)
  BY GateAssumption
<1>5. GateTypeOK
  BY <1>1, <1>2, <1>3, <1>4 DEF GateTypeOK
<1>6. LimitOf \in Nat
  BY <1>5, GateNumbers
<1>7. left = SubSeq(chunks, 0 + 1, Len(chunks)) /\ seen = Sums(chunks)[0] /\ 0 \in 0 .. Len(chunks)
  <2>1. chunks = SubSeq(chunks, 0 + 1, Len(chunks)) /\ 0 \in 0 .. Len(chunks)
    BY <1>4
  <2>2. Sums(chunks)[0] = 0
    BY <1>4, <2>1, SumsStep
  <2>3. QED
    BY <1>1, <1>2, <2>1, <2>2
<1>8. GateCounts
  <2>1. exceeded <=> seen > LimitOf
    BY <1>2, <1>6
  <2>2. QED
    BY <1>3, <1>7, <2>1 DEF GateCounts
<1>9. GateAnswers
  BY <1>2, <1>6 DEF GateAnswers
<1>10. QED
  BY <1>5, <1>8, <1>9 DEF GateInv

\* What a step leaves alone stays as it was counted.
LEMMA GateStill ==
  ASSUME GateInv, UNCHANGED gateReq
  PROVE  /\ LimitOf' = LimitOf /\ Total(gateReq'.chunks) = Total(gateReq.chunks)
         /\ UNCHANGED <<left, seen, exceeded>> => GateCounts' /\ left' \in Seq(Nat) /\ seen' \in Nat /\ exceeded' \in BOOLEAN
<1>1. LimitOf' = LimitOf /\ gateReq'.chunks = gateReq.chunks
  BY DEF LimitOf
<1>2. left \in Seq(Nat) /\ seen \in Nat /\ exceeded \in BOOLEAN
  BY DEF GateInv, GateTypeOK
<1>3. UNCHANGED <<left, seen, exceeded>> => GateCounts'
  BY <1>1 DEF GateInv, GateCounts
<1>4. QED
  BY <1>1, <1>2, <1>3

\* The type invariant holds after a step that leaves the request alone, whatever else it does in its range.
LEMMA GateTyped ==
  ASSUME GateInv, UNCHANGED gateReq, gatePc' \in {"outer", "inner", "handler", "after", "over"},
         left' \in Seq(Nat), seen' \in Nat, exceeded' \in BOOLEAN,
         body' \in {-1, Total(gateReq.chunks)}, given' \in Nat, status' \in {0, 200, 400, 413}
  PROVE  GateTypeOK'
<1>1. Total(gateReq'.chunks) = Total(gateReq.chunks)
  OBVIOUS
<1>2. QED
  BY <1>1 DEF GateInv, GateTypeOK

\* When nothing is left of a body that did not exceed the limit, it is within it.
LEMMA AllReceived ==
  ASSUME GateInv, left = <<>>, ~exceeded
  PROVE  Total(gateReq.chunks) <= LimitOf
<1> DEFINE c == gateReq.chunks
<1>1. c \in Seq(Nat) /\ Len(c) \in Nat /\ LimitOf \in Nat /\ Total(c) \in Nat
  BY GateNumbers DEF GateInv
<1>2. PICK k \in 0 .. Len(c) : left = SubSeq(c, k + 1, Len(c)) /\ seen = Sums(c)[k]
  BY DEF GateInv, GateCounts
<1>3. ~(seen > LimitOf)
  BY DEF GateInv, GateCounts
<1> HIDE DEF c
<1>4. k = Len(c)
  <2>1. ASSUME k < Len(c) PROVE FALSE
    <3>1. k + 1 \in 1 .. Len(c)
      BY <1>1, <2>1
    <3>2. Len(SubSeq(c, k + 1, Len(c))) = Len(c) - (k + 1) + 1
      BY <1>1, <3>1
    <3>3. Len(left) = 0 /\ Len(left) = Len(SubSeq(c, k + 1, Len(c)))
      BY <1>2
    <3> DEFINE n == Len(c)
    <3>4. k \in Nat /\ n \in Nat /\ k < n /\ 0 = n - (k + 1) + 1
      BY <1>1, <1>2, <2>1, <3>2, <3>3
    <3> HIDE DEF n
    <3>5. QED
      BY <3>4
  <2>2. QED
    BY <1>1, <2>1
<1>5. Sums(c)[Len(c)] = Total(c)
  BY DEF Total
<1>6. Total(c) <= LimitOf
  BY <1>1, <1>2, <1>3, <1>4, <1>5
<1>7. QED
  BY <1>6 DEF c

\* A refusal for what was received has the reason that it says.
LEMMA ExceededIsOver ==
  ASSUME GateInv, exceeded
  PROVE  Total(gateReq.chunks) > LimitOf
<1>1. PICK k \in 0 .. Len(gateReq.chunks) : seen = Sums(gateReq.chunks)[k]
  BY DEF GateInv, GateCounts
<1>2. seen > LimitOf /\ seen <= Total(gateReq.chunks) /\ seen \in Nat /\ LimitOf \in Nat /\ Total(gateReq.chunks) \in Nat
  BY <1>1, GateNumbers DEF GateInv, GateCounts
<1>3. QED
  BY <1>2

\* Reading the body for the log keeps the account of it, and puts it in memory only if it is short.
LEMMA ExtractKeepsInv ==
  ASSUME GateInv, NEW to, Extract(to), gatePc \in {"outer", "inner"}, to \in {"inner", "handler"},
         to = "handler" => ~exceeded, UNCHANGED <<gateReq, given, status>>
  PROVE  GateInv'
<1>1. GateTypeOK /\ GateAnswers
  BY DEF GateInv
<1>2. LimitOf' = LimitOf /\ Total(gateReq'.chunks) = Total(gateReq.chunks) /\ given' = given /\ status' = status /\ gateReq' = gateReq
  BY GateStill
<1>3. given \in Nat /\ status \in {0, 200, 400, 413} /\ body \in {-1, Total(gateReq.chunks)}
  BY <1>1 DEF GateTypeOK
<1>4. CASE ~Readable
  <2>1. gatePc' = to /\ UNCHANGED <<left, seen, exceeded, body>>
    BY <1>4 DEF Extract
  <2>2. GateCounts' /\ left' \in Seq(Nat) /\ seen' \in Nat /\ exceeded' \in BOOLEAN
    BY <1>2, <2>1, GateStill
  <2>3. GateTypeOK'
    BY <1>2, <1>3, <2>1, <2>2, GateTyped
  <2>4. GateAnswers'
    BY <1>1, <1>2, <2>1 DEF GateAnswers
  <2>5. QED
    BY <2>2, <2>3, <2>4 DEF GateInv
<1>5. CASE Readable /\ left # <<>>
  <2>1. Receive /\ UNCHANGED <<gatePc, body>>
    BY <1>5 DEF Extract
  <2>2. GateCounts' /\ left' \in Seq(Nat) /\ seen' \in Nat /\ exceeded' \in BOOLEAN
    BY <1>2, <2>1, ReceiveCounts
  <2>3. GateTypeOK'
    BY <1>2, <1>3, <2>1, <2>2, GateTyped
  <2>4. GateAnswers'
    BY <1>1, <1>2, <2>1 DEF GateAnswers
  <2>5. QED
    BY <2>2, <2>3, <2>4 DEF GateInv
<1>6. CASE Readable /\ left = <<>>
  <2>1. body' = Total(gateReq.chunks) /\ gatePc' = to /\ UNCHANGED <<left, seen, exceeded>>
    BY <1>6 DEF Extract
  <2>2. GateCounts' /\ left' \in Seq(Nat) /\ seen' \in Nat /\ exceeded' \in BOOLEAN
    BY <1>2, <2>1, GateStill
  <2>3. GateTypeOK'
    BY <1>2, <1>3, <2>1, <2>2, GateTyped
  <2>4. Total(gateReq.chunks) <= LogLimit
    <3>1. gateReq.declared > 0 /\ gateReq.declared <= LogLimit /\ gateReq.declared \in {-1, Total(gateReq.chunks)}
      BY <1>1, <1>6 DEF Readable, GateTypeOK
    <3>2. ~(-1 > 0)
      OBVIOUS
    <3>3. QED
      BY <3>1, <3>2
  <2>5. GateAnswers'
    BY <1>1, <1>2, <2>1, <2>4 DEF GateAnswers
  <2>6. QED
    BY <2>2, <2>3, <2>5 DEF GateInv
<1>7. QED
  BY <1>4, <1>5, <1>6

\* Every step keeps the invariant: a refusal is given its reason, a body that is handed over its bound.
LEMMA GateStep == GateInv /\ [GateNext]_gateVars => GateInv'
<1> SUFFICES ASSUME GateInv, [GateNext]_gateVars PROVE GateInv'
  OBVIOUS
<1>1. GateTypeOK /\ GateAnswers
  BY DEF GateInv
<1>2. LimitOf \in Nat /\ LogLimit \in Nat /\ LogLimit <= LimitOf /\ Total(gateReq.chunks) \in Nat
  BY <1>1, GateNumbers
<1>3. given \in Nat /\ status \in {0, 200, 400, 413} /\ body \in {-1, Total(gateReq.chunks)} /\ gatePc \in {"outer", "inner", "handler", "after", "over"}
  BY <1>1 DEF GateTypeOK
<1>4. exceeded => Total(gateReq.chunks) > LimitOf
  BY ExceededIsOver
\* a step that receives nothing: what it changes are the answers
<1>5. ASSUME UNCHANGED <<gateReq, left, seen, exceeded, body>>,
             gatePc' \in {"outer", "inner", "handler", "after", "over"}, given' \in Nat, status' \in {0, 200, 400, 413},
             gatePc' = "handler" => ~exceeded, given' <= LimitOf,
             status' = 413 => Total(gateReq.chunks) > LimitOf
      PROVE  GateInv'
  <2>1. LimitOf' = LimitOf /\ Total(gateReq'.chunks) = Total(gateReq.chunks)
    BY <1>5, GateStill
  <2>2. GateCounts' /\ left' \in Seq(Nat) /\ seen' \in Nat /\ exceeded' \in BOOLEAN
    BY <1>5, GateStill
  <2>3. GateTypeOK'
    BY <1>3, <1>5, <2>2, GateTyped
  <2>4. GateAnswers'
    BY <1>1, <1>5, <2>1 DEF GateAnswers
  <2>5. QED
    BY <2>2, <2>3, <2>4 DEF GateInv
<1>6. CASE Outer
  <2>1. CASE gateReq.path = "other" \/ gateReq.declared > LimitOf
    BY <1>1, <1>3, <1>5, <1>6, <2>1 DEF Outer, GateAnswers
  <2>2. CASE ~(gateReq.path = "other" \/ gateReq.declared > LimitOf)
    BY <1>6, <2>2, ExtractKeepsInv DEF Outer
  <2>3. QED
    BY <2>1, <2>2
<1>7. ASSUME NEW logging \in BOOLEAN, Inner(logging) PROVE GateInv'
  <2>1. CASE gateReq.declared > LimitOf
    <3>1. Total(gateReq.chunks) > LimitOf
      <4>1. gateReq.declared \in {-1, Total(gateReq.chunks)}
        BY <1>1 DEF GateTypeOK
      <4>2. ~(-1 > LimitOf)
        BY <1>2
      <4>3. QED
        BY <2>1, <4>1, <4>2
    <3>2. QED
      BY <1>1, <1>3, <1>5, <1>7, <2>1, <3>1 DEF Inner, Refuse, GateAnswers
  <2>2. CASE ~(gateReq.declared > LimitOf) /\ exceeded
    BY <1>1, <1>3, <1>4, <1>5, <1>7, <2>2 DEF Inner, Refuse, GateAnswers
  <2>3. CASE ~(gateReq.declared > LimitOf) /\ ~exceeded /\ logging
    BY <1>7, <2>3, ExtractKeepsInv DEF Inner
  <2>4. CASE ~(gateReq.declared > LimitOf) /\ ~exceeded /\ ~logging
    BY <1>1, <1>3, <1>5, <1>7, <2>4 DEF Inner, GateAnswers
  <2>5. QED
    BY <2>1, <2>2, <2>3, <2>4
<1>8. CASE Handle
  <2>1. gatePc = "handler" /\ ~exceeded /\ UNCHANGED <<gateReq, body>>
    BY <1>1, <1>8 DEF Handle, GateAnswers
  <2>2. CASE body # -1 \/ left = <<>>
    <3>1. Total(gateReq.chunks) <= LimitOf
      <4>1. CASE body # -1
        BY <1>1, <1>2, <4>1 DEF GateAnswers
      <4>2. CASE left = <<>>
        BY <2>1, <4>2, AllReceived
      <4>3. QED
        BY <2>2, <4>1, <4>2
    <3>2. given' = Total(gateReq.chunks) /\ gatePc' = "after" /\ status' \in {200, 400} /\ UNCHANGED <<left, seen, exceeded>>
      BY <1>8, <2>2 DEF Handle
    <3>3. QED
      BY <1>2, <1>5, <2>1, <3>1, <3>2
  <2>3. CASE ~(body # -1 \/ left = <<>>)
    <3>1. /\ Receive /\ given' = given
          /\ IF exceeded' THEN gatePc' = "after" /\ status' = 413 ELSE UNCHANGED <<gatePc, status>>
      BY <1>8, <2>3 DEF Handle
    <3>2. GateCounts' /\ left' \in Seq(Nat) /\ seen' \in Nat /\ exceeded' \in BOOLEAN
      BY <2>1, <3>1, ReceiveCounts
    <3>3. GateTypeOK'
      BY <1>3, <2>1, <3>1, <3>2, GateTyped
    <3>4. LimitOf' = LimitOf /\ Total(gateReq'.chunks) = Total(gateReq.chunks)
      BY <2>1, GateStill
    <3>5. exceeded' => Total(gateReq.chunks) > LimitOf
      <4>1. PICK k \in 0 .. Len(gateReq.chunks) : seen' = Sums(gateReq.chunks)[k]
        BY <2>1, <3>2 DEF GateCounts
      <4>2. seen' <= Total(gateReq.chunks)
        BY <1>1, <4>1, GateNumbers
      <4>3. exceeded' <=> seen' > LimitOf
        BY <3>2, <3>4 DEF GateCounts
      <4>4. QED
        <5>1. Total(gateReq.chunks) \in Nat /\ LimitOf \in Nat /\ seen' \in Nat
          BY <1>2, <3>2
        <5>2. QED
          BY <4>2, <4>3, <5>1
    <3>6. GateAnswers'
      BY <1>1, <2>1, <3>1, <3>4, <3>5 DEF GateAnswers
    <3>7. QED
      BY <3>2, <3>3, <3>6 DEF GateInv
  <2>4. QED
    BY <2>2, <2>3
<1>9. CASE Skip
  BY <1>1, <1>3, <1>5, <1>9 DEF Skip, GateAnswers
<1>10. CASE After
  BY <1>1, <1>3, <1>4, <1>5, <1>10 DEF After, GateAnswers
<1>11. CASE UNCHANGED gateVars
  BY <1>1, <1>3, <1>5, <1>11 DEF gateVars, GateAnswers
<1>12. QED
  BY <1>6, <1>7, <1>8, <1>9, <1>10, <1>11 DEF GateNext

\* What was received of a body is counted, and the answer goes by the count.
THEOREM GateInvariance == GateSpec => []GateInv
  BY GateInitially, GateStep, PTL DEF GateSpec

\* No handler is given a body over the limit of its path, and no body within it is refused as too long:
\* _log_requests and _bounded_receive of api/core.py, for every cut of the body and every limit.
THEOREM LimitsAreKept == GateSpec => []LimitIsKept
<1>1. GateInv => LimitIsKept
  BY DEF GateInv, GateAnswers, LimitIsKept
<1>2. QED
  BY GateInvariance, <1>1, PTL

-------------------------------------------------------------------------------
(* ByokPools *)

\* requests that have not built a pool
Early == {"new", "queued", "checking"}
EarlyReqs == {r \in ByokReqs : byokReq[r].pc \in Early}
Live == Range(byokCache) \cup ({keyless} \ {ByokNone})

\* The two orders hold the same pools once each, and none that is still being built.
ByokCaches ==
  /\ IsInjective(byokCache) /\ IsInjective(touched) /\ Range(touched) = Range(byokCache)
  /\ Live \cap EarlyReqs = {}

\* A pool that was handed out is built, and so is one whose accounts are in use.
ByokHands ==
  /\ \A r \in ByokReqs : byokReq[r].pc \in {"got", "using"} => byokReq[r].pool \in ByokReqs \ EarlyReqs
  /\ \A r \in ByokReqs : byokReq[r].pc = "using" => byokReq[r].slot \in ByokTokens
  /\ \A p \in ByokReqs, t \in ByokTokens : held[p][t] => p \notin EarlyReqs

\* Who checks has a token to check; the one that stands for no key is never settled.
ByokChecks ==
  /\ Keyless \in ByokTokens => auth[Keyless] = "none"
  /\ \A r \in ByokReqs : byokReq[r].pc = "checking" =>
       byokReq[r].todo # <<>> /\ (KeyOf(r) = KeylessKey => byokReq[r].todo = KeylessKey)

\* Somebody answers for each open client among these pairs of a pool and a token.
ByokAnswers(pairs) ==
  \A p \in ByokReqs, t \in ByokTokens :
    <<p, t>> \in pairs /\ byokClient[p][t] = "open" => p \in Live \/ closing[p] # "no" \/ \E r \in ByokReqs : Answers(r, p)

ByokInv(pairs) == ByokTypeOK /\ ByokCaches /\ ByokHands /\ ByokChecks /\ ByokAnswers(pairs)

-------------------------------------------------------------------------------
\* The elements of a sequence.
LEMMA SeqElements ==
  ASSUME NEW T, NEW s \in Seq(T)
  PROVE  /\ Len(s) \in Nat /\ DOMAIN s = 1 .. Len(s) /\ Range(s) \subseteq T
         /\ \A i \in 1 .. Len(s) : s[i] \in Range(s)
<1>1. Len(s) \in Nat /\ DOMAIN s = 1 .. Len(s) /\ \A i \in 1 .. Len(s) : s[i] \in T
  OBVIOUS
<1>2. QED
  BY <1>1 DEF Range

\* What is left of a sequence of requests.
LEMMA WithoutElements ==
  ASSUME NEW s \in Seq(ByokReqs), NEW gone
  PROVE  /\ ByokWithout(s, gone) \in Seq(ByokReqs) /\ Range(ByokWithout(s, gone)) = Range(s) \ gone
         /\ Len(ByokWithout(s, gone)) <= Len(s)
         /\ IsInjective(s) => IsInjective(ByokWithout(s, gone))
<1> DEFINE D == ByokReqs \ gone
<1>1. Range(s) \subseteq ByokReqs
  BY SeqElements
<1>2. Range(s) \cap D = Range(s) \ gone
  BY <1>1
<1> HIDE DEF D
<1>3. Only(s, D) \in Seq(ByokReqs) /\ Range(Only(s, D)) = Range(s) \cap D /\ Len(Only(s, D)) <= Len(s) /\ (IsInjective(s) => IsInjective(Only(s, D)))
  BY OnlyElements
<1>4. QED
  BY <1>2, <1>3 DEF ByokWithout, D

\* What moves to the end stays, once.
LEMMA MovedElements ==
  ASSUME NEW s \in Seq(ByokReqs), NEW gone, NEW p \in ByokReqs, p \in Range(s) => p \in gone
  PROVE  /\ Append(ByokWithout(s, gone), p) \in Seq(ByokReqs)
         /\ \A x : x \in Range(Append(ByokWithout(s, gone), p)) <=> x \in (Range(s) \ gone) \cup {p}
         /\ IsInjective(s) => IsInjective(Append(ByokWithout(s, gone), p))
<1> DEFINE q == ByokWithout(s, gone)
<1>1. q \in Seq(ByokReqs) /\ Range(q) = Range(s) \ gone /\ (IsInjective(s) => IsInjective(q))
  BY WithoutElements
<1> HIDE DEF q
<1>2. /\ Append(q, p) \in Seq(ByokReqs) /\ Range(Append(q, p)) = Range(q) \cup {p}
      /\ IsInjective(q) /\ p \notin Range(q) => IsInjective(Append(q, p))
  BY <1>1, AppendElements
<1>3. QED
  BY <1>1, <1>2 DEF q

\* The first elements of a sequence.
LEMMA FirstElements ==
  ASSUME NEW T, NEW q \in Seq(T), NEW n \in Nat
  PROVE  /\ First(q, n) \in Seq(T) /\ Len(First(q, n)) = (IF n < Len(q) THEN n ELSE Len(q))
         /\ Range(First(q, n)) \subseteq Range(q)
         /\ n >= Len(q) => Range(First(q, n)) = Range(q)
         /\ IsInjective(q) => IsInjective(First(q, n))
<1> DEFINE m == IF n < Len(q) THEN n ELSE Len(q)
<1>1. m \in 0 .. Len(q) /\ (n >= Len(q) => m = Len(q)) /\ Len(q) \in Nat
  BY SeqElements
<1>2. Range(q) = {q[i] : i \in 1 .. Len(q)}
  BY SeqElements DEF Range
<1> HIDE DEF m
<1>3. /\ SubSeq(q, 1, m) \in Seq(T) /\ Len(SubSeq(q, 1, m)) = m
      /\ Range(SubSeq(q, 1, m)) = {q[i] : i \in 1 .. m} /\ Range(SubSeq(q, 1, m)) \subseteq Range(q)
      /\ IsInjective(q) => IsInjective(SubSeq(q, 1, m))
  BY <1>1, FrontElements
<1>4. First(q, n) = SubSeq(q, 1, m)
  BY DEF First, m
<1>5. m = IF n < Len(q) THEN n ELSE Len(q)
  BY DEF m
<1>6. QED
  BY <1>1, <1>2, <1>3, <1>4, <1>5

\* Where the first busy pool is.
LEMMA FirstBusyFound ==
  ASSUME NEW q \in Seq(ByokReqs), NEW b, b = SelectInSeq(q, Busy)
  PROVE  /\ b \in 0 .. Len(q) /\ (b # 0 => Busy(q[b]))
         /\ \A i \in 1 .. Len(q) : b = 0 \/ i < b => ~Busy(q[i])
<1> DEFINE I == {i \in 1 .. Len(q) : Busy(q[i])}
<1>1. Len(q) \in Nat /\ I \subseteq Nat
  BY SeqElements
<1>2. b = IF I # {} THEN Min(I) ELSE 0
  BY DEF SelectInSeq
<1>3. CASE I = {}
  BY <1>1, <1>2, <1>3
<1>4. CASE I # {}
  <2>1. Min(I) \in I /\ \A i \in I : Min(I) <= i
    BY <1>1, <1>4, MinIsLeast
  <2>2. b \in I /\ \A i \in I : b <= i
    BY <1>2, <1>4, <2>1
  <2>3. b \in 1 .. Len(q) /\ Busy(q[b])
    BY <2>2
  <2>4. ASSUME NEW i \in 1 .. Len(q), i < b PROVE ~Busy(q[i])
    <3>1. b \in Nat /\ i \in Nat /\ ~(b <= i)
      BY <1>1, <2>3, <2>4
    <3>2. i \notin I
      BY <2>2, <3>1
    <3>3. QED
      BY <3>2
  <2>5. b # 0 /\ b \in 0 .. Len(q)
    BY <1>1, <2>3
  <2>6. QED
    BY <2>3, <2>4, <2>5
<1>5. QED
  BY <1>3, <1>4

\* The pools that one provider has too many of are in the cache, and none of them is in use.
LEMMA StaleElements ==
  ASSUME NEW c \in Seq(ByokReqs), NEW incoming \in Nat
  PROVE  /\ Oldest(c, incoming) \in Seq(ByokReqs) /\ Range(Oldest(c, incoming)) \subseteq Range(c)
         /\ FirstBusy(c, incoming) \in 0 .. Len(Oldest(c, incoming))
         /\ FirstBusy(c, incoming) # 0 => Busy(Oldest(c, incoming)[FirstBusy(c, incoming)])
         /\ ByokStale(c, incoming) \subseteq Range(c) /\ \A p \in ByokStale(c, incoming) : ~Busy(p)
<1> DEFINE K == {p \in ByokReqs : KeyOf(p) # KeylessKey}
           keyed == Only(c, K)
           o == Oldest(c, incoming)
           b == FirstBusy(c, incoming)
<1>1. keyed \in Seq(ByokReqs) /\ Range(keyed) \subseteq Range(c)
  <2> HIDE DEF K
  <2>1. Only(c, K) \in Seq(ByokReqs) /\ Range(Only(c, K)) = Range(c) \cap K
    BY OnlyElements
  <2>2. QED
    BY <2>1
<1>2. o = IF Len(keyed) + incoming <= ByokLimit THEN <<>> ELSE First(keyed, Len(keyed) + incoming - ByokLimit)
  BY DEF Oldest
<1> HIDE DEF keyed, K
<1>3. o \in Seq(ByokReqs) /\ Range(o) \subseteq Range(c)
  <2>1. CASE Len(keyed) + incoming <= ByokLimit
    <3>1. o = <<>>
      BY <1>2, <2>1
    <3>2. QED
      BY <3>1 DEF Range
  <2>2. CASE ~(Len(keyed) + incoming <= ByokLimit)
    <3> DEFINE n == Len(keyed) + incoming - ByokLimit
    <3>1. n \in Nat
      BY <1>1, <2>2, ByokAssumption
    <3>2. o = First(keyed, n)
      BY <1>2, <2>2
    <3> HIDE DEF n
    <3>3. First(keyed, n) \in Seq(ByokReqs) /\ Range(First(keyed, n)) \subseteq Range(keyed)
      BY <1>1, <3>1, FirstElements
    <3>4. QED
      BY <1>1, <3>2, <3>3
  <2>3. QED
    BY <2>1, <2>2
<1>4. b = SelectInSeq(o, Busy)
  BY DEF FirstBusy
<1>5. ByokStale(c, incoming) = IF b = 0 THEN Range(o) ELSE Range(SubSeq(o, 1, b - 1))
  BY DEF ByokStale
<1> HIDE DEF o, b
<1>6. /\ b \in 0 .. Len(o) /\ (b # 0 => Busy(o[b]))
      /\ \A i \in 1 .. Len(o) : b = 0 \/ i < b => ~Busy(o[i])
  BY <1>3, <1>4, FirstBusyFound
<1>7. Len(o) \in Nat /\ Range(o) = {o[i] : i \in 1 .. Len(o)}
  BY <1>3, SeqElements DEF Range
<1>8. ByokStale(c, incoming) \subseteq Range(o) /\ \A p \in ByokStale(c, incoming) : ~Busy(p)
  <2>1. CASE b = 0
    BY <1>5, <1>6, <1>7, <2>1
  <2>2. CASE b # 0
    <3>1. b - 1 \in 0 .. Len(o) /\ \A i \in 1 .. b - 1 : i \in 1 .. Len(o) /\ i < b
      BY <1>6, <1>7, <2>2
    <3> DEFINE n == b - 1
    <3>2. n \in 0 .. Len(o)
      BY <3>1
    <3> HIDE DEF n
    <3>3. Range(SubSeq(o, 1, n)) = {o[i] : i \in 1 .. n}
      BY <1>3, <3>2, FrontElements
    <3>4. Range(SubSeq(o, 1, b - 1)) = {o[i] : i \in 1 .. b - 1}
      BY <3>3 DEF n
    <3>5. QED
      BY <1>5, <1>6, <1>7, <2>2, <3>1, <3>4
  <2>3. QED
    BY <2>1, <2>2
<1>9. QED
  BY <1>3, <1>6, <1>8 DEF o, b

\* A rotation drops the stale pools and nothing else.
LEMMA RotatedElements ==
  ASSUME NEW c \in Seq(ByokReqs), NEW incoming \in Nat
  PROVE  /\ Rotated(c, incoming) \in Seq(ByokReqs)
         /\ Range(Rotated(c, incoming)) = Range(c) \ ByokStale(c, incoming)
         /\ IsInjective(c) => IsInjective(Rotated(c, incoming))
<1> DEFINE o == Oldest(c, incoming)
           b == FirstBusy(c, incoming)
           stale == ByokStale(c, incoming)
           kept == ByokWithout(c, stale)
<1>1. /\ o \in Seq(ByokReqs) /\ Range(o) \subseteq Range(c) /\ b \in 0 .. Len(o) /\ (b # 0 => Busy(o[b]))
      /\ stale \subseteq Range(c) /\ \A p \in stale : ~Busy(p)
  BY StaleElements
<1>2. Rotated(c, incoming) = IF b = 0 THEN kept ELSE Append(ByokWithout(kept, {o[b]}), o[b])
  BY DEF Rotated
<1> HIDE DEF o, b, stale
<1>3. kept \in Seq(ByokReqs) /\ Range(kept) = Range(c) \ stale /\ (IsInjective(c) => IsInjective(kept))
  BY WithoutElements
<1> HIDE DEF kept
<1>4. CASE b = 0
  BY <1>2, <1>3, <1>4 DEF stale
<1>5. CASE b # 0
  <2> DEFINE p == o[b]
  <2>1. p \in Range(o) /\ Range(o) \subseteq ByokReqs /\ Busy(p)
    BY <1>1, <1>5, SeqElements
  <2>2. Rotated(c, incoming) = Append(ByokWithout(kept, {p}), p)
    BY <1>2, <1>5
  <2> HIDE DEF p
  <2>3. p \in Range(kept) /\ p \in ByokReqs
    BY <1>1, <1>3, <2>1
  <2> DEFINE g == {p}
             m == Append(ByokWithout(kept, g), p)
  <2>4. Rotated(c, incoming) = m /\ p \in g
    BY <2>2
  <2> HIDE DEF g
  <2>5. m \in Seq(ByokReqs) /\ Range(m) = (Range(kept) \ g) \cup {p} /\ (IsInjective(kept) => IsInjective(m))
    BY <1>3, <2>3, <2>4, MovedElements
  <2> HIDE DEF m
  <2>6. QED
    BY <1>3, <2>3, <2>4, <2>5 DEF stale, g
<1>6. QED
  BY <1>4, <1>5

\* The pools that there are too many of in all are idle, and none that is protected.
LEMMA VictimElements ==
  ASSUME NEW t \in Seq(ByokReqs), NEW protect, NEW reserve \in Nat
  PROVE  Victims(t, protect, reserve) \subseteq Range(t) \ protect
<1> DEFINE I == {p \in ByokReqs \ protect : ~Busy(p)}
           idle == Only(t, I)
           n == Len(t) + reserve - ByokLimit
<1>1. Victims(t, protect, reserve) = IF Len(t) + reserve <= ByokLimit THEN {} ELSE Range(First(idle, n))
  BY DEF Victims
<1>2. Len(t) + reserve > ByokLimit => n \in Nat
  BY SeqElements, ByokAssumption
<1>3. I \subseteq ByokReqs \ protect
  OBVIOUS
<1> HIDE DEF I, n
<1>4. idle \in Seq(ByokReqs) /\ Range(idle) = Range(t) \cap I
  BY OnlyElements
<1> HIDE DEF idle
<1>5. Len(t) + reserve > ByokLimit => Range(First(idle, n)) \subseteq Range(idle)
  BY <1>2, <1>4, FirstElements
<1>6. Len(t) + reserve <= ByokLimit \/ Len(t) + reserve > ByokLimit
  BY SeqElements, ByokAssumption
<1>7. QED
  BY <1>1, <1>3, <1>4, <1>5, <1>6

\* Two orders of the same elements, each once, are equally long.
LEMMA SameLength ==
  ASSUME NEW T, NEW c \in Seq(T), NEW t \in Seq(T), IsInjective(c), IsInjective(t), Range(c) = Range(t)
  PROVE  Len(c) = Len(t)
BY InjectiveLength

\* Taking n elements away from a sequence that has nothing twice makes it shorter by n.
LEMMA ShorterBy ==
  ASSUME NEW T, NEW c \in Seq(T), NEW l \in Seq(T), NEW v \in Seq(T),
         IsInjective(c), IsInjective(l), IsInjective(v), Range(v) \subseteq Range(c), Range(l) = Range(c) \ Range(v)
  PROVE  Len(l) = Len(c) - Len(v)
<1>1. /\ IsFiniteSet(Range(c)) /\ Cardinality(Range(c)) = Len(c)
      /\ IsFiniteSet(Range(v)) /\ Cardinality(Range(v)) = Len(v)
      /\ Cardinality(Range(l)) = Len(l)
  BY InjectiveLength
<1>2. Range(c) \cap Range(v) = Range(v)
  OBVIOUS
<1>3. Cardinality(Range(c) \ Range(v)) = Cardinality(Range(c)) - Cardinality(Range(c) \cap Range(v))
  BY <1>1, FS_Difference
<1>4. QED
  BY <1>1, <1>2, <1>3

\* Once the victims are gone the cache is within its limit, or all but r are in use.
LEMMA TrimmedByVictims ==
  ASSUME NEW c \in Seq(ByokReqs), NEW t \in Seq(ByokReqs), IsInjective(c), IsInjective(t), Range(c) = Range(t),
         NEW r, NEW kept, kept = ByokWithout(c, Victims(t, {r}, 0))
  PROVE  Len(kept) <= ByokLimit \/ \A p \in Range(kept) \ {r} : Busy(p)
<1> DEFINE I == {p \in ByokReqs \ {r} : ~Busy(p)}
           idle == Only(t, I)
           n == Len(t) + 0 - ByokLimit
           V == Victims(t, {r}, 0)
<1>1. V = IF Len(t) + 0 <= ByokLimit THEN {} ELSE Range(First(idle, n))
  BY DEF Victims
<1>2. Len(t) \in Nat /\ Len(c) = Len(t) /\ ByokLimit \in Nat /\ Range(t) \subseteq ByokReqs
  BY SeqElements, SameLength, ByokAssumption
<1>3. n = Len(t) - ByokLimit /\ (~(Len(t) + 0 <= ByokLimit) => n \in Nat)
  BY <1>2
<1>4. \A p \in ByokReqs \ {r} : p \notin I => Busy(p)
  OBVIOUS
<1> HIDE DEF I, n, V
<1>5. idle \in Seq(ByokReqs) /\ Range(idle) = Range(t) \cap I /\ IsInjective(idle)
  BY OnlyElements
<1> HIDE DEF idle
<1>6. kept \in Seq(ByokReqs) /\ Range(kept) = Range(c) \ V /\ Len(kept) <= Len(c) /\ IsInjective(kept)
  <2>1. kept = ByokWithout(c, V)
    BY DEF V
  <2> DEFINE w == ByokWithout(c, V)
  <2>2. w \in Seq(ByokReqs) /\ Range(w) = Range(c) \ V /\ Len(w) <= Len(c) /\ IsInjective(w)
    BY WithoutElements
  <2> HIDE DEF w
  <2>3. QED
    BY <2>1, <2>2 DEF w
<1>7. Len(kept) \in Nat /\ Len(idle) \in Nat
  BY <1>5, <1>6, SeqElements
<1>8. CASE Len(t) + 0 <= ByokLimit
  BY <1>2, <1>6, <1>7, <1>8
<1>9. CASE ~(Len(t) + 0 <= ByokLimit)
  <2> DEFINE v == First(idle, n)
  <2>1. V = Range(v)
    BY <1>1, <1>9
  <2>2. /\ v \in Seq(ByokReqs) /\ Len(v) = (IF n < Len(idle) THEN n ELSE Len(idle)) /\ Range(v) \subseteq Range(idle)
        /\ (n >= Len(idle) => Range(v) = Range(idle)) /\ IsInjective(v)
    BY <1>3, <1>5, <1>9, FirstElements
  <2> HIDE DEF v
  <2>3. CASE n >= Len(idle)
    <3>1. \A p \in Range(kept) \ {r} : p \in ByokReqs \ {r} /\ p \notin I
      BY <1>2, <1>5, <1>6, <2>1, <2>2, <2>3
    <3>2. QED
      BY <1>4, <3>1
  <2>4. CASE n < Len(idle)
    <3>1. Len(v) = n /\ Range(v) \subseteq Range(c) /\ Range(kept) = Range(c) \ Range(v)
      BY <1>5, <1>6, <2>1, <2>2, <2>4
    <3>2. kept \in Seq(ByokReqs) /\ v \in Seq(ByokReqs) /\ IsInjective(kept) /\ IsInjective(v)
      BY <1>6, <2>2
    <3>3. Len(kept) = Len(c) - Len(v)
      BY <3>1, <3>2, ShorterBy, Zenon
    <3>4. QED
      BY <1>2, <1>3, <3>1, <3>3
  <2>5. n >= Len(idle) \/ n < Len(idle)
    BY <1>3, <1>7, <1>9
  <2>6. QED
    BY <2>3, <2>4, <2>5
<1>10. QED
  BY <1>8, <1>9

\* The tokens with a verdict, and those after them, are tokens; a first one without a verdict is not known.
LEMMA KnownElements ==
  ASSUME NEW todo \in Seq(ByokTokens), NEW a \in [ByokTokens -> {"none", "ok", "bad"}]
  PROVE  /\ Known(todo, a) \in Seq(ByokTokens)
         /\ SubSeq(todo, Len(Known(todo, a)) + 1, Len(todo)) \in Seq(ByokTokens)
         /\ todo # <<>> /\ a[todo[1]] = "none" => SubSeq(todo, Len(Known(todo, a)) + 1, Len(todo)) = todo
<1> DEFINE I == {i \in 1 .. Len(todo) : a[todo[i]] = "none"}
           n == IF I # {} THEN Min(I) ELSE 0
<1>1. Len(todo) \in Nat /\ I \subseteq 1 .. Len(todo) /\ I \subseteq Nat
  BY SeqElements
<1>2. Known(todo, a) = IF n = 0 THEN todo ELSE SubSeq(todo, 1, n - 1)
  BY DEF Known, SelectInSeq
<1>3. todo # <<>> /\ a[todo[1]] = "none" => 1 \in I
  BY <1>1
<1> HIDE DEF I
<1>4. n \in 0 .. Len(todo) /\ (1 \in I => n = 1)
  <2>1. CASE I = {}
    BY <1>1, <2>1
  <2>2. CASE I # {}
    <3>1. Min(I) \in I /\ \A i \in I : Min(I) <= i
      BY <1>1, <2>2, MinIsLeast
    <3>2. n \in I /\ \A i \in I : n <= i
      BY <2>2, <3>1
    <3>3. n \in 1 .. Len(todo) /\ (1 \in I => n <= 1)
      BY <1>1, <3>2
    <3>4. QED
      BY <1>1, <3>3
  <2>3. QED
    BY <2>1, <2>2
<1> HIDE DEF n
<1> DEFINE m == IF n = 0 THEN Len(todo) ELSE n - 1
<1>5. m \in 0 .. Len(todo)
  BY <1>1, <1>4
<1>6. Known(todo, a) = SubSeq(todo, 1, m)
  <2>1. CASE n = 0
    <3>1. Known(todo, a) = todo /\ m = Len(todo)
      BY <1>2, <2>1
    <3>2. SubSeq(todo, 1, Len(todo)) = todo
      BY <1>1
    <3>3. QED
      BY <3>1, <3>2
  <2>2. CASE n # 0
    BY <1>2, <2>2
  <2>3. QED
    BY <2>1, <2>2
<1>7. n = 1 => m = 0
  OBVIOUS
<1> HIDE DEF m
<1>8. SubSeq(todo, 1, m) \in Seq(ByokTokens) /\ Len(SubSeq(todo, 1, m)) = m
  BY <1>5, FrontElements
<1>9. SubSeq(todo, m + 1, Len(todo)) \in Seq(ByokTokens)
  BY <1>1, <1>5
<1>10. m = 0 => SubSeq(todo, m + 1, Len(todo)) = todo
  BY <1>1
<1>11. QED
  BY <1>3, <1>4, <1>6, <1>7, <1>8, <1>9, <1>10

-------------------------------------------------------------------------------
\* a step that moves only the request r, and keeps its keys
Moves(r) ==
  /\ byokReq' \in [ByokReqs -> ByokReqStates] /\ \A q \in ByokReqs \ {r} : byokReq'[q] = byokReq[q]
  /\ byokReq'[r].key = byokReq[r].key
\* a step that drops pools only to close them
Shrinks ==
  /\ byokCache' \in Seq(ByokReqs) /\ touched' \in Seq(ByokReqs) /\ IsInjective(byokCache') /\ IsInjective(touched')
  /\ Range(touched') = Range(byokCache') /\ Range(byokCache') \subseteq Range(byokCache)
  /\ \A p \in Range(byokCache) \ Range(byokCache') : closing'[p] # "no"
\* closes that were asked for are not taken back
ClosesMore ==
  closing' \in [ByokReqs -> {"no", "asked", "accounts"}] /\ \A p \in ByokReqs : closing[p] # "no" => closing'[p] # "no"

\* a build that goes on has accounts, and rest to check
Builds(r, todo, a, pool, rest, accounts) ==
  /\ todo # <<>> /\ a[todo[1]] = "none" => rest = todo
  /\ todo = <<>> => rest = <<>>
  /\ \A t \in ByokTokens : pool[t] = "open" => t \in accounts
  /\ byokClient' = [byokClient EXCEPT ![r] = [t \in ByokTokens |-> IF t \in accounts THEN "open" ELSE "none"]]
  /\ Moves(r) /\ byokReq'[r].todo = rest
  /\ byokReq'[r].pc = IF rest = <<>> /\ accounts = {} THEN "over" ELSE IF rest = <<>> THEN "refreshing" ELSE "checking"
  /\ rest = <<>> /\ KeyOf(r) = KeylessKey => byokReq'[r].pool = keyless
  /\ byokLock' \in [ByokReqs -> [held : BOOLEAN, queue : Seq(ByokReqs)]]
  /\ IF KeyOf(r) = KeylessKey /\ byokReq'[r].pc = "refreshing" THEN Register(r) ELSE UNCHANGED keyless

\* Asking for closes takes none back.
LEMMA ClosesLater ==
  ASSUME ByokTypeOK, NEW gone, CloseLater(gone)
  PROVE  ClosesMore /\ \A p \in ByokReqs \cap gone : closing'[p] # "no"
BY DEF ByokTypeOK, CloseLater, ClosesMore

\* Whoever takes or gives back a lock leaves a lock.
LEMMA LockTyped ==
  ASSUME ByokTypeOK, NEW r, NEW l
  PROVE  /\ Taken(l, r) \in [ByokReqs -> [held : BOOLEAN, queue : Seq(ByokReqs)]]
         /\ Released(l, r) \in [ByokReqs -> [held : BOOLEAN, queue : Seq(ByokReqs)]]
<1>1. CASE l \in ByokReqs
  <2> DEFINE q == ByokWithout(byokLock[l].queue, {r})
  <2>1. byokLock[l].queue \in Seq(ByokReqs)
    BY <1>1 DEF ByokTypeOK
  <2>2. q \in Seq(ByokReqs)
    BY <2>1, WithoutElements
  <2>3. /\ Taken(l, r) = [byokLock EXCEPT ![l] = [held |-> TRUE, queue |-> q]]
        /\ Released(l, r) = [byokLock EXCEPT ![l] = [held |-> FALSE, queue |-> q]]
    BY DEF Taken, Released
  <2> HIDE DEF q
  <2>4. byokLock \in [ByokReqs -> [held : BOOLEAN, queue : Seq(ByokReqs)]]
    BY DEF ByokTypeOK
  <2>5. ASSUME NEW h \in BOOLEAN PROVE [held |-> h, queue |-> q] \in [held : BOOLEAN, queue : Seq(ByokReqs)]
    BY <2>2
  <2>6. QED
    BY <2>3, <2>4, <2>5, Zenon
<1>2. CASE l \notin ByokReqs
  BY <1>2 DEF ByokTypeOK, Taken, Released
<1>3. QED
  BY <1>1, <1>2

\* Whoever joins a queue leaves a lock, and whoever leaves one.
LEMMA QueueTyped ==
  ASSUME ByokTypeOK, NEW r \in ByokReqs, NEW l
  PROVE  /\ [byokLock EXCEPT ![l].queue = Append(@, r)] \in [ByokReqs -> [held : BOOLEAN, queue : Seq(ByokReqs)]]
         /\ [byokLock EXCEPT ![l].queue = ByokWithout(@, {r})] \in [ByokReqs -> [held : BOOLEAN, queue : Seq(ByokReqs)]]
<1> DEFINE L == [held : BOOLEAN, queue : Seq(ByokReqs)]
<1>1. byokLock \in [ByokReqs -> L]
  BY DEF ByokTypeOK
<1>2. CASE l \in ByokReqs
  <2> DEFINE a == Append(byokLock[l].queue, r)
             w == ByokWithout(byokLock[l].queue, {r})
  <2>1. byokLock[l] \in L /\ byokLock[l].queue \in Seq(ByokReqs)
    BY <1>1, <1>2
  <2>2. a \in Seq(ByokReqs) /\ w \in Seq(ByokReqs)
    BY <2>1, WithoutElements
  <2>3. /\ [byokLock EXCEPT ![l].queue = Append(@, r)] = [byokLock EXCEPT ![l] = [byokLock[l] EXCEPT !.queue = a]]
        /\ [byokLock EXCEPT ![l].queue = ByokWithout(@, {r})] = [byokLock EXCEPT ![l] = [byokLock[l] EXCEPT !.queue = w]]
    BY <1>1, <1>2
  <2> HIDE DEF a, w
  <2>4. [byokLock[l] EXCEPT !.queue = a] \in L /\ [byokLock[l] EXCEPT !.queue = w] \in L
    BY <2>1, <2>2
  <2> HIDE DEF L
  <2>5. QED
    BY <1>1, <1>2, <2>3, <2>4, Zenon DEF L
<1>3. CASE l \notin ByokReqs
  BY <1>1, <1>3
<1>4. QED
  BY <1>2, <1>3

\* Whoever asks for a lock leaves a table of locks.
LEMMA FetchTyped ==
  ASSUME ByokTypeOK, NEW r \in ByokReqs, NEW k
  PROVE  Fetch(r, k) \in [Keys -> ByokReqs \cup {ByokNone}]
<1>1. lockOf \in [Keys -> ByokReqs \cup {ByokNone}]
  BY DEF ByokTypeOK
<1> DEFINE Purged(j) == /\ KeylessKey \notin {j, k} /\ lockOf[j] # ByokNone /\ ~byokLock[lockOf[j]].held
                        /\ Cardinality({i \in Keys \ {KeylessKey} : lockOf[i] # ByokNone}) >= LockLimit
<1>2. Fetch(r, k) = IF lockOf[k] # ByokNone THEN lockOf
                    ELSE [j \in Keys |-> IF j = k THEN r ELSE IF Purged(j) THEN ByokNone ELSE lockOf[j]]
  BY DEF Fetch
<1> HIDE DEF Purged
<1>3. QED
  BY <1>1, <1>2

\* A request that moves to another state, with the same keys.
LEMMA MovesTo ==
  ASSUME byokReq \in [ByokReqs -> ByokReqStates], NEW r \in ByokReqs, NEW e \in ByokReqStates,
         e.key = byokReq[r].key, byokReq' = [byokReq EXCEPT ![r] = e]
  PROVE  Moves(r) /\ byokReq'[r] = e
BY DEF Moves

\* What a build does when it goes on.
LEMMA ProceedEffect ==
  ASSUME ByokTypeOK, NEW r \in ByokReqs, NEW l \in ByokReqs \cup {ByokNone}, NEW todo \in Seq(ByokTokens),
         NEW a \in [ByokTokens -> {"none", "ok", "bad"}], NEW pool, Proceed(r, l, todo, a, pool)
  PROVE  \E rest \in Seq(ByokTokens), accounts \in SUBSET ByokTokens : Builds(r, todo, a, pool, rest, accounts)
<1> DEFINE known == Known(todo, a)
           rest == SubSeq(todo, Len(known) + 1, Len(todo))
           accounts == {t \in ByokTokens : pool[t] = "open"} \cup {t \in Range(known) : a[t] = "ok"}
           over == rest = <<>> /\ accounts = {}
<1>1. /\ known \in Seq(ByokTokens) /\ rest \in Seq(ByokTokens)
      /\ todo # <<>> /\ a[todo[1]] = "none" => rest = todo
  BY KnownElements
<1>2. todo = <<>> => rest = <<>>
  <2>1. ASSUME todo = <<>> PROVE rest = <<>>
    <3>1. Len(todo) = 0 /\ Len(known) \in Nat
      BY <1>1, <2>1
    <3>2. Len(rest) = 0
      BY <3>1
    <3>3. QED
      BY <1>1, <3>2
  <2>2. QED
    BY <2>1
<1>3. accounts \in SUBSET ByokTokens /\ \A t \in ByokTokens : pool[t] = "open" => t \in accounts
  BY <1>1, SeqElements
<1>4. /\ byokClient' = [byokClient EXCEPT ![r] = [t \in ByokTokens |-> IF t \in accounts THEN "open" ELSE "none"]]
      /\ byokReq' = [byokReq EXCEPT ![r].todo = rest,
                                    ![r].lock = IF over THEN ByokNone ELSE l,
                                    ![r].pc = IF over THEN "over" ELSE IF rest = <<>> THEN "refreshing" ELSE "checking",
                                    ![r].pool = IF rest = <<>> /\ KeyOf(r) = KeylessKey THEN keyless ELSE ByokNone]
      /\ byokLock' = IF over THEN Released(l, r) ELSE Taken(l, r)
      /\ IF KeyOf(r) = KeylessKey /\ rest = <<>> /\ ~over THEN Register(r) ELSE UNCHANGED keyless
  BY DEF Proceed
<1> HIDE DEF known, rest, accounts
<1>5. byokReq \in [ByokReqs -> ByokReqStates] /\ keyless \in ByokReqs \cup {ByokNone}
  BY DEF ByokTypeOK
<1>6. /\ Moves(r) /\ byokReq'[r].todo = rest
      /\ byokReq'[r].pc = IF over THEN "over" ELSE IF rest = <<>> THEN "refreshing" ELSE "checking"
      /\ rest = <<>> /\ KeyOf(r) = KeylessKey => byokReq'[r].pool = keyless
  <2> DEFINE lk == IF over THEN ByokNone ELSE l
             pc == IF over THEN "over" ELSE IF rest = <<>> THEN "refreshing" ELSE "checking"
             pl == IF rest = <<>> /\ KeyOf(r) = KeylessKey THEN keyless ELSE ByokNone
  <2>1. lk \in ByokReqs \cup {ByokNone} /\ pc \in {"over", "refreshing", "checking"} /\ pl \in ByokReqs \cup {ByokNone}
    BY <1>5
  <2>2. byokReq' = [byokReq EXCEPT ![r].todo = rest, ![r].lock = lk, ![r].pc = pc, ![r].pool = pl]
    BY <1>4
  <2>3. rest = <<>> /\ KeyOf(r) = KeylessKey => pl = keyless
    OBVIOUS
  <2>4. pc = IF over THEN "over" ELSE IF rest = <<>> THEN "refreshing" ELSE "checking"
    OBVIOUS
  <2> HIDE DEF lk, pc, pl
  <2>5. Moves(r) /\ byokReq'[r].todo = rest /\ byokReq'[r].pc = pc /\ byokReq'[r].pool = pl
    <3> DEFINE b == byokReq[r]
               e == [pc |-> pc, key |-> b.key, lock |-> lk, pool |-> pl, todo |-> rest, slot |-> b.slot]
    <3>1. b \in ByokReqStates
      BY <1>5
    <3>2. e \in ByokReqStates
      BY <1>1, <2>1, <3>1 DEF ByokReqStates
    <3>3. byokReq'[r] = e
      <4>1. byokReq'[r] = [b EXCEPT !.todo = rest, !.lock = lk, !.pc = pc, !.pool = pl]
        BY <1>5, <2>2
      <4>2. QED
        BY <3>1, <4>1 DEF ByokReqStates
    <3>4. \A q \in ByokReqs \ {r} : byokReq'[q] = byokReq[q]
      BY <1>5, <2>2
    <3>5. byokReq' = [q \in ByokReqs |-> byokReq'[q]]
      BY <1>5, <2>2
    <3>6. e.key = b.key /\ e.todo = rest /\ e.pc = pc /\ e.pool = pl
      OBVIOUS
    <3> HIDE DEF e
    <3>7. \A q \in ByokReqs : byokReq'[q] \in ByokReqStates
      BY <1>5, <3>2, <3>3, <3>4
    <3>8. byokReq' \in [ByokReqs -> ByokReqStates]
      BY <3>5, <3>7
    <3>9. QED
      BY <3>3, <3>4, <3>6, <3>8 DEF Moves
  <2>6. QED
    BY <2>3, <2>4, <2>5
<1>7. byokLock' \in [ByokReqs -> [held : BOOLEAN, queue : Seq(ByokReqs)]]
  BY <1>4, LockTyped
<1>8. (rest = <<>> /\ ~over) <=> byokReq'[r].pc = "refreshing"
  BY <1>6
<1>9. IF KeyOf(r) = KeylessKey /\ byokReq'[r].pc = "refreshing" THEN Register(r) ELSE UNCHANGED keyless
  BY <1>4, <1>8
<1>10. Builds(r, todo, a, pool, rest, accounts)
  BY <1>1, <1>2, <1>3, <1>4, <1>6, <1>7, <1>9 DEF Builds
<1>11. QED
  BY <1>1, <1>3, <1>10

\* What the other requests answer for stays, and no one who has built a pool is early again.
LEMMA OthersAnswer ==
  ASSUME ByokTypeOK, NEW r \in ByokReqs, Moves(r)
  PROVE  /\ \A q \in ByokReqs : byokReq'[q].key = byokReq[q].key
         /\ \A p : \A q \in ByokReqs \ {r} : Answers(q, p) => Answers(q, p)'
         /\ byokReq[r].pc \in Early \/ byokReq'[r].pc \notin Early => EarlyReqs' \subseteq EarlyReqs
<1>1. \A q \in ByokReqs \ {r} : byokReq'[q] = byokReq[q]
  BY DEF Moves
<1>2. \A q \in ByokReqs : byokReq'[q].key = byokReq[q].key
  BY <1>1 DEF Moves
<1>3. ASSUME NEW q \in ByokReqs \ {r}, NEW p, Answers(q, p) PROVE Answers(q, p)'
  BY <1>1, <1>2, <1>3 DEF Answers, KeyOf, KeylessKey
<1>4. byokReq[r].pc \in Early \/ byokReq'[r].pc \notin Early => EarlyReqs' \subseteq EarlyReqs
  BY <1>1 DEF EarlyReqs
<1>5. QED
  BY <1>2, <1>3, <1>4

\* A live pool that is handed to r: it goes to the end of both orders.
LEMMA HandsOver ==
  ASSUME NEW pairs, ByokInv(pairs), NEW r \in ByokReqs, byokReq[r].pc \in {"new", "queued"},
         NEW p, p \in At(KeyOf(r)), Touch(p), Moves(r), byokReq'[r].pc = "got", byokReq'[r].pool = p,
         ClosesMore, UNCHANGED <<keyless, byokClient, auth, held, broken>>,
         lockOf' \in [Keys -> ByokReqs \cup {ByokNone}],
         byokLock' \in [ByokReqs -> [held : BOOLEAN, queue : Seq(ByokReqs)]]
  PROVE  ByokInv(pairs)'
<1>1. ByokTypeOK /\ ByokCaches /\ ByokHands /\ ByokChecks /\ ByokAnswers(pairs)
  BY DEF ByokInv
<1>2. byokCache \in Seq(ByokReqs) /\ touched \in Seq(ByokReqs) /\ keyless \in ByokReqs \cup {ByokNone}
  BY <1>1 DEF ByokTypeOK
<1>3. p \in Live /\ p \in ByokReqs
  BY <1>2, SeqElements DEF At, Live
<1>4. /\ EarlyReqs' \subseteq EarlyReqs /\ r \notin EarlyReqs' /\ r \in EarlyReqs
      /\ \A q \in ByokReqs \ {r} : byokReq'[q] = byokReq[q]
      /\ \A q \in ByokReqs : byokReq'[q].key = byokReq[q].key
  BY <1>1, OthersAnswer DEF Early, EarlyReqs, Moves
<1>5. /\ byokCache' \in Seq(ByokReqs) /\ touched' \in Seq(ByokReqs) /\ IsInjective(byokCache') /\ IsInjective(touched')
      /\ Range(touched') = Range(byokCache') /\ Range(byokCache) \subseteq Range(byokCache')
      /\ Range(byokCache') \subseteq Range(byokCache) \cup {p}
  <2>1. CASE KeyOf(p) = KeylessKey
    <3>1. byokCache' = byokCache /\ touched' = touched
      BY <2>1 DEF Touch, cacheVars
    <3>2. QED
      BY <1>1, <1>2, <3>1 DEF ByokCaches
  <2>2. CASE KeyOf(p) # KeylessKey
    <3> DEFINE g == {p}
               c == Append(ByokWithout(byokCache, g), p)
               t == Append(ByokWithout(touched, g), p)
    <3>1. byokCache' = c /\ touched' = t
      BY <2>2 DEF Touch
    <3>2. p \in g
      OBVIOUS
    <3> HIDE DEF g
    <3>3. c \in Seq(ByokReqs) /\ Range(c) = (Range(byokCache) \ g) \cup {p} /\ (IsInjective(byokCache) => IsInjective(c))
      BY <1>2, <1>3, <3>2, MovedElements
    <3>4. t \in Seq(ByokReqs) /\ Range(t) = (Range(touched) \ g) \cup {p} /\ (IsInjective(touched) => IsInjective(t))
      BY <1>2, <1>3, <3>2, MovedElements
    <3> HIDE DEF c, t
    <3>5. QED
      BY <1>1, <1>3, <3>1, <3>3, <3>4 DEF g, ByokCaches
  <2>3. QED
    BY <2>1, <2>2
<1>6. Live' = Live
  BY <1>3, <1>5 DEF Live
<1>7. ByokTypeOK'
  BY <1>1, <1>5 DEF ByokTypeOK, Moves, ClosesMore
<1>8. ByokCaches'
  BY <1>1, <1>4, <1>5, <1>6 DEF ByokCaches
<1>9. ByokHands'
  BY <1>1, <1>3, <1>4 DEF ByokHands, ByokCaches
<1>10. ByokChecks'
  BY <1>1, <1>4 DEF ByokChecks, KeyOf, KeylessKey
<1>11. ByokAnswers(pairs)'
  <2>1. ASSUME NEW q \in ByokReqs, NEW o, Answers(q, o) PROVE Answers(q, o)'
    <3>1. q # r
      BY <2>1 DEF Answers
    <3>2. QED
      BY <1>1, <2>1, <3>1, OthersAnswer
  <2>2. QED
    BY <1>1, <1>6, <2>1 DEF ByokAnswers, ClosesMore
<1>12. QED
  BY <1>7, <1>8, <1>9, <1>10, <1>11 DEF ByokInv

\* A request that waits for its lock, or is refused, may have evicted pools.
LEMMA StaysOut ==
  ASSUME NEW pairs, ByokInv(pairs), NEW r \in ByokReqs, byokReq[r].pc \in {"new", "queued"},
         Moves(r), byokReq'[r].pc \in {"queued", "over"}, Shrinks, ClosesMore,
         UNCHANGED <<keyless, byokClient, auth, held, broken>>,
         lockOf' \in [Keys -> ByokReqs \cup {ByokNone}],
         byokLock' \in [ByokReqs -> [held : BOOLEAN, queue : Seq(ByokReqs)]]
  PROVE  ByokInv(pairs)'
<1>1. ByokTypeOK /\ ByokCaches /\ ByokHands /\ ByokChecks /\ ByokAnswers(pairs)
  BY DEF ByokInv
<1>2. /\ EarlyReqs' \subseteq EarlyReqs
      /\ \A q \in ByokReqs \ {r} : byokReq'[q] = byokReq[q]
      /\ \A q \in ByokReqs : byokReq'[q].key = byokReq[q].key
  BY <1>1, OthersAnswer DEF Early, Moves
<1>3. Live' \subseteq Live /\ \A p \in Live \ Live' : closing'[p] # "no"
  BY DEF Live, Shrinks
<1>4. ByokTypeOK'
  BY <1>1 DEF ByokTypeOK, Moves, ClosesMore, Shrinks
<1>5. ByokCaches'
  BY <1>1, <1>2, <1>3 DEF ByokCaches, Shrinks
<1>6. ByokHands'
  BY <1>1, <1>2 DEF ByokHands
<1>7. ByokChecks'
  BY <1>1, <1>2 DEF ByokChecks, KeyOf, KeylessKey
<1>8. ByokAnswers(pairs)'
  <2>1. ASSUME NEW q \in ByokReqs, NEW o, Answers(q, o) PROVE Answers(q, o)'
    <3>1. q # r
      BY <2>1 DEF Answers
    <3>2. QED
      BY <1>1, <2>1, <3>1, OthersAnswer
  <2>2. QED
    BY <1>1, <1>3, <2>1 DEF ByokAnswers, ClosesMore
<1>9. QED
  BY <1>4, <1>5, <1>6, <1>7, <1>8 DEF ByokInv

\* A build that goes on: its clients are its own, and the keyless pool that it replaces is
\* left to it.
LEMMA GoesOn ==
  ASSUME NEW pairs, ByokInv(pairs), NEW r \in ByokReqs, byokReq[r].pc \in Early, NEW l \in ByokReqs \cup {ByokNone}, NEW todo \in Seq(ByokTokens),
         NEW a \in [ByokTokens -> {"none", "ok", "bad"}], NEW pool, Proceed(r, l, todo, a, pool), ClosesMore,
         auth' \in [ByokTokens -> {"none", "ok", "bad"}],
         Keyless \in ByokTokens => a[Keyless] = "none" /\ auth'[Keyless] = "none",
         KeyOf(r) = KeylessKey => todo \in {KeylessKey, <<>>},
         KeyOf(r) # KeylessKey \/ byokReq'[r].pc # "refreshing" => Shrinks,
         lockOf' \in [Keys -> ByokReqs \cup {ByokNone}], UNCHANGED <<held, broken>>
  PROVE  ByokInv(pairs)'
<1>1. ByokTypeOK /\ ByokCaches /\ ByokHands /\ ByokChecks /\ ByokAnswers(pairs)
  BY DEF ByokInv
<1>2. PICK rest \in Seq(ByokTokens), accounts \in SUBSET ByokTokens : Builds(r, todo, a, pool, rest, accounts)
  BY <1>1, ProceedEffect
<1> USE DEF Builds
<1>3. byokCache \in Seq(ByokReqs) /\ touched \in Seq(ByokReqs) /\ keyless \in ByokReqs \cup {ByokNone}
  BY <1>1 DEF ByokTypeOK
<1>4. r \in EarlyReqs /\ r \notin Live
  BY <1>1 DEF EarlyReqs, ByokCaches
<1>5. /\ EarlyReqs' \subseteq EarlyReqs
      /\ \A q \in ByokReqs \ {r} : byokReq'[q] = byokReq[q]
      /\ \A q \in ByokReqs : byokReq'[q].key = byokReq[q].key
  BY <1>1, <1>2, OthersAnswer DEF Moves
<1>6. KeyOf(r)' = KeyOf(r) /\ KeylessKey' = KeylessKey
  BY <1>5 DEF KeyOf, KeylessKey
<1>7. KeyOf(r) = KeylessKey => rest \in {KeylessKey, <<>>}
  <2>1. ASSUME todo = KeylessKey PROVE rest = KeylessKey
    <3>1. todo # <<>> /\ todo[1] = Keyless /\ Keyless \in ByokTokens
      BY <2>1 DEF KeylessKey
    <3>2. QED
      BY <1>2, <2>1, <3>1
  <2>2. QED
    BY <1>2, <2>1
\* what is live, and who answers for what was
<1>8. /\ byokCache' \in Seq(ByokReqs) /\ touched' \in Seq(ByokReqs) /\ IsInjective(byokCache') /\ IsInjective(touched')
      /\ Range(touched') = Range(byokCache') /\ keyless' \in ByokReqs \cup {ByokNone}
      /\ Live' \cap EarlyReqs' = {}
      /\ \A p \in Live : p \in Live' \/ closing'[p] # "no" \/ Answers(r, p)'
      /\ KeyOf(r) = KeylessKey /\ byokReq'[r].pc = "refreshing" => r \in Live'
  <2>1. CASE KeyOf(r) = KeylessKey /\ byokReq'[r].pc = "refreshing"
    <3> DEFINE g == {keyless}
               w == ByokWithout(touched, g)
    <3>1. /\ keyless' = r /\ byokCache' = Append(ByokWithout(byokCache, g), r) /\ touched' = <<r>> \o w
      BY <1>2, <2>1 DEF Register
    <3>2. r \notin Range(byokCache) /\ r \notin Range(touched) /\ Range(touched) = Range(byokCache)
      BY <1>1, <1>4 DEF Live, ByokCaches
    <3> HIDE DEF g
    <3>3. w \in Seq(ByokReqs) /\ Range(w) = Range(touched) \ g /\ (IsInjective(touched) => IsInjective(w))
      BY <1>3, WithoutElements
    <3> DEFINE c == Append(ByokWithout(byokCache, g), r)
    <3>4. c \in Seq(ByokReqs) /\ Range(c) = (Range(byokCache) \ g) \cup {r} /\ (IsInjective(byokCache) => IsInjective(c))
      <4>1. r \in Range(byokCache) => r \in g
        BY <3>2
      <4>2. byokCache \in Seq(ByokReqs)
        BY <1>3
      <4>3. c \in Seq(ByokReqs) /\ (IsInjective(byokCache) => IsInjective(c))
        BY <4>1, <4>2, MovedElements
      <4>4. \A x : x \in Range(c) <=> x \in (Range(byokCache) \ g) \cup {r}
        BY <4>1, <4>2, MovedElements
      <4>5. QED
        BY <4>3, <4>4
    <3>5. byokCache' = c
      BY <3>1
    <3> HIDE DEF w, c
    <3>6. /\ <<r>> \o w \in Seq(ByokReqs) /\ Range(<<r>> \o w) = Range(w) \cup {r}
          /\ IsInjective(w) /\ r \notin Range(w) => IsInjective(<<r>> \o w)
      BY <3>3, ConsElements
    <3>7. /\ byokCache' \in Seq(ByokReqs) /\ touched' \in Seq(ByokReqs) /\ IsInjective(byokCache') /\ IsInjective(touched')
          /\ Range(touched') = Range(byokCache') /\ Range(byokCache') = (Range(byokCache) \ g) \cup {r}
      BY <1>1, <3>1, <3>2, <3>3, <3>4, <3>5, <3>6 DEF ByokCaches
    <3>8. Live' \subseteq Live \cup {r} /\ r \in Live' /\ \A p \in Live : p \in Live' \/ p = keyless
      BY <3>1, <3>7, ByokAssumption DEF Live, g
    <3>9. Live' \cap EarlyReqs' = {}
      BY <1>1, <1>5, <2>1, <3>8 DEF ByokCaches, EarlyReqs, Early
    <3>10. rest = <<>>
      BY <1>2, <2>1
    <3>11. ASSUME NEW p, p = keyless PROVE Answers(r, p)'
      <4>1. byokReq'[r].pc = "refreshing" /\ KeyOf(r)' = KeylessKey' /\ p = byokReq'[r].pool
        BY <1>2, <1>6, <2>1, <3>10, <3>11
      <4>2. QED
        BY <4>1 DEF Answers
    <3>12. QED
      BY <3>1, <3>7, <3>8, <3>9, <3>11
  <2>2. CASE ~(KeyOf(r) = KeylessKey /\ byokReq'[r].pc = "refreshing")
    <3>1. keyless' = keyless /\ Shrinks
      BY <1>2, <2>2
    <3>2. Live' \subseteq Live /\ \A p \in Live \ Live' : closing'[p] # "no"
      BY <3>1 DEF Live, Shrinks
    <3>3. QED
      BY <1>1, <1>3, <1>5, <2>2, <3>1, <3>2 DEF ByokCaches, Shrinks
  <2>3. QED
    BY <2>1, <2>2
<1>9. byokReq'[r].pc \in {"over", "refreshing", "checking"} /\ (byokReq'[r].pc = "over" => accounts = {})
      /\ (byokReq'[r].pc = "checking" => rest # <<>>)
  BY <1>2
<1>10. \A p \in ByokReqs \ {r} : byokClient'[p] = byokClient[p]
  BY <1>1, <1>2 DEF ByokTypeOK
<1>11. \A t \in ByokTokens : byokClient'[r][t] = "open" => t \in accounts
  BY <1>1, <1>2 DEF ByokTypeOK
<1>12. ByokTypeOK'
  <2>1. [t \in ByokTokens |-> IF t \in accounts THEN "open" ELSE "none"]
          \in [ByokTokens -> {"none", "open", "deferred", "closed", "abandoned"}]
    OBVIOUS
  <2>2. byokClient' \in [ByokReqs -> [ByokTokens -> {"none", "open", "deferred", "closed", "abandoned"}]]
    BY <1>1, <1>2, <2>1 DEF ByokTypeOK
  <2>3. QED
    BY <1>1, <1>2, <1>8, <2>2 DEF ByokTypeOK, Moves, ClosesMore
<1>13. ByokCaches'
  BY <1>8 DEF ByokCaches
<1>14. ByokHands'
  BY <1>1, <1>5, <1>9 DEF ByokHands
<1>15. ByokChecks'
  BY <1>1, <1>2, <1>5, <1>6, <1>7, <1>9 DEF ByokChecks, KeyOf, KeylessKey
<1>16. ByokAnswers(pairs)'
  <2>1. ASSUME NEW p \in ByokReqs, NEW t \in ByokTokens, <<p, t>> \in pairs, byokClient'[p][t] = "open"
        PROVE  p \in Live' \/ closing'[p] # "no" \/ \E q \in ByokReqs : Answers(q, p)'
    <3>1. CASE p = r
      <4>1. byokReq'[r].pc \in {"refreshing", "checking"}
        BY <1>9, <1>11, <2>1, <3>1
      <4>2. byokReq'[r].pc = "checking" \/ KeyOf(r) # KeylessKey => Answers(r, r)'
        BY <1>6, <4>1 DEF Answers
      <4>3. QED
        BY <1>8, <3>1, <4>1, <4>2
    <3>2. CASE p # r
      <4>1. byokClient[p][t] = "open"
        BY <1>10, <2>1, <3>2
      <4>2. CASE p \in Live
        BY <1>8, <4>2
      <4>3. CASE closing[p] # "no"
        BY <4>3 DEF ClosesMore
      <4>4. CASE \E q \in ByokReqs : Answers(q, p)
        <5>1. PICK q \in ByokReqs : Answers(q, p)
          BY <4>4
        <5>2. q # r
          BY <3>2, <5>1 DEF Answers, Early
        <5>3. QED
          BY <1>1, <1>2, <5>1, <5>2, OthersAnswer
      <4>5. QED
        BY <1>1, <2>1, <4>1, <4>2, <4>3, <4>4 DEF ByokAnswers
    <3>3. QED
      BY <3>1, <3>2
  <2>2. QED
    BY <2>1 DEF ByokAnswers
<1>17. QED
  BY <1>12, <1>13, <1>14, <1>15, <1>16 DEF ByokInv

\* Who has the lock takes a pool that is there, is refused, or builds.
LEMMA EnterKeeps ==
  ASSUME NEW pairs, ByokInv(pairs), NEW r \in ByokReqs, byokReq[r].pc \in {"new", "queued"}, NEW l \in ByokReqs \cup {ByokNone},
         NEW c \in Seq(ByokReqs), NEW t \in Seq(ByokReqs), NEW gone, ByokEnter(r, l, c, t, gone),
         IsInjective(c), IsInjective(t), Range(t) = Range(c), Range(c) = Range(byokCache) \ gone,
         lockOf' \in [Keys -> ByokReqs \cup {ByokNone}], UNCHANGED <<auth, held, broken>>
  PROVE  ByokInv(pairs)'
<1> DEFINE k == KeyOf(r)
           victims == IF k = KeylessKey THEN {} ELSE Victims(t, At(k), 1)
           there == {p \in At(k) \ gone : Healthy(p)}
           full == k # KeylessKey /\ victims = {} /\ Len(t) >= ByokLimit
           more == gone \cup IF there = {} THEN victims ELSE {}
<1>1. ByokTypeOK /\ ByokCaches /\ ByokChecks
  BY DEF ByokInv
<1>2. byokCache \in Seq(ByokReqs) /\ touched \in Seq(ByokReqs) /\ byokReq \in [ByokReqs -> ByokReqStates] /\ keyless \in ByokReqs \cup {ByokNone}
  BY <1>1 DEF ByokTypeOK
<1>3. /\ CloseLater(more)
      /\ there # {} => \E p \in there :
            /\ byokReq' = [byokReq EXCEPT ![r].pc = "got", ![r].lock = ByokNone, ![r].pool = p]
            /\ byokLock' = Released(l, r)
            /\ Touch(p)
            /\ UNCHANGED <<keyless, byokClient>>
      /\ there = {} /\ full =>
            /\ byokReq' = [byokReq EXCEPT ![r].pc = "over", ![r].lock = ByokNone]
            /\ byokLock' = Released(l, r)
            /\ byokCache' = c /\ touched' = t
            /\ UNCHANGED <<keyless, byokClient>>
      /\ there = {} /\ ~full =>
            /\ Proceed(r, l, k, auth, byokClient[r])
            /\ k # KeylessKey => byokCache' = ByokWithout(c, victims) /\ touched' = ByokWithout(t, victims)
            /\ k = KeylessKey => UNCHANGED cacheVars
  BY DEF ByokEnter
<1>4. ClosesMore /\ \A p \in ByokReqs \cap more : closing'[p] # "no"
  <2> HIDE DEF more
  <2>1. QED
    BY <1>1, <1>3, ClosesLater
<1>5. byokLock' = Released(l, r) => byokLock' \in [ByokReqs -> [held : BOOLEAN, queue : Seq(ByokReqs)]]
  BY <1>1, LockTyped
<1>6. there \subseteq At(KeyOf(r)) /\ At(KeyOf(r)) \subseteq ByokReqs
  BY <1>2, SeqElements DEF At
<1>7. k \in Seq(ByokTokens)
  BY <1>2, ByokAssumption DEF ByokReqStates, KeyOf
<1>8. Range(byokCache) \subseteq ByokReqs
  BY <1>2, SeqElements
<1>9. CASE there # {}
  <2> HIDE DEF there
  <2>1. PICK p \in there :
            /\ byokReq' = [byokReq EXCEPT ![r].pc = "got", ![r].lock = ByokNone, ![r].pool = p]
            /\ byokLock' = Released(l, r)
            /\ Touch(p)
            /\ UNCHANGED <<keyless, byokClient>>
    BY <1>3, <1>9
  <2>2. p \in At(KeyOf(r)) /\ p \in ByokReqs
    BY <1>6
  <2>3. Moves(r) /\ byokReq'[r].pc = "got" /\ byokReq'[r].pool = p
    <3> DEFINE e == [byokReq[r] EXCEPT !.pc = "got", !.lock = ByokNone, !.pool = p]
    <3>1. e \in ByokReqStates /\ e.key = byokReq[r].key /\ e.pc = "got" /\ e.pool = p
      BY <1>2, <2>2 DEF ByokReqStates
    <3>2. byokReq' = [byokReq EXCEPT ![r] = e]
      BY <1>2, <2>1 DEF ByokReqStates
    <3> HIDE DEF e
    <3>3. QED
      BY <1>2, <3>1, <3>2, MovesTo
  <2>4. QED
    BY <1>4, <1>5, <2>1, <2>2, <2>3, HandsOver
<1>10. CASE there = {} /\ full
  <2>1. /\ byokReq' = [byokReq EXCEPT ![r].pc = "over", ![r].lock = ByokNone]
        /\ byokLock' = Released(l, r)
        /\ byokCache' = c /\ touched' = t
        /\ UNCHANGED <<keyless, byokClient>>
    BY <1>3, <1>10
  <2>2. Moves(r) /\ byokReq'[r].pc = "over"
    <3> DEFINE e == [byokReq[r] EXCEPT !.pc = "over", !.lock = ByokNone]
    <3>1. e \in ByokReqStates /\ e.key = byokReq[r].key /\ e.pc = "over"
      BY <1>2 DEF ByokReqStates
    <3>2. byokReq' = [byokReq EXCEPT ![r] = e]
      BY <1>2, <2>1 DEF ByokReqStates
    <3> HIDE DEF e
    <3>3. QED
      BY <1>2, <3>1, <3>2 DEF Moves
  <2>3. Shrinks
    <3>1. Range(byokCache) \ Range(c) \subseteq ByokReqs \cap more
      BY <1>8
    <3> HIDE DEF more
    <3>2. QED
      BY <1>4, <2>1, <3>1 DEF Shrinks
  <2>4. QED
    BY <1>4, <1>5, <2>1, <2>2, <2>3, StaysOut
<1>11. CASE there = {} /\ ~full
  <2>1. /\ Proceed(r, l, k, auth, byokClient[r])
        /\ k # KeylessKey => byokCache' = ByokWithout(c, victims) /\ touched' = ByokWithout(t, victims)
        /\ k = KeylessKey => UNCHANGED cacheVars
    BY <1>3, <1>11
  <2>2. Shrinks
    <3>1. CASE k = KeylessKey
      BY <1>1, <1>2, <2>1, <3>1 DEF Shrinks, cacheVars, ByokCaches
    <3>2. CASE k # KeylessKey
      <4>1. more = gone \cup victims
        BY <1>11
      <4> DEFINE d == ByokWithout(c, victims)
                 u == ByokWithout(t, victims)
      <4>2. byokCache' = d /\ touched' = u
        BY <2>1, <3>2
      <4> HIDE DEF victims, more, there
      <4>3. /\ d \in Seq(ByokReqs) /\ Range(d) = Range(c) \ victims /\ (IsInjective(c) => IsInjective(d))
            /\ u \in Seq(ByokReqs) /\ Range(u) = Range(t) \ victims /\ (IsInjective(t) => IsInjective(u))
        BY WithoutElements
      <4> HIDE DEF d, u
      <4>4. Range(byokCache) \ Range(d) \subseteq ByokReqs \cap more
        BY <1>8, <4>1, <4>3
      <4>5. QED
        BY <1>4, <4>2, <4>3, <4>4 DEF Shrinks
    <3>3. QED
      BY <3>1, <3>2
  <2>3. auth' = auth /\ auth \in [ByokTokens -> {"none", "ok", "bad"}] /\ (Keyless \in ByokTokens => auth[Keyless] = "none")
    BY <1>1 DEF ByokTypeOK, ByokChecks
  <2>4. byokReq[r].pc \in Early /\ (KeyOf(r) = KeylessKey => k \in {KeylessKey, <<>>})
    BY DEF Early
  <2> HIDE DEF k
  <2>5. QED
    BY <1>4, <1>7, <2>1, <2>2, <2>3, <2>4, GoesOn
<1>12. QED
  BY <1>9, <1>10, <1>11

\* A request that arrives.
LEMMA ArriveKeeps ==
  ASSUME NEW pairs, ByokInv(pairs), NEW r \in ByokReqs, ByokArrive(r)
  PROVE  ByokInv(pairs)'
<1> DEFINE k == KeyOf(r)
           there == {p \in At(k) : Healthy(p)}
           gone == IF k = KeylessKey THEN {} ELSE ByokStale(byokCache, 1)
           c == IF k = KeylessKey THEN byokCache ELSE Rotated(byokCache, 1)
           t == ByokWithout(touched, gone)
<1>1. ByokTypeOK /\ ByokCaches
  BY DEF ByokInv
<1>2. byokCache \in Seq(ByokReqs) /\ touched \in Seq(ByokReqs) /\ byokReq \in [ByokReqs -> ByokReqStates] /\ keyless \in ByokReqs \cup {ByokNone}
  BY <1>1 DEF ByokTypeOK
<1>3. /\ byokReq[r].pc = "new" /\ UNCHANGED <<auth, held, broken>>
      /\ there # {} =>
           /\ \E p \in there : byokReq' = [byokReq EXCEPT ![r].pc = "got", ![r].pool = p] /\ Touch(p)
           /\ UNCHANGED <<closing, keyless, lockOf, byokLock, byokClient>>
      /\ there = {} =>
           /\ lockOf' = Fetch(r, k)
           /\ Free(lockOf'[k]) => ByokEnter(r, lockOf'[k], c, t, gone)
           /\ ~Free(lockOf'[k]) =>
                /\ byokReq' = [byokReq EXCEPT ![r].pc = "queued", ![r].lock = lockOf'[k]]
                /\ byokLock' = [byokLock EXCEPT ![lockOf'[k]].queue = Append(@, r)]
                /\ byokCache' = c /\ touched' = t
                /\ CloseLater(gone)
                /\ UNCHANGED <<keyless, byokClient>>
  BY DEF ByokArrive
<1>4. there \subseteq At(KeyOf(r)) /\ At(KeyOf(r)) \subseteq ByokReqs /\ Range(byokCache) \subseteq ByokReqs /\ k \in Keys
  BY <1>2, SeqElements DEF At, ByokReqStates, KeyOf
<1>5. /\ c \in Seq(ByokReqs) /\ Range(c) = Range(byokCache) \ gone /\ IsInjective(c)
  <2>1. CASE k = KeylessKey
    BY <1>1, <1>2, <2>1 DEF ByokCaches
  <2>2. CASE k # KeylessKey
    <3>1. 1 \in Nat
      OBVIOUS
    <3>2. /\ Rotated(byokCache, 1) \in Seq(ByokReqs) /\ Range(Rotated(byokCache, 1)) = Range(byokCache) \ ByokStale(byokCache, 1)
          /\ IsInjective(byokCache) => IsInjective(Rotated(byokCache, 1))
      BY <1>2, <3>1, RotatedElements
    <3>3. QED
      BY <1>1, <2>2, <3>2 DEF ByokCaches
  <2>3. QED
    BY <2>1, <2>2
<1> HIDE DEF gone, c
<1>6. t \in Seq(ByokReqs) /\ IsInjective(t) /\ Range(t) = Range(c)
  <2>1. t \in Seq(ByokReqs) /\ Range(t) = Range(touched) \ gone /\ (IsInjective(touched) => IsInjective(t))
    BY <1>2, WithoutElements
  <2>2. QED
    BY <1>1, <1>5, <2>1 DEF ByokCaches
<1>7. CASE there # {}
  <2> HIDE DEF there
  <2>1. PICK p \in there : byokReq' = [byokReq EXCEPT ![r].pc = "got", ![r].pool = p] /\ Touch(p)
    BY <1>3, <1>7
  <2>2. p \in At(KeyOf(r)) /\ p \in ByokReqs
    BY <1>4
  <2>3. Moves(r) /\ byokReq'[r].pc = "got" /\ byokReq'[r].pool = p
    BY <1>2, <2>1, <2>2 DEF Moves, ByokReqStates
  <2>4. ClosesMore /\ lockOf' \in [Keys -> ByokReqs \cup {ByokNone}] /\ byokLock' \in [ByokReqs -> [held : BOOLEAN, queue : Seq(ByokReqs)]]
    BY <1>1, <1>3, <1>7 DEF ByokTypeOK, ClosesMore
  <2>5. QED
    BY <1>3, <1>7, <2>1, <2>2, <2>3, <2>4, HandsOver
<1>8. CASE there = {}
  <2> DEFINE l == lockOf'[k]
  <2>1. lockOf' \in [Keys -> ByokReqs \cup {ByokNone}] /\ l \in ByokReqs \cup {ByokNone}
    <3>1. Fetch(r, k) \in [Keys -> ByokReqs \cup {ByokNone}]
      BY <1>1, FetchTyped
    <3>2. QED
      BY <1>3, <1>4, <1>8, <3>1
  <2>2. CASE Free(l)
    <3>1. ByokEnter(r, l, c, t, gone)
      BY <1>3, <1>8, <2>2
    <3> HIDE DEF l, t
    <3>2. QED
      BY <1>3, <1>5, <1>6, <2>1, <3>1, EnterKeeps
  <2>3. CASE ~Free(l)
    <3>1. /\ byokReq' = [byokReq EXCEPT ![r].pc = "queued", ![r].lock = l]
          /\ byokLock' = [byokLock EXCEPT ![l].queue = Append(@, r)]
          /\ byokCache' = c /\ touched' = t
          /\ CloseLater(gone)
          /\ UNCHANGED <<keyless, byokClient>>
      BY <1>3, <1>8, <2>3
    <3> HIDE DEF l, t
    <3>2. Moves(r) /\ byokReq'[r].pc = "queued"
      BY <1>2, <2>1, <3>1 DEF Moves, ByokReqStates
    <3>3. byokLock' \in [ByokReqs -> [held : BOOLEAN, queue : Seq(ByokReqs)]]
      BY <1>1, <3>1, QueueTyped
    <3>4. ClosesMore /\ \A p \in ByokReqs \cap gone : closing'[p] # "no"
      BY <1>1, <3>1, ClosesLater
    <3>5. Shrinks
      BY <1>4, <1>5, <1>6, <3>1, <3>4 DEF Shrinks
    <3>6. QED
      BY <1>3, <2>1, <3>1, <3>2, <3>3, <3>4, <3>5, StaysOut
  <2>4. QED
    BY <2>2, <2>3
<1>9. QED
  BY <1>7, <1>8

\* A step that leaves the live pools alone and opens no client.
LEMMA CalmKeeps ==
  ASSUME NEW pairs, ByokInv(pairs), UNCHANGED <<cacheVars, keyless>>, ByokTypeOK', EarlyReqs' \subseteq EarlyReqs,
         ByokHands', ByokChecks', ClosesMore,
         \A p \in ByokReqs, t \in ByokTokens : <<p, t>> \in pairs /\ byokClient'[p][t] = "open" =>
           byokClient[p][t] = "open" /\ \A q \in ByokReqs : Answers(q, p) => Answers(q, p)' \/ closing'[p] # "no"
  PROVE  ByokInv(pairs)'
<1>1. ByokCaches /\ ByokAnswers(pairs)
  BY DEF ByokInv
<1>2. Live' = Live
  BY DEF Live, cacheVars
<1>3. ByokCaches'
  BY <1>1, <1>2 DEF ByokCaches, cacheVars
<1>4. ByokAnswers(pairs)'
  BY <1>1, <1>2 DEF ByokAnswers, ClosesMore
<1>5. QED
  BY <1>3, <1>4 DEF ByokInv

\* Who waited has the lock.
LEMMA TakeLockKeeps ==
  ASSUME NEW pairs, ByokInv(pairs), NEW r \in ByokReqs, TakeLock(r)
  PROVE  ByokInv(pairs)'
<1>1. byokReq[r].pc = "queued" /\ ByokEnter(r, byokReq[r].lock, byokCache, touched, {}) /\ UNCHANGED <<lockOf, auth, held, broken>>
  BY DEF TakeLock
<1>2. /\ byokCache \in Seq(ByokReqs) /\ touched \in Seq(ByokReqs) /\ byokReq[r].lock \in ByokReqs \cup {ByokNone}
      /\ lockOf' \in [Keys -> ByokReqs \cup {ByokNone}] /\ IsInjective(byokCache) /\ IsInjective(touched)
      /\ Range(touched) = Range(byokCache) /\ Range(byokCache) = Range(byokCache) \ {}
  BY <1>1 DEF ByokInv, ByokTypeOK, ByokCaches, ByokReqStates
<1>3. QED
  BY <1>1, <1>2, EnterKeeps

\* A verdict on a token is the answer to a check, and the only token of no key has none.
LEMMA CheckedKeeps ==
  ASSUME NEW pairs, ByokInv(pairs), NEW r \in ByokReqs, NEW verdict \in {"ok", "bad", "error"}, ByokChecked(r, verdict)
  PROVE  ByokInv(pairs)'
<1> DEFINE q == byokReq[r].todo
           t == Head(q)
           a == IF verdict = "error" \/ t = Keyless THEN auth ELSE [auth EXCEPT ![t] = verdict]
           pool == [byokClient[r] EXCEPT ![t] = IF verdict = "ok" THEN "open" ELSE "none"]
           l == byokReq[r].lock
           todo == Tail(q)
<1>1. ByokTypeOK /\ ByokCaches /\ ByokChecks
  BY DEF ByokInv
<1>2. /\ byokReq[r].pc = "checking" /\ auth' = a /\ Proceed(r, l, todo, a, pool)
      /\ KeyOf(r) # KeylessKey \/ verdict # "ok" => UNCHANGED cacheVars
      /\ UNCHANGED <<lockOf, held, broken, closing>>
  BY DEF ByokChecked
<1>3. q \in Seq(ByokTokens) /\ l \in ByokReqs \cup {ByokNone} /\ q # <<>> /\ (KeyOf(r) = KeylessKey => q = KeylessKey)
  BY <1>1, <1>2 DEF ByokTypeOK, ByokReqStates, ByokChecks
<1>4. t \in ByokTokens /\ todo \in Seq(ByokTokens)
  BY <1>3
<1>5. KeyOf(r) = KeylessKey => todo = <<>> /\ t = Keyless
  <2>1. ASSUME q = <<Keyless>> PROVE todo = <<>> /\ t = Keyless
    <3>1. Len(q) = 1 /\ t = Keyless
      BY <2>1
    <3>2. Len(todo) = 0
      BY <1>3, <3>1
    <3> HIDE DEF todo, t
    <3>3. todo = <<>>
      BY <1>4, <3>2
    <3>4. QED
      BY <3>1, <3>3
  <2>2. QED
    BY <1>3, <2>1 DEF KeylessKey
<1>6. a \in [ByokTokens -> {"none", "ok", "bad"}] /\ (Keyless \in ByokTokens => a[Keyless] = "none")
  <2>1. auth \in [ByokTokens -> {"none", "ok", "bad"}] /\ (Keyless \in ByokTokens => auth[Keyless] = "none")
    BY <1>1 DEF ByokTypeOK, ByokChecks
  <2>2. CASE verdict = "error" \/ t = Keyless
    BY <2>1, <2>2
  <2>3. CASE ~(verdict = "error" \/ t = Keyless)
    BY <1>4, <2>1, <2>3
  <2>4. QED
    BY <2>2, <2>3
<1>7. verdict = "ok" => pool[t] = "open"
  BY <1>1, <1>4 DEF ByokTypeOK
<1>8. /\ ClosesMore /\ lockOf' \in [Keys -> ByokReqs \cup {ByokNone}] /\ byokReq[r].pc \in Early
      /\ KeyOf(r) = KeylessKey => todo \in {KeylessKey, <<>>}
  BY <1>1, <1>2, <1>5 DEF ByokTypeOK, ClosesMore, Early
<1>9. UNCHANGED cacheVars => Shrinks
  BY <1>1 DEF ByokTypeOK, ByokCaches, Shrinks, cacheVars
<1> HIDE DEF q, t, a, pool, l, todo
<1>10. KeyOf(r) = KeylessKey /\ verdict = "ok" => byokReq'[r].pc = "refreshing"
  <2>1. PICK rest \in Seq(ByokTokens), accounts \in SUBSET ByokTokens : Builds(r, todo, a, pool, rest, accounts)
    BY <1>1, <1>2, <1>3, <1>4, <1>6, ProceedEffect
  <2>2. QED
    BY <1>4, <1>5, <1>7, <2>1 DEF Builds
<1>11. KeyOf(r) # KeylessKey \/ byokReq'[r].pc # "refreshing" => Shrinks
  BY <1>2, <1>9, <1>10
<1>12. /\ auth' \in [ByokTokens -> {"none", "ok", "bad"}] /\ (Keyless \in ByokTokens => a[Keyless] = "none" /\ auth'[Keyless] = "none")
       /\ UNCHANGED <<held, broken>>
  BY <1>2, <1>6
<1>13. QED
  BY <1>2, <1>3, <1>4, <1>6, <1>8, <1>11, <1>12, GoesOn

\* Whoever takes a slot takes it of a pool that is built.
LEMMA UseKeeps ==
  ASSUME NEW pairs, ByokInv(pairs), NEW r \in ByokReqs, NEW t \in ByokTokens, Use(r, t)
  PROVE  ByokInv(pairs)'
<1> DEFINE p == byokReq[r].pool
           e == [byokReq[r] EXCEPT !.pc = "using", !.slot = t]
<1>1. ByokTypeOK /\ ByokHands /\ ByokChecks
  BY DEF ByokInv
<1>2. /\ byokReq[r].pc = "got" /\ held' = [held EXCEPT ![p][t] = TRUE]
      /\ byokReq' = [byokReq EXCEPT ![r].pc = "using", ![r].slot = t]
      /\ UNCHANGED <<cacheVars, keyless, lockOf, byokLock, auth, byokClient, broken, closing>>
  BY DEF Use
<1>3. byokReq \in [ByokReqs -> ByokReqStates] /\ p \in ByokReqs \ EarlyReqs
  BY <1>1, <1>2 DEF ByokTypeOK, ByokHands
<1>4. e \in ByokReqStates /\ e.key = byokReq[r].key /\ e.pc = "using" /\ e.slot = t /\ e.pool = p
  BY <1>3 DEF ByokReqStates
<1>5. byokReq' = [byokReq EXCEPT ![r] = e]
  BY <1>2, <1>3 DEF ByokReqStates
<1> HIDE DEF e
<1>6. Moves(r) /\ byokReq'[r] = e
  BY <1>3, <1>4, <1>5, MovesTo
<1>7. /\ EarlyReqs' \subseteq EarlyReqs
      /\ \A q \in ByokReqs \ {r} : byokReq'[q] = byokReq[q]
      /\ \A q \in ByokReqs : byokReq'[q].key = byokReq[q].key
  BY <1>1, <1>4, <1>6, OthersAnswer DEF Early, Moves
<1>8. held' \in [ByokReqs -> [ByokTokens -> BOOLEAN]] /\ \A o \in ByokReqs, u \in ByokTokens : held'[o][u] => held[o][u] \/ o = p
  BY <1>1, <1>2, <1>3 DEF ByokTypeOK
<1> HIDE DEF p
<1>9. ByokTypeOK'
  BY <1>1, <1>2, <1>6, <1>8 DEF ByokTypeOK, Moves, cacheVars
<1>10. ByokHands'
  <2>1. byokReq'[r].pool \in ByokReqs \ EarlyReqs' /\ byokReq'[r].slot \in ByokTokens
    BY <1>3, <1>4, <1>6, <1>7
  <2>2. \A q \in ByokReqs : byokReq'[q].pc \in {"got", "using"} => byokReq'[q].pool \in ByokReqs \ EarlyReqs'
    BY <1>1, <1>7, <2>1 DEF ByokHands
  <2>3. \A q \in ByokReqs : byokReq'[q].pc = "using" => byokReq'[q].slot \in ByokTokens
    BY <1>1, <1>7, <2>1 DEF ByokHands
  <2>4. \A o \in ByokReqs, u \in ByokTokens : held'[o][u] => o \notin EarlyReqs'
    BY <1>1, <1>3, <1>7, <1>8 DEF ByokHands
  <2>5. QED
    BY <2>2, <2>3, <2>4 DEF ByokHands
<1>11. ByokChecks'
  BY <1>1, <1>2, <1>4, <1>6, <1>7 DEF ByokChecks, KeyOf, KeylessKey
<1>12. ClosesMore
  BY <1>1, <1>2 DEF ByokTypeOK, ClosesMore
<1>13. \A o : \A q \in ByokReqs : Answers(q, o) => Answers(q, o)'
  <2>1. \A o : ~Answers(r, o)
    BY <1>2 DEF Answers
  <2>2. QED
    BY <1>1, <1>6, <2>1, OthersAnswer
<1>14. QED
  BY <1>2, <1>7, <1>9, <1>10, <1>11, <1>12, <1>13, CalmKeeps

\* Whoever leaves gives its slot back.
LEMMA LeaveKeeps ==
  ASSUME NEW pairs, ByokInv(pairs), NEW r \in ByokReqs, ByokLeave(r)
  PROVE  ByokInv(pairs)'
<1> DEFINE p == byokReq[r].pool
           t == byokReq[r].slot
           e == [byokReq[r] EXCEPT !.pc = "over", !.slot = ByokNone]
<1>1. ByokTypeOK /\ ByokHands /\ ByokChecks
  BY DEF ByokInv
<1>2. /\ byokReq[r].pc = "using" /\ held' = [held EXCEPT ![p][t] = FALSE]
      /\ byokReq' = [byokReq EXCEPT ![r].pc = "over", ![r].slot = ByokNone]
      /\ broken' \in {broken, broken \cup {<<p, t>>}}
      /\ UNCHANGED <<cacheVars, keyless, lockOf, byokLock, auth, byokClient, closing>>
  BY DEF ByokLeave
<1>3. byokReq \in [ByokReqs -> ByokReqStates] /\ p \in ByokReqs \ EarlyReqs /\ t \in ByokTokens
  BY <1>1, <1>2 DEF ByokTypeOK, ByokHands
<1>4. e \in ByokReqStates /\ e.key = byokReq[r].key /\ e.pc = "over"
  BY <1>3 DEF ByokReqStates
<1>5. byokReq' = [byokReq EXCEPT ![r] = e]
  BY <1>2, <1>3 DEF ByokReqStates
<1> HIDE DEF e
<1>6. Moves(r) /\ byokReq'[r] = e
  BY <1>3, <1>4, <1>5, MovesTo
<1>7. /\ EarlyReqs' \subseteq EarlyReqs
      /\ \A q \in ByokReqs \ {r} : byokReq'[q] = byokReq[q]
      /\ \A q \in ByokReqs : byokReq'[q].key = byokReq[q].key
  BY <1>1, <1>4, <1>6, OthersAnswer DEF Early, Moves
<1> HIDE DEF p, t
<1>8. /\ held' \in [ByokReqs -> [ByokTokens -> BOOLEAN]] /\ \A o \in ByokReqs, u \in ByokTokens : held'[o][u] => held[o][u]
      /\ broken' \subseteq ByokReqs \X ByokTokens
  BY <1>1, <1>2, <1>3 DEF ByokTypeOK
<1>9. ByokTypeOK'
  BY <1>1, <1>2, <1>6, <1>8 DEF ByokTypeOK, Moves, cacheVars
<1>10. ByokHands'
  BY <1>1, <1>4, <1>6, <1>7, <1>8 DEF ByokHands
<1>11. ByokChecks'
  BY <1>1, <1>2, <1>4, <1>6, <1>7 DEF ByokChecks, KeyOf, KeylessKey
<1>12. ClosesMore
  BY <1>1, <1>2 DEF ByokTypeOK, ClosesMore
<1>13. \A o : \A q \in ByokReqs : Answers(q, o) => Answers(q, o)'
  <2>1. \A o : ~Answers(r, o)
    BY <1>2 DEF Answers
  <2>2. QED
    BY <1>1, <1>6, <2>1, OthersAnswer
<1>14. QED
  BY <1>2, <1>7, <1>9, <1>10, <1>11, <1>12, <1>13, CalmKeeps

\* A verdict is forgotten: who is without one stays so.
LEMMA ForgetKeeps ==
  ASSUME NEW pairs, ByokInv(pairs), NEW t \in ByokTokens, ByokForget(t)
  PROVE  ByokInv(pairs)'
<1>1. ByokTypeOK /\ ByokHands /\ ByokChecks
  BY DEF ByokInv
<1>2. auth' = [auth EXCEPT ![t] = "none"] /\ UNCHANGED <<cacheVars, keyless, lockOf, byokLock, byokReq, accountVars, closing>>
  BY DEF ByokForget
<1>3. byokReq' = byokReq /\ held' = held /\ byokClient' = byokClient /\ closing' = closing /\ broken' = broken
  BY <1>2 DEF accountVars
<1>4. ByokTypeOK' /\ ClosesMore
  BY <1>1, <1>2, <1>3 DEF ByokTypeOK, cacheVars, ClosesMore
<1>5. EarlyReqs' = EarlyReqs /\ \A o : \A q \in ByokReqs : Answers(q, o) => Answers(q, o)'
  BY <1>3 DEF EarlyReqs, Answers, KeyOf, KeylessKey
<1>6. ByokHands' /\ ByokChecks'
  BY <1>1, <1>2, <1>3, <1>5 DEF ByokHands, ByokChecks, ByokTypeOK, KeyOf, KeylessKey
<1>7. QED
  BY <1>2, <1>3, <1>4, <1>5, <1>6, CalmKeeps

\* A step of _close_pool opens nothing.
LEMMA CloseKeeps ==
  ASSUME NEW pairs, ByokInv(pairs), NEW p \in ByokReqs, CloseNext(p)
  PROVE  ByokInv(pairs)'
<1>1. ByokTypeOK /\ ByokHands /\ ByokChecks
  BY DEF ByokInv
<1>2. /\ UNCHANGED <<cacheVars, keyless, lockOf, byokLock, auth, byokReq, held, broken>>
      /\ closing' \in [ByokReqs -> {"no", "asked", "accounts"}] /\ \A q \in ByokReqs : closing[q] # "no" => closing'[q] # "no"
      /\ byokClient' \in [ByokReqs -> [ByokTokens -> {"none", "open", "deferred", "closed", "abandoned"}]]
      /\ \A q \in ByokReqs, u \in ByokTokens : byokClient'[q][u] = "open" => byokClient[q][u] = "open"
  <2>1. CASE StoresReleased(p)
    BY <1>1, <2>1 DEF StoresReleased, ByokTypeOK, accountVars
  <2>2. ASSUME NEW t \in ByokTokens, CloseAccount(p, t) \/ CloseDeferred(p, t) \/ GivesUp(p, t) \/ CloseCancelled(p, t)
        PROVE  /\ UNCHANGED <<cacheVars, keyless, lockOf, byokLock, auth, byokReq, held, broken, closing>>
               /\ \E e \in {"deferred", "closed", "abandoned"} : byokClient' = [byokClient EXCEPT ![p][t] = e]
    BY <2>2 DEF CloseAccount, CloseDeferred, GivesUp, CloseCancelled, ByokEnds
  <2>3. ASSUME NEW t \in ByokTokens, NEW e \in {"deferred", "closed", "abandoned"}, byokClient' = [byokClient EXCEPT ![p][t] = e]
        PROVE  /\ byokClient' \in [ByokReqs -> [ByokTokens -> {"none", "open", "deferred", "closed", "abandoned"}]]
               /\ \A q \in ByokReqs, u \in ByokTokens : byokClient'[q][u] = "open" => byokClient[q][u] = "open"
    <3> DEFINE f == [byokClient[p] EXCEPT ![t] = e]
               C == {"none", "open", "deferred", "closed", "abandoned"}
    <3>1. byokClient \in [ByokReqs -> [ByokTokens -> C]]
      BY <1>1 DEF ByokTypeOK
    <3>2. byokClient' = [byokClient EXCEPT ![p] = f]
      BY <2>3, <3>1
    <3>3. f \in [ByokTokens -> C] /\ \A u \in ByokTokens : f[u] = "open" => byokClient[p][u] = "open"
      BY <2>3, <3>1
    <3> HIDE DEF f, C
    <3>4. byokClient' \in [ByokReqs -> [ByokTokens -> C]] /\ \A q \in ByokReqs : byokClient'[q] = IF q = p THEN f ELSE byokClient[q]
      BY <3>1, <3>2, <3>3
    <3>5. QED
      BY <3>3, <3>4 DEF C
  <2>4. ASSUME NEW t \in ByokTokens, CloseAccount(p, t) \/ CloseDeferred(p, t) \/ GivesUp(p, t) \/ CloseCancelled(p, t)
        PROVE  /\ UNCHANGED <<cacheVars, keyless, lockOf, byokLock, auth, byokReq, held, broken, closing>>
               /\ byokClient' \in [ByokReqs -> [ByokTokens -> {"none", "open", "deferred", "closed", "abandoned"}]]
               /\ \A q \in ByokReqs, u \in ByokTokens : byokClient'[q][u] = "open" => byokClient[q][u] = "open"
    BY <2>2, <2>3, <2>4
  <2>5. closing \in [ByokReqs -> {"no", "asked", "accounts"}]
    BY <1>1 DEF ByokTypeOK
  <2>6. QED
    BY <2>1, <2>4, <2>5 DEF CloseNext
<1>3. ByokTypeOK' /\ ClosesMore
  BY <1>1, <1>2 DEF ByokTypeOK, cacheVars, ClosesMore
<1>4. EarlyReqs' = EarlyReqs /\ \A o : \A q \in ByokReqs : Answers(q, o) => Answers(q, o)'
  BY <1>2 DEF EarlyReqs, Answers, KeyOf, KeylessKey
<1>5. ByokHands' /\ ByokChecks'
  BY <1>1, <1>2, <1>4 DEF ByokHands, ByokChecks, KeyOf, KeylessKey
<1>6. QED
  BY <1>2, <1>3, <1>4, <1>5, CalmKeeps

\* A request that goes on to another step of closing the pool it replaced, or is done with it.
LEMMA KeylessKeeps ==
  ASSUME NEW pairs, ByokInv(pairs), NEW r \in ByokReqs, byokReq[r].pc \in {"refreshing", "releasing", "ending"},
         byokReq[r].pc = "refreshing" => KeyOf(r) = KeylessKey,
         NEW e \in ByokReqStates, e.key = byokReq[r].key, byokReq' = [byokReq EXCEPT ![r] = e],
         \/ e.pc \in {"releasing", "ending"} /\ e.pool = byokReq[r].pool
         \/ /\ e.pc = "got" /\ e.pool = r
            /\ byokReq[r].pool \in ByokReqs => \A t \in ByokTokens : byokClient[byokReq[r].pool][t] # "open",
         byokLock' \in [ByokReqs -> [held : BOOLEAN, queue : Seq(ByokReqs)]],
         UNCHANGED <<cacheVars, keyless, lockOf, auth, accountVars, closing>>
  PROVE  ByokInv(pairs)'
<1>1. ByokTypeOK /\ ByokHands /\ ByokChecks
  BY DEF ByokInv
<1>2. byokReq \in [ByokReqs -> ByokReqStates] /\ UNCHANGED <<held, byokClient, broken>>
  BY <1>1 DEF ByokTypeOK, accountVars
<1>3. Moves(r) /\ byokReq'[r] = e
  BY <1>2, MovesTo
<1>4. /\ EarlyReqs' \subseteq EarlyReqs /\ r \notin EarlyReqs'
      /\ \A q \in ByokReqs \ {r} : byokReq'[q] = byokReq[q]
      /\ \A q \in ByokReqs : byokReq'[q].key = byokReq[q].key
  BY <1>1, <1>3, OthersAnswer DEF Early, Moves, EarlyReqs
<1>5. ClosesMore
  BY <1>1 DEF ByokTypeOK, ClosesMore
<1>6. ByokTypeOK'
  BY <1>1, <1>2, <1>3 DEF ByokTypeOK, Moves, cacheVars
<1>7. ByokHands'
  BY <1>1, <1>2, <1>3, <1>4 DEF ByokHands
<1>8. ByokChecks'
  BY <1>1, <1>3, <1>4 DEF ByokChecks, KeyOf, KeylessKey
<1>9. ASSUME NEW q \in ByokReqs, NEW p \in ByokReqs, NEW t \in ByokTokens, byokClient'[p][t] = "open", Answers(q, p)
      PROVE  Answers(q, p)'
  <2>1. CASE q = r
    <3>1. p = byokReq[r].pool /\ byokClient[p][t] = "open"
      BY <1>2, <1>9, <2>1 DEF Answers
    <3>2. e.pc \in {"releasing", "ending"} /\ e.pool = p
      BY <3>1
    <3>3. KeyOf(r)' = KeylessKey'
      BY <1>4, <1>9, <2>1 DEF Answers, KeyOf, KeylessKey
    <3>4. QED
      BY <1>3, <2>1, <3>2, <3>3 DEF Answers
  <2>2. CASE q # r
    BY <1>1, <1>3, <1>9, <2>2, OthersAnswer
  <2>3. QED
    BY <2>1, <2>2
<1>10. QED
  BY <1>2, <1>4, <1>5, <1>6, <1>7, <1>8, <1>9, CalmKeeps

\* The keyless pool that was replaced stays with the request until its accounts had their turn.
LEMMA BuiltKeylessKeeps ==
  ASSUME NEW pairs, ByokInv(pairs), NEW r \in ByokReqs, BuiltKeyless(r) \/ StaleReleased(r) \/ StaleClosed(r)
  PROVE  ByokInv(pairs)'
<1> DEFINE got == [byokReq[r] EXCEPT !.pc = "got", !.pool = r, !.lock = ByokNone]
           moved(pc) == [byokReq[r] EXCEPT !.pc = pc]
<1>1. ByokTypeOK /\ byokReq \in [ByokReqs -> ByokReqStates] /\ ByokNone \notin ByokReqs
  BY ByokAssumption DEF ByokInv, ByokTypeOK
<1>2. got \in ByokReqStates /\ got.key = byokReq[r].key /\ got.pc = "got" /\ got.pool = r
  BY <1>1 DEF ByokReqStates
<1>3. \A pc \in {"releasing", "ending"} :
        moved(pc) \in ByokReqStates /\ moved(pc).key = byokReq[r].key /\ moved(pc).pc = pc /\ moved(pc).pool = byokReq[r].pool
  BY <1>1 DEF ByokReqStates
<1>4. HandOut(r) => byokReq' = [byokReq EXCEPT ![r] = got] /\ byokLock' \in [ByokReqs -> [held : BOOLEAN, queue : Seq(ByokReqs)]]
  <2>1. HandOut(r) => byokReq' = [byokReq EXCEPT ![r] = got]
    BY <1>1 DEF HandOut, ByokReqStates
  <2>2. HandOut(r) => byokLock' \in [ByokReqs -> [held : BOOLEAN, queue : Seq(ByokReqs)]]
    BY <1>1, LockTyped DEF HandOut
  <2>3. QED
    BY <2>1, <2>2
<1>5. /\ byokReq[r].pc \in {"refreshing", "releasing", "ending"} /\ (byokReq[r].pc = "refreshing" => KeyOf(r) = KeylessKey)
      /\ UNCHANGED <<cacheVars, keyless, lockOf, auth, accountVars, closing>>
      /\ \/ /\ HandOut(r)
            /\ byokReq[r].pool \in ByokReqs => \A t \in ByokTokens : byokClient[byokReq[r].pool][t] # "open"
         \/ \E pc \in {"releasing", "ending"} : byokReq' = [byokReq EXCEPT ![r].pc = pc] /\ byokLock' = byokLock
  BY <1>1 DEF BuiltKeyless, StaleReleased, StaleClosed
<1>6. byokLock \in [ByokReqs -> [held : BOOLEAN, queue : Seq(ByokReqs)]]
  BY <1>1 DEF ByokTypeOK
<1>7. \A pc : byokReq' = [byokReq EXCEPT ![r].pc = pc] => byokReq' = [byokReq EXCEPT ![r] = moved(pc)]
  BY <1>1 DEF ByokReqStates
<1> HIDE DEF got, moved
<1>8. CASE HandOut(r) /\ (byokReq[r].pool \in ByokReqs => \A t \in ByokTokens : byokClient[byokReq[r].pool][t] # "open")
  BY <1>2, <1>4, <1>5, <1>8, KeylessKeeps
<1>9. ASSUME NEW pc \in {"releasing", "ending"}, byokReq' = [byokReq EXCEPT ![r].pc = pc], byokLock' = byokLock
      PROVE  ByokInv(pairs)'
  <2>1. /\ moved(pc) \in ByokReqStates /\ moved(pc).key = byokReq[r].key /\ moved(pc).pc \in {"releasing", "ending"}
        /\ moved(pc).pool = byokReq[r].pool /\ byokReq' = [byokReq EXCEPT ![r] = moved(pc)]
        /\ byokLock' \in [ByokReqs -> [held : BOOLEAN, queue : Seq(ByokReqs)]]
    BY <1>3, <1>6, <1>7, <1>9
  <2>2. QED
    BY <1>5, <2>1, KeylessKeeps
<1>10. QED
  BY <1>5, <1>8, <1>9

\* Who is cancelled leaves no client open that only it would answer for, but for those it has built or replaced.
LEMMA CancelledKeeps ==
  ASSUME NEW pairs, ByokInv(pairs), NEW r \in ByokReqs, ByokCancelled(r),
         \A p \in ByokReqs, t \in ByokTokens : <<p, t>> \in pairs => byokReq[r].pc = "checking" \/ ~Answers(r, p)
  PROVE  ByokInv(pairs)'
<1> DEFINE e == [byokReq[r] EXCEPT !.pc = "over", !.lock = ByokNone, !.pool = ByokNone, !.todo = <<>>]
<1>1. ByokTypeOK /\ ByokHands /\ ByokChecks
  BY DEF ByokInv
<1>2. /\ byokReq[r].pc \in {"queued", "checking", "refreshing", "releasing", "ending"}
      /\ byokReq' = [byokReq EXCEPT ![r].pc = "over", ![r].lock = ByokNone, ![r].pool = ByokNone, ![r].todo = <<>>]
      /\ byokLock' = IF byokReq[r].pc = "queued" THEN [byokLock EXCEPT ![byokReq[r].lock].queue = ByokWithout(@, {r})]
                     ELSE Released(byokReq[r].lock, r)
      /\ byokReq[r].pc = "checking" =>
           byokClient' = [byokClient EXCEPT ![r] = [t \in ByokTokens |-> IF @[t] = "open" THEN "closed" ELSE @[t]]]
      /\ byokReq[r].pc # "checking" => byokClient' = byokClient
      /\ UNCHANGED <<cacheVars, keyless, lockOf, auth, held, broken, closing>>
  BY DEF ByokCancelled
<1>3. byokReq \in [ByokReqs -> ByokReqStates]
  BY <1>1 DEF ByokTypeOK
<1>4. e \in ByokReqStates /\ e.key = byokReq[r].key /\ e.pc = "over"
  <2>1. <<>> \in Seq(ByokTokens)
    OBVIOUS
  <2>2. QED
    BY <1>3, <2>1 DEF ByokReqStates
<1>5. byokReq' = [byokReq EXCEPT ![r] = e]
  BY <1>2, <1>3 DEF ByokReqStates
<1> HIDE DEF e
<1>6. Moves(r) /\ byokReq'[r] = e
  BY <1>3, <1>4, <1>5, MovesTo
<1>7. /\ EarlyReqs' \subseteq EarlyReqs
      /\ \A q \in ByokReqs \ {r} : byokReq'[q] = byokReq[q]
      /\ \A q \in ByokReqs : byokReq'[q].key = byokReq[q].key
  BY <1>1, <1>4, <1>6, OthersAnswer DEF Early, Moves
<1>8. byokClient \in [ByokReqs -> [ByokTokens -> {"none", "open", "deferred", "closed", "abandoned"}]]
  BY <1>1 DEF ByokTypeOK
<1>9. /\ byokClient' \in [ByokReqs -> [ByokTokens -> {"none", "open", "deferred", "closed", "abandoned"}]]
      /\ \A p \in ByokReqs, t \in ByokTokens : byokClient'[p][t] = "open" =>
           byokClient[p][t] = "open" /\ (byokReq[r].pc = "checking" => p # r)
  <2>1. CASE byokReq[r].pc = "checking"
    <3> DEFINE C == {"none", "open", "deferred", "closed", "abandoned"}
               f == [t \in ByokTokens |-> IF byokClient[r][t] = "open" THEN "closed" ELSE byokClient[r][t]]
    <3>1. byokClient' = [byokClient EXCEPT ![r] = f]
      BY <1>2, <1>8, <2>1
    <3>2. f \in [ByokTokens -> C] /\ \A t \in ByokTokens : f[t] # "open"
      BY <1>8
    <3> HIDE DEF f, C
    <3>3. byokClient' \in [ByokReqs -> [ByokTokens -> C]] /\ \A q \in ByokReqs : byokClient'[q] = IF q = r THEN f ELSE byokClient[q]
      BY <1>8, <3>1, <3>2 DEF C
    <3>4. QED
      BY <2>1, <3>2, <3>3 DEF C
  <2>2. CASE byokReq[r].pc # "checking"
    BY <1>2, <1>8, <2>2
  <2>3. QED
    BY <2>1, <2>2
<1>10. ByokTypeOK'
  <2>1. byokLock' \in [ByokReqs -> [held : BOOLEAN, queue : Seq(ByokReqs)]]
    BY <1>1, <1>2, LockTyped, QueueTyped
  <2>2. QED
    BY <1>1, <1>2, <1>6, <1>9, <2>1 DEF ByokTypeOK, Moves, cacheVars
<1>11. ByokHands' /\ ClosesMore
  BY <1>1, <1>2, <1>4, <1>6, <1>7 DEF ByokHands, ByokTypeOK, ClosesMore
<1>12. ByokChecks'
  BY <1>1, <1>2, <1>4, <1>6, <1>7 DEF ByokChecks, KeyOf, KeylessKey
<1>13. ASSUME NEW q \in ByokReqs, NEW p \in ByokReqs, NEW t \in ByokTokens, <<p, t>> \in pairs, byokClient'[p][t] = "open", Answers(q, p)
       PROVE  Answers(q, p)'
  <2>1. q # r
    BY <1>9, <1>13 DEF Answers
  <2>2. QED
    BY <1>1, <1>6, <1>13, <2>1, OthersAnswer
<1>14. QED
  BY <1>2, <1>7, <1>9, <1>10, <1>11, <1>12, <1>13, CalmKeeps

\* After both limits were applied the cache holds nothing new, and is within its limit unless
\* all but the new pool are in use.
LEMMA AfterBuildElements ==
  ASSUME NEW c \in Seq(ByokReqs), NEW t \in Seq(ByokReqs), IsInjective(c), IsInjective(t), Range(c) = Range(t),
         NEW r, NEW d, d = AfterBuild(c, t, r)
  PROVE  /\ d \in Seq(ByokReqs) /\ IsInjective(d) /\ Range(d) \subseteq Range(c)
         /\ Len(d) <= ByokLimit \/ \A p \in Range(d) \ {r} : Busy(p)
<1> DEFINE x == Rotated(c, 0)
           y == ByokWithout(t, ByokStale(c, 0))
           V == Victims(y, {r}, 0)
<1>1. 0 \in Nat
  OBVIOUS
<1>2. x \in Seq(ByokReqs) /\ Range(x) = Range(c) \ ByokStale(c, 0) /\ IsInjective(x)
  BY <1>1, RotatedElements
<1>3. y \in Seq(ByokReqs) /\ Range(y) = Range(t) \ ByokStale(c, 0) /\ IsInjective(y)
  BY WithoutElements
<1>4. d = ByokWithout(x, V)
  BY DEF AfterBuild
<1> HIDE DEF x, y
<1>5. Len(d) <= ByokLimit \/ \A p \in Range(d) \ {r} : Busy(p)
  BY <1>2, <1>3, <1>4, TrimmedByVictims
<1> HIDE DEF V
<1>6. d \in Seq(ByokReqs) /\ Range(d) = Range(x) \ V /\ IsInjective(d)
  <2> DEFINE w == ByokWithout(x, V)
  <2>1. w \in Seq(ByokReqs) /\ Range(w) = Range(x) \ V /\ (IsInjective(x) => IsInjective(w))
    BY <1>2, WithoutElements
  <2>2. d = w
    BY <1>4
  <2> HIDE DEF w
  <2>3. QED
    BY <1>2, <2>1, <2>2
<1>7. QED
  BY <1>2, <1>5, <1>6

\* The pool that was built is live, what it replaced and what was evicted is to be closed.
LEMMA BuiltEffect ==
  ASSUME ByokTypeOK, ByokCaches, NEW r \in ByokReqs, Built(r)
  PROVE  /\ byokCache' \in Seq(ByokReqs) /\ touched' \in Seq(ByokReqs) /\ IsInjective(byokCache') /\ IsInjective(touched')
         /\ Range(touched') = Range(byokCache') /\ Range(byokCache') \subseteq Range(byokCache) \cup {r}
         /\ ClosesMore
         /\ \A p \in Range(byokCache) \cup {r} : p \in Range(byokCache') \/ closing'[p] # "no"
         /\ Len(byokCache') <= ByokLimit \/ \A p \in Range(byokCache') \ {r} : Busy(p)
<1> DEFINE g == At(KeyOf(r))
           c == Append(ByokWithout(byokCache, g), r)
           t == Append(ByokWithout(touched, g), r)
           gone == StalePools(r) \cup (Range(c) \ Range(byokCache'))
<1>1. byokCache \in Seq(ByokReqs) /\ touched \in Seq(ByokReqs) /\ Range(byokCache) \subseteq ByokReqs
  BY SeqElements DEF ByokTypeOK
<1>2. KeyOf(r) # KeylessKey /\ byokCache' = AfterBuild(c, t, r) /\ touched' = Only(t, Range(byokCache')) /\ CloseLater(gone)
  BY DEF Built
<1>3. g \subseteq Range(byokCache) /\ (r \in Range(byokCache) => r \in g)
  BY <1>2 DEF At
<1>4. gone = (g \ {r}) \cup (Range(c) \ Range(byokCache'))
  BY DEF StalePools
<1> HIDE DEF g, gone
<1>5. /\ c \in Seq(ByokReqs) /\ (IsInjective(byokCache) => IsInjective(c))
      /\ \A x : x \in Range(c) <=> x \in (Range(byokCache) \ g) \cup {r}
  BY <1>1, <1>3, MovedElements
<1>6. /\ t \in Seq(ByokReqs) /\ (IsInjective(touched) => IsInjective(t))
      /\ \A x : x \in Range(t) <=> x \in (Range(touched) \ g) \cup {r}
  BY <1>1, <1>3, MovedElements DEF ByokCaches
<1> HIDE DEF c, t
<1>7. IsInjective(c) /\ IsInjective(t) /\ Range(c) = Range(t)
  BY <1>5, <1>6 DEF ByokCaches
<1>8. /\ byokCache' \in Seq(ByokReqs) /\ IsInjective(byokCache') /\ Range(byokCache') \subseteq Range(c)
      /\ Len(byokCache') <= ByokLimit \/ \A p \in Range(byokCache') \ {r} : Busy(p)
  <2> DEFINE d == AfterBuild(c, t, r)
  <2>1. byokCache' = d
    BY <1>2
  <2>2. /\ d \in Seq(ByokReqs) /\ IsInjective(d) /\ Range(d) \subseteq Range(c)
        /\ Len(d) <= ByokLimit \/ \A p \in Range(d) \ {r} : Busy(p)
    BY <1>5, <1>6, <1>7, AfterBuildElements
  <2> HIDE DEF d
  <2>3. QED
    BY <2>1, <2>2
<1>9. touched' \in Seq(ByokReqs) /\ IsInjective(touched') /\ Range(touched') = Range(byokCache')
  <2> DEFINE K == Range(byokCache')
             w == Only(t, K)
  <2>1. touched' = w /\ K \subseteq Range(t)
    BY <1>2, <1>7, <1>8
  <2>2. K = Range(byokCache')
    OBVIOUS
  <2> HIDE DEF K
  <2>3. w \in Seq(ByokReqs) /\ Range(w) = Range(t) \cap K /\ (IsInjective(t) => IsInjective(w))
    BY <1>6, OnlyElements
  <2> HIDE DEF w
  <2>4. QED
    BY <1>7, <2>1, <2>2, <2>3
<1>10. ClosesMore /\ \A p \in ByokReqs \cap gone : closing'[p] # "no"
  BY <1>2, ClosesLater
<1>11. ASSUME NEW p \in Range(byokCache) \cup {r}, p \notin Range(byokCache') PROVE closing'[p] # "no"
  <2>1. p \in gone /\ p \in ByokReqs
    BY <1>1, <1>4, <1>5, <1>11
  <2>2. QED
    BY <1>10, <2>1
<1>12. QED
  BY <1>5, <1>8, <1>9, <1>10, <1>11

\* A pool that is built is handed out, and what it replaced is accounted for.
LEMMA BuiltKeeps ==
  ASSUME NEW pairs, ByokInv(pairs), NEW r \in ByokReqs, Built(r)
  PROVE  ByokInv(pairs)'
<1> DEFINE e == [byokReq[r] EXCEPT !.pc = "got", !.pool = r, !.lock = ByokNone]
<1>1. ByokTypeOK /\ ByokCaches /\ ByokHands /\ ByokChecks /\ ByokAnswers(pairs)
  BY DEF ByokInv
<1>2. /\ byokReq[r].pc = "refreshing" /\ KeyOf(r) # KeylessKey
      /\ byokReq' = [byokReq EXCEPT ![r].pc = "got", ![r].pool = r, ![r].lock = ByokNone]
      /\ byokLock' = Released(byokReq[r].lock, r)
      /\ UNCHANGED <<keyless, lockOf, auth, byokClient, held, broken>>
  BY DEF Built, HandOut, accountVars
<1>3. byokReq \in [ByokReqs -> ByokReqStates]
  BY <1>1 DEF ByokTypeOK
<1>4. e \in ByokReqStates /\ e.key = byokReq[r].key /\ e.pc = "got" /\ e.pool = r
  BY <1>3 DEF ByokReqStates
<1>5. byokReq' = [byokReq EXCEPT ![r] = e]
  BY <1>2, <1>3 DEF ByokReqStates
<1> HIDE DEF e
<1>6. Moves(r) /\ byokReq'[r] = e
  BY <1>3, <1>4, <1>5, MovesTo
<1>7. /\ EarlyReqs' \subseteq EarlyReqs /\ r \notin EarlyReqs'
      /\ \A q \in ByokReqs \ {r} : byokReq'[q] = byokReq[q]
      /\ \A q \in ByokReqs : byokReq'[q].key = byokReq[q].key
  BY <1>1, <1>4, <1>6, OthersAnswer DEF Early, Moves, EarlyReqs
<1>8. /\ byokCache' \in Seq(ByokReqs) /\ touched' \in Seq(ByokReqs) /\ IsInjective(byokCache') /\ IsInjective(touched')
      /\ Range(touched') = Range(byokCache') /\ Range(byokCache') \subseteq Range(byokCache) \cup {r}
      /\ ClosesMore
      /\ \A p \in Range(byokCache) \cup {r} : p \in Range(byokCache') \/ closing'[p] # "no"
  BY <1>1, BuiltEffect
<1>9. Live' \subseteq Live \cup {r} /\ \A p \in Live \cup {r} : p \in Live' \/ closing'[p] # "no"
  BY <1>2, <1>8 DEF Live
<1>10. ByokTypeOK'
  <2>1. byokLock' \in [ByokReqs -> [held : BOOLEAN, queue : Seq(ByokReqs)]]
    BY <1>1, <1>2, LockTyped
  <2>2. QED
    BY <1>1, <1>2, <1>6, <1>8, <2>1 DEF ByokTypeOK, Moves, ClosesMore
<1>11. ByokCaches'
  BY <1>1, <1>7, <1>8, <1>9 DEF ByokCaches
<1>12. ByokHands'
  BY <1>1, <1>2, <1>4, <1>6, <1>7 DEF ByokHands
<1>13. ByokChecks'
  BY <1>1, <1>2, <1>4, <1>6, <1>7 DEF ByokChecks, KeyOf, KeylessKey
<1>14. ASSUME NEW p \in ByokReqs, NEW q \in ByokReqs, Answers(q, p)
       PROVE  p \in Live' \/ closing'[p] # "no" \/ Answers(q, p)'
  <2>1. CASE q = r
    BY <1>2, <1>9, <1>14, <2>1 DEF Answers
  <2>2. CASE q # r
    BY <1>1, <1>6, <1>14, <2>2, OthersAnswer
  <2>3. QED
    BY <2>1, <2>2
<1>15. ByokAnswers(pairs)'
  <2>1. ASSUME NEW p \in ByokReqs, NEW t \in ByokTokens, <<p, t>> \in pairs, byokClient[p][t] = "open"
        PROVE  p \in Live' \/ closing'[p] # "no" \/ \E q \in ByokReqs : Answers(q, p)'
    BY <1>1, <1>8, <1>9, <1>14, <2>1 DEF ByokAnswers, ClosesMore
  <2>2. QED
    BY <1>2, <2>1 DEF ByokAnswers
<1>16. QED
  BY <1>10, <1>11, <1>12, <1>13, <1>15 DEF ByokInv

-------------------------------------------------------------------------------
\* At first there is no pool, and every request is still to come.
LEMMA ByokInitially == ByokInit => ByokInv({})
<1> SUFFICES ASSUME ByokInit PROVE ByokInv({})
  OBVIOUS
<1>1. PICK key \in Wants :
        byokReq = [r \in ByokReqs |-> [pc |-> "new", key |-> key[r], lock |-> ByokNone, pool |-> ByokNone, todo |-> <<>>, slot |-> ByokNone]]
  BY DEF ByokInit
<1>2. key \in [ByokReqs -> Keys] /\ <<>> \in Seq(ByokTokens) /\ <<>> \in Seq(ByokReqs)
  BY ByokAssumption
<1>3. byokReq \in [ByokReqs -> ByokReqStates] /\ \A r \in ByokReqs : byokReq[r].pc = "new"
  BY <1>1, <1>2 DEF ByokReqStates
<1>4. /\ byokCache = <<>> /\ touched = <<>> /\ keyless = ByokNone
      /\ lockOf = [k \in Keys |-> ByokNone]
      /\ byokLock = [l \in ByokReqs |-> [held |-> FALSE, queue |-> <<>>]]
      /\ auth = [t \in ByokTokens |-> "none"]
      /\ byokClient = [p \in ByokReqs |-> [t \in ByokTokens |-> "none"]]
      /\ held = [p \in ByokReqs |-> [t \in ByokTokens |-> FALSE]]
      /\ broken = {} /\ closing = [p \in ByokReqs |-> "no"]
  BY DEF ByokInit
<1>5. ByokTypeOK
  BY <1>2, <1>3, <1>4 DEF ByokTypeOK
<1>6. ByokCaches
  <2>1. Range(byokCache) = {} /\ IsInjective(byokCache) /\ byokCache = touched
    BY <1>4 DEF Range, IsInjective
  <2>2. QED
    BY <1>4, <2>1 DEF ByokCaches, Live
<1>7. ByokHands /\ ByokChecks /\ ByokAnswers({})
  BY <1>3, <1>4 DEF ByokHands, ByokChecks, ByokAnswers
<1>8. QED
  BY <1>5, <1>6, <1>7 DEF ByokInv

\* Every step keeps the invariant, and answers for the clients it answered for, unless it is
\* the cancellation of a request that answers for them after they were built.
LEMMA ByokKeeps ==
  ASSUME NEW pairs, ByokInv(pairs), [ByokNext]_byokVars,
         \A r \in ByokReqs, p \in ByokReqs, t \in ByokTokens :
           <<p, t>> \in pairs /\ ByokCancelled(r) => byokReq[r].pc = "checking" \/ ~Answers(r, p)
  PROVE  ByokInv(pairs)'
<1>1. CASE UNCHANGED byokVars
  <2>1. /\ byokCache' = byokCache /\ touched' = touched /\ keyless' = keyless /\ lockOf' = lockOf /\ byokLock' = byokLock
        /\ auth' = auth /\ byokReq' = byokReq /\ byokClient' = byokClient /\ held' = held /\ broken' = broken /\ closing' = closing
    BY <1>1 DEF byokVars
  <2>2. ByokTypeOK' /\ ByokHands' /\ ByokChecks' /\ ClosesMore
    BY <2>1 DEF ByokInv, ByokTypeOK, ByokHands, ByokChecks, EarlyReqs, KeyOf, KeylessKey, ClosesMore
  <2>3. EarlyReqs' \subseteq EarlyReqs /\ \A o : \A q \in ByokReqs : Answers(q, o) => Answers(q, o)'
    BY <2>1 DEF EarlyReqs, Answers, KeyOf, KeylessKey
  <2>4. QED
    BY <2>1, <2>2, <2>3, CalmKeeps DEF cacheVars
<1>2. ASSUME NEW r \in ByokReqs, ByokReqNext(r) PROVE ByokInv(pairs)'
  <2>1. CASE ByokArrive(r)
    BY <2>1, ArriveKeeps
  <2>2. CASE TakeLock(r)
    BY <2>2, TakeLockKeeps
  <2>3. CASE Built(r)
    BY <2>3, BuiltKeeps
  <2>4. CASE BuiltKeyless(r) \/ StaleReleased(r) \/ StaleClosed(r)
    BY <2>4, BuiltKeylessKeeps
  <2>5. CASE ByokCancelled(r)
    BY <2>5, CancelledKeeps
  <2>6. CASE ByokLeave(r)
    BY <2>6, LeaveKeeps
  <2>7. CASE \E verdict \in {"ok", "bad", "error"} : ByokChecked(r, verdict)
    BY <2>7, CheckedKeeps
  <2>8. CASE \E t \in ByokTokens : Use(r, t)
    BY <2>8, UseKeeps
  <2>9. QED
    BY <1>2, <2>1, <2>2, <2>3, <2>4, <2>5, <2>6, <2>7, <2>8 DEF ByokReqNext
<1>3. ASSUME NEW p \in ByokReqs, CloseNext(p) PROVE ByokInv(pairs)'
  BY <1>3, CloseKeeps
<1>4. ASSUME NEW t \in ByokTokens, ByokForget(t) PROVE ByokInv(pairs)'
  BY <1>4, ForgetKeeps
<1>5. QED
  BY <1>1, <1>2, <1>3, <1>4 DEF ByokNext

\* Every step keeps what is known without an answer for any client.
LEMMA ByokStep == ByokInv({}) /\ [ByokNext]_byokVars => ByokInv({})'
<1> SUFFICES ASSUME ByokInv({}), [ByokNext]_byokVars PROVE ByokInv({})'
  OBVIOUS
<1> DEFINE none == {}
<1>1. ByokInv(none) /\ \A p, t : <<p, t>> \notin none
  OBVIOUS
<1> HIDE DEF none
<1>2. ByokInv(none)'
  BY <1>1, ByokKeeps
<1>3. QED
  BY <1>2 DEF none

\* The invariant holds of every behaviour of the pools that requests bring the keys for.
THEOREM ByokInvariance == ByokSpec => []ByokInv({})
<1>1. QED
  BY ByokInitially, ByokStep, PTL DEF ByokSpec

\* The cache of pools, the locks, the verdicts and the clients keep their types.
THEOREM ByokTypeCorrect == ByokSpec => []ByokTypeOK
<1>1. ByokInv({}) => ByokTypeOK
  BY DEF ByokInv
<1>2. QED
  BY <1>1, ByokInvariance, PTL

\* A request's step moves that request alone.
LEMMA OneMoves ==
  ASSUME ByokTypeOK, NEW q \in ByokReqs, ByokReqNext(q)
  PROVE  \A s \in ByokReqs \ {q} : byokReq'[s] = byokReq[s]
<1> SUFFICES ASSUME NEW s \in ByokReqs \ {q} PROVE byokReq'[s] = byokReq[s]
  OBVIOUS
<1>1. byokReq \in [ByokReqs -> ByokReqStates]
  BY DEF ByokTypeOK
<1>2. ASSUME NEW l, NEW todo, NEW a, NEW pool, Proceed(q, l, todo, a, pool) PROVE byokReq'[s] = byokReq[s]
  BY <1>1, <1>2 DEF Proceed
<1>3. ASSUME NEW l, NEW c, NEW d, NEW gone, ByokEnter(q, l, c, d, gone) PROVE byokReq'[s] = byokReq[s]
  <2>1. \/ Proceed(q, l, KeyOf(q), auth, byokClient[q])
        \/ byokReq' = [byokReq EXCEPT ![q].pc = "over", ![q].lock = ByokNone]
        \/ \E p : byokReq' = [byokReq EXCEPT ![q].pc = "got", ![q].lock = ByokNone, ![q].pool = p]
    BY <1>3 DEF ByokEnter
  <2>2. QED
    BY <1>1, <1>2, <2>1
<1>4. ASSUME ByokArrive(q) PROVE byokReq'[s] = byokReq[s]
  <2>1. \/ \E l, c, d, gone : ByokEnter(q, l, c, d, gone)
        \/ \E p : byokReq' = [byokReq EXCEPT ![q].pc = "got", ![q].pool = p]
        \/ \E l : byokReq' = [byokReq EXCEPT ![q].pc = "queued", ![q].lock = l]
    BY <1>4 DEF ByokArrive
  <2>2. QED
    BY <1>1, <1>3, <2>1
<1>5. ASSUME TakeLock(q) PROVE byokReq'[s] = byokReq[s]
  BY <1>3, <1>5 DEF TakeLock
<1>6. ASSUME NEW verdict, ByokChecked(q, verdict) PROVE byokReq'[s] = byokReq[s]
  BY <1>2, <1>6 DEF ByokChecked
<1>7. ASSUME Built(q) \/ BuiltKeyless(q) \/ StaleReleased(q) \/ StaleClosed(q) \/ ByokCancelled(q) \/ ByokLeave(q) PROVE byokReq'[s] = byokReq[s]
  BY <1>1, <1>7 DEF Built, BuiltKeyless, StaleReleased, StaleClosed, HandOut, ByokCancelled, ByokLeave
<1>8. ASSUME NEW t, Use(q, t) PROVE byokReq'[s] = byokReq[s]
  BY <1>1, <1>8 DEF Use
<1>9. QED
  BY <1>4, <1>5, <1>6, <1>7, <1>8 DEF ByokReqNext

\* A step that ends a build leaves the cache within its limit, or every other pool in use.
LEMMA BuildTrims ==
  ByokInv({}) /\ [ByokNext]_byokVars =>
    \A r \in ByokReqs : byokReq[r].pc = "refreshing" /\ byokReq'[r].pc = "got" /\ KeyOf(r) # KeylessKey =>
      Len(byokCache') <= ByokLimit \/ \A p \in Range(byokCache') \ {r} : Busy(p)
<1> SUFFICES ASSUME ByokInv({}), [ByokNext]_byokVars, NEW r \in ByokReqs,
                    byokReq[r].pc = "refreshing", byokReq'[r].pc = "got", KeyOf(r) # KeylessKey
             PROVE  Len(byokCache') <= ByokLimit \/ \A p \in Range(byokCache') \ {r} : Busy(p)
  OBVIOUS
<1>1. ByokTypeOK /\ ByokCaches /\ byokReq \in [ByokReqs -> ByokReqStates] /\ byokReq' # byokReq
  BY DEF ByokInv, ByokTypeOK
<1>2. PICK q \in ByokReqs : ByokReqNext(q)
  BY <1>1 DEF ByokNext, byokVars, CloseNext, StoresReleased, CloseAccount, CloseDeferred, GivesUp, CloseCancelled, ByokForget
<1>3. q = r
  BY <1>1, <1>2, OneMoves
<1>4. ~ByokCancelled(r)
  <2>1. ASSUME ByokCancelled(r) PROVE FALSE
    <3>1. byokReq' = [byokReq EXCEPT ![r].pc = "over", ![r].lock = ByokNone, ![r].pool = ByokNone, ![r].todo = <<>>]
      BY <2>1 DEF ByokCancelled
    <3>2. byokReq'[r].pc = "over"
      BY <1>1, <3>1 DEF ByokReqStates
    <3>3. QED
      BY <3>2
  <2>2. QED
    BY <2>1
<1>5. Built(r)
  BY <1>2, <1>3, <1>4 DEF ByokReqNext, ByokArrive, TakeLock, BuiltKeyless, StaleReleased, StaleClosed, HandOut, ByokChecked, Use, ByokLeave
<1>6. QED
  BY <1>1, <1>5, BuiltEffect

\* A build leaves more pools than the limit only if all the others are in use.
THEOREM BuildsTrimmed == ByokSpec => TrimmedAfterBuild
<1>1. QED
  BY BuildTrims, ByokInvariance, PTL DEF ByokSpec, TrimmedAfterBuild

\* A client is given up only by its deferred close, and closed under the request that holds
\* its slot only when that close is cancelled.
LEMMA ClientSteps ==
  ASSUME ByokInv({}), [ByokNext]_byokVars, NEW p \in ByokReqs, NEW t \in ByokTokens
  PROVE  /\ byokClient'[p][t] = "abandoned" => byokClient[p][t] = "abandoned" \/ GivesUp(p, t)
         /\ held[p][t] /\ byokClient[p][t] # "closed" /\ byokClient'[p][t] = "closed" => CloseCancelled(p, t)
<1> DEFINE good == /\ byokClient'[p][t] = "abandoned" => byokClient[p][t] = "abandoned"
                   /\ held[p][t] /\ byokClient[p][t] # "closed" => byokClient'[p][t] # "closed"
<1>1. /\ byokClient \in [ByokReqs -> [ByokTokens -> {"none", "open", "deferred", "closed", "abandoned"}]]
      /\ held[p][t] => p \notin EarlyReqs
  BY DEF ByokInv, ByokTypeOK, ByokHands
<1>2. CASE byokClient' = byokClient
  BY <1>2
<1>3. ASSUME NEW r \in ByokReqs, NEW l, NEW todo, NEW a, NEW pool, Proceed(r, l, todo, a, pool)
      PROVE  good
  <2> DEFINE accounts == {u \in ByokTokens : pool[u] = "open"} \cup {u \in Range(Known(todo, a)) : a[u] = "ok"}
             f == [u \in ByokTokens |-> IF u \in accounts THEN "open" ELSE "none"]
  <2>1. byokClient' = [byokClient EXCEPT ![r] = f]
    BY <1>3 DEF Proceed
  <2>2. f[t] \in {"open", "none"}
    OBVIOUS
  <2> HIDE DEF f
  <2>3. QED
    BY <1>1, <2>1, <2>2
<1>4. ASSUME NEW r \in ByokReqs, NEW l, NEW c, NEW d, NEW gone, ByokEnter(r, l, c, d, gone)
      PROVE  byokClient' = byokClient \/ Proceed(r, l, KeyOf(r), auth, byokClient[r])
  BY <1>4 DEF ByokEnter
<1>5. ASSUME NEW r \in ByokReqs, ByokCancelled(r) PROVE good
  <2>1. CASE byokReq[r].pc = "checking"
    <3>1. held[p][t] => r # p
      BY <1>1, <2>1 DEF EarlyReqs, Early
    <3> DEFINE f == [u \in ByokTokens |-> IF byokClient[r][u] = "open" THEN "closed" ELSE byokClient[r][u]]
    <3>2. byokClient' = [byokClient EXCEPT ![r] = f]
      BY <1>1, <1>5, <2>1 DEF ByokCancelled
    <3>3. f[t] = "abandoned" => byokClient[r][t] = "abandoned"
      OBVIOUS
    <3> HIDE DEF f
    <3>4. byokClient'[p] = IF p = r THEN f ELSE byokClient[p]
      BY <1>1, <3>2
    <3>5. QED
      BY <3>1, <3>3, <3>4
  <2>2. CASE byokReq[r].pc # "checking"
    BY <1>2, <1>5, <2>2 DEF ByokCancelled
  <2>3. QED
    BY <2>1, <2>2
<1>6. ASSUME NEW q \in ByokReqs, NEW u \in ByokTokens, CloseAccount(q, u) \/ CloseDeferred(q, u) PROVE good
  <2> DEFINE e == IF CloseAccount(q, u) THEN ByokEnds(q, u) ELSE "closed"
  <2>1. byokClient' = [byokClient EXCEPT ![q][u] = e]
    BY <1>6 DEF CloseAccount, CloseDeferred
  <2>2. p = q /\ t = u => e # "abandoned" /\ (held[p][t] => e # "closed")
    BY <1>6 DEF ByokEnds, CloseDeferred
  <2> HIDE DEF e
  <2>3. p = q /\ t = u => byokClient'[p][t] = e
    BY <1>1, <2>1
  <2>4. p # q \/ t # u => byokClient'[p][t] = byokClient[p][t]
    BY <1>1, <2>1
  <2>5. QED
    BY <2>2, <2>3, <2>4
<1>7. ASSUME NEW q \in ByokReqs, NEW u \in ByokTokens, p # q \/ t # u, GivesUp(q, u) \/ CloseCancelled(q, u)
      PROVE  byokClient'[p][t] = byokClient[p][t]
  <2>1. \E e \in {"abandoned", "closed"} : byokClient' = [byokClient EXCEPT ![q][u] = e]
    BY <1>7 DEF GivesUp, CloseCancelled
  <2>2. QED
    BY <1>1, <1>7, <2>1
<1>8. GivesUp(p, t) => byokClient'[p][t] = "abandoned"
  BY <1>1 DEF GivesUp
<1>9. CloseCancelled(p, t) => byokClient'[p][t] = "closed"
  BY <1>1 DEF CloseCancelled
<1>10. ASSUME NEW r \in ByokReqs, ByokArrive(r) PROVE good
  <2>1. byokClient' = byokClient \/ \E l, c, d, gone : ByokEnter(r, l, c, d, gone)
    BY <1>10 DEF ByokArrive
  <2>2. QED
    BY <1>2, <1>3, <1>4, <2>1
<1>11. ASSUME NEW r \in ByokReqs, TakeLock(r) PROVE good
  BY <1>2, <1>3, <1>4, <1>11 DEF TakeLock
<1>12. ASSUME NEW r \in ByokReqs, NEW verdict, ByokChecked(r, verdict) PROVE good
  BY <1>3, <1>12 DEF ByokChecked
<1>13. ASSUME NEW r \in ByokReqs, NEW u, \/ Built(r) \/ BuiltKeyless(r) \/ StaleReleased(r) \/ StaleClosed(r)
                                       \/ ByokLeave(r) \/ Use(r, u) \/ StoresReleased(r)
       PROVE  byokClient' = byokClient
  BY <1>13 DEF Built, BuiltKeyless, StaleReleased, StaleClosed, ByokLeave, Use, StoresReleased, accountVars
<1>14. ASSUME NEW u, ByokForget(u) PROVE byokClient' = byokClient
  BY <1>14 DEF ByokForget, accountVars
<1>15. UNCHANGED byokVars => byokClient' = byokClient
  BY DEF byokVars
<1>16. \/ byokClient' = byokClient \/ good \/ GivesUp(p, t) \/ CloseCancelled(p, t)
       \/ byokClient'[p][t] = byokClient[p][t]
  <2> HIDE DEF good
  <2>1. QED
    BY <1>5, <1>6, <1>7, <1>10, <1>11, <1>12, <1>13, <1>14, <1>15 DEF ByokNext, ByokReqNext, CloseNext
<1>17. QED
  BY <1>2, <1>8, <1>9, <1>16

\* What somebody answers for stays so, but for the two leaks.
LEMMA StaysAnswering ==
  ByokInv({}) /\ [ByokNext]_byokVars =>
    \A p \in ByokReqs, t \in ByokTokens :
      Answering(p, t) =>
        \/ Answering(p, t)' \/ GivesUp(p, t)
        \/ \E r \in ByokReqs : Answers(r, p) /\ byokReq[r].pc # "checking" /\ ByokCancelled(r)
<1> SUFFICES ASSUME ByokInv({}), [ByokNext]_byokVars, NEW p \in ByokReqs, NEW t \in ByokTokens, Answering(p, t), ~GivesUp(p, t),
                    ~\E r \in ByokReqs : Answers(r, p) /\ byokReq[r].pc # "checking" /\ ByokCancelled(r)
             PROVE  Answering(p, t)'
  OBVIOUS
<1> DEFINE pairs == {<<p, t>>}
<1>1. \A q, u : <<q, u>> \in pairs => q = p /\ u = t
  OBVIOUS
<1>2. <<p, t>> \in pairs
  OBVIOUS
<1> HIDE DEF pairs
<1>3. byokClient[p][t] = "open" => p \in Live \/ closing[p] # "no" \/ \E r \in ByokReqs : Answers(r, p)
  BY ByokAssumption DEF Answering, Live
<1>4. ByokInv(pairs)
  BY <1>1, <1>3 DEF ByokInv, ByokAnswers
<1>5. ByokInv(pairs)'
  BY <1>1, <1>4, ByokKeeps
<1>6. byokClient'[p][t] = "open" => Answering(p, t)'
  <2>1. ASSUME byokClient'[p][t] = "open" PROVE p \in Live' \/ closing'[p] # "no" \/ \E r \in ByokReqs : Answers(r, p)'
    BY <1>2, <1>5, <2>1 DEF ByokInv, ByokAnswers
  <2>2. QED
    BY <2>1 DEF Answering, Live
<1>7. byokClient'[p][t] # "abandoned"
  BY ClientSteps DEF Answering
<1>8. byokClient'[p][t] \in {"none", "open", "deferred", "closed", "abandoned"}
  BY <1>5 DEF ByokInv, ByokTypeOK
<1>9. QED
  BY <1>6, <1>7, <1>8 DEF Answering

\* No replacement, eviction or second build drops an open client; it is left by a request
\* cancelled after its clients were built, and by a deferred close that gives up.
THEOREM AllAccountedFor == ByokSpec => ClientsAccountedFor
<1>1. QED
  BY StaysAnswering, ByokInvariance, PTL DEF ByokSpec, ClientsAccountedFor

\* A client is closed under the request that holds the account's slot only when its deferred
\* close is cancelled.
LEMMA HeldStaysOpen ==
  ByokInv({}) /\ [ByokNext]_byokVars =>
    \A p \in ByokReqs, t \in ByokTokens :
      held[p][t] /\ byokClient[p][t] # "closed" /\ byokClient'[p][t] = "closed" => CloseCancelled(p, t)
BY ClientSteps

\* No eviction and no replacement closes a client under the request that holds its slot.
THEOREM HeldIsNotClosed == ByokSpec => NoCloseWhileHeld
<1>1. QED
  BY HeldStaysOpen, ByokInvariance, PTL DEF ByokSpec, NoCloseWhileHeld

-------------------------------------------------------------------------------
(* McpClient *)

\* Before the server is up nothing is asked of it and no run has begun.
McpDown ==
  mcpServer = "down" =>
    /\ mcpNext = 0 /\ wire = {} /\ DOMAIN pending = {}
    /\ \A r \in Runs : run[r].pc \in {"ask", "over"} /\ (run[r].pc = "ask" => run[r].history = <<>>)

\* the call that a run works off
McpCall(r, e) == <<r, Iterations - e.left, Head(e.todo)>>

\* Nobody else waits for the id that a run waits for.
McpIds ==
  /\ \A r \in Runs : (run[r].pc = "wait") = (run[r].id # 0)
  /\ \A r, q \in Runs : run[r].id = run[q].id /\ run[r].id # 0 => r = q

\* What is on its way under that id is for its call.
McpOnTheWay(r) ==
  /\ run[r].id \in DOMAIN pending
  /\ pending[run[r].id] \in McpAnswers => pending[run[r].id].of = McpCall(r, run[r])
  /\ \A m \in wire : m.id = run[r].id => m.of = McpCall(r, run[r])

McpWires ==
  /\ \A m, o \in wire : m.id = o.id => m = o
  /\ \A r \in Runs : run[r].id # 0 => McpOnTheWay(r)

\* A run that goes on has worked off the first of its calls, and the rest are in todo.
McpWorkedOff(r, h, todo, remaining) ==
  LET asked == LastAsk(h)
      valid == Valid(h[asked].calls)
      n == Len(h) - asked
  IN /\ Asks(h) # {}
     /\ Len(valid) = n + Len(todo)
     /\ \A i \in 1 .. n : h[asked + i].of = <<r, Iterations - remaining, valid[i]>>
     /\ \A i \in 1 .. Len(todo) : todo[i] = valid[n + i]
McpRunHolds(r, e) ==
  /\ e.pc \in {"call", "wait"} => e.todo # <<>> /\ e.history # <<>>
  /\ e.pc = "ask" => e.todo = <<>> /\ e.left > 0
  /\ e.pc # "over" /\ e.history # <<>> => McpWorkedOff(r, e.history, e.todo, e.left)

\* An answer in a history is that to its call.
McpTold(h) == \A i \in DOMAIN h : h[i].role = "tool" /\ h[i].text \in McpAnswers => h[i].text.of = h[i].of

McpRuns == \A r \in Runs : McpRunHolds(r, run[r]) /\ McpTold(run[r].history)

McpInv == McpTypeOK /\ McpDown /\ McpIds /\ McpWires /\ McpRuns

McpStates(n) ==
  [pc : {"ask", "call", "wait", "over"}, left : 0 .. Iterations, history : Seq(Entries), todo : Seq(Nat), id : 0 .. n]

-------------------------------------------------------------------------------
\* The calls that name a tool are places in the answer.
LEMMA ValidPlaces ==
  ASSUME NEW turn \in Seq(Kinds)
  PROVE  Valid(turn) \in Seq(Nat)
<1> DEFINE s == [i \in DOMAIN turn |-> i]
<1>1. s \in Seq(Nat)
  <2>1. DOMAIN turn = 1 .. Len(turn) /\ Len(turn) \in Nat
    OBVIOUS
  <2>2. QED
    BY <2>1
<1>2. Only(s, {i \in DOMAIN turn : turn[i] # "nameless"}) \in Seq(Nat)
  BY <1>1, OnlyElements
<1>3. QED
  BY <1>2 DEF Valid

\* The last answer of the provider is where no later one is.
LEMMA LastAskIs ==
  ASSUME NEW h \in Seq(Entries), NEW a \in Asks(h), \A j \in Asks(h) : j <= a
  PROVE  LastAsk(h) = a
<1>1. Asks(h) \subseteq Nat
  BY DEF Asks
<1>2. \A b \in Asks(h) : (\A j \in Asks(h) : j <= b) => b = a
  BY <1>1
<1>3. QED
  BY <1>2 DEF LastAsk

\* There is a last one, if there is any.
LEMMA LastAskExists ==
  ASSUME NEW h \in Seq(Entries), Asks(h) # {}
  PROVE  LastAsk(h) \in Asks(h) /\ \A j \in Asks(h) : j <= LastAsk(h)
<1> DEFINE T == {k \in Nat : k <= Len(h) /\ Len(h) - k \in Asks(h)}
<1>1. Asks(h) \subseteq 1 .. Len(h) /\ Len(h) \in Nat
  BY DEF Asks
<1>2. T # {} /\ T \subseteq Nat
  <2>1. PICK a \in Asks(h) : TRUE
    OBVIOUS
  <2>2. Len(h) - a \in Nat /\ Len(h) - a <= Len(h) /\ Len(h) - (Len(h) - a) = a
    BY <1>1, <2>1
  <2>3. QED
    BY <2>1, <2>2
<1>3. PICK k \in T : \A j \in T : k <= j
  BY <1>2, LeastNumber
<1>4. ASSUME NEW j \in Asks(h) PROVE j <= Len(h) - k
  <2>1. Len(h) - j \in Nat /\ Len(h) - j <= Len(h) /\ Len(h) - (Len(h) - j) = j
    BY <1>1
  <2>2. Len(h) - j \in T
    BY <2>1
  <2>3. k <= Len(h) - j /\ k \in Nat /\ j \in Nat
    BY <1>1, <1>3, <2>2
  <2>4. QED
    BY <1>1, <2>3
<1>5. QED
  BY <1>3, <1>4, LastAskIs

\* An answer of the provider is the last in its history, and what tools say leaves it so.
LEMMA AppendedAsk ==
  ASSUME NEW h \in Seq(Entries), NEW x \in Entries
  PROVE  /\ x.role = "assistant" => Asks(Append(h, x)) # {} /\ LastAsk(Append(h, x)) = Len(h) + 1
         /\ x.role = "tool" /\ Asks(h) # {} => Asks(Append(h, x)) # {} /\ LastAsk(Append(h, x)) = LastAsk(h)
<1> DEFINE g == Append(h, x)
<1>1. /\ g \in Seq(Entries) /\ Len(g) = Len(h) + 1 /\ Len(h) \in Nat /\ g[Len(h) + 1] = x
      /\ \A i \in 1 .. Len(h) : g[i] = h[i]
  OBVIOUS
<1>2. DOMAIN g = 1 .. Len(h) + 1 /\ DOMAIN h = 1 .. Len(h)
  BY <1>1
<1> HIDE DEF g
<1>3. ASSUME x.role = "assistant" PROVE Asks(g) # {} /\ LastAsk(g) = Len(h) + 1
  <2>1. Len(h) + 1 \in Asks(g)
    BY <1>1, <1>2, <1>3 DEF Asks
  <2>2. \A j \in Asks(g) : j <= Len(h) + 1
    BY <1>1, <1>2 DEF Asks
  <2>3. QED
    BY <1>1, <2>1, <2>2, LastAskIs
<1>4. ASSUME x.role = "tool", Asks(h) # {} PROVE Asks(g) # {} /\ LastAsk(g) = LastAsk(h)
  <2>1. Asks(g) = Asks(h)
    <3>1. \A i \in DOMAIN g : g[i].role = "assistant" => i \in DOMAIN h
      BY <1>1, <1>2, <1>4
    <3>2. \A i \in DOMAIN h : i \in DOMAIN g /\ g[i] = h[i]
      BY <1>1, <1>2
    <3>3. QED
      BY <3>1, <3>2 DEF Asks
  <2>2. QED
    BY <1>1, <1>4, <2>1, LastAskExists, LastAskIs
<1>5. QED
  BY <1>3, <1>4 DEF g

\* Without an id that nobody waits for, or none, the others stay.
LEMMA WithoutId ==
  ASSUME NEW S, NEW f, f \in [DOMAIN f -> S], NEW i
  PROVE  /\ McpWithout(f, i) \in [DOMAIN f \ {i} -> S] /\ DOMAIN McpWithout(f, i) = DOMAIN f \ {i}
         /\ \A j \in DOMAIN f : j # i => McpWithout(f, i)[j] = f[j]
         /\ i \notin DOMAIN f => McpWithout(f, i) = f
  BY DEF McpWithout

-------------------------------------------------------------------------------
\* Nothing is awaited and nobody was asked.
LEMMA McpInitially == McpInit => McpInv
<1> SUFFICES ASSUME McpInit PROVE McpInv
  OBVIOUS
<1> DEFINE e == [pc |-> "ask", left |-> Iterations, history |-> <<>>, todo |-> <<>>, id |-> 0]
<1>1. e \in McpStates(0) /\ e.pc = "ask" /\ e.left = Iterations /\ e.history = <<>> /\ e.todo = <<>> /\ e.id = 0
  BY McpAssumption DEF McpAssumption, McpStates
<1>2. \A r \in Runs : run[r] = e
  BY DEF McpInit
<1> HIDE DEF e
<1>3. McpTypeOK
  BY <1>1 DEF McpInit, McpTypeOK, McpStates, e
<1>4. McpRuns
  BY <1>1, <1>2, McpAssumption DEF McpRuns, McpRunHolds, McpTold, McpAssumption
<1>5. McpDown /\ McpIds /\ McpWires
  BY <1>1, <1>2 DEF McpInit, McpDown, McpIds, McpWires
<1>6. QED
  BY <1>3, <1>4, <1>5 DEF McpInv

-------------------------------------------------------------------------------
\* A run that does not wait after its step has left nothing behind, and disturbs nobody.
LEMMA McpRunMoves ==
  ASSUME McpInv, NEW r \in Runs, NEW e \in McpStates(mcpNext'), mcpNext' \in Nat, mcpNext <= mcpNext',
         e.pc # "wait", e.id = 0, McpRunHolds(r, e), McpTold(e.history),
         run' = [run EXCEPT ![r] = e], pending' = McpWithout(pending, run[r].id), UNCHANGED <<mcpServer, wire>>,
         mcpServer = "down" => e.pc = "over" /\ mcpNext' = mcpNext
  PROVE  McpInv'
<1> USE DEF McpInv
<1>1. /\ run \in [Runs -> McpStates(mcpNext)] /\ mcpNext \in Nat
      /\ DOMAIN pending \subseteq 1 .. mcpNext /\ pending \in [DOMAIN pending -> Texts \cup {NoAnswer}]
  BY DEF McpTypeOK, McpStates
<1>2. run' \in [Runs -> McpStates(mcpNext')] /\ run'[r] = e /\ \A q \in Runs : q # r => run'[q] = run[q]
  <2>1. McpStates(mcpNext) \subseteq McpStates(mcpNext')
    <3>1. 0 .. mcpNext \subseteq 0 .. mcpNext'
      BY <1>1
    <3>2. QED
      BY <3>1 DEF McpStates
  <2>2. QED
    BY <1>1, <2>1
<1>3. /\ DOMAIN pending' = DOMAIN pending \ {run[r].id} /\ pending' \in [DOMAIN pending' -> Texts \cup {NoAnswer}]
      /\ \A j \in DOMAIN pending : j # run[r].id => pending'[j] = pending[j]
  BY <1>1 DEF McpWithout
<1>4. McpTypeOK'
  <2>1. DOMAIN pending' \subseteq 1 .. mcpNext'
    BY <1>1, <1>3
  <2>2. wire' \subseteq [id : 1 .. mcpNext', of : Calls]
    BY <1>1 DEF McpTypeOK
  <2>3. mcpServer' \in {"down", "up", "exited", "closed"}
    BY DEF McpTypeOK
  <2>4. QED
    BY <1>2, <1>3, <2>1, <2>2, <2>3 DEF McpTypeOK, McpStates
<1>5. McpDown'
  BY <1>2, <1>3 DEF McpDown
<1>6. McpIds'
  BY <1>2 DEF McpIds
<1>7. McpWires'
  <2>1. ASSUME NEW q \in Runs, run'[q].id # 0 PROVE q # r /\ run'[q] = run[q] /\ McpOnTheWay(q) /\ run[q].id # run[r].id
    BY <1>2, <2>1 DEF McpWires, McpIds
  <2>2. ASSUME NEW q \in Runs, run'[q].id # 0 PROVE McpOnTheWay(q)'
    BY <1>3, <2>1, <2>2 DEF McpOnTheWay
  <2>3. QED
    BY <2>2 DEF McpWires
<1>8. McpRuns'
  BY <1>2 DEF McpRuns
<1>9. QED
  BY <1>4, <1>5, <1>6, <1>7, <1>8

\* The call that comes next is noted with what it was answered.
LEMMA McpNotes ==
  ASSUME McpInv, NEW r \in Runs, run[r].pc \in {"call", "wait"}, NEW text \in Texts,
         text \in McpAnswers => text.of = McpCall(r, run[r]), mcpNext' \in Nat, mcpNext <= mcpNext', McpAnswered(r, text)
  PROVE  \E e \in McpStates(mcpNext') :
           /\ run' = [run EXCEPT ![r] = e] /\ e.pc # "wait" /\ e.id = 0
           /\ McpRunHolds(r, e) /\ McpTold(e.history)
<1> USE DEF McpInv
<1> DEFINE old == run[r]
           x == [role |-> "tool", of |-> McpCall(r, old), text |-> text]
           pc == CASE Tail(old.todo) # <<>> -> "call" [] old.left = 0 -> "over" [] OTHER -> "ask"
           e == [old EXCEPT !.history = Append(old.history, x), !.todo = Tail(old.todo), !.id = 0, !.pc = pc]
<1>1. old \in McpStates(mcpNext) /\ McpRunHolds(r, old) /\ McpTold(old.history) /\ old.pc \in {"call", "wait"}
  BY DEF McpTypeOK, McpStates, McpRuns
<1>2. /\ old.history \in Seq(Entries) /\ old.todo \in Seq(Nat) /\ old.left \in Nat /\ old.left \in 0 .. Iterations
      /\ Iterations \in Nat /\ old.todo # <<>> /\ old.history # <<>>
      /\ McpWorkedOff(r, old.history, old.todo, old.left)
  BY <1>1, McpAssumption DEF McpStates, McpRunHolds, McpAssumption
<1>3. run' = [run EXCEPT ![r] = e]
  BY DEF McpAnswered, McpCall, Turn
<1>4. McpCall(r, old) \in Calls
  BY <1>2 DEF McpCall, Calls
<1>5. x \in Entries /\ x.role = "tool" /\ x.of = McpCall(r, old) /\ x.text = text
  BY <1>4 DEF Entries
<1>6. pc \in {"call", "over", "ask"} /\ (pc = "ask" => Tail(old.todo) = <<>> /\ old.left > 0) /\ (pc = "call" => Tail(old.todo) # <<>>)
  BY <1>2
<1> HIDE DEF pc, x
<1>7. /\ e \in McpStates(mcpNext') /\ e.history = Append(old.history, x) /\ e.todo = Tail(old.todo) /\ e.id = 0
      /\ e.pc = pc /\ e.left = old.left
  <2>1. Append(old.history, x) \in Seq(Entries) /\ Tail(old.todo) \in Seq(Nat) /\ 0 \in 0 .. mcpNext'
    BY <1>2, <1>5
  <2>2. QED
    BY <1>1, <1>6, <2>1 DEF McpStates
<1> HIDE DEF e
<1> DEFINE h == old.history
           g == Append(h, x)
           asked == LastAsk(h)
           valid == Valid(h[asked].calls)
           n == Len(h) - asked
<1>8. /\ g \in Seq(Entries) /\ Len(g) = Len(h) + 1 /\ Len(h) \in Nat /\ g[Len(h) + 1] = x
      /\ \A i \in 1 .. Len(h) : g[i] = h[i]
  BY <1>2, <1>5
<1>9. Asks(h) # {} /\ asked \in 1 .. Len(h) /\ asked \in Nat /\ Asks(g) # {} /\ LastAsk(g) = asked
  <2>1. Asks(h) # {}
    BY <1>2 DEF McpWorkedOff
  <2>2. asked \in Asks(h)
    BY <1>2, <2>1, LastAskExists
  <2>3. asked \in 1 .. Len(h)
    BY <1>2, <2>2 DEF Asks
  <2>4. QED
    BY <1>2, <1>5, <1>8, <2>1, <2>3, AppendedAsk
<1>10. g[asked] = h[asked] /\ Len(g) - asked = n + 1 /\ n \in Nat
  BY <1>8, <1>9
<1>11. McpWorkedOff(r, g, Tail(old.todo), old.left)
  <2> DEFINE todo == old.todo
             rest == Tail(todo)
  <2>7. n \in Nat
    BY <1>10
  <2>1. /\ Len(valid) = n + Len(todo)
        /\ \A i \in 1 .. n : h[asked + i].of = <<r, Iterations - old.left, valid[i]>>
        /\ \A i \in 1 .. Len(todo) : todo[i] = valid[n + i]
    BY <1>2 DEF McpWorkedOff
  <2>2. Len(todo) \in Nat /\ Len(todo) >= 1 /\ Len(rest) = Len(todo) - 1 /\ Head(todo) = todo[1] /\ \A i \in 1 .. Len(rest) : rest[i] = todo[i + 1]
    BY <1>2
  <2>8. /\ Len(valid) = n + Len(todo)
        /\ Len(todo) \in Nat /\ Len(todo) >= 1 /\ Len(rest) = Len(todo) - 1
    BY <2>1, <2>2
  <2>9. \A i \in 1 .. n + 1 : i = n + 1 \/ i \in 1 .. n
    BY <2>7
  <2> HIDE DEF n, valid, rest, todo
  <2>3. Len(valid) = (n + 1) + Len(rest)
    BY <2>7, <2>8
  <2>4. ASSUME NEW i \in 1 .. n + 1 PROVE g[asked + i].of = <<r, Iterations - old.left, valid[i]>>
    <3>1. CASE i = n + 1
      <4>1. asked + i = Len(h) + 1
        BY <1>8, <1>9, <1>10, <3>1 DEF n
      <4>2. g[asked + i].of = <<r, Iterations - old.left, todo[1]>>
        BY <1>5, <1>8, <2>2, <4>1 DEF McpCall, todo
      <4>3. todo[1] = valid[n + 1]
        BY <2>1, <2>2
      <4>4. QED
        BY <3>1, <4>2, <4>3
    <3>2. CASE i \in 1 .. n
      <4>1. asked + i \in 1 .. Len(h)
        BY <1>8, <1>9, <3>2 DEF n
      <4>2. QED
        BY <1>8, <2>1, <3>2, <4>1
    <3>3. QED
      BY <2>9, <3>1, <3>2
  <2>5. ASSUME NEW i \in 1 .. Len(rest) PROVE rest[i] = valid[(n + 1) + i]
    <3>1. i + 1 \in 1 .. Len(todo) /\ n + (i + 1) = (n + 1) + i
      BY <2>2, <2>7
    <3>2. QED
      BY <2>1, <2>2, <3>1
  <2>6. QED
    BY <1>9, <1>10, <2>3, <2>4, <2>5 DEF McpWorkedOff, n, valid, rest, todo
<1>12. McpRunHolds(r, e)
  <2>1. e.pc # "wait" /\ (e.pc = "call" => e.todo # <<>>) /\ (e.pc = "ask" => e.todo = <<>> /\ e.left > 0) /\ e.history = g
    BY <1>6, <1>7
  <2>2. g # <<>>
    BY <1>8
  <2>4. McpWorkedOff(r, e.history, e.todo, e.left)
    BY <1>7, <1>11
  <2>3. QED
    BY <2>1, <2>2, <2>4 DEF McpRunHolds
<1>13. McpTold(e.history)
  <2>1. \A i \in DOMAIN g : i \in 1 .. Len(h) \/ i = Len(h) + 1
    BY <1>8
  <2>2. DOMAIN h = 1 .. Len(h)
    BY <1>2
  <2>3. \A i \in DOMAIN g : g[i].role = "tool" /\ g[i].text \in McpAnswers => g[i].text.of = g[i].of
    BY <1>1, <1>5, <1>8, <2>1, <2>2 DEF McpTold
  <2>4. QED
    BY <1>7, <2>3 DEF McpTold
<1>14. QED
  BY <1>3, <1>6, <1>7, <1>12, <1>13

-------------------------------------------------------------------------------
\* Steps of a run
LEMMA StepMcpAsk ==
  ASSUME McpInv, NEW r \in Runs, NEW turn \in McpTurns, McpAsk(r, turn)
  PROVE  McpInv'
<1> USE DEF McpInv
<1> DEFINE old == run[r]
           h == old.history
           x == [role |-> "assistant", calls |-> turn]
           g == Append(h, x)
           e == IF Valid(turn) = <<>> THEN [old EXCEPT !.pc = "over", !.left = old.left - 1]
                ELSE [old EXCEPT !.pc = "call", !.left = old.left - 1, !.todo = Valid(turn), !.history = g]
<1>1. old \in McpStates(mcpNext) /\ McpRunHolds(r, old) /\ McpTold(h) /\ old.pc = "ask" /\ old.id = 0
  BY DEF McpTypeOK, McpStates, McpRuns, McpIds, McpAsk
<1>2. h \in Seq(Entries) /\ old.left \in Nat /\ old.left \in 0 .. Iterations /\ Iterations \in Nat /\ old.left > 0
  BY <1>1, McpAssumption DEF McpStates, McpRunHolds, McpAssumption
<1>3. turn \in Seq(Kinds) /\ Valid(turn) \in Seq(Nat)
  BY ValidPlaces, McpAssumption DEF McpAssumption
<1>4. x \in Entries /\ x.role = "assistant" /\ x.calls = turn
  BY DEF Entries
<1>5. run' = [run EXCEPT ![r] = e] /\ mcpServer # "down" /\ UNCHANGED <<mcpServer, mcpNext, pending, wire>>
  BY DEF McpAsk
<1> HIDE DEF x
<1>6. /\ g \in Seq(Entries) /\ Len(g) = Len(h) + 1 /\ Len(h) \in Nat /\ g[Len(h) + 1] = x
      /\ \A i \in 1 .. Len(h) : g[i] = h[i]
  BY <1>2, <1>4
<1>7. Asks(g) # {} /\ LastAsk(g) = Len(h) + 1
  BY <1>2, <1>4, AppendedAsk
<1>8. old.left - 1 \in 0 .. Iterations
  BY <1>2
<1>9. McpWorkedOff(r, g, Valid(turn), old.left - 1)
  <2> DEFINE valid == Valid(g[LastAsk(g)].calls)
             n == Len(g) - LastAsk(g)
  <2>1. valid = Valid(turn) /\ n = 0 /\ Len(Valid(turn)) \in Nat
    BY <1>3, <1>4, <1>6, <1>7
  <2> HIDE DEF valid, n
  <2>2. /\ Len(valid) = n + Len(Valid(turn)) /\ \A i \in 1 .. n : FALSE
        /\ \A i \in 1 .. Len(Valid(turn)) : Valid(turn)[i] = valid[n + i]
    BY <2>1
  <2>3. QED
    BY <1>7, <2>2 DEF McpWorkedOff, valid, n
<1>10. McpTold(g)
  <2>1. \A i \in DOMAIN g : i \in 1 .. Len(h) \/ i = Len(h) + 1
    BY <1>6
  <2>2. DOMAIN h = 1 .. Len(h)
    BY <1>2
  <2>3. QED
    BY <1>1, <1>4, <1>6, <2>1, <2>2 DEF McpTold
<1>11. e \in McpStates(mcpNext) /\ e.pc # "wait" /\ e.id = 0 /\ McpRunHolds(r, e) /\ McpTold(e.history)
  <2>1. CASE Valid(turn) = <<>>
    <3>1. e = [old EXCEPT !.pc = "over", !.left = old.left - 1]
      BY <2>1
    <3> HIDE DEF e
    <3>2. e \in McpStates(mcpNext) /\ e.pc = "over" /\ e.id = 0 /\ e.history = h
      BY <1>1, <1>8, <3>1 DEF McpStates
    <3>3. QED
      BY <1>1, <3>2 DEF McpRunHolds
  <2>2. CASE Valid(turn) # <<>>
    <3>1. e = [old EXCEPT !.pc = "call", !.left = old.left - 1, !.todo = Valid(turn), !.history = g]
      BY <2>2
    <3> HIDE DEF e
    <3>2. /\ e \in McpStates(mcpNext) /\ e.pc = "call" /\ e.id = 0 /\ e.history = g /\ e.todo = Valid(turn)
          /\ e.left = old.left - 1
      BY <1>1, <1>3, <1>6, <1>8, <3>1 DEF McpStates
    <3>3. g # <<>>
      BY <1>6
    <3>4. QED
      BY <1>9, <1>10, <2>2, <3>2, <3>3 DEF McpRunHolds
  <2>3. QED
    BY <2>1, <2>2
<1> HIDE DEF e
<1>12. pending' = McpWithout(pending, run[r].id) /\ mcpNext' \in Nat /\ mcpNext <= mcpNext'
  <2>1. 0 \notin DOMAIN pending /\ mcpNext \in Nat /\ pending \in [DOMAIN pending -> Texts \cup {NoAnswer}]
    BY DEF McpTypeOK
  <2>2. McpWithout(pending, 0) = pending
    BY <2>1 DEF McpWithout
  <2>3. QED
    BY <1>1, <1>5, <2>1, <2>2
<1>13. e \in McpStates(mcpNext')
  BY <1>5, <1>11
<1>14. QED
  BY <1>5, <1>11, <1>12, <1>13, McpRunMoves

\* The next call has its answer, and nothing of it is left on its way to a run that waits.
LEMMA McpGoesOn ==
  ASSUME McpInv, NEW r \in Runs, run[r].pc \in {"call", "wait"}, NEW text \in Texts,
         text \in McpAnswers => text.of = McpCall(r, run[r]), mcpNext' \in Nat, mcpNext <= mcpNext', McpAnswered(r, text),
         pending' = McpWithout(pending, run[r].id), UNCHANGED <<mcpServer, wire>>
  PROVE  McpInv'
<1>1. PICK e \in McpStates(mcpNext') :
        /\ run' = [run EXCEPT ![r] = e] /\ e.pc # "wait" /\ e.id = 0
        /\ McpRunHolds(r, e) /\ McpTold(e.history)
  BY McpNotes
<1>2. mcpServer # "down"
  BY DEF McpInv, McpDown
<1>3. QED
  BY <1>1, <1>2, McpRunMoves

\* A run that has not sent its call awaits no id.
LEMMA McpNoId ==
  ASSUME McpInv, NEW r \in Runs, run[r].pc = "call"
  PROVE  McpWithout(pending, run[r].id) = pending
<1>1. run[r].id = 0
  BY DEF McpInv, McpIds
<1>2. 0 \notin DOMAIN pending /\ pending \in [DOMAIN pending -> Texts \cup {NoAnswer}]
  BY DEF McpInv, McpTypeOK
<1>3. QED
  BY <1>1, <1>2 DEF McpWithout

LEMMA StepUnresolved ==
  ASSUME McpInv, NEW r \in Runs, Unresolved(r)
  PROVE  McpInv'
<1>1. mcpNext \in Nat /\ Failed \in Texts /\ Failed \notin McpAnswers
  BY DEF McpInv, McpTypeOK, Texts, Failed, McpAnswers
<1>2. QED
  BY <1>1, McpNoId, McpGoesOn DEF Unresolved

LEMMA StepMcpWriteFails ==
  ASSUME McpInv, NEW r \in Runs, WriteFails(r)
  PROVE  McpInv'
<1>1. mcpNext \in Nat /\ Failed \in Texts /\ Failed \notin McpAnswers
  BY DEF McpInv, McpTypeOK, Texts, Failed, McpAnswers
<1>2. mcpNext' \in Nat /\ mcpNext <= mcpNext'
  BY <1>1 DEF WriteFails
<1>3. QED
  BY <1>1, <1>2, McpNoId, McpGoesOn DEF WriteFails

LEMMA StepMcpResume ==
  ASSUME McpInv, NEW r \in Runs, Resume(r)
  PROVE  McpInv'
<1> DEFINE text == pending[run[r].id]
<1>1. /\ mcpNext \in Nat /\ run[r].pc = "wait" /\ run[r].id \in DOMAIN pending /\ text # NoAnswer /\ McpAnswered(r, text)
      /\ pending' = McpWithout(pending, run[r].id) /\ UNCHANGED <<mcpServer, mcpNext, wire>>
  BY DEF McpInv, McpTypeOK, Resume
<1>2. text \in Texts
  BY <1>1 DEF McpInv, McpTypeOK
<1>3. text \in McpAnswers => text.of = McpCall(r, run[r])
  <2>1. run[r].id # 0
    BY <1>1 DEF McpInv, McpIds
  <2>2. McpOnTheWay(r)
    BY <2>1 DEF McpInv, McpWires
  <2>3. QED
    BY <1>2, <2>2 DEF McpOnTheWay, Texts
<1> HIDE DEF text
<1>4. QED
  BY <1>1, <1>2, <1>3, McpGoesOn

LEMMA StepMcpTimeOut ==
  ASSUME McpInv, NEW r \in Runs, McpTimeOut(r)
  PROVE  McpInv'
<1>1. mcpNext \in Nat /\ Failed \in Texts /\ Failed \notin McpAnswers
  BY DEF McpInv, McpTypeOK, Texts, Failed, McpAnswers
<1>2. QED
  BY <1>1, McpGoesOn DEF McpTimeOut

LEMMA StepMcpCancelled ==
  ASSUME McpInv, NEW r \in Runs, McpCancelled(r)
  PROVE  McpInv'
<1> DEFINE e == [run[r] EXCEPT !.pc = "over", !.todo = <<>>, !.id = 0]
<1>1. run[r] \in McpStates(mcpNext) /\ mcpNext \in Nat /\ McpTold(run[r].history)
  BY DEF McpInv, McpTypeOK, McpStates, McpRuns
<1>2. e \in McpStates(mcpNext) /\ e.pc = "over" /\ e.id = 0 /\ e.history = run[r].history
  <2>1. <<>> \in Seq(Nat) /\ 0 \in 0 .. mcpNext
    BY <1>1
  <2>2. QED
    BY <1>1, <2>1 DEF McpStates
<1>3. run' = [run EXCEPT ![r] = e] /\ pending' = McpWithout(pending, run[r].id) /\ UNCHANGED <<mcpServer, mcpNext, wire>>
  BY DEF McpCancelled
<1> HIDE DEF e
<1>4. McpRunHolds(r, e)
  BY <1>2 DEF McpRunHolds
<1>5. mcpNext' \in Nat /\ mcpNext <= mcpNext' /\ e \in McpStates(mcpNext')
  BY <1>1, <1>2, <1>3
<1>6. QED
  BY <1>1, <1>2, <1>3, <1>4, <1>5, McpRunMoves

\* A new id is awaited by this run alone, and on its way for its call alone.
LEMMA StepMcpRequest ==
  ASSUME McpInv, NEW r \in Runs, McpRequest(r)
  PROVE  McpInv'
<1> USE DEF McpInv
<1> DEFINE old == run[r]
           id == mcpNext + 1
           e == [old EXCEPT !.pc = "wait", !.id = id]
           m == [id |-> id, of |-> McpCall(r, old)]
<1>1. /\ old \in McpStates(mcpNext) /\ mcpNext \in Nat /\ McpRunHolds(r, old) /\ McpTold(old.history) /\ old.pc = "call"
      /\ DOMAIN pending \subseteq 1 .. mcpNext /\ pending \in [DOMAIN pending -> Texts \cup {NoAnswer}]
      /\ wire \subseteq [id : 1 .. mcpNext, of : Calls] /\ mcpServer \in {"up", "exited"} /\ run \in [Runs -> McpStates(mcpNext)]
  BY DEF McpTypeOK, McpStates, McpRuns, McpRequest
<1>2. /\ id \in Nat /\ id # 0 /\ id \in 1 .. id /\ id \notin 1 .. mcpNext /\ 1 .. mcpNext \subseteq 1 .. id
      /\ 0 .. mcpNext \subseteq 0 .. id /\ id \in 0 .. id /\ id \notin 0 .. mcpNext
  BY <1>1
<1>3. /\ mcpNext' = id /\ mcpServer' = mcpServer /\ run' = [run EXCEPT ![r] = e]
      /\ pending' = [i \in DOMAIN pending \cup {id} |-> IF i = id THEN NoAnswer ELSE pending[i]]
      /\ wire' \subseteq wire \cup {m} /\ wire \subseteq wire'
  BY DEF McpRequest, NextId, McpCall, Turn
<1>4. McpCall(r, old) \in Calls
  <2>1. old.left \in 0 .. Iterations /\ Iterations \in Nat /\ old.todo \in Seq(Nat) /\ old.todo # <<>>
    BY <1>1, McpAssumption DEF McpStates, McpRunHolds, McpAssumption
  <2>2. Iterations - old.left \in Nat /\ Head(old.todo) \in Nat
    BY <2>1
  <2>3. QED
    BY <2>2 DEF McpCall, Calls
<1>5. m.id = id /\ m.of = McpCall(r, old) /\ m \in [id : 1 .. id, of : Calls]
  BY <1>2, <1>4
<1> HIDE DEF id, m
<1>6. /\ e \in McpStates(id) /\ e.pc = "wait" /\ e.id = id /\ e.history = old.history /\ e.todo = old.todo /\ e.left = old.left
      /\ McpStates(mcpNext) \subseteq McpStates(id)
  BY <1>1, <1>2 DEF McpStates
<1> HIDE DEF e
<1>7. run' \in [Runs -> McpStates(id)] /\ run'[r] = e /\ \A q \in Runs : q # r => run'[q] = run[q] /\ run[q].id \in 0 .. mcpNext
  BY <1>1, <1>3, <1>6 DEF McpStates
<1>8. /\ DOMAIN pending' = DOMAIN pending \cup {id} /\ pending'[id] = NoAnswer
      /\ \A i \in DOMAIN pending : i # id /\ pending'[i] = pending[i]
      /\ pending' \in [DOMAIN pending' -> Texts \cup {NoAnswer}]
  BY <1>1, <1>2, <1>3
<1>9. McpTypeOK'
  <2>1. DOMAIN pending' \subseteq 1 .. id
    BY <1>1, <1>2, <1>8
  <2>2. wire' \subseteq [id : 1 .. id, of : Calls]
    BY <1>1, <1>2, <1>3, <1>5
  <2>3. QED
    BY <1>1, <1>2, <1>3, <1>7, <1>8, <2>1, <2>2 DEF McpTypeOK, McpStates
<1>10. McpDown'
  BY <1>1, <1>3 DEF McpDown
<1>11. McpIds'
  BY <1>2, <1>6, <1>7 DEF McpIds
<1>12. McpWires'
  <2>1. \A o \in wire : o.id \in 1 .. mcpNext
    BY <1>1
  <2>2. \A o, p \in wire' : o.id = p.id => o = p
    BY <1>2, <1>3, <1>5, <2>1 DEF McpWires
  <2>3. NoAnswer \notin McpAnswers
    BY DEF NoAnswer, McpAnswers
  <2>4. \A o \in wire' : o.id = id => o = m
    BY <1>2, <1>3, <2>1
  <2>5. McpCall(r, e) = McpCall(r, old)
    BY <1>6 DEF McpCall
  <2>6. McpOnTheWay(r)'
    BY <1>5, <1>6, <1>7, <1>8, <2>3, <2>4, <2>5 DEF McpOnTheWay
  <2>7. ASSUME NEW q \in Runs, q # r, run'[q].id # 0 PROVE McpOnTheWay(q)'
    <3>1. run'[q] = run[q] /\ McpOnTheWay(q) /\ run[q].id # id
      BY <1>2, <1>7, <2>7 DEF McpWires
    <3>2. \A o \in wire' : o.id = run[q].id => o \in wire
      BY <1>3, <1>5, <3>1
    <3>3. QED
      BY <1>8, <3>1, <3>2 DEF McpOnTheWay
  <2>8. QED
    BY <2>2, <2>6, <2>7 DEF McpWires
<1>13. McpRuns'
  <2>1. McpRunHolds(r, e) /\ McpTold(e.history)
    BY <1>1, <1>6 DEF McpRunHolds
  <2>2. QED
    BY <1>7, <2>1 DEF McpRuns
<1>14. QED
  BY <1>9, <1>10, <1>11, <1>12, <1>13

-------------------------------------------------------------------------------
\* Steps of the server and of its reader

LEMMA StepMcpStart ==
  ASSUME McpInv, NEW up \in BOOLEAN, Start(up)
  PROVE  McpInv'
<1> USE DEF McpInv
<1>1. /\ mcpServer = "down" /\ mcpServer' \in {"up", "closed"} /\ mcpNext' = 2 /\ mcpNext = 0 /\ wire = {} /\ DOMAIN pending = {}
      /\ UNCHANGED <<pending, wire, run>>
  BY DEF Start, McpDown
<1>2. \A r \in Runs : run[r].id = 0
  BY <1>1 DEF McpDown, McpIds
<1>3. McpTypeOK'
  <2>1. McpStates(0) \subseteq McpStates(2)
    BY DEF McpStates
  <2>2. run' \in [Runs -> McpStates(2)]
    BY <1>1, <2>1 DEF McpTypeOK, McpStates
  <2>3. QED
    BY <1>1, <2>2 DEF McpTypeOK, McpStates
<1>4. McpDown' /\ McpIds' /\ McpWires' /\ McpRuns'
  BY <1>1, <1>2 DEF McpDown, McpIds, McpWires, McpRuns
<1>5. QED
  BY <1>3, <1>4

\* An answer comes under the id of its request.
LEMMA StepMcpReply ==
  ASSUME McpInv, NEW m \in wire, NEW kind \in {"result", "error"}, Reply(m, kind)
  PROVE  McpInv'
<1> USE DEF McpInv
<1> DEFINE x == [kind |-> kind, of |-> m.of]
<1>1. m \in [id : 1 .. mcpNext, of : Calls] /\ x \in McpAnswers /\ x.of = m.of
  BY DEF McpTypeOK, McpAnswers
<1>2. /\ UNCHANGED <<mcpServer, mcpNext, run>> /\ mcpServer # "down" /\ wire' \subseteq wire
      /\ pending' = IF m.id \in DOMAIN pending /\ pending[m.id] = NoAnswer THEN [pending EXCEPT ![m.id] = x] ELSE pending
  BY DEF Reply
<1> HIDE DEF x
<1>3. /\ DOMAIN pending' = DOMAIN pending /\ pending' \in [DOMAIN pending' -> Texts \cup {NoAnswer}]
      /\ \A i \in DOMAIN pending : pending'[i] = pending[i] \/ (i = m.id /\ pending'[i] = x)
  <2>1. pending \in [DOMAIN pending -> Texts \cup {NoAnswer}] /\ x \in Texts
    BY <1>1 DEF McpTypeOK, Texts
  <2>2. QED
    BY <1>2, <2>1
<1>4. McpTypeOK'
  BY <1>2, <1>3 DEF McpTypeOK
<1>5. McpDown' /\ McpIds' /\ McpRuns'
  BY <1>2 DEF McpDown, McpIds, McpRuns
<1>6. McpWires'
  <2>1. ASSUME NEW q \in Runs, run[q].id # 0 PROVE McpOnTheWay(q)'
    <3>1. McpOnTheWay(q)
      BY <2>1 DEF McpWires
    <3>2. run[q].id = m.id => x.of = McpCall(q, run[q])
      BY <1>1, <3>1 DEF McpOnTheWay
    <3>3. QED
      BY <1>2, <1>3, <3>1, <3>2 DEF McpOnTheWay
  <2>2. QED
    BY <1>2, <2>1 DEF McpWires
<1>7. QED
  BY <1>4, <1>5, <1>6

\* A stray message is no answer to any call.
LEMMA StepMcpStray ==
  ASSUME McpInv, NEW i \in DOMAIN pending, Stray(i)
  PROVE  McpInv'
<1> USE DEF McpInv
<1>1. mcpServer # "down" /\ UNCHANGED <<mcpServer, mcpNext, wire, run>> /\ pending' = [pending EXCEPT ![i] = Null]
  BY DEF Stray
<1>2. Null \notin McpAnswers /\ Null \in Texts
  BY DEF Null, McpAnswers, Texts
<1>3. pending \in [DOMAIN pending -> Texts \cup {NoAnswer}]
  BY DEF McpTypeOK
<1>4. /\ DOMAIN pending' = DOMAIN pending /\ pending' \in [DOMAIN pending' -> Texts \cup {NoAnswer}]
      /\ \A j \in DOMAIN pending : pending'[j] \in McpAnswers => pending'[j] = pending[j]
  BY <1>1, <1>2, <1>3
<1>5. McpTypeOK'
  BY <1>1, <1>4 DEF McpTypeOK
<1>6. McpDown' /\ McpIds' /\ McpRuns'
  BY <1>1 DEF McpDown, McpIds, McpRuns
<1>7. McpWires'
  BY <1>1, <1>4 DEF McpWires, McpOnTheWay
<1>8. QED
  BY <1>5, <1>6, <1>7

LEMMA StepMcpExits ==
  ASSUME McpInv, Exits
  PROVE  McpInv'
<1> USE DEF McpInv
<1>1. mcpServer' = "exited" /\ wire' = {} /\ UNCHANGED <<mcpNext, pending, run>>
  BY DEF Exits
<1>2. McpTypeOK' /\ McpDown' /\ McpIds' /\ McpRuns'
  BY <1>1 DEF McpTypeOK, McpDown, McpIds, McpRuns
<1>3. McpWires'
  BY <1>1 DEF McpWires, McpOnTheWay
<1>4. QED
  BY <1>2, <1>3

LEMMA StepMcpClose ==
  ASSUME McpInv, McpClose
  PROVE  McpInv'
<1> USE DEF McpInv
<1>1. /\ mcpServer' = "closed" /\ wire' = {} /\ UNCHANGED <<mcpNext, run>>
      /\ pending' = [i \in DOMAIN pending |-> IF pending[i] = NoAnswer THEN Failed ELSE pending[i]]
  BY DEF McpClose
<1>2. Failed \notin McpAnswers /\ Failed \in Texts
  BY DEF Failed, McpAnswers, Texts
<1>3. pending \in [DOMAIN pending -> Texts \cup {NoAnswer}]
  BY DEF McpTypeOK
<1>4. /\ DOMAIN pending' = DOMAIN pending /\ pending' \in [DOMAIN pending' -> Texts \cup {NoAnswer}]
      /\ \A i \in DOMAIN pending : pending'[i] \in McpAnswers => pending'[i] = pending[i]
  BY <1>1, <1>2, <1>3
<1>5. McpTypeOK'
  BY <1>1, <1>4 DEF McpTypeOK
<1>6. McpDown' /\ McpIds' /\ McpRuns'
  BY <1>1 DEF McpDown, McpIds, McpRuns
<1>7. McpWires'
  BY <1>1, <1>4 DEF McpWires, McpOnTheWay
<1>8. QED
  BY <1>5, <1>6, <1>7

-------------------------------------------------------------------------------
\* Every step keeps the invariant.
LEMMA McpStep == McpInv /\ [McpNext]_mcpVars => McpInv'
<1> SUFFICES ASSUME McpInv, [McpNext]_mcpVars PROVE McpInv'
  OBVIOUS
<1>1. ASSUME NEW r \in Runs, RunNext(r) PROVE McpInv'
  BY <1>1, StepMcpAsk, StepUnresolved, StepMcpRequest, StepMcpWriteFails, StepMcpResume, StepMcpTimeOut, StepMcpCancelled DEF RunNext
<1>2. ASSUME NEW up \in BOOLEAN, Start(up) PROVE McpInv'
  BY <1>2, StepMcpStart
<1>3. ASSUME NEW m \in wire, NEW kind \in {"result", "error"}, Reply(m, kind) PROVE McpInv'
  BY <1>3, StepMcpReply
<1>4. CASE Exits
  BY <1>4, StepMcpExits
<1>5. CASE McpClose
  BY <1>5, StepMcpClose
<1>6. ASSUME NEW i \in DOMAIN pending, Stray(i) PROVE McpInv'
  BY <1>6, StepMcpStray
<1>7. CASE UNCHANGED mcpVars
  BY <1>7 DEF mcpVars, McpInv, McpTypeOK, McpDown, McpIds, McpWires, McpOnTheWay, McpRuns
<1>8. QED
  BY <1>1, <1>2, <1>3, <1>4, <1>5, <1>7, <1>6 DEF McpNext

\* The inductive invariant of the calls of tools: ids belong to one run, what is on its way
\* under an id is for the call of its run, and histories tell how far a run has come.
THEOREM McpInvariance == McpSpec => []McpInv
<1>1. QED
  BY McpInitially, McpStep, PTL DEF McpSpec

\* The transport, the wire and the runs keep their types, for any runs, answers and iterations.
THEOREM McpTypeCorrect == McpSpec => []McpTypeOK
<1>1. McpInv => McpTypeOK
  BY DEF McpInv
<1>2. QED
  BY <1>1, McpInvariance, PTL

\* CallsAreAnswered: a provider is told of each of its calls once, in their order, and of no
\* answer but the one to that call, in whatever order the server answers, late or never, and
\* although requests of its own may take the ids of calls.
THEOREM CallsHaveTheirAnswers == McpSpec => []CallsAreAnswered
<1>1. McpInv => CallsAreAnswered
  <2> SUFFICES ASSUME McpInv, NEW r \in Runs
               PROVE  LET h == run[r].history
                          asked == LastAsk(h)
                          valid == Valid(h[asked].calls)
                      IN /\ \A i \in DOMAIN h : h[i].role = "tool" /\ h[i].text \in McpAnswers => h[i].text.of = h[i].of
                         /\ run[r].pc = "ask" /\ h # <<>> =>
                              /\ Len(h) - asked = Len(valid)
                              /\ \A n \in DOMAIN valid : h[asked + n].of = <<r, Turn(r), valid[n]>>
    BY DEF CallsAreAnswered
  <2> DEFINE h == run[r].history
             asked == LastAsk(h)
             valid == Valid(h[asked].calls)
             n == Len(h) - asked
  <2>1. McpRunHolds(r, run[r]) /\ McpTold(h)
    BY DEF McpInv, McpRuns
  <2>2. ASSUME run[r].pc = "ask", h # <<>>
        PROVE  n = Len(valid) /\ \A i \in DOMAIN valid : h[asked + i].of = <<r, Turn(r), valid[i]>>
    <3>1. run[r].todo = <<>> /\ McpWorkedOff(r, h, run[r].todo, run[r].left)
      BY <2>1, <2>2 DEF McpRunHolds
    <3>2. h \in Seq(Entries)
      BY DEF McpInv, McpTypeOK
    <3>3. asked \in Asks(h)
      BY <3>1, <3>2, LastAskExists DEF McpWorkedOff
    <3>4. n \in Nat /\ valid \in Seq(Nat)
      <4>1. asked \in DOMAIN h /\ h[asked] \in Entries /\ h[asked].role = "assistant"
        BY <3>2, <3>3 DEF Asks
      <4>2. h[asked].calls \in Seq(Kinds)
        BY <4>1, McpAssumption DEF Entries, McpAssumption
      <4>3. QED
        BY <3>2, <4>1, <4>2, ValidPlaces
    <3>5. Len(valid) = n + Len(run[r].todo) /\ \A i \in 1 .. n : h[asked + i].of = <<r, Iterations - run[r].left, valid[i]>>
      BY <3>1 DEF McpWorkedOff
    <3> HIDE DEF n, valid, asked
    <3>6. n = Len(valid)
      BY <3>1, <3>4, <3>5
    <3>7. QED
      BY <3>4, <3>5, <3>6 DEF Turn
  <2>3. QED
    BY <2>1, <2>2 DEF McpTold
<1>2. QED
  BY <1>1, McpInvariance, PTL
=============================================================================
