--------------------------- MODULE CredentialProofs ---------------------------
(***************************************************************************)
(* Proofs about what the providers are called with: the pool of tokens of  *)
(* the environment, the token of GigaChat and the build of the proof of    *)
(* work solver, for any requests, tokens and bounds.                       *)
(***************************************************************************)
EXTENDS PowManager, EnvTokens, GigaChatToken, Integers, FiniteSetTheorems, TLAPS

-------------------------------------------------------------------------------
(* PowManager *)

\* A build that still works is the one that the manager knows, so that whoever needs a header
\* joins it.
KnownBuild == \A b \in Builds : build[b] \in Running => building = b

PowInv == PowTypeOK /\ KnownBuild

\* What a build does, by name.
LEMMA PowNames ==
  /\ Running = {"fetching", "native", "node", "python"}
  /\ \A i \in Solvers : Solving(i) \in Running
<1>1. Solving(1) = "native" /\ Solving(2) = "node" /\ Solving(3) = "python"
  BY DEF Solving
<1>2. Solvers = {1, 2, 3}
  BY DEF Solvers
<1> QED
  BY <1>1, <1>2 DEF Running

\* A build that has ended works no more.
LEMMA EndedOrRunning == Ended \cap Running = {}
  BY PowNames DEF Ended

-------------------------------------------------------------------------------
(* _ensure_build, _kick_refill and the end of a build *)

\* Whoever joins or starts a build leaves one that is known, and no other works.
LEMMA EnsureFacts ==
  ASSUME PowInv, NEW b \in Builds, Ensure(b)
  PROVE  /\ building' \in 0 .. MaxBuilds
         /\ build' \in [Builds -> {"none"} \cup Running \cup Ended]
         /\ KnownBuild'
<1>1. CASE building = 0 \/ build[building] \in Ended
  <2>1. build' = [build EXCEPT ![b] = "fetching"] /\ building' = b
    BY <1>1 DEF Ensure
  <2>2. \A d \in Builds : build[d] \notin Running
    BY <1>1, EndedOrRunning DEF PowInv, KnownBuild, PowTypeOK, Builds
  <2>3. \A d \in Builds : d # b => build'[d] = build[d]
    BY <2>1 DEF PowInv, PowTypeOK
  <2>4. KnownBuild'
    BY <2>1, <2>2, <2>3 DEF KnownBuild
  <2>5. "fetching" \in Running
    BY PowNames
  <2> QED
    BY <2>1, <2>4, <2>5, PowAssumption DEF PowInv, PowTypeOK, Builds
<1>2. CASE ~(building = 0 \/ build[building] \in Ended)
  BY <1>2 DEF Ensure, PowInv, PowTypeOK, KnownBuild
<1> QED
  BY <1>1, <1>2

\* To forget a build that has ended forgets none that works.
LEMMA ForgetFacts ==
  ASSUME PowInv, NEW b, build[b] \in Ended, Forget(b), UNCHANGED build
  PROVE  building' \in 0 .. MaxBuilds /\ KnownBuild'
<1>1. \A d \in Builds : build[d] \in Running => building = d /\ d # b
  BY EndedOrRunning DEF PowInv, KnownBuild
<1> QED
  BY <1>1, PowAssumption DEF Forget, KnownBuild, PowInv, PowTypeOK

\* _kick_refill starts a refill that is new, or leaves the one there is.
LEMMA KickFacts ==
  ASSUME PowTypeOK, Kick
  PROVE  /\ refill' \in 0 .. MaxRefills
         /\ refiller' \in [Refills -> Task({"none", "new", "cancelled", "over"})]
<1>1. CASE UNCHANGED <<refill, refiller>>
  BY <1>1 DEF PowTypeOK
<1>2. CASE \E f \in Refills : NewRefill(f) /\ refill' = f /\ refiller' = [refiller EXCEPT ![f].pc = "new"]
  <2>1. PICK f \in Refills : NewRefill(f) /\ refill' = f /\ refiller' = [refiller EXCEPT ![f].pc = "new"]
    BY <1>2
  <2>2. refiller[f] \in Task({"none", "new", "cancelled", "over"}) /\ refiller[f].pc = "none"
    BY <2>1 DEF PowTypeOK, NewRefill
  <2>3. [refiller[f] EXCEPT !.pc = "new"] \in Task({"none", "new", "cancelled", "over"})
    BY <2>2 DEF Task
  <2>4. refill' \in 0 .. MaxRefills
    BY <2>1, PowAssumption DEF Refills
  <2> QED
    BY <2>1, <2>3, <2>4 DEF PowTypeOK
<1> QED
  BY <1>1, <1>2 DEF Kick

-------------------------------------------------------------------------------
(* Every step preserves the invariant *)

\* The invariant holds for a new manager.
LEMMA PowInitially == PowInit => PowInv
<1> SUFFICES ASSUME PowInit PROVE PowInv
  OBVIOUS
<1>1. "none" \notin Running
  BY PowNames
<1> QED
  BY <1>1, PowAssumption DEF PowInit, PowInv, PowTypeOK, KnownBuild, Builds, Refills, NoWait, Task

\* a step of make_header
LEMMA PowCallerStep ==
  ASSUME PowInv, NEW c \in Callers, CallerNext(c)
  PROVE  PowInv'
<1> USE DEF PowInv
<1>1. CASE TakePrefetched(c)
  BY <1>1, KickFacts, PowAssumption DEF TakePrefetched, PowTypeOK, KnownBuild
<1>2. CASE Await(c)
  <2>1. PICK b \in Builds : Ensure(b) /\ caller' = [caller EXCEPT ![c] = [pc |-> "waiting", on |-> b]]
    BY <1>2 DEF Await
  <2>3. caller' \in [Callers -> Task({"none"})]
    BY <2>1 DEF PowTypeOK, Task
  <2>4. UNCHANGED <<header, refill, refiller>>
    BY <1>2 DEF Await
  <2> QED
    BY <2>1, <2>3, <2>4, EnsureFacts DEF PowTypeOK
<1>3. NoWait \in Task({"none"})
  BY DEF NoWait, Task
<1>4. CASE Return(c)
  <2>1. build[caller[c].on] \in Ended /\ Forget(caller[c].on) /\ UNCHANGED <<header, build>>
    BY <1>4 DEF Return, Ended
  <2>2. caller' = [caller EXCEPT ![c] = NoWait] /\ Kick
    BY <1>4 DEF Return
  <2> QED
    BY <1>3, <2>1, <2>2, KickFacts, ForgetFacts DEF PowTypeOK
<1>5. CASE Raise(c)
  <2>1. build[caller[c].on] \in Ended /\ Forget(caller[c].on)
    BY <1>5 DEF Raise, Ended
  <2>2. caller' = [caller EXCEPT ![c] = NoWait] /\ UNCHANGED <<header, refill, build, refiller>>
    BY <1>5 DEF Raise
  <2> QED
    BY <1>3, <2>1, <2>2, ForgetFacts DEF PowTypeOK
<1>6. CASE CallerCancelled(c)
  BY <1>3, <1>6 DEF CallerCancelled, PowTypeOK, KnownBuild
<1> QED
  BY <1>1, <1>2, <1>4, <1>5, <1>6 DEF CallerNext

\* a step of _refill_if_empty
LEMMA PowRefillStep ==
  ASSUME PowInv, NEW f \in Refills, RefillNext(f)
  PROVE  PowInv'
<1> USE DEF PowInv
<1> DEFINE Refiller == Task({"none", "new", "cancelled", "over"})
<1>1. RefillOver(f) => refiller' \in [Refills -> Refiller] /\ refill' \in 0 .. MaxRefills
  BY PowAssumption DEF RefillOver, PowTypeOK, Task
<1>2. CASE RefillStart(f)
  <2>1. UNCHANGED <<header, caller>>
    BY <1>2 DEF RefillStart
  <2>2. CASE header # 0
    BY <1>1, <1>2, <2>1, <2>2 DEF RefillStart, PowTypeOK, KnownBuild
  <2>3. CASE header = 0
    <3>1. PICK b \in Builds : Ensure(b) /\ refiller' = [refiller EXCEPT ![f] = [pc |-> "waiting", on |-> b]]
      BY <1>2, <2>3 DEF RefillStart
    <3>2. UNCHANGED refill
      BY <1>2, <2>3 DEF RefillStart
    <3>3. refiller' \in [Refills -> Refiller]
      BY <3>1 DEF PowTypeOK, Task
    <3> QED
      BY <2>1, <3>1, <3>2, <3>3, EnsureFacts DEF PowTypeOK
  <2> QED
    BY <2>2, <2>3
<1>3. CASE RefillEnd(f)
  <2>1. build[refiller[f].on] \in Ended /\ Forget(refiller[f].on) /\ UNCHANGED <<build, caller>>
    BY <1>3 DEF RefillEnd
  <2>2. refiller[f].on \in 0 .. MaxBuilds
    BY PowAssumption DEF PowTypeOK, Task, Builds
  <2>3. header' \in 0 .. MaxBuilds
    BY <1>3, <2>2 DEF RefillEnd, HeaderStored, PowTypeOK
  <2> QED
    BY <1>1, <1>3, <2>1, <2>3, ForgetFacts DEF RefillEnd, PowTypeOK
<1>4. CASE RefillCancelled(f)
  BY <1>1, <1>4 DEF RefillCancelled, PowTypeOK, KnownBuild
<1> QED
  BY <1>2, <1>3, <1>4 DEF RefillNext

\* a step of _build or solve_challenge
LEMMA PowBuildStep ==
  ASSUME PowInv, NEW b \in Builds, BuildNext(b)
  PROVE  PowInv'
<1> USE DEF PowInv
<1>1. /\ UNCHANGED <<header, building, refill, refiller, caller>>
      /\ build[b] \in Running
      /\ \E s \in Running \cup Ended : build' = [build EXCEPT ![b] = s]
  <2>1. CASE Challenge(b)
    <3>1. Solving(1) \in Running /\ "fetching" \in Running
      BY PowNames DEF Solvers
    <3> QED
      BY <2>1, <3>1 DEF Challenge
  <2>2. CASE ChallengeFails(b)
    BY <2>2, PowNames DEF ChallengeFails, Ended
  <2>3. CASE Solved(b)
    BY <2>3, PowNames DEF Solved, Ended
  <2>4. CASE NextSolver(b)
    BY <2>4, PowNames DEF NextSolver, Ended
  <2> QED
    BY <2>1, <2>2, <2>3, <2>4 DEF BuildNext
<1>2. PICK s \in Running \cup Ended : build' = [build EXCEPT ![b] = s]
  BY <1>1
<1>3. PowTypeOK'
  BY <1>1, <1>2 DEF PowTypeOK
<1>4. KnownBuild'
  BY <1>1, <1>2 DEF KnownBuild, PowTypeOK
<1> QED
  BY <1>3, <1>4

\* close: the only build that can be at work is cancelled
LEMMA PowCloseStep ==
  ASSUME PowInv, Close
  PROVE  PowInv'
<1> USE DEF PowInv
<1> DEFINE Refiller == Task({"none", "new", "cancelled", "over"})
           ended(r) == CASE r.pc = "new" -> [pc |-> "over", on |-> 0]
                         [] r.pc = "waiting" -> [pc |-> "cancelled", on |-> 0]
                         [] OTHER -> r
<1>1. \A r \in Refiller : ended(r) \in Refiller
  BY DEF Task
<1>2. refiller' = [f \in Refills |-> IF f # refill THEN refiller[f] ELSE ended(refiller[f])]
  BY DEF Close
<1> HIDE DEF ended
<1>3. refiller' \in [Refills -> Refiller]
  BY <1>1, <1>2 DEF PowTypeOK
<1>4. build' = [b \in Builds |-> IF b = building /\ build[b] \in Running THEN "cancelled" ELSE build[b]]
  BY DEF Close
<1>5. "cancelled" \in Ended
  BY DEF Ended
<1>6. build' \in [Builds -> {"none"} \cup Running \cup Ended]
  BY <1>4, <1>5 DEF PowTypeOK
<1>7. \A b \in Builds : build'[b] \notin Running
  BY <1>4, <1>5, EndedOrRunning DEF KnownBuild
<1>8. PowTypeOK'
  BY <1>3, <1>6, PowAssumption DEF Close, PowTypeOK
<1> QED
  BY <1>7, <1>8 DEF KnownBuild

\* Every step keeps the invariant.
LEMMA PowStep == PowInv /\ [PowNext]_powVars => PowInv'
<1> SUFFICES ASSUME PowInv, [PowNext]_powVars PROVE PowInv'
  OBVIOUS
<1>1. CASE PowNext
  BY <1>1, PowCallerStep, PowRefillStep, PowBuildStep, PowCloseStep DEF PowNext
<1>2. CASE UNCHANGED powVars
  BY <1>2 DEF powVars, PowInv, PowTypeOK, KnownBuild
<1> QED
  BY <1>1, <1>2

-------------------------------------------------------------------------------
(* The theorems *)

\* The inductive invariant holds in every state of the manager.
THEOREM PowInvariance == PowSpec => []PowInv
<1>1. PowInit => PowInv
  BY PowInitially
<1>2. PowInv /\ [PowNext]_powVars => PowInv'
  BY PowStep
<1> QED
  BY <1>1, <1>2, PTL DEF PowSpec

\* The fields of PowManager keep their types.
THEOREM PowTypeCorrect == PowSpec => []PowTypeOK
<1>1. PowInv => PowTypeOK
  BY DEF PowInv
<1> QED
  BY <1>1, PowInvariance, PTL

\* Two builds never solve at the same time, however many requests and prefetches wait, return,
\* fail or are cancelled, and whenever the manager is closed (_ensure_build, close).
THEOREM BuildsAreShared == PowSpec => []BuildsOneAtATime
<1>1. PowInv => BuildsOneAtATime
  BY DEF PowInv, KnownBuild, BuildsOneAtATime
<1> QED
  BY <1>1, PowInvariance, PTL

-------------------------------------------------------------------------------
(* EnvTokens *)

EnvAccount == [token : Tokens, broken : BOOLEAN]
PlanStates == {"live", "broken", "untracked", "new"}
EnvRequest ==
  [pc : {"new", "deepseek", "qwen", "merge", "over"}, plan : UNION {[S -> PlanStates] : S \in SUBSET Tokens},
   ok : SUBSET Tokens, seen : SUBSET Tokens]
EnvClients == {"none", "open", "pooled", "closed", "lost"}

\* The types, with the whole record of a request.
EnvTypeInv ==
  /\ file \subseteq Tokens /\ settings \subseteq Tokens
  /\ pool \in Seq(EnvAccount)
  /\ req \in [Reqs -> EnvRequest]
  /\ \A r \in Reqs : req[r].ok \subseteq Asked(r)
  /\ client \in [Reqs -> [Tokens -> EnvClients]]

HasAccount(t) == \E i \in DOMAIN pool : pool[i].token = t

\* What is configured, and what serves, is in the file or the environment.
AccountsKept ==
  /\ settings \subseteq file \cup Environ
  /\ \A i \in DOMAIN pool : pool[i].token \in file \cup Environ

\* No two accounts have one token.
TokensDistinct == \A i, j \in DOMAIN pool : pool[i].token = pool[j].token => i = j

\* What a plan found stays true while its tokens are checked: accounts do not vanish, and the
\* file loses no token.
PlanHolds ==
  \A r \in Reqs : \A t \in DOMAIN req[r].plan :
    /\ req[r].plan[t] \in {"live", "broken"} => HasAccount(t)
    /\ req[r].plan[t] = "untracked" => t \in file \cup Environ

EnvInv == EnvTypeInv /\ AccountsKept /\ TokensDistinct /\ PlanHolds

-------------------------------------------------------------------------------
(* Sequences of accounts *)

\* A list of the elements of a finite set is a sequence.
LEMMA PoolListed ==
  ASSUME NEW S, IsFiniteSet(S), NEW s \in [1 .. Cardinality(S) -> S]
  PROVE  s \in Seq(S) /\ DOMAIN s = 1 .. Len(s) /\ Len(s) = Cardinality(S)
<1>1. Cardinality(S) \in Nat
  BY FS_CardinalityType
<1> QED
  BY <1>1

\* Two sequences of accounts, one after the other.
LEMMA PoolJoined ==
  ASSUME NEW a \in Seq(EnvAccount), NEW b \in Seq(EnvAccount)
  PROVE  /\ a \o b \in Seq(EnvAccount)
         /\ DOMAIN (a \o b) = 1 .. Len(a) + Len(b)
         /\ \A i \in DOMAIN a : i \in DOMAIN (a \o b) /\ (a \o b)[i] = a[i]
         /\ \A i \in DOMAIN (a \o b) : i \notin DOMAIN a => i - Len(a) \in DOMAIN b /\ (a \o b)[i] = b[i - Len(a)]
  OBVIOUS

-------------------------------------------------------------------------------
(* Every step preserves the invariant *)

\* The accounts of a token, as the plan looks for them.
LEMMA AccountsListed == \A t : AccountsOf(t) # {} <=> HasAccount(t)
  BY DEF AccountsOf, HasAccount

\* A request without a plan.
LEMMA EnvPlans ==
  /\ New \in EnvRequest /\ DOMAIN New.plan = {} /\ New.ok = {}
  /\ [New EXCEPT !.pc = "over"] \in EnvRequest
  /\ DOMAIN [New EXCEPT !.pc = "over"].plan = {} /\ [New EXCEPT !.pc = "over"].ok = {}
<1>1. <<>> \in [{} -> PlanStates] /\ DOMAIN <<>> = {}
  OBVIOUS
<1>2. <<>> \in UNION {[S -> PlanStates] : S \in SUBSET Tokens}
  BY <1>1
<1>3. New \in EnvRequest /\ DOMAIN New.plan = {} /\ New.ok = {}
  BY <1>1, <1>2 DEF New, EnvRequest
<1>4. /\ [New EXCEPT !.pc = "over"] \in EnvRequest
      /\ [New EXCEPT !.pc = "over"].plan = New.plan /\ [New EXCEPT !.pc = "over"].ok = New.ok
  <2> SUFFICES ASSUME NEW q \in EnvRequest
               PROVE  /\ [q EXCEPT !.pc = "over"] \in EnvRequest
                      /\ [q EXCEPT !.pc = "over"].plan = q.plan /\ [q EXCEPT !.pc = "over"].ok = q.ok
    BY <1>3
  <2> QED
    BY DEF EnvRequest
<1> QED
  BY <1>3, <1>4

\* The pools and the file of the start are those of the settings.
LEMMA EnvInitially == EnvInit => EnvInv
<1> SUFFICES ASSUME EnvInit PROVE EnvInv
  OBVIOUS
<1>1. AtStart \subseteq Tokens /\ Environ \subseteq Tokens
  BY EnvAssumption DEF Loaded, Tokens
<1>2. IsFiniteSet(AtStart)
  BY <1>1, FS_Subset, EnvAssumption
<1>3. PICK s \in [1 .. Cardinality(AtStart) -> AtStart] :
        /\ \A i, j \in DOMAIN s : s[i] = s[j] => i = j
        /\ pool = [i \in DOMAIN s |-> [token |-> s[i], broken |-> FALSE]]
  BY DEF EnvInit
<1>4. DOMAIN s = 1 .. Len(s) /\ Len(s) \in Nat
  BY <1>2, PoolListed
<1>5. \A i \in DOMAIN s : [token |-> s[i], broken |-> FALSE] \in EnvAccount
  BY <1>1 DEF EnvAccount
<1>6. pool \in Seq(EnvAccount) /\ DOMAIN pool = DOMAIN s /\ \A i \in DOMAIN pool : pool[i].token = s[i]
  BY <1>3, <1>4, <1>5
<1>7. TokensDistinct
  BY <1>3, <1>6 DEF TokensDistinct
<1>8. AccountsKept
  BY <1>6, EnvAssumption DEF AccountsKept, EnvInit, Loaded
<1>9. New \in EnvRequest /\ DOMAIN New.plan = {} /\ New.ok = {}
  BY EnvPlans
<1>10. \A r \in Reqs : req[r] = New
  BY DEF EnvInit
<1>11. EnvTypeInv
  BY <1>1, <1>6, <1>9, EnvAssumption DEF EnvTypeInv, EnvInit, EnvClients, Loaded
<1>12. PlanHolds
  BY <1>9, <1>10 DEF PlanHolds
<1> QED
  BY <1>7, <1>8, <1>11, <1>12 DEF EnvInv

\* _plan_tokens: what is found is so.
LEMMA PlanStep ==
  ASSUME EnvInv, NEW r \in Reqs, NEW tokens \in SUBSET Tokens, Plan(r, tokens)
  PROVE  EnvInv'
<1> DEFINE plan == [t \in tokens |-> State(t)]
           new  == [New EXCEPT !.pc = "deepseek", !.plan = plan, !.seen = file]
<1>1. req' = [req EXCEPT ![r] = new] /\ UNCHANGED <<file, settings, pool, client>>
  BY DEF Plan
<1>2. \A t : State(t) \in PlanStates
  BY DEF State, PlanStates
<1>3. plan \in [tokens -> PlanStates]
  BY <1>2
<1>4. plan \in UNION {[S -> PlanStates] : S \in SUBSET Tokens}
  BY <1>3
<1>5. \A t : /\ State(t) \in {"live", "broken"} => HasAccount(t)
             /\ State(t) = "untracked" => t \in file \cup settings
  <2> TAKE t
  <2>1. Broken(t) => AccountsOf(t) # {}
    BY DEF Broken
  <2> QED
    BY <2>1, AccountsListed DEF State
<1>6. new \in EnvRequest /\ new.plan = plan /\ new.ok = {}
  <2> HIDE DEF plan
  <2>1. file \in SUBSET Tokens
    BY DEF EnvInv, EnvTypeInv
  <2>2. ASSUME NEW q \in EnvRequest
        PROVE  LET n == [q EXCEPT !.pc = "deepseek", !.plan = plan, !.seen = file]
               IN  n \in EnvRequest /\ n.plan = plan /\ n.ok = q.ok
    BY <1>4, <2>1 DEF EnvRequest
  <2> QED
    BY <2>2, EnvPlans
<1>7. req' \in [Reqs -> EnvRequest] /\ req'[r] = new /\ \A q \in Reqs : q # r => req'[q] = req[q]
  BY <1>1, <1>6 DEF EnvInv, EnvTypeInv
<1>8. EnvTypeInv'
  BY <1>1, <1>6, <1>7 DEF EnvInv, EnvTypeInv, Asked
<1>9. \A t \in DOMAIN plan : plan[t] = State(t)
  OBVIOUS
<1> HIDE DEF plan
<1>10. PlanHolds'
  <2>1. \A t : HasAccount(t)' <=> HasAccount(t)
    BY <1>1 DEF HasAccount
  <2>2. \A t \in DOMAIN plan : /\ plan[t] \in {"live", "broken"} => HasAccount(t)'
                               /\ plan[t] = "untracked" => t \in file' \cup Environ
    BY <1>1, <1>5, <1>9, <2>1 DEF EnvInv, AccountsKept
  <2>3. ASSUME NEW q \in Reqs, q # r, NEW t \in DOMAIN req'[q].plan
        PROVE  /\ req'[q].plan[t] \in {"live", "broken"} => HasAccount(t)'
               /\ req'[q].plan[t] = "untracked" => t \in file' \cup Environ
    BY <1>1, <1>7, <2>1, <2>3 DEF EnvInv, PlanHolds
  <2>4. req'[r].plan = plan
    BY <1>6, <1>7
  <2> QED
    BY <2>2, <2>3, <2>4 DEF PlanHolds
<1> QED
  BY <1>1, <1>8, <1>10 DEF EnvInv, AccountsKept, TokensDistinct

\* A step that takes nothing from the file, leaves the settings and the tokens of the accounts
\* alone, and no request a plan that it had not.
LEMMA EnvQuiet ==
  ASSUME EnvInv, EnvTypeInv', file \subseteq file', UNCHANGED settings, DOMAIN pool' = DOMAIN pool,
         \A i \in DOMAIN pool : pool'[i].token = pool[i].token,
         \A q \in Reqs : req'[q].plan = req[q].plan \/ DOMAIN req'[q].plan = {}
  PROVE  EnvInv'
<1>1. \A t : HasAccount(t) => HasAccount(t)'
  BY DEF HasAccount
<1>2. PlanHolds'
  <2> SUFFICES ASSUME NEW q \in Reqs, NEW t \in DOMAIN req'[q].plan
               PROVE  /\ req'[q].plan[t] \in {"live", "broken"} => HasAccount(t)'
                      /\ req'[q].plan[t] = "untracked" => t \in file' \cup Environ
    BY DEF PlanHolds
  <2>1. req'[q].plan = req[q].plan
    OBVIOUS
  <2> QED
    BY <1>1, <2>1 DEF EnvInv, PlanHolds
<1>3. AccountsKept' /\ TokensDistinct'
  BY DEF EnvInv, AccountsKept, TokensDistinct
<1> QED
  BY <1>2, <1>3 DEF EnvInv

\* _validated_tokens: tokens pass, clients are made and closed.
LEMMA ValidatedStep ==
  ASSUME EnvInv, NEW r \in Reqs, NEW stage, NEW next \in {"qwen", "merge"}, NEW group, NEW outcome,
         Validated(r, stage, next, group, outcome)
  PROVE  EnvInv'
<1> DEFINE asked  == group \cap Asked(r)
           own    == {t \in asked : req[r].plan[t] # "broken"}
           failed == \E t \in asked : outcome[t] = "error"
           passed == {t \in asked : outcome[t] = "ok"}
<1>1. UNCHANGED <<file, settings, pool>>
  BY DEF Validated
<1>2. passed \subseteq Asked(r) /\ Asked(r) \subseteq DOMAIN req[r].plan
  BY DEF Asked
<1>3. req[r] \in EnvRequest /\ req[r].ok \subseteq DOMAIN req[r].plan /\ DOMAIN req[r].plan \subseteq Tokens
  BY DEF EnvInv, EnvTypeInv, EnvRequest, Asked
<1>4. CASE failed
  <2>1. /\ req' = [req EXCEPT ![r].pc = "over"]
        /\ client' = [client EXCEPT ![r] = [t \in Tokens |->
             IF t \in own THEN "closed" ELSE IF @[t] = "open" THEN "lost" ELSE @[t]]]
    BY <1>4 DEF Validated
  <2>2. [req[r] EXCEPT !.pc = "over"] \in EnvRequest
    BY <1>3 DEF EnvRequest
  <2>3. req' \in [Reqs -> EnvRequest] /\ \A q \in Reqs : req'[q].plan = req[q].plan /\ req'[q].ok = req[q].ok
    BY <2>1, <2>2 DEF EnvInv, EnvTypeInv, EnvRequest
  <2>4. client' \in [Reqs -> [Tokens -> EnvClients]]
    <3>1. client[r] \in [Tokens -> EnvClients]
      BY DEF EnvInv, EnvTypeInv
    <3>2. [t \in Tokens |-> IF t \in own THEN "closed" ELSE IF client[r][t] = "open" THEN "lost" ELSE client[r][t]]
            \in [Tokens -> EnvClients]
      BY <3>1 DEF EnvClients
    <3> QED
      BY <2>1, <3>2 DEF EnvInv, EnvTypeInv
  <2>5. EnvTypeInv'
    BY <1>1, <2>3, <2>4 DEF EnvInv, EnvTypeInv, Asked
  <2> QED
    BY <1>1, <2>3, <2>5, EnvQuiet
<1>5. CASE ~failed
  <2>1. /\ req' = [req EXCEPT ![r].pc = next, ![r].ok = @ \cup passed]
        /\ client' = [client EXCEPT ![r] = [t \in Tokens |->
             IF t \in own THEN (IF t \in passed THEN "open" ELSE "closed") ELSE @[t]]]
    BY <1>5 DEF Validated
  <2> HIDE DEF passed, own
  <2>2. req[r].ok \cup passed \in SUBSET Tokens
    BY <1>2, <1>3
  <2>3. [req[r] EXCEPT !.pc = next, !.ok = req[r].ok \cup passed] \in EnvRequest
    BY <1>3, <2>2 DEF EnvRequest
  <2>4. /\ req' \in [Reqs -> EnvRequest]
        /\ req'[r] = [req[r] EXCEPT !.pc = next, !.ok = req[r].ok \cup passed]
        /\ \A q \in Reqs : q # r => req'[q] = req[q]
    BY <2>1, <2>3 DEF EnvInv, EnvTypeInv
  <2>5. req'[r].plan = req[r].plan /\ req'[r].ok = req[r].ok \cup passed
    BY <1>3, <2>4 DEF EnvRequest
  <2>6. client' \in [Reqs -> [Tokens -> EnvClients]]
    <3>1. client[r] \in [Tokens -> EnvClients]
      BY DEF EnvInv, EnvTypeInv
    <3>2. [t \in Tokens |-> IF t \in own THEN (IF t \in passed THEN "open" ELSE "closed") ELSE client[r][t]]
            \in [Tokens -> EnvClients]
      BY <3>1 DEF EnvClients
    <3> QED
      BY <2>1, <3>2 DEF EnvInv, EnvTypeInv
  <2>7. \A q \in Reqs : req'[q].ok \subseteq Asked(q)'
    <3>1. Asked(r)' = Asked(r) /\ req[r].ok \subseteq Asked(r)
      BY <2>5 DEF Asked, EnvInv, EnvTypeInv
    <3>2. \A q \in Reqs : q # r => Asked(q)' = Asked(q) /\ req[q].ok \subseteq Asked(q)
      BY <2>4 DEF Asked, EnvInv, EnvTypeInv
    <3>3. req'[r].ok \subseteq Asked(r)'
      BY <1>2, <2>5, <3>1
    <3>4. \A q \in Reqs : q # r => req'[q].ok \subseteq Asked(q)'
      BY <2>4, <3>2
    <3> QED
      BY <3>3, <3>4
  <2>8. EnvTypeInv'
    BY <1>1, <1>2, <1>3, <2>4, <2>5, <2>6, <2>7 DEF EnvInv, EnvTypeInv
  <2> QED
    BY <1>1, <2>4, <2>5, <2>8, EnvQuiet
<1> QED
  BY <1>4, <1>5

\* MergeFails, and accounts that break or are revived.
LEMMA MergeFailsStep ==
  ASSUME EnvInv, NEW r \in Reqs, MergeFails(r)
  PROVE  EnvInv'
<1>1. /\ req' = [req EXCEPT ![r] = [New EXCEPT !.pc = "over"]]
      /\ client' = [client EXCEPT ![r] = [t \in Tokens |-> IF @[t] = "open" THEN "lost" ELSE @[t]]]
      /\ file' \in {file, Merged(r)} /\ UNCHANGED <<settings, pool>>
  BY DEF MergeFails
<1>0. file \subseteq file' /\ file' \subseteq Tokens
  <2>1. req[r].ok \subseteq Tokens
    BY DEF EnvInv, EnvTypeInv, EnvRequest, Asked
  <2> QED
    BY <1>1, <2>1 DEF Merged, EnvInv, EnvTypeInv
<1>2. client[r] \in [Tokens -> EnvClients]
  BY DEF EnvInv, EnvTypeInv
<1>3. [t \in Tokens |-> IF client[r][t] = "open" THEN "lost" ELSE client[r][t]] \in [Tokens -> EnvClients]
  BY <1>2 DEF EnvClients
<1>4. client' \in [Reqs -> [Tokens -> EnvClients]]
  BY <1>1, <1>3 DEF EnvInv, EnvTypeInv
<1>5. /\ req' \in [Reqs -> EnvRequest] /\ \A q \in Reqs : q # r => req'[q] = req[q]
      /\ DOMAIN req'[r].plan = {} /\ req'[r].ok = {}
  BY <1>1, EnvPlans DEF EnvInv, EnvTypeInv
<1>6. EnvTypeInv'
  BY <1>0, <1>1, <1>4, <1>5 DEF EnvInv, EnvTypeInv, Asked
<1> QED
  BY <1>0, <1>1, <1>5, <1>6, EnvQuiet

\* An account that breaks or is revived keeps its token and its place.
LEMMA HealthStep ==
  ASSUME EnvInv, NEW i \in DOMAIN pool, Breaks(i) \/ Revived(i)
  PROVE  EnvInv'
<1>1. PICK b \in BOOLEAN : pool' = [pool EXCEPT ![i].broken = b]
  BY DEF Breaks, Revived
<1>2. UNCHANGED <<file, settings, req, client>>
  BY DEF Breaks, Revived
<1>3. pool \in Seq(EnvAccount) /\ pool[i] \in EnvAccount
  BY DEF EnvInv, EnvTypeInv
<1>4. [pool[i] EXCEPT !.broken = b] \in EnvAccount /\ [pool[i] EXCEPT !.broken = b].token = pool[i].token
  BY <1>3 DEF EnvAccount
<1>5. pool' \in Seq(EnvAccount) /\ DOMAIN pool' = DOMAIN pool /\ \A j \in DOMAIN pool : pool'[j].token = pool[j].token
  BY <1>1, <1>3, <1>4
<1>6. EnvTypeInv'
  BY <1>2, <1>5 DEF EnvInv, EnvTypeInv, Asked
<1> QED
  BY <1>2, <1>5, <1>6, EnvQuiet

\* The pools after a merge: the accounts that there were, at their places, and one for each token
\* that had none.
LEMMA ApplyFacts ==
  ASSUME EnvInv, NEW r \in Reqs, Apply(r)
  PROVE  /\ pool' \in Seq(EnvAccount)
         /\ \A i \in DOMAIN pool : i \in DOMAIN pool' /\ pool'[i].token = pool[i].token
         /\ \A i \in DOMAIN pool' : i \notin DOMAIN pool => pool'[i].token \in Fresh(r)
         /\ \A i, j \in DOMAIN pool' :
              i \notin DOMAIN pool /\ j \notin DOMAIN pool /\ pool'[i].token = pool'[j].token => i = j
         /\ client' \in [Reqs -> [Tokens -> EnvClients]]
<1> DEFINE revived == {t \in req[r].ok \ Fresh(r) : Broken(t)}
           mend(i) == [pool[i] EXCEPT !.broken = @ /\ pool[i].token \notin revived]
           mended  == [i \in DOMAIN pool |-> mend(i)]
<1>1. PICK s \in [1 .. Cardinality(Fresh(r)) -> Fresh(r)] :
        /\ \A i, j \in DOMAIN s : s[i] = s[j] => i = j
        /\ pool' = mended \o [i \in DOMAIN s |-> [token |-> s[i], broken |-> FALSE]]
  BY DEF Apply
<1>2. Fresh(r) \subseteq Tokens /\ IsFiniteSet(Fresh(r))
  <2>1. Fresh(r) \subseteq Tokens
    BY DEF Fresh, EnvInv, EnvTypeInv, EnvRequest
  <2> QED
    BY <2>1, FS_Subset, EnvAssumption
<1>3. DOMAIN s = 1 .. Len(s) /\ Len(s) \in Nat
  BY <1>2, PoolListed
<1> DEFINE added == [i \in DOMAIN s |-> [token |-> s[i], broken |-> FALSE]]
<1>4. \A i \in DOMAIN s : [token |-> s[i], broken |-> FALSE] \in EnvAccount
  BY <1>2 DEF EnvAccount
<1>5. added \in Seq(EnvAccount) /\ DOMAIN added = DOMAIN s /\ \A i \in DOMAIN s : added[i].token = s[i]
  BY <1>3, <1>4
<1>6. pool \in Seq(EnvAccount) /\ DOMAIN pool = 1 .. Len(pool) /\ Len(pool) \in Nat
  BY DEF EnvInv, EnvTypeInv
<1>7. \A i \in DOMAIN pool : mend(i) \in EnvAccount /\ mend(i).token = pool[i].token
  <2> SUFFICES ASSUME NEW i \in DOMAIN pool, NEW b \in BOOLEAN
               PROVE  [pool[i] EXCEPT !.broken = b] \in EnvAccount /\ [pool[i] EXCEPT !.broken = b].token = pool[i].token
    BY Zenon
  <2>1. pool[i] \in EnvAccount
    BY <1>6
  <2> QED
    BY <2>1 DEF EnvAccount
<1> HIDE DEF mend
<1>8. mended \in Seq(EnvAccount) /\ DOMAIN mended = DOMAIN pool /\ Len(mended) = Len(pool)
  BY <1>6, <1>7
<1>9. \A i \in DOMAIN pool : mended[i].token = pool[i].token
  BY <1>7
<1> HIDE DEF mended, added
<1>10. /\ pool' \in Seq(EnvAccount)
       /\ \A i \in DOMAIN pool : i \in DOMAIN pool' /\ pool'[i].token = pool[i].token
       /\ \A i \in DOMAIN pool' : i \notin DOMAIN pool =>
            i - Len(pool) \in DOMAIN s /\ i \in Int /\ pool'[i].token = s[i - Len(pool)]
  <2>1. pool' = mended \o added
    BY <1>1 DEF added, mended, mend
  <2>2. pool' \in Seq(EnvAccount) /\ DOMAIN pool' = 1 .. Len(mended) + Len(added)
    BY <1>5, <1>8, <2>1, PoolJoined
  <2>3. \A i \in DOMAIN mended : i \in DOMAIN pool' /\ pool'[i] = mended[i]
    BY <1>5, <1>8, <2>1, PoolJoined
  <2>4. \A i \in DOMAIN pool' : i \notin DOMAIN mended => i - Len(mended) \in DOMAIN added /\ pool'[i] = added[i - Len(mended)]
    <3>1. mended \in Seq(EnvAccount) /\ added \in Seq(EnvAccount)
      BY <1>5, <1>8
    <3>2. \A i \in DOMAIN (mended \o added) : i \notin DOMAIN mended =>
            i - Len(mended) \in DOMAIN added /\ (mended \o added)[i] = added[i - Len(mended)]
      BY <3>1, PoolJoined
    <3> QED
      BY <2>1, <3>2, Zenon
  <2>5. \A i \in DOMAIN pool' : i \in Int
    BY <2>2
  <2>6. \A i \in DOMAIN pool : i \in DOMAIN pool' /\ pool'[i].token = pool[i].token
    BY <1>8, <1>9, <2>3
  <2>7. \A i \in DOMAIN pool' : i \notin DOMAIN pool =>
          i - Len(pool) \in DOMAIN s /\ i \in Int /\ pool'[i].token = s[i - Len(pool)]
    BY <1>5, <1>8, <2>4, <2>5
  <2> QED
    BY <2>2, <2>6, <2>7
<1>11. \A i \in DOMAIN pool' : i \notin DOMAIN pool => pool'[i].token \in Fresh(r)
  BY <1>10
<1>12. \A i, j \in DOMAIN pool' :
         i \notin DOMAIN pool /\ j \notin DOMAIN pool /\ pool'[i].token = pool'[j].token => i = j
  <2> SUFFICES ASSUME NEW i \in DOMAIN pool', NEW j \in DOMAIN pool',
                      i \notin DOMAIN pool, j \notin DOMAIN pool, pool'[i].token = pool'[j].token
               PROVE  i = j
    OBVIOUS
  <2>1. i - Len(pool) = j - Len(pool)
    BY <1>1, <1>10
  <2> QED
    BY <1>6, <1>10, <2>1
<1>13. client' \in [Reqs -> [Tokens -> EnvClients]]
  <2>1. client' = [client EXCEPT ![r] = [t \in Tokens |->
          CASE @[t] # "open" -> @[t]
            [] t \in Fresh(r) -> "pooled"
            [] t \in revived -> "lost"
            [] OTHER -> "closed"]]
    BY DEF Apply, revived
  <2>2. client[r] \in [Tokens -> EnvClients]
    BY DEF EnvInv, EnvTypeInv
  <2>3. revived \cap Fresh(r) = {}
    BY DEF revived
  <2>4. ASSUME NEW t \in Tokens
        PROVE  (CASE client[r][t] # "open" -> client[r][t]
                  [] t \in Fresh(r) -> "pooled"
                  [] t \in revived -> "lost"
                  [] OTHER -> "closed") \in EnvClients
    BY <2>2, <2>3 DEF EnvClients
  <2>5. [t \in Tokens |->
          CASE client[r][t] # "open" -> client[r][t]
            [] t \in Fresh(r) -> "pooled"
            [] t \in revived -> "lost"
            [] OTHER -> "closed"] \in [Tokens -> EnvClients]
    BY <2>4
  <2> QED
    BY <2>1, <2>5 DEF EnvInv, EnvTypeInv
<1> QED
  BY <1>10, <1>11, <1>12, <1>13

\* The merge: a token that gets an account is new and written to the file now, or was configured
\* when it was planned and still is; its account is the first.
LEMMA MergeStep ==
  ASSUME EnvInv, NEW r \in Reqs, Merge(r)
  PROVE  EnvInv'
<1>1. /\ file' = Merged(r) /\ settings' = (IF Merged(r) = file THEN settings ELSE Merged(r))
      /\ Apply(r) /\ req' = [req EXCEPT ![r] = [New EXCEPT !.pc = "over"]]
  BY DEF Merge
<1>2. req[r] \in EnvRequest /\ req[r].ok \subseteq DOMAIN req[r].plan /\ req[r].ok \subseteq Tokens
  BY DEF EnvInv, EnvTypeInv, EnvRequest, Asked
<1>3. file \subseteq file' /\ file' \subseteq Tokens
  BY <1>1, <1>2 DEF Merged, EnvInv, EnvTypeInv
<1>4. settings' \subseteq file' \cup Environ /\ settings' \subseteq Tokens
  BY <1>1, <1>3 DEF EnvInv, AccountsKept, EnvTypeInv
<1>5. \A i \in DOMAIN pool : i \in DOMAIN pool' /\ pool'[i].token = pool[i].token
  BY <1>1, ApplyFacts
<1>6. \A i \in DOMAIN pool' : i \notin DOMAIN pool => pool'[i].token \in Fresh(r)
  BY <1>1, ApplyFacts
<1>7. \A t \in Fresh(r) : ~HasAccount(t) /\ t \in file' \cup Environ
  <2> SUFFICES ASSUME NEW t \in Fresh(r)
               PROVE  ~HasAccount(t) /\ t \in file' \cup Environ
    OBVIOUS
  <2>1. ~HasAccount(t) /\ t \in req[r].ok
    BY AccountsListed DEF Fresh
  <2>2. req[r].plan[t] \in PlanStates
    BY <1>2, <2>1 DEF EnvRequest
  <2>3. req[r].plan[t] \in {"untracked", "new"}
    BY <1>2, <2>1, <2>2 DEF PlanStates, EnvInv, PlanHolds
  <2>4. CASE req[r].plan[t] = "untracked"
    BY <1>2, <1>3, <2>1, <2>4 DEF EnvInv, PlanHolds
  <2>5. CASE req[r].plan[t] = "new"
    BY <1>1, <2>1, <2>5 DEF Merged
  <2> QED
    BY <2>1, <2>3, <2>4, <2>5
<1>8. AccountsKept'
  <2>1. \A i \in DOMAIN pool' : pool'[i].token \in file' \cup Environ
    BY <1>3, <1>5, <1>6, <1>7 DEF EnvInv, AccountsKept
  <2> QED
    BY <1>4, <2>1 DEF AccountsKept
<1>9. TokensDistinct'
  <2> SUFFICES ASSUME NEW i \in DOMAIN pool', NEW j \in DOMAIN pool', pool'[i].token = pool'[j].token
               PROVE  i = j
    BY DEF TokensDistinct
  <2>1. CASE i \in DOMAIN pool /\ j \in DOMAIN pool
    BY <1>5, <2>1 DEF EnvInv, TokensDistinct
  <2>2. CASE i \in DOMAIN pool /\ j \notin DOMAIN pool
    BY <1>5, <1>6, <1>7, <2>2 DEF HasAccount
  <2>3. CASE i \notin DOMAIN pool /\ j \in DOMAIN pool
    BY <1>5, <1>6, <1>7, <2>3 DEF HasAccount
  <2>4. CASE i \notin DOMAIN pool /\ j \notin DOMAIN pool
    BY <1>1, <2>4, ApplyFacts
  <2> QED
    BY <2>1, <2>2, <2>3, <2>4
<1>10. /\ req' \in [Reqs -> EnvRequest] /\ \A q \in Reqs : q # r => req'[q] = req[q]
       /\ DOMAIN req'[r].plan = {} /\ req'[r].ok = {}
  BY <1>1, EnvPlans DEF EnvInv, EnvTypeInv
<1>11. PlanHolds'
  <2>1. \A t : HasAccount(t) => HasAccount(t)'
    BY <1>5 DEF HasAccount
  <2> SUFFICES ASSUME NEW q \in Reqs, NEW t \in DOMAIN req'[q].plan
               PROVE  /\ req'[q].plan[t] \in {"live", "broken"} => HasAccount(t)'
                      /\ req'[q].plan[t] = "untracked" => t \in file' \cup Environ
    BY DEF PlanHolds
  <2>2. req'[q] = req[q]
    BY <1>10
  <2> QED
    BY <1>3, <2>1, <2>2 DEF EnvInv, PlanHolds
<1>12. pool' \in Seq(EnvAccount) /\ client' \in [Reqs -> [Tokens -> EnvClients]]
  BY <1>1, ApplyFacts
<1>13. EnvTypeInv'
  BY <1>3, <1>4, <1>10, <1>12 DEF EnvInv, EnvTypeInv, Asked
<1> QED
  BY <1>8, <1>9, <1>11, <1>13 DEF EnvInv

\* Every step keeps the invariant.
LEMMA EnvStep == EnvInv /\ [EnvNext]_envVars => EnvInv'
<1> SUFFICES ASSUME EnvInv, [EnvNext]_envVars PROVE EnvInv'
  OBVIOUS
<1>1. ASSUME NEW r \in Reqs, ReqNext(r) PROVE EnvInv'
  <2>1. \A tokens \in SUBSET Tokens : Plan(r, tokens) => EnvInv'
    BY PlanStep
  <2>2. \A outcome : Validated(r, "deepseek", "qwen", Deepseek, outcome) => EnvInv'
    BY ValidatedStep
  <2>3. \A outcome : Validated(r, "qwen", "merge", Qwen, outcome) => EnvInv'
    BY ValidatedStep
  <2>4. Merge(r) \/ MergeFails(r) => EnvInv'
    BY MergeStep, MergeFailsStep
  <2> QED
    BY <1>1, <2>1, <2>2, <2>3, <2>4 DEF ReqNext
<1>2. ASSUME NEW i \in DOMAIN pool, Breaks(i) \/ Revived(i) PROVE EnvInv'
  BY <1>2, HealthStep
<1>3. CASE UNCHANGED envVars
  BY <1>3 DEF envVars, EnvInv, EnvTypeInv, AccountsKept, TokensDistinct, PlanHolds, HasAccount, Asked
<1> QED
  BY <1>1, <1>2, <1>3 DEF EnvNext

-------------------------------------------------------------------------------
(* The theorems *)

\* The inductive invariant holds in every state, whatever requests overlap.
THEOREM EnvInvariance == EnvSpec => []EnvInv
<1>1. EnvInit => EnvInv
  BY EnvInitially
<1>2. EnvInv /\ [EnvNext]_envVars => EnvInv'
  BY EnvStep
<1> QED
  BY <1>1, <1>2, PTL DEF EnvSpec

\* Requests, pools, the file and the clients keep their types.
THEOREM EnvTypeCorrect == EnvSpec => []EnvTypeOK
<1>1. EnvInv => EnvTypeOK
  BY DEF EnvInv, EnvTypeInv, EnvTypeOK, EnvRequest, PlanStates, EnvClients, EnvAccount, Asked
<1> QED
  BY <1>1, EnvInvariance, PTL

\* The token of an account that serves is not lost, although requests that merge at the same
\* time replace the file: the next start loads it, or, where a variable of the environment
\* shadows the file's variable of its provider, finds it in the file at least (_merge, config.py).
THEOREM TokensAreKept == EnvSpec => []AccountsAreKept
<1>1. EnvInv => AccountsAreKept
  BY DEF EnvInv, AccountsKept, AccountsAreKept, Loaded
<1> QED
  BY <1>1, EnvInvariance, PTL

\* However many requests bring a token while it is checked, its pool has one account of it
\* (_account_decision looks again under the lock).
THEOREM TokensHaveOneAccount == EnvSpec => []OneAccountPerToken
<1>1. ASSUME EnvInv, NEW t PROVE Cardinality(AccountsOf(t)) <= 1
  <2>1. CASE AccountsOf(t) = {}
    BY <2>1, FS_EmptySet
  <2>2. CASE AccountsOf(t) # {}
    <3>1. PICK i : i \in AccountsOf(t)
      BY <2>2
    <3>2. AccountsOf(t) = {i}
      BY <1>1, <3>1 DEF AccountsOf, EnvInv, TokensDistinct
    <3> QED
      BY <3>2, FS_Singleton
  <2> QED
    BY <2>1, <2>2
<1>2. EnvInv => OneAccountPerToken
  BY <1>1 DEF OneAccountPerToken
<1> QED
  BY <1>2, EnvInvariance, PTL

-------------------------------------------------------------------------------
(* GigaChatToken *)

TokenPlaces == {"idle", "waiting", "fetching", "sending", "backoff", "over"}
TokenResults == Errors \cup {"none", "answered", "cancelled"}

\* The types, with the rejected tokens as a sequence.
TokenTypeInv ==
  /\ token \in 0 .. MaxTokens /\ issued \in 0 .. MaxTokens /\ revoked \subseteq AccessTokens
  /\ expired \in BOOLEAN /\ deferred \in Errors \cup {"none"} /\ holder \in Requests \cup {None}
  /\ pc \in [Requests -> TokenPlaces]
  /\ using \in [Requests -> 0 .. MaxTokens] /\ refused \in [Requests -> Seq(AccessTokens)]
  /\ retries \in [Requests -> 0 .. MaxRetries] /\ result \in [Requests -> TokenResults]

\* The lock is held by the request that fetches, and only while there is nothing to use.
TokenLockInv ==
  \A r \in Requests : (pc[r] = "fetching" <=> holder = r) /\ (pc[r] = "fetching" => ~Cached(token) /\ deferred = "none")

\* Nothing is used or was rejected that was not issued.
IssuedInv ==
  /\ token <= issued
  /\ \A r \in Requests : using[r] <= issued
  /\ \A r \in Requests : \A i \in DOMAIN refused[r] : refused[r][i] <= issued

\* After its first rejection a request finds only tokens that were issued later; the second
\* ends it.
RefusedInv ==
  \A r \in Requests :
    /\ Len(refused[r]) \in 0 .. 2
    /\ Len(refused[r]) = 2 => pc[r] = "over" /\ refused[r][1] < refused[r][2]
    /\ refused[r] # <<>> => token = 0 \/ refused[r][1] < token
    /\ refused[r] # <<>> /\ pc[r] = "sending" => refused[r][1] < using[r]

TokenInv == TokenTypeInv /\ TokenLockInv /\ IssuedInv /\ RefusedInv

-------------------------------------------------------------------------------
(* _obtain_token *)

\* What r's look for a token comes to: it has tok and sends, has the error, fetches under the
\* lock, or waits for it.
Looks(r, tok) ==
  /\ \/ /\ Cached(tok) /\ pc' = [pc EXCEPT ![r] = "sending"] /\ using' = [using EXCEPT ![r] = tok]
        /\ UNCHANGED <<holder, result>>
     \/ /\ pc' = [pc EXCEPT ![r] = "over"] /\ \E error \in Errors : result' = [result EXCEPT ![r] = error]
        /\ UNCHANGED <<holder, using>>
     \/ /\ ~Cached(tok) /\ deferred = "none" /\ holder = None
        /\ pc' = [pc EXCEPT ![r] = "fetching"] /\ holder' = r /\ UNCHANGED <<using, result>>
     \/ pc' = [pc EXCEPT ![r] = "waiting"] /\ UNCHANGED <<holder, using, result>>

\* Both looks, the one without the lock and the one with it, come to that.
LEMMA ServedLooks ==
  ASSUME TokenTypeInv, NEW r \in Requests, NEW tok, Served(r, tok), UNCHANGED holder
  PROVE  Looks(r, tok)
<1>1. deferred # "none" => deferred \in Errors
  BY DEF TokenTypeInv
<1> QED
  BY <1>1 DEF Served, Ends, Looks

\* A request that looks for a token uses the cached one, waits, or takes the lock to fetch.
LEMMA ObtainLooks ==
  ASSUME TokenTypeInv, NEW r \in Requests, NEW tok, Obtain(r, tok)
  PROVE  Looks(r, tok)
<1>1. CASE Served(r, tok) /\ UNCHANGED holder
  BY <1>1, ServedLooks
<1>2. CASE ~(Served(r, tok) /\ UNCHANGED holder)
  BY <1>2 DEF Obtain, Looks
<1> QED
  BY <1>1, <1>2

\* A waiter that is handed the lock looks again before it fetches.
LEMMA WokenLooks ==
  ASSUME TokenTypeInv, NEW r \in Requests, holder = None, Woken(r)
  PROVE  Looks(r, token)
<1>1. CASE Served(r, token) /\ UNCHANGED holder
  BY <1>1, ServedLooks
<1>2. CASE ~(Served(r, token) /\ UNCHANGED holder)
  BY <1>2 DEF Woken, Looks
<1> QED
  BY <1>1, <1>2

\* The look keeps the invariant, with the token at hand or, after a rejection, with none.
LEMMA LooksKeeps ==
  ASSUME TokenInv, NEW r \in Requests, pc[r] # "fetching", NEW tok, Looks(r, tok),
         \/ tok = token /\ UNCHANGED <<token, expired, refused>> /\ Len(refused[r]) < 2
         \/ /\ tok = 0 /\ token' = 0 /\ expired' = FALSE
            /\ refused[r] = <<>> /\ using[r] \in AccessTokens /\ refused' = [refused EXCEPT ![r] = Append(@, using[r])],
         UNCHANGED <<deferred, issued, revoked, retries>>
  PROVE  TokenInv'
<1> USE DEF TokenInv
<1>1. tok \in 0 .. MaxTokens /\ tok <= issued
  BY TokenAssumption DEF TokenTypeInv, IssuedInv
<1>2. pc' \in [Requests -> TokenPlaces] /\ \A q \in Requests : q # r => pc'[q] = pc[q]
  BY DEF Looks, TokenTypeInv, TokenPlaces
<1>3. using' \in [Requests -> 0 .. MaxTokens] /\ \A q \in Requests : q # r => using'[q] = using[q]
  BY <1>1 DEF Looks, TokenTypeInv
<1>4. result' \in [Requests -> TokenResults] /\ holder' \in Requests \cup {None}
  BY DEF Looks, TokenTypeInv, TokenResults
<1>5. refused' \in [Requests -> Seq(AccessTokens)] /\ \A q \in Requests : q # r => refused'[q] = refused[q]
  <2>1. CASE UNCHANGED refused
    BY <2>1 DEF TokenTypeInv
  <2>2. CASE using[r] \in AccessTokens /\ refused' = [refused EXCEPT ![r] = Append(@, using[r])]
    <3>1. Append(refused[r], using[r]) \in Seq(AccessTokens)
      BY <2>2 DEF TokenTypeInv
    <3> QED
      BY <2>2, <3>1 DEF TokenTypeInv
  <2> QED
    BY <2>1, <2>2
<1>6. token' \in 0 .. MaxTokens /\ expired' \in BOOLEAN
  <2>1. token' \in 0 .. MaxTokens
    BY TokenAssumption DEF TokenTypeInv
  <2>2. expired' = expired \/ expired' = FALSE
    OBVIOUS
  <2>3. expired' \in BOOLEAN
    BY <2>2 DEF TokenTypeInv
  <2> QED
    BY <2>1, <2>3
<1>7. TokenTypeInv'
  BY <1>2, <1>3, <1>4, <1>5, <1>6 DEF TokenTypeInv
<1>8. ~Cached(token) => ~Cached(token)'
  BY DEF Cached
<1>9. Cached(0) = FALSE
  BY DEF Cached
<1>10. TokenLockInv'
  <2> SUFFICES ASSUME NEW q \in Requests
               PROVE  /\ pc'[q] = "fetching" <=> holder' = q
                      /\ pc'[q] = "fetching" => ~Cached(token)' /\ deferred' = "none"
    BY DEF TokenLockInv
  <2>1. holder # r
    BY DEF TokenLockInv
  <2>2. CASE pc'[r] = "fetching"
    <3>1. ~Cached(tok) /\ deferred = "none" /\ holder = None /\ holder' = r
      BY <2>2 DEF Looks, TokenTypeInv
    <3>2. ~Cached(token)'
      BY <3>1 DEF Cached
    <3>3. \A p \in Requests : pc[p] # "fetching"
      BY <3>1, TokenAssumption DEF TokenLockInv
    <3> QED
      BY <1>2, <2>2, <3>1, <3>2, <3>3
  <2>3. CASE pc'[r] # "fetching"
    <3>1. holder' = holder
      BY <2>3 DEF Looks, TokenTypeInv
    <3> QED
      BY <1>2, <1>8, <2>1, <2>3, <3>1 DEF TokenLockInv
  <2> QED
    BY <2>2, <2>3
<1>11. using'[r] <= issued
  BY <1>1 DEF Looks, TokenTypeInv, IssuedInv
<1>12. IssuedInv'
  <2>1. token' <= issued'
    BY DEF IssuedInv, TokenTypeInv
  <2>2. \A i \in DOMAIN refused'[r] : refused'[r][i] <= issued
    <3>1. CASE UNCHANGED refused
      BY <3>1 DEF IssuedInv
    <3>2. CASE refused[r] = <<>> /\ refused' = [refused EXCEPT ![r] = Append(@, using[r])]
      <4>1. refused'[r] = <<using[r]>>
        BY <3>2 DEF TokenTypeInv
      <4> QED
        BY <4>1 DEF IssuedInv
    <3> QED
      BY <3>1, <3>2
  <2> QED
    BY <1>3, <1>5, <1>11, <2>1, <2>2 DEF IssuedInv
<1>13. RefusedInv'
  <2> SUFFICES ASSUME NEW q \in Requests
               PROVE  /\ Len(refused'[q]) \in 0 .. 2
                      /\ Len(refused'[q]) = 2 => pc'[q] = "over" /\ refused'[q][1] < refused'[q][2]
                      /\ refused'[q] # <<>> => token' = 0 \/ refused'[q][1] < token'
                      /\ refused'[q] # <<>> /\ pc'[q] = "sending" => refused'[q][1] < using'[q]
    BY DEF RefusedInv
  <2>1. CASE q # r
    BY <1>2, <1>3, <1>5, <2>1 DEF RefusedInv
  <2>2. CASE q = r /\ UNCHANGED <<token, refused>> /\ tok = token /\ Len(refused[r]) < 2
    <3>1. pc'[r] = "sending" => token # 0 /\ using'[r] = token
      BY <2>2 DEF Looks, TokenTypeInv, Cached
    <3> QED
      BY <2>2, <3>1 DEF RefusedInv
  <2>3. CASE q = r /\ tok = 0 /\ token' = 0 /\ refused[r] = <<>> /\ refused' = [refused EXCEPT ![r] = Append(@, using[r])]
    <3>1. refused'[r] = <<using[r]>>
      BY <2>3 DEF TokenTypeInv
    <3>2. pc'[r] # "sending"
      BY <1>9, <2>3 DEF Looks, TokenTypeInv
    <3> QED
      BY <2>3, <3>1, <3>2
  <2> QED
    BY <2>1, <2>2, <2>3
<1> QED
  BY <1>7, <1>10, <1>12, <1>13

-------------------------------------------------------------------------------
(* The ends of a request, and the other steps *)

\* A request that ends releases the lock, if it holds it; its refusal is remembered, or the
\* second rejection recorded.
LEMMA TokenEndKeeps ==
  ASSUME TokenInv, NEW r \in Requests, pc[r] # "over", NEW how \in TokenResults, Ends(r, how),
         holder' = IF holder = r THEN None ELSE holder,
         \/ UNCHANGED cache
         \/ pc[r] = "fetching" /\ token' = 0 /\ expired' = FALSE /\ deferred' \in Errors,
         \/ UNCHANGED refused
         \/ /\ pc[r] = "sending" /\ refused[r] # <<>> /\ using[r] \in AccessTokens
            /\ refused' = [refused EXCEPT ![r] = Append(@, using[r])],
         UNCHANGED <<issued, revoked, using, retries>>
  PROVE  TokenInv'
<1> USE DEF TokenInv
<1>1. pc' \in [Requests -> TokenPlaces] /\ pc'[r] = "over" /\ \A q \in Requests : q # r => pc'[q] = pc[q]
  BY DEF Ends, TokenTypeInv, TokenPlaces
<1>2. result' \in [Requests -> TokenResults] /\ holder' \in Requests \cup {None}
  BY DEF Ends, TokenTypeInv
<1>3. refused' \in [Requests -> Seq(AccessTokens)] /\ \A q \in Requests : q # r => refused'[q] = refused[q]
  <2>1. CASE UNCHANGED refused
    BY <2>1 DEF TokenTypeInv
  <2>2. CASE using[r] \in AccessTokens /\ refused' = [refused EXCEPT ![r] = Append(@, using[r])]
    <3>1. Append(refused[r], using[r]) \in Seq(AccessTokens)
      BY <2>2 DEF TokenTypeInv
    <3> QED
      BY <2>2, <3>1 DEF TokenTypeInv
  <2> QED
    BY <2>1, <2>2
<1>4. token' \in 0 .. MaxTokens /\ (token' = token \/ token' = 0) /\ deferred' \in Errors \cup {"none"}
  BY TokenAssumption DEF TokenTypeInv, cache
<1>5. expired' \in BOOLEAN
  <2>1. expired' = expired \/ expired' = FALSE
    BY DEF cache
  <2> QED
    BY <2>1 DEF TokenTypeInv
<1>6. TokenTypeInv'
  BY <1>1, <1>2, <1>3, <1>4, <1>5 DEF TokenTypeInv
<1>7. TokenLockInv'
  <2> SUFFICES ASSUME NEW q \in Requests
               PROVE  /\ pc'[q] = "fetching" <=> holder' = q
                      /\ pc'[q] = "fetching" => ~Cached(token)' /\ deferred' = "none"
    BY DEF TokenLockInv
  <2>1. CASE q = r
    BY <1>1, <2>1, TokenAssumption
  <2>2. CASE q # r
    <3>1. pc'[q] = "fetching" <=> holder' = q
      BY <1>1, <2>2, TokenAssumption DEF TokenLockInv
    <3>2. ASSUME pc'[q] = "fetching" PROVE ~Cached(token)' /\ deferred' = "none"
      <4>1. pc[q] = "fetching" /\ pc[r] # "fetching"
        BY <1>1, <2>2, <3>2 DEF TokenLockInv
      <4>2. UNCHANGED cache
        BY <4>1
      <4> QED
        BY <4>1, <4>2 DEF TokenLockInv, Cached, cache
    <3> QED
      BY <3>1, <3>2
  <2> QED
    BY <2>1, <2>2
<1>8. ASSUME ~UNCHANGED refused
      PROVE  /\ Len(refused[r]) = 1 /\ refused'[r] \in Seq(AccessTokens) /\ Len(refused'[r]) = 2
             /\ refused'[r][1] = refused[r][1] /\ refused'[r][2] = using[r]
             /\ refused[r][1] < using[r]
  <2>1. Len(refused[r]) = 1 /\ refused[r][1] < using[r] /\ refused[r] \in Seq(AccessTokens)
    BY <1>8 DEF RefusedInv, TokenTypeInv
  <2>2. refused'[r] = Append(refused[r], using[r]) /\ using[r] \in AccessTokens
    BY <1>8 DEF TokenTypeInv
  <2> QED
    BY <2>1, <2>2
<1>9. IssuedInv'
  <2>1. \A i \in DOMAIN refused'[r] : refused'[r][i] <= issued
    <3>1. CASE UNCHANGED refused
      BY <3>1 DEF IssuedInv
    <3>2. CASE ~UNCHANGED refused
      <4>1. DOMAIN refused'[r] = {1, 2} /\ DOMAIN refused[r] = {1}
        BY <1>8, <3>2 DEF TokenTypeInv
      <4> QED
        BY <1>8, <3>2, <4>1 DEF IssuedInv
    <3> QED
      BY <3>1, <3>2
  <2>2. token' <= issued
    BY <1>4 DEF IssuedInv, TokenTypeInv
  <2> QED
    BY <1>3, <2>1, <2>2 DEF IssuedInv
<1>10. RefusedInv'
  <2> SUFFICES ASSUME NEW q \in Requests
               PROVE  /\ Len(refused'[q]) \in 0 .. 2
                      /\ Len(refused'[q]) = 2 => pc'[q] = "over" /\ refused'[q][1] < refused'[q][2]
                      /\ refused'[q] # <<>> => token' = 0 \/ refused'[q][1] < token'
                      /\ refused'[q] # <<>> /\ pc'[q] = "sending" => refused'[q][1] < using'[q]
    BY DEF RefusedInv
  <2>1. CASE q # r \/ UNCHANGED refused
    BY <1>1, <1>3, <1>4, <2>1 DEF RefusedInv
  <2>2. CASE q = r /\ ~UNCHANGED refused
    <3>1. refused[r] # <<>> /\ (token' = 0 \/ refused[r][1] < token')
      <4>1. refused[r] # <<>>
        BY <1>8, <2>2 DEF TokenTypeInv
      <4>2. token = 0 \/ refused[r][1] < token
        BY <4>1 DEF RefusedInv
      <4> QED
        BY <1>4, <4>1, <4>2
    <3> QED
      BY <1>1, <1>8, <2>2, <3>1
  <2> QED
    BY <2>1, <2>2
<1> QED
  BY <1>6, <1>7, <1>9, <1>10

\* A token that is issued is later than all that were rejected.
LEMMA FetchedKeeps ==
  ASSUME TokenInv, NEW r \in Requests, Fetched(r)
  PROVE  TokenInv'
<1> USE DEF TokenInv
<1>1. /\ pc[r] = "fetching" /\ issued < MaxTokens
      /\ issued' = issued + 1 /\ token' = issued + 1 /\ expired' = FALSE /\ deferred' = "none" /\ holder' = None
      /\ using' = [using EXCEPT ![r] = issued + 1] /\ pc' = [pc EXCEPT ![r] = "sending"]
      /\ UNCHANGED <<revoked, refused, retries, result>>
  BY DEF Fetched
<1>2. issued + 1 \in 0 .. MaxTokens
  BY <1>1, TokenAssumption DEF TokenTypeInv
<1>3. TokenTypeInv'
  BY <1>1, <1>2 DEF TokenTypeInv, TokenPlaces
<1>4. TokenLockInv'
  BY <1>1, TokenAssumption DEF TokenLockInv, TokenTypeInv
<1>5. IssuedInv'
  <2>1. \A q \in Requests : using'[q] <= issued'
    BY <1>1, <1>2 DEF IssuedInv, TokenTypeInv
  <2>2. ASSUME NEW q \in Requests, NEW i \in DOMAIN refused[q] PROVE refused[q][i] <= issued'
    <3>1. refused[q][i] <= issued /\ refused[q][i] \in AccessTokens
      BY DEF IssuedInv, TokenTypeInv
    <3> QED
      BY <1>1, <3>1 DEF TokenTypeInv, AccessTokens
  <2> QED
    BY <1>1, <1>2, <2>1, <2>2 DEF IssuedInv
<1>6. RefusedInv'
  <2> SUFFICES ASSUME NEW q \in Requests
               PROVE  /\ Len(refused[q]) \in 0 .. 2
                      /\ Len(refused[q]) = 2 => pc'[q] = "over" /\ refused[q][1] < refused[q][2]
                      /\ refused[q] # <<>> => refused[q][1] < token'
                      /\ refused[q] # <<>> /\ pc'[q] = "sending" => refused[q][1] < using'[q]
    BY <1>1 DEF RefusedInv
  <2>1. refused[q] # <<>> => refused[q][1] < issued + 1
    <3>1. refused[q] # <<>> => 1 \in DOMAIN refused[q] /\ refused[q][1] \in AccessTokens
      BY DEF TokenTypeInv
    <3> QED
      BY <3>1 DEF IssuedInv, TokenTypeInv, AccessTokens
  <2> QED
    BY <1>1, <2>1 DEF RefusedInv, TokenTypeInv
<1> QED
  BY <1>3, <1>4, <1>5, <1>6

\* A request that pauses before it tries again.
LEMMA TokenPauseKeeps ==
  ASSUME TokenInv, NEW r \in Requests, pc[r] = "sending", pc' = [pc EXCEPT ![r] = "backoff"],
         retries' \in [Requests -> 0 .. MaxRetries],
         UNCHANGED <<cache, holder, issued, revoked, using, refused, result>>
  PROVE  TokenInv'
<1> USE DEF TokenInv
<1>1. pc' \in [Requests -> TokenPlaces] /\ \A q \in Requests : q # r => pc'[q] = pc[q]
  BY DEF TokenTypeInv, TokenPlaces
<1>2. TokenTypeInv'
  BY <1>1 DEF TokenTypeInv, cache
<1>3. TokenLockInv'
  <2> SUFFICES ASSUME NEW q \in Requests
               PROVE  /\ pc'[q] = "fetching" <=> holder' = q
                      /\ pc'[q] = "fetching" => ~Cached(token)' /\ deferred' = "none"
    BY DEF TokenLockInv
  <2>1. pc'[q] = "fetching" <=> pc[q] = "fetching"
    BY DEF TokenTypeInv
  <2> QED
    BY <2>1 DEF TokenLockInv, Cached, cache
<1>4. IssuedInv' /\ RefusedInv'
  BY DEF TokenTypeInv, IssuedInv, RefusedInv, cache
<1> QED
  BY <1>2, <1>3, <1>4

\* Time passes, or the server revokes a token.
LEMMA TokenWorldKeeps ==
  ASSUME TokenInv, UNCHANGED <<token, holder, issued, pc, using, refused, retries, result>>,
         expired' = expired \/ expired' = TRUE,
         deferred' = deferred \/ deferred' = "none", revoked' \subseteq AccessTokens
  PROVE  TokenInv'
<1> USE DEF TokenInv
<1>1. TokenTypeInv'
  <2>1. expired' \in BOOLEAN
    BY DEF TokenTypeInv
  <2> QED
    BY <2>1 DEF TokenTypeInv
<1>2. TokenLockInv'
  BY DEF TokenLockInv, Cached
<1>3. IssuedInv' /\ RefusedInv'
  BY DEF IssuedInv, RefusedInv
<1> QED
  BY <1>1, <1>2, <1>3

-------------------------------------------------------------------------------
(* Every step preserves the invariant *)

\* The invariant holds before the first request.
LEMMA TokenInitially == TokenInit => TokenInv
<1> SUFFICES ASSUME TokenInit PROVE TokenInv
  OBVIOUS
<1>1. <<>> \in Seq(AccessTokens) /\ Len(<<>>) = 0 /\ DOMAIN <<>> = {}
  OBVIOUS
<1>2. TokenTypeInv
  <2>1. expired \in BOOLEAN
    BY DEF TokenInit
  <2>2. /\ token \in 0 .. MaxTokens /\ issued \in 0 .. MaxTokens /\ revoked \subseteq AccessTokens
        /\ deferred \in Errors \cup {"none"} /\ holder \in Requests \cup {None}
    BY TokenAssumption DEF TokenInit
  <2>3. pc \in [Requests -> TokenPlaces] /\ using \in [Requests -> 0 .. MaxTokens] /\ result \in [Requests -> TokenResults]
    BY TokenAssumption DEF TokenInit, TokenPlaces, TokenResults
  <2>4. refused \in [Requests -> Seq(AccessTokens)] /\ retries \in [Requests -> 0 .. MaxRetries]
    BY <1>1, TokenAssumption DEF TokenInit
  <2> QED
    BY <2>1, <2>2, <2>3, <2>4 DEF TokenTypeInv
<1>3. TokenLockInv
  BY TokenAssumption DEF TokenInit, TokenLockInv
<1>4. IssuedInv
  BY <1>1 DEF TokenInit, IssuedInv
<1>5. RefusedInv
  BY <1>1 DEF TokenInit, RefusedInv
<1> QED
  BY <1>2, <1>3, <1>4, <1>5 DEF TokenInv

\* an attempt's answer: the request ends, tries again or renews its token
LEMMA TokenAttemptStep ==
  ASSUME TokenInv, NEW r \in Requests, Answered(r) \/ Rejected(r) \/ Retryable(r)
  PROVE  TokenInv'
<1> USE DEF TokenInv
<1>1. pc[r] = "sending" /\ holder # r
  BY DEF Answered, Rejected, Retryable, TokenLockInv
<1>2. "answered" \in TokenResults /\ "auth" \in TokenResults /\ "error" \in TokenResults
  BY DEF TokenResults, Errors
<1>3. CASE Answered(r)
  BY <1>1, <1>2, <1>3, TokenEndKeeps DEF Answered, Ends
<1>4. CASE Rejected(r)
  <2>1. using[r] \in AccessTokens /\ refused' = [refused EXCEPT ![r] = Append(@, using[r])]
    BY <1>4 DEF Rejected, TokenTypeInv
  <2>2. UNCHANGED <<issued, revoked, retries>>
    BY <1>4 DEF Rejected
  <2>3. CASE refused[r] = <<>> /\ Renew(r)
    <3>1. Looks(r, 0) /\ token' = 0 /\ expired' = FALSE /\ UNCHANGED deferred
      BY <2>3, ObtainLooks DEF Renew
    <3> QED
      BY <1>1, <2>1, <2>2, <2>3, <3>1, LooksKeeps
  <2>4. CASE refused[r] # <<>> /\ Ends(r, "auth") /\ UNCHANGED <<cache, holder, using>>
    BY <1>1, <1>2, <2>1, <2>2, <2>4, TokenEndKeeps
  <2> QED
    BY <1>4, <2>3, <2>4 DEF Rejected
<1>5. CASE Retryable(r)
  <2>1. CASE retries[r] < MaxRetries
    <3>1. retries[r] + 1 \in 0 .. MaxRetries
      BY <2>1, TokenAssumption DEF TokenTypeInv
    <3>2. retries' \in [Requests -> 0 .. MaxRetries]
      BY <1>5, <2>1, <3>1 DEF Retryable, MayRetry, TokenTypeInv
    <3> QED
      BY <1>1, <1>5, <2>1, <3>2, TokenPauseKeeps DEF Retryable, MayRetry
  <2>2. CASE ~(retries[r] < MaxRetries)
    BY <1>1, <1>2, <1>5, <2>2, TokenEndKeeps DEF Retryable, MayRetry
  <2> QED
    BY <2>1, <2>2
<1> QED
  BY <1>3, <1>4, <1>5

\* the lock and the authorization endpoint
LEMMA FetchStep ==
  ASSUME TokenInv, NEW r \in Requests,
         Request(r) \/ Wake(r) \/ Fetched(r) \/ Deferred(r) \/ FetchFails(r) \/ Again(r) \/ RequestCancelled(r)
  PROVE  TokenInv'
<1> USE DEF TokenInv
<1>1. Len(refused[r]) = 2 => pc[r] = "over"
  BY DEF RefusedInv
<1>2. Len(refused[r]) = 2 \/ Len(refused[r]) < 2
  <2>1. \A n \in 0 .. 2 : n = 2 \/ n < 2
    OBVIOUS
  <2>2. Len(refused[r]) \in 0 .. 2
    BY DEF RefusedInv
  <2> QED
    BY <2>1, <2>2
<1>3. CASE Request(r) \/ Again(r)
  <2>1. /\ Obtain(r, token) /\ pc[r] \in {"idle", "backoff"}
        /\ UNCHANGED <<token, expired, deferred, issued, revoked, refused, retries>>
    BY <1>3 DEF Request, Again, cache
  <2>2. Looks(r, token)
    BY <2>1, ObtainLooks
  <2>3. Len(refused[r]) < 2
    BY <1>1, <1>2, <2>1
  <2> QED
    BY <2>1, <2>2, <2>3, LooksKeeps
<1>4. CASE Wake(r)
  <2>1. /\ Woken(r) /\ holder = None /\ pc[r] = "waiting"
        /\ UNCHANGED <<token, expired, deferred, issued, revoked, refused, retries>>
    BY <1>4 DEF Wake, cache
  <2>2. Looks(r, token)
    BY <2>1, WokenLooks
  <2>3. Len(refused[r]) < 2
    BY <1>1, <1>2, <2>1
  <2> QED
    BY <2>1, <2>2, <2>3, LooksKeeps
<1>5. CASE Deferred(r)
  <2>1. PICK error \in Errors : deferred' = error /\ Ends(r, error)
    BY <1>5 DEF Deferred
  <2>2. pc[r] = "fetching" /\ holder = r
    BY <1>5 DEF Deferred, TokenLockInv
  <2>3. error \in TokenResults
    BY DEF TokenResults
  <2>4. /\ token' = 0 /\ expired' = FALSE /\ holder' = None
        /\ UNCHANGED <<issued, revoked, using, refused, retries>>
    BY <1>5 DEF Deferred
  <2> QED
    BY <2>1, <2>2, <2>3, <2>4, TokenEndKeeps
<1>6. CASE FetchFails(r)
  <2>1. pc[r] = "fetching" /\ holder = r /\ "error" \in TokenResults
    BY <1>6 DEF FetchFails, TokenLockInv, TokenResults, Errors
  <2>2. /\ Ends(r, "error") /\ holder' = None
        /\ UNCHANGED <<cache, issued, revoked, using, refused, retries>>
    BY <1>6 DEF FetchFails
  <2> QED
    BY <2>1, <2>2, TokenEndKeeps
<1>7. CASE RequestCancelled(r)
  <2>1. pc[r] # "over" /\ "cancelled" \in TokenResults
    BY <1>7 DEF RequestCancelled, TokenResults
  <2>2. /\ Ends(r, "cancelled") /\ holder' = (IF holder = r THEN None ELSE holder)
        /\ UNCHANGED <<cache, issued, revoked, using, refused, retries>>
    BY <1>7 DEF RequestCancelled
  <2> QED
    BY <2>1, <2>2, TokenEndKeeps
<1> QED
  BY <1>3, <1>4, <1>5, <1>6, <1>7, FetchedKeeps

\* Every step keeps the invariant.
LEMMA TokenStep == TokenInv /\ [TokenNext]_tokenVars => TokenInv'
<1> SUFFICES ASSUME TokenInv, [TokenNext]_tokenVars PROVE TokenInv'
  OBVIOUS
<1>1. ASSUME NEW r \in Requests,
             \/ Request(r) \/ Wake(r) \/ Fetched(r) \/ Deferred(r) \/ FetchFails(r) \/ Answered(r)
             \/ Rejected(r) \/ Retryable(r) \/ Again(r) \/ RequestCancelled(r)
      PROVE  TokenInv'
  BY <1>1, TokenAttemptStep, FetchStep
<1>2. revoked \subseteq AccessTokens
  BY DEF TokenInv, TokenTypeInv
<1>3. CASE Expires
  BY <1>2, <1>3, TokenWorldKeeps DEF Expires
<1>4. CASE DeferralEnds
  BY <1>2, <1>4, TokenWorldKeeps DEF DeferralEnds
<1>5. ASSUME NEW t \in AccessTokens, Revokes(t) PROVE TokenInv'
  BY <1>2, <1>5, TokenWorldKeeps DEF Revokes, cache
<1>6. CASE UNCHANGED tokenVars
  BY <1>2, <1>6, TokenWorldKeeps DEF tokenVars
<1> QED
  BY <1>1, <1>3, <1>4, <1>5, <1>6 DEF TokenNext

-------------------------------------------------------------------------------
(* The theorems *)

\* The inductive invariant holds in every state of the client.
THEOREM TokenInvariance == TokenSpec => []TokenInv
<1>1. TokenInit => TokenInv
  BY TokenInitially
<1>2. TokenInv /\ [TokenNext]_tokenVars => TokenInv'
  BY TokenStep
<1> QED
  BY <1>1, <1>2, PTL DEF TokenSpec

\* A sequence of at most two tokens, as TokenTypeOK describes it.
LEMMA AtMostTwo ==
  ASSUME NEW s \in Seq(AccessTokens), Len(s) \in 0 .. 2
  PROVE  s \in UNION {[1 .. n -> AccessTokens] : n \in 0 .. 2}
<1>1. s \in [1 .. Len(s) -> AccessTokens]
  OBVIOUS
<1> QED
  BY <1>1

\* The fields of the client and of its requests keep their types; no request renews its token
\* more than once.
THEOREM TokenTypeCorrect == TokenSpec => []TokenTypeOK
<1>1. ASSUME TokenInv PROVE refused \in [Requests -> UNION {[1 .. n -> AccessTokens] : n \in 0 .. 2}]
  <2>1. \A r \in Requests : refused[r] \in UNION {[1 .. n -> AccessTokens] : n \in 0 .. 2}
    BY <1>1, AtMostTwo DEF TokenInv, TokenTypeInv, RefusedInv
  <2> QED
    BY <1>1, <2>1 DEF TokenInv, TokenTypeInv
<1>2. TokenInv => TokenTypeOK
  BY <1>1 DEF TokenInv, TokenTypeInv, TokenTypeOK, TokenPlaces, TokenResults
<1> QED
  BY <1>2, TokenInvariance, PTL

\* One request at a time fetches a token, and only while there is none to use and no refusal is
\* remembered; an account is given up only over a second token that was issued after the first
\* (_obtain_token, invalidate_token).
THEOREM TokensAreFetchedOnce == TokenSpec => []FetchesOneAtATime
<1>1. TokenInv => FetchesOneAtATime
  BY DEF TokenInv, TokenLockInv, RefusedInv, FetchesOneAtATime
<1> QED
  BY <1>1, TokenInvariance, PTL
=============================================================================
