------------------------------ MODULE PowManager ------------------------------
(***************************************************************************)
(* Proof-of-work headers of one DeepSeek account: PowManager and           *)
(* solve_challenge of pow.py.  make_header hands out a prefetched header   *)
(* or waits for a build, which tasks share; a refill task prefetches the   *)
(* next one.  A build tries the solvers in turn, each on a worker thread;  *)
(* what a thread does after its build was cancelled changes nothing here.  *)
(* A header is named by the build that made it.                            *)
(***************************************************************************)
EXTENDS Naturals, FiniteSets

CONSTANTS
  Callers,     \* tasks inside make_header
  MaxBuilds,   \* bound: tasks of _build
  MaxRefills   \* bound: tasks of _refill_if_empty

ASSUME PowAssumption == MaxBuilds \in Nat /\ MaxRefills \in Nat

VARIABLES
  header,    \* self._header, 0 for None
  building,  \* self._building
  refill,    \* self._refill
  build,     \* by task, where _build is: what it does, or the solver it waits for
  refiller,  \* by task, where _refill_if_empty is and the build it waits for
  caller     \* by task, where make_header is and the build it waits for or got

powVars == <<header, building, refill, build, refiller, caller>>

Builds == 1 .. MaxBuilds
Refills == 1 .. MaxRefills
Solvers == 1 .. 3                  \* solve_native, solve_node, solve_python
Solving(i) == <<"native", "node", "python">>[i]
Running == {"fetching"} \cup {Solving(i) : i \in Solvers}
Ended == {"done", "failed", "cancelled"}
NoWait == [pc |-> "none", on |-> 0]
Task(places) == [pc : places, on : {0}] \cup [pc : {"waiting"}, on : Builds]

\* The fields of the manager, and a build for every task that waits for one and no other.
PowTypeOK ==
  /\ header \in 0 .. MaxBuilds /\ building \in 0 .. MaxBuilds /\ refill \in 0 .. MaxRefills
  /\ build \in [Builds -> {"none"} \cup Running \cup Ended]
  /\ refiller \in [Refills -> Task({"none", "new", "cancelled", "over"})]
  /\ caller \in [Callers -> Task({"none"})]

PowInit ==
  /\ header = 0 /\ building = 0 /\ refill = 0
  /\ build = [b \in Builds |-> "none"]
  /\ refiller = [f \in Refills |-> NoWait]
  /\ caller = [c \in Callers |-> NoWait]

NewBuild(b) == build[b] = "none" /\ \A u \in Builds : u < b => build[u] # "none"
NewRefill(f) == refiller[f].pc = "none" /\ \A u \in Refills : u < f => refiller[u].pc # "none"

-------------------------------------------------------------------------------
(* _ensure_build and _kick_refill *)

\* the first half of _ensure_build: join the running build or start one
Ensure(b) ==
  IF building = 0 \/ build[building] \in Ended
    THEN NewBuild(b) /\ build' = [build EXCEPT ![b] = "fetching"] /\ building' = b
    ELSE b = building /\ UNCHANGED <<build, building>>

\* a faulty Forget: whichever build is under way by now
ForgetAny(b) == building' = 0

\* the second half: the finished build is not handed out again
Forget(b) == building' = IF building = b THEN 0 ELSE building

Kick ==
  IF refill # 0 /\ refiller[refill].pc # "over"
    THEN UNCHANGED <<refill, refiller>>
    ELSE \/ \E f \in Refills :
              /\ NewRefill(f)
              /\ refill' = f
              /\ refiller' = [refiller EXCEPT ![f].pc = "new"]
         \/ /\ \A f \in Refills : ~NewRefill(f)      \* bound
            /\ UNCHANGED <<refill, refiller>>

-------------------------------------------------------------------------------
(* make_header *)

TakePrefetched(c) ==
  /\ caller[c].pc = "none" /\ header # 0
  /\ header' = 0
  /\ Kick
  /\ UNCHANGED <<building, build, caller>>

Await(c) ==
  /\ caller[c].pc = "none" /\ header = 0
  /\ \E b \in Builds : Ensure(b) /\ caller' = [caller EXCEPT ![c] = [pc |-> "waiting", on |-> b]]
  /\ UNCHANGED <<header, refill, refiller>>

Return(c) ==
  /\ caller[c].pc = "waiting" /\ build[caller[c].on] = "done"
  /\ Forget(caller[c].on)
  /\ caller' = [caller EXCEPT ![c] = NoWait]
  /\ Kick
  /\ UNCHANGED <<header, build>>

\* current.result() raises what the build raised, its cancellation included
Raise(c) ==
  /\ caller[c].pc = "waiting" /\ build[caller[c].on] \in {"failed", "cancelled"}
  /\ Forget(caller[c].on)
  /\ caller' = [caller EXCEPT ![c] = NoWait]
  /\ UNCHANGED <<header, refill, build, refiller>>

\* the request is cancelled, the build is not
CallerCancelled(c) ==
  /\ caller[c].pc = "waiting"
  /\ caller' = [caller EXCEPT ![c] = NoWait]
  /\ UNCHANGED <<header, building, refill, build, refiller>>

-------------------------------------------------------------------------------
(* _refill_if_empty *)

\* its finally; self._refill may be another task by then
RefillOver(f) ==
  /\ refiller' = [refiller EXCEPT ![f] = [pc |-> "over", on |-> 0]]
  /\ refill' = 0

RefillStart(f) ==
  /\ refiller[f].pc = "new"
  /\ IF header # 0
       THEN RefillOver(f) /\ UNCHANGED <<build, building>>
       ELSE /\ \E b \in Builds : Ensure(b) /\ refiller' = [refiller EXCEPT ![f] = [pc |-> "waiting", on |-> b]]
            /\ UNCHANGED refill
  /\ UNCHANGED <<header, caller>>

\* a header that another task has stored meanwhile stays
HeaderStored(b) == IF header = 0 THEN b ELSE header

RefillEnd(f) ==
  /\ refiller[f].pc = "waiting" /\ build[refiller[f].on] \in Ended
  /\ Forget(refiller[f].on)
  /\ header' = IF build[refiller[f].on] = "done" THEN HeaderStored(refiller[f].on) ELSE header
  /\ RefillOver(f)
  /\ UNCHANGED <<build, caller>>

\* a task that close cancelled while it waited
RefillCancelled(f) ==
  /\ refiller[f].pc = "cancelled"
  /\ RefillOver(f)
  /\ UNCHANGED <<header, building, build, caller>>

-------------------------------------------------------------------------------
(* _build and solve_challenge *)

\* the challenge is there and valid
Challenge(b) ==
  /\ build[b] = "fetching"
  /\ build' = [build EXCEPT ![b] = Solving(1)]
  /\ UNCHANGED <<header, building, refill, refiller, caller>>

\* fetch fails, or _validated_challenge and its like refuse
ChallengeFails(b) ==
  /\ build[b] = "fetching"
  /\ build' = [build EXCEPT ![b] = "failed"]
  /\ UNCHANGED <<header, building, refill, refiller, caller>>

Solved(b) ==
  /\ \E i \in Solvers : build[b] = Solving(i)
  /\ build' = [build EXCEPT ![b] = "done"]
  /\ UNCHANGED <<header, building, refill, refiller, caller>>

\* a solver fails, is killed, times out or finds nothing: the next one, or none when
\* the total budget is used up or this was the last
NextSolver(b) ==
  /\ \E i \in Solvers :
       /\ build[b] = Solving(i)
       /\ \/ i + 1 \in Solvers /\ build' = [build EXCEPT ![b] = Solving(i + 1)]
          \/ build' = [build EXCEPT ![b] = "failed"]
  /\ UNCHANGED <<header, building, refill, refiller, caller>>

-------------------------------------------------------------------------------
\* The running tasks are cancelled and their processes killed; the header stays.  A refill
\* that waits runs its finally when it is scheduled next, one that never ran has none.
Close ==
  /\ refill' = 0 /\ building' = 0
  /\ build' = [b \in Builds |-> IF b = building /\ build[b] \in Running THEN "cancelled" ELSE build[b]]
  /\ refiller' = [f \in Refills |->
       IF f # refill THEN refiller[f]
       ELSE CASE refiller[f].pc = "new" -> [pc |-> "over", on |-> 0]
              [] refiller[f].pc = "waiting" -> [pc |-> "cancelled", on |-> 0]
              [] OTHER -> refiller[f]]
  /\ UNCHANGED <<header, caller>>

CallerNext(c) == TakePrefetched(c) \/ Await(c) \/ Return(c) \/ Raise(c) \/ CallerCancelled(c)
RefillNext(f) == RefillStart(f) \/ RefillEnd(f) \/ RefillCancelled(f)
BuildNext(b) == Challenge(b) \/ ChallengeFails(b) \/ Solved(b) \/ NextSolver(b)

PowNext ==
  \/ \E c \in Callers : CallerNext(c)
  \/ \E f \in Refills : RefillNext(f)
  \/ \E b \in Builds : BuildNext(b)
  \/ Close

PowSpec == PowInit /\ [][PowNext]_powVars
-------------------------------------------------------------------------------
\* Requests and the prefetch share one build: however the waiting tasks return,
\* fail or are cancelled, two builds never solve at the same time.
BuildsOneAtATime == \A b, d \in Builds : build[b] \in Running /\ build[d] \in Running => b = d
=============================================================================
