----------------------------- MODULE ExclusiveUse -----------------------------
(***************************************************************************)
(* What the account slots promise the provider handlers: an upstream      *)
(* account runs the completion of one request at a time, and a request    *)
(* runs on one account at a time.  AccountPool implements it.             *)
(***************************************************************************)
EXTENDS Naturals

CONSTANTS N,         \* number of accounts of the pool
          Requests   \* HTTP requests in flight

VARIABLE running     \* running[r]: the account request r is using, 0 for none

Init == running = [r \in Requests |-> 0]

Start(r, a) ==
  /\ running[r] = 0
  /\ \A q \in Requests : running[q] # a
  /\ running' = [running EXCEPT ![r] = a]

Stop(r) ==
  /\ running[r] # 0
  /\ running' = [running EXCEPT ![r] = 0]

Next == \E r \in Requests : Stop(r) \/ \E a \in 1..N : Start(r, a)

Spec == Init /\ [][Next]_running
===============================================================================
