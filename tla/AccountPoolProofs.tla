-------------------------- MODULE AccountPoolProofs --------------------------
(* Proofs about AccountPool, for any number of accounts and requests. *)
EXTENDS AccountPool, FiniteSetTheorems, TLAPS

-------------------------------------------------------------------------------
(* Queues *)

\* nobody stands in a queue twice
Distinct(q) == \A i, j \in DOMAIN q : q[i] = q[j] => i = j

\* Leaving a queue keeps it a queue of the same people.
LEMMA WithoutType ==
  ASSUME NEW S, NEW q \in Seq(S), NEW r
  PROVE  Without(q, r) \in Seq(S)
<1>1. CASE ~Waits(q, r)
  BY <1>1 DEF Without
<1>2. CASE Waits(q, r)
  <2> DEFINE at == CHOOSE i \in DOMAIN q : q[i] = r
             n  == Len(q) - 1
  <2>1. at \in DOMAIN q
    BY <1>2 DEF Waits
  <2>2. at \in 1 .. Len(q) /\ n \in Nat
    BY <2>1
  <2> HIDE DEF at
  <2>3. \A i \in 1 .. n : (IF i < at THEN q[i] ELSE q[i + 1]) \in S
    BY <2>2
  <2>4. [i \in 1 .. n |-> IF i < at THEN q[i] ELSE q[i + 1]] \in Seq(S)
    BY <2>2, <2>3
  <2> QED
    BY <1>2, <2>4 DEF Without, at
<1> QED
  BY <1>1, <1>2

\* Who leaves a queue is no longer in it, and nobody else joins it.
LEMMA WithoutMembers ==
  ASSUME NEW S, NEW q \in Seq(S), Distinct(q), NEW r
  PROVE  /\ Distinct(Without(q, r))
         /\ \A x : Waits(Without(q, r), x) => Waits(q, x) /\ x # r
<1>1. CASE ~Waits(q, r)
  BY <1>1 DEF Without, Waits
<1>2. CASE Waits(q, r)
  <2> DEFINE at == CHOOSE i \in DOMAIN q : q[i] = r
             n  == Len(q) - 1
             w  == [i \in 1 .. n |-> IF i < at THEN q[i] ELSE q[i + 1]]
             from(i) == IF i < at THEN i ELSE i + 1
  <2>1. at \in DOMAIN q /\ q[at] = r
    BY <1>2 DEF Waits
  <2>2. at \in 1 .. Len(q) /\ n \in Nat /\ DOMAIN q = 1 .. Len(q)
    BY <2>1
  <2>3. Without(q, r) = w
    BY <1>2 DEF Without
  <2> HIDE DEF at
  <2>4. \A i \in 1 .. n : from(i) \in DOMAIN q /\ from(i) # at /\ w[i] = q[from(i)]
    BY <2>2
  <2>5. \A i, j \in 1 .. n : from(i) = from(j) => i = j
    BY <2>2
  <2>6. DOMAIN w = 1 .. n
    OBVIOUS
  <2> HIDE DEF w, from
  <2>7. Distinct(w)
    BY <2>4, <2>5, <2>6 DEF Distinct
  <2>8. \A x : Waits(w, x) => Waits(q, x) /\ x # r
    BY <2>1, <2>4, <2>6 DEF Waits, Distinct
  <2> QED
    BY <2>3, <2>7, <2>8
<1> QED
  BY <1>1, <1>2

\* The head of a queue moves on.
LEMMA TailMembers ==
  ASSUME NEW S, NEW q \in Seq(S), q # <<>>, Distinct(q)
  PROVE  /\ Head(q) \in S /\ Waits(q, Head(q))
         /\ Tail(q) \in Seq(S) /\ Distinct(Tail(q))
         /\ \A x : Waits(Tail(q), x) => Waits(q, x) /\ x # Head(q)
<1>1. Len(q) \in Nat \ {0} /\ DOMAIN q = 1 .. Len(q) /\ Head(q) = q[1]
  OBVIOUS
<1>2. Tail(q) \in Seq(S) /\ Len(Tail(q)) = Len(q) - 1
      /\ \A i \in 1 .. Len(q) - 1 : Tail(q)[i] = q[i + 1]
  OBVIOUS
<1>3. DOMAIN Tail(q) = 1 .. Len(q) - 1
  BY <1>1, <1>2
<1>4. Head(q) \in S /\ Waits(q, Head(q))
  BY <1>1 DEF Waits
<1>5. \A i \in DOMAIN Tail(q) : i + 1 \in DOMAIN q /\ i + 1 # 1 /\ Tail(q)[i] = q[i + 1]
  BY <1>1, <1>2, <1>3
<1>6. Distinct(Tail(q))
  BY <1>1, <1>3, <1>5 DEF Distinct
<1>7. \A x : Waits(Tail(q), x) => Waits(q, x) /\ x # Head(q)
  <2> SUFFICES ASSUME NEW i \in DOMAIN Tail(q)
               PROVE  Waits(q, Tail(q)[i]) /\ Tail(q)[i] # Head(q)
    BY DEF Waits
  <2> QED
    BY <1>1, <1>5 DEF Waits, Distinct
<1> QED
  BY <1>2, <1>4, <1>6, <1>7

\* Somebody new joins at the end.
LEMMA AppendMembers ==
  ASSUME NEW S, NEW q \in Seq(S), Distinct(q), NEW r \in S, ~Waits(q, r)
  PROVE  /\ Append(q, r) \in Seq(S) /\ Append(q, r) # <<>> /\ Distinct(Append(q, r))
         /\ \A x : Waits(Append(q, r), x) => Waits(q, x) \/ x = r
<1>1. Append(q, r) \in Seq(S) /\ Len(Append(q, r)) = Len(q) + 1 /\ Len(q) \in Nat
  OBVIOUS
<1>2. DOMAIN q = 1 .. Len(q) /\ DOMAIN Append(q, r) = 1 .. Len(q) + 1
  BY <1>1
<1>3. \A i \in 1 .. Len(q) : Append(q, r)[i] = q[i]
  OBVIOUS
<1>4. Append(q, r)[Len(q) + 1] = r
  OBVIOUS
<1>5. \A i \in DOMAIN Append(q, r) : i \in DOMAIN q \/ i = Len(q) + 1
  BY <1>1, <1>2
<1>6. Distinct(Append(q, r))
  BY <1>2, <1>3, <1>4, <1>5 DEF Distinct, Waits
<1>7. \A x : Waits(Append(q, r), x) => Waits(q, x) \/ x = r
  BY <1>2, <1>3, <1>4, <1>5 DEF Waits
<1>8. Append(q, r) # <<>>
  BY <1>1
<1> QED
  BY <1>1, <1>6, <1>7, <1>8

-------------------------------------------------------------------------------
(* The inductive invariant *)

\* r is in the queue of a, or was granted its permit and has yet to wake up
WaitsFor(r, a) ==
  \/ pc[r] = "queued" /\ acct[r] = a
  \/ pc[r] = "parked" /\ a \in cand[r]

\* Who waits for a permit waits for it once, knows that it does, and does not
\* have it already.
QueueInv ==
  \A a \in Acct :
    /\ Distinct(waiters[a])
    /\ \A r \in Requests : Waits(waiters[a], r) => WaitsFor(r, a) /\ owner[a] # r

\* Who uses an account has its permit, and only a pool with a timeout parks requests.
RequestInv ==
  \A r \in Requests :
    /\ pc[r] \in {"handed", "queued", "serving", "failing"} => acct[r] \in Acct
    /\ Using(r) => owner[acct[r]] = r
    /\ pc[r] \in {"parking", "parked"} => bounded

\* A running recheck holds the revive lock.
ReviveInv ==
  \A r \in Requests : pc[r] = "probing" => revOwner = r /\ revAt \in Acct

SlotInv == SlotIntegrity /\ QueueInv /\ RequestInv

IInv == TypeOK /\ SlotInv /\ ReviveInv

-------------------------------------------------------------------------------
(* Type correctness *)

\* The cursor stays within the list of accounts.
LEMMA CursorType ==
  ASSUME NEW H \in SUBSET Acct, H # {}, NEW a
  PROVE  /\ CursorAfter(H, a) \in 0 .. N - 1
         /\ Rank(H, a) \in Nat
<1>1. N \in Nat \ {0}
  BY PoolAssumption
<1>2. IsFiniteSet(Acct) /\ Cardinality(Acct) = N
  <2>1. IsFiniteSet(1 .. N) /\ Cardinality(1 .. N) = IF 1 > N THEN 0 ELSE N - 1 + 1
    BY <1>1, FS_Interval
  <2> QED
    BY <1>1, <2>1 DEF Acct
<1>3. \A S \in SUBSET Acct : IsFiniteSet(S) /\ Cardinality(S) \in Nat /\ Cardinality(S) <= N
  BY <1>2, FS_Subset, FS_CardinalityType
<1>4. Cardinality(H) # 0
  BY <1>3, FS_EmptySet
<1>5. {b \in H : b < a} \in SUBSET Acct
  OBVIOUS
<1>6. Rank(H, a) \in Nat
  BY <1>3, <1>5 DEF Rank
<1>7. Cardinality(H) \in 1 .. N
  BY <1>1, <1>3, <1>4
<1>8. (Rank(H, a) + 1) % Cardinality(H) \in 0 .. Cardinality(H) - 1
  BY <1>6, <1>7
<1> QED
  BY <1>1, <1>6, <1>7, <1>8 DEF CursorAfter

\* Initially every variable has its type.
LEMMA InitType == Init => TypeOK
<1> SUFFICES ASSUME Init PROVE TypeOK
  OBVIOUS
<1>1. N \in Nat \ {0}
  BY PoolAssumption
<1>2. <<>> \in Seq(Requests)
  OBVIOUS
<1>3. 0 \in 0 .. N - 1
  BY <1>1
<1> QED
  BY <1>2, <1>3 DEF Init, TypeOK, InFlight

\* The steps of acquire that choose an account, or park the request.
LEMMA SelectType ==
  ASSUME TypeOK, NEW r \in Requests, NEW H \in SUBSET Acct, H # {}, Select(r, H)
  PROVE  /\ rr' \in 0 .. N - 1
         /\ bySession' \in [Sessions -> Acct \cup {0}]
         /\ pref' \in [Requests -> Acct \cup {0}]
         /\ cand' \in [Requests -> SUBSET Acct]
         /\ \/ \E a \in H : /\ pc' = [pc EXCEPT ![r] = "handed"]
                            /\ acct' = [acct EXCEPT ![r] = a]
            \/ /\ pc' = [pc EXCEPT ![r] = "parking"] /\ bounded
               /\ acct' = acct
<1> DEFINE s == SessionOf[r]
           a == bySession[s]
<1>1. PICK fresh \in BOOLEAN :
        LET sticky == fresh /\ a \in H
        IN  /\ bySession' = IF sticky THEN bySession ELSE [bySession EXCEPT ![s] = 0]
            /\ \/ /\ sticky /\ ~(bounded /\ Locked(a))
                  /\ HandOver(r, a)
                  /\ UNCHANGED rr
               \/ /\ sticky /\ bounded /\ Locked(a)
                  /\ Park(r, a, H)
                  /\ UNCHANGED rr
               \/ ~sticky /\ RoundRobin(r, H)
  BY DEF Select
<1>2. bySession' \in [Sessions -> Acct \cup {0}]
  BY <1>1, PoolAssumption DEF TypeOK
<1>3. CASE a \in H /\ HandOver(r, a) /\ UNCHANGED rr
  BY <1>2, <1>3 DEF HandOver, TypeOK
<1>4. CASE a \in H /\ bounded /\ Park(r, a, H) /\ UNCHANGED rr
  BY <1>2, <1>4 DEF Park, TypeOK
<1>5. CASE RoundRobin(r, H)
  <2> DEFINE free == {b \in H : ~Locked(b)}
  <2>1. CASE \E b \in free : rr' = CursorAfter(H, b) /\ HandOver(r, b)
    <3>1. PICK b \in H : rr' = CursorAfter(H, b) /\ HandOver(r, b)
      BY <2>1
    <3>2. rr' \in 0 .. N - 1
      BY <3>1, CursorType
    <3> QED
      BY <1>2, <3>1, <3>2 DEF HandOver, TypeOK
  <2>2. CASE bounded /\ Park(r, 0, H) /\ UNCHANGED rr
    BY <1>2, <2>2 DEF Park, TypeOK
  <2>3. CASE (\E b \in H : HandOver(r, b)) /\ UNCHANGED rr
    BY <1>2, <2>3 DEF HandOver, TypeOK
  <2> QED
    BY <1>5, <2>1, <2>2, <2>3 DEF RoundRobin
<1> QED
  BY <1>1, <1>3, <1>4, <1>5

\* Leaving or joining the slots keeps them slots.
LEMMA LeaveType ==
  ASSUME TypeOK, NEW r \in Requests, NEW held, NEW lost,
         owner' = [a \in Acct |-> IF a \in lost THEN Lost
                                  ELSE IF a \in held THEN NextOwner(a) ELSE owner[a]],
         waiters' = [a \in Acct |-> IF a \in held
                       THEN IF waiters[a] = <<>> THEN <<>> ELSE Tail(waiters[a])
                       ELSE Without(waiters[a], r)]
  PROVE  /\ owner' \in [Acct -> Requests \cup {NoReq, Lost}]
         /\ waiters' \in [Acct -> Seq(Requests)]
<1>1. \A a \in Acct : NextOwner(a) \in Requests \cup {NoReq}
  BY DEF NextOwner, TypeOK
<1>2. \A a \in Acct : Without(waiters[a], r) \in Seq(Requests)
  BY WithoutType DEF TypeOK
<1>3. \A a \in Acct : waiters[a] # <<>> => Tail(waiters[a]) \in Seq(Requests)
  BY DEF TypeOK
<1>4. <<>> \in Seq(Requests)
  OBVIOUS
<1>5. owner' \in [Acct -> Requests \cup {NoReq, Lost}]
  BY <1>1 DEF TypeOK
<1>6. waiters' \in [Acct -> Seq(Requests)]
  BY <1>2, <1>3, <1>4 DEF TypeOK
<1> QED
  BY <1>5, <1>6

\* A request that leaves semaphores, handing its permits on, leaves their owners and queues typed.
LEMMA LeaveSlotsType ==
  ASSUME TypeOK, NEW r \in Requests, NEW S, LeaveSlots(r, S)
  PROVE  /\ owner' \in [Acct -> Requests \cup {NoReq, Lost}]
         /\ waiters' \in [Acct -> Seq(Requests)]
<1> DEFINE lost == {}
<1>1. owner' = [a \in Acct |-> IF a \in lost THEN Lost
                               ELSE IF a \in S THEN NextOwner(a) ELSE owner[a]]
  BY DEF LeaveSlots
<1>2. waiters' = [a \in Acct |-> IF a \in S
                       THEN IF waiters[a] = <<>> THEN <<>> ELSE Tail(waiters[a])
                       ELSE Without(waiters[a], r)]
  BY DEF LeaveSlots
<1> HIDE DEF lost
<1> QED
  BY <1>1, <1>2, LeaveType

\* So does one that asks for several semaphores at once, as _free_account does.
LEMMA JoinSlotsType ==
  ASSUME TypeOK, NEW r \in Requests, NEW S, JoinSlots(r, S)
  PROVE  /\ owner' \in [Acct -> Requests \cup {NoReq, Lost}]
         /\ waiters' \in [Acct -> Seq(Requests)]
<1>1. \A a \in Acct : Append(waiters[a], r) \in Seq(Requests)
  BY DEF TypeOK
<1> QED
  BY <1>1 DEF JoinSlots, TypeOK

\* The revive pass stays among the accounts.
LEMMA PassType ==
  ASSUME TypeOK
  PROVE  /\ \A S \in SUBSET Acct : ProbeNext(S) => revAt' \in Acct /\ revTodo' \in SUBSET Acct
         /\ PassOver => /\ revOwner' \in Requests \cup {NoReq}
                        /\ revAt' \in Acct \cup {0} /\ revTodo' \in SUBSET Acct
  BY DEF ProbeNext, Probable, PassOver

\* What a request's own record looks like.
RecordType ==
  /\ pc \in [Requests -> InFlight \cup {"idle"}]
  /\ acct \in [Requests -> Acct \cup {0}]
  /\ pref \in [Requests -> Acct \cup {0}]
  /\ cand \in [Requests -> SUBSET Acct]

RevType ==
  /\ revOwner \in Requests \cup {NoReq}
  /\ revAt \in Acct \cup {0}
  /\ revTodo \in SUBSET Acct

\* A request that ends keeps a record of the right type.
LEMMA LeaveRecord ==
  ASSUME TypeOK, NEW r \in Requests, Leave(r)
  PROVE  RecordType'
  BY DEF Leave, TypeOK, RecordType, InFlight

\* The choice among healthy accounts moves the cursor and the affinity within their ranges.
LEMMA SelectRecord ==
  ASSUME TypeOK, NEW r \in Requests, NEW H \in SUBSET Acct, H # {}, Select(r, H)
  PROVE  /\ RecordType' /\ rr' \in 0 .. N - 1
         /\ bySession' \in [Sessions -> Acct \cup {0}]
<1>1. pc' \in [Requests -> InFlight \cup {"idle"}] /\ acct' \in [Requests -> Acct \cup {0}]
  <2>1. CASE \E a \in H : /\ pc' = [pc EXCEPT ![r] = "handed"]
                          /\ acct' = [acct EXCEPT ![r] = a]
    BY <2>1 DEF TypeOK, InFlight
  <2>2. CASE pc' = [pc EXCEPT ![r] = "parking"] /\ acct' = acct
    BY <2>2 DEF TypeOK, InFlight
  <2> QED
    BY <2>1, <2>2, SelectType
<1> QED
  BY <1>1, SelectType DEF RecordType

\* A request whose turn it is starts a pass over the broken accounts, or ends.
LEMMA StartPassType ==
  ASSUME TypeOK, NEW r \in Requests, StartPass(r)
  PROVE  RecordType' /\ RevType'
<1>1. CASE /\ revOwner' = r /\ ProbeNext(Probable(Acct))
           /\ pc' = [pc EXCEPT ![r] = "probing"] /\ UNCHANGED <<acct, pref, cand>>
  <2>1. Probable(Acct) \in SUBSET Acct
    BY DEF Probable
  <2> QED
    BY <1>1, <2>1, PassType DEF RecordType, RevType, TypeOK, InFlight
<1>2. CASE PassOver /\ Leave(r)
  BY <1>2, LeaveRecord, PassType DEF RevType
<1> QED
  BY <1>1, <1>2 DEF StartPass

\* What acquire does after a wait moves the records within their types.
LEMMA AfterWaitType ==
  ASSUME TypeOK, NEW r \in Requests, AfterWait(r)
  PROVE  /\ RecordType' /\ rr' \in 0 .. N - 1
         /\ bySession' \in [Sessions -> Acct \cup {0}]
<1>1. CASE Leave(r) /\ UNCHANGED <<rr, bySession>>
  BY <1>1, LeaveRecord DEF TypeOK
<1>2. CASE Healthy # {} /\ Select(r, Healthy)
  BY <1>2, SelectRecord DEF Healthy
<1> QED
  BY <1>1, <1>2 DEF AfterWait

\* Every step keeps the types.
LEMMA NextType == TypeOK /\ ReviveInv /\ [Next]_vars => TypeOK'
<1> SUFFICES ASSUME TypeOK, ReviveInv, [Next]_vars PROVE TypeOK'
  OBVIOUS
<1> USE DEF slotVars, healthVars, revVars, reqVars
<1>0. \A q \in Seq(Requests), r \in Requests :
        Append(q, r) \in Seq(Requests) /\ Without(q, r) \in Seq(Requests)
  BY WithoutType
<1>1. ASSUME NEW r \in Requests, Arrive(r) PROVE TypeOK'
  <2>1. CASE Healthy # {} /\ Select(r, Healthy) /\ UNCHANGED revVars
    BY <1>1, <2>1, SelectRecord DEF Arrive, TypeOK, RecordType, Healthy
  <2>2. CASE Revive(r) /\ UNCHANGED <<rr, bySession>>
    <3>1. CASE /\ pc' \in {[pc EXCEPT ![r] = "revWait"], [pc EXCEPT ![r] = "revPass"]}
               /\ revQueue' = Append(revQueue, r)
               /\ UNCHANGED <<acct, pref, cand, revOwner, revAt, revTodo>>
      BY <1>0, <1>1, <2>2, <3>1 DEF Arrive, TypeOK, InFlight
    <3>2. CASE StartPass(r) /\ UNCHANGED revQueue
      BY <1>1, <2>2, <3>2, StartPassType DEF Arrive, TypeOK, RecordType, RevType
    <3> QED
      BY <2>2, <3>1, <3>2 DEF Revive
  <2> QED
    BY <1>1, <2>1, <2>2 DEF Arrive
<1>2. ASSUME NEW r \in Requests, Enqueue(r) PROVE TypeOK'
  BY <1>2, JoinSlotsType DEF Enqueue, TypeOK, InFlight
<1>3. ASSUME NEW r \in Requests, Wake(r) PROVE TypeOK'
  <2>1. Won(r) \in SUBSET Acct
    BY DEF Won, TypeOK
  <2>2. PICK a \in Won(r) :
          /\ rr' = IF pref[r] = 0 /\ a \in Healthy THEN CursorAfter(Healthy, a) ELSE rr
          /\ HandOver(r, a)
    BY <1>3 DEF Wake
  <2>3. rr' \in 0 .. N - 1
    <3>1. Healthy \in SUBSET Acct
      BY DEF Healthy
    <3>2. a \in Healthy => CursorAfter(Healthy, a) \in 0 .. N - 1
      BY <3>1, CursorType
    <3> QED
      BY <2>2, <3>2 DEF TypeOK
  <2>4. RecordType'
    BY <2>1, <2>2 DEF HandOver, TypeOK, RecordType, InFlight
  <2> QED
    BY <1>3, <2>1, <2>3, <2>4, LeaveSlotsType DEF Wake, TypeOK, RecordType
<1>4. ASSUME NEW r \in Requests, ParkTimeout(r) PROVE TypeOK'
  <2>1. Won(r) \in SUBSET Acct
    BY DEF Won, TypeOK
  <2> QED
    BY <1>4, <2>1, LeaveSlotsType, LeaveRecord DEF ParkTimeout, TypeOK, RecordType
<1>5. ASSUME NEW r \in Requests, TakeSlot(r) PROVE TypeOK'
  BY <1>5, JoinSlotsType DEF TakeSlot, TypeOK, InFlight
<1>6. ASSUME NEW r \in Requests, Enter(r) PROVE TypeOK'
  BY <1>6 DEF Enter, TypeOK, InFlight
<1>7. ASSUME NEW r \in Requests, LockTimeout(r) PROVE TypeOK'
  <2>1. {a \in Acct : owner[a] = r} \in SUBSET Acct
    OBVIOUS
  <2> QED
    BY <1>7, <2>1, LeaveSlotsType, LeaveRecord DEF LockTimeout, TypeOK, RecordType
<1>8. ASSUME NEW r \in Requests, Register(r) PROVE TypeOK'
  BY <1>8 DEF Register, TypeOK
<1>9. ASSUME NEW r \in Requests, DropSession(r) PROVE TypeOK'
  BY <1>9 DEF DropSession, TypeOK
<1>10. ASSUME NEW r \in Requests, AuthFails(r) PROVE TypeOK'
  <2>1. broken' \in [Acct -> BOOLEAN] /\ pc' \in [Requests -> InFlight \cup {"idle"}]
    BY <1>10 DEF AuthFails, TypeOK, InFlight
  <2>2. cooled' \in [Acct -> BOOLEAN]
    BY <1>10, Zenon DEF AuthFails, TypeOK
  <2> QED
    BY <1>10, <2>1, <2>2 DEF AuthFails, TypeOK
<1>11. ASSUME NEW r \in Requests, Finish(r) PROVE TypeOK'
  BY <1>11, LeaveSlotsType, LeaveRecord DEF Finish, TypeOK, RecordType
<1>12. ASSUME NEW r \in Requests, ProbeOk(r) PROVE TypeOK'
  <2>1. revAt \in Acct
    BY <1>12 DEF ProbeOk, ReviveInv
  <2>2. Healthy \cup {revAt} \in SUBSET Acct
    BY <2>1 DEF Healthy
  <2>3. RecordType' /\ rr' \in 0 .. N - 1 /\ bySession' \in [Sessions -> Acct \cup {0}]
    BY <1>12, <2>2, SelectRecord DEF ProbeOk
  <2> QED
    BY <1>12, <2>3, PassType DEF ProbeOk, TypeOK, RecordType
<1>13. ASSUME NEW r \in Requests, ProbeFails(r) PROVE TypeOK'
  <2>1. cooled' \in [Acct -> BOOLEAN]
    BY <1>13 DEF ProbeFails, TypeOK
  <2>2. CASE ProbeNext(revTodo) /\ UNCHANGED <<revOwner, reqVars>>
    BY <1>13, <2>1, <2>2, PassType DEF ProbeFails, TypeOK
  <2>3. CASE PassOver /\ Leave(r)
    BY <1>13, <2>1, <2>3, PassType, LeaveRecord DEF ProbeFails, TypeOK, RecordType
  <2> QED
    BY <1>13, <2>2, <2>3 DEF ProbeFails
<1>14. ASSUME NEW r \in Requests, ReviveDone(r) PROVE TypeOK'
  <2>1. Tail(revQueue) \in Seq(Requests)
    BY <1>14 DEF ReviveDone, TypeOK
  <2> QED
    BY <1>14, <2>1, AfterWaitType DEF ReviveDone, TypeOK, RecordType
<1>15. ASSUME NEW r \in Requests, ReviveTimeout(r) PROVE TypeOK'
  BY <1>0, <1>15, AfterWaitType DEF ReviveTimeout, TypeOK, RecordType
<1>16. ASSUME NEW r \in Requests, ReviveTurn(r) PROVE TypeOK'
  <2>1. Tail(revQueue) \in Seq(Requests)
    BY <1>16 DEF ReviveTurn, TypeOK
  <2> QED
    BY <1>16, <2>1, StartPassType DEF ReviveTurn, TypeOK, RecordType, RevType
<1>17. ASSUME NEW r \in Requests, Cancel(r) PROVE TypeOK'
  <2>1. PICK lost \in SUBSET Acct :
          LET held == {a \in Acct : owner[a] = r} \ lost
          IN  /\ owner' = [a \in Acct |-> IF a \in lost THEN Lost
                                          ELSE IF a \in held THEN NextOwner(a) ELSE owner[a]]
              /\ waiters' = [a \in Acct |-> IF a \in held
                               THEN IF waiters[a] = <<>> THEN <<>> ELSE Tail(waiters[a])
                               ELSE Without(waiters[a], r)]
    BY <1>17 DEF Cancel, Won, TypeOK
  <2> DEFINE held == {a \in Acct : owner[a] = r} \ lost
  <2>2. /\ owner' \in [Acct -> Requests \cup {NoReq, Lost}]
        /\ waiters' \in [Acct -> Seq(Requests)]
    BY <2>1, LeaveType
  <2>3. RevType'
    BY <1>17, PassType DEF Cancel, RevType, TypeOK
  <2> QED
    BY <1>0, <1>17, <2>2, <2>3, LeaveRecord DEF Cancel, TypeOK, RecordType, RevType
<1>18. ASSUME NEW a \in Acct, CoolDown(a) PROVE TypeOK'
  BY <1>18 DEF CoolDown, TypeOK
<1>19. ASSUME NEW a \in Acct, ReplaceToken(a) PROVE TypeOK'
  BY <1>19 DEF ReplaceToken, TypeOK
<1>20. CASE UNCHANGED vars
  BY <1>20 DEF vars, TypeOK
<1> QED
  BY <1>1, <1>2, <1>3, <1>4, <1>5, <1>6, <1>7, <1>8, <1>9, <1>10, <1>11, <1>12, <1>13,
     <1>14, <1>15, <1>16, <1>17, <1>18, <1>19, <1>20 DEF Next, Step, Timeout

-------------------------------------------------------------------------------
(* Slots *)

\* Only the record of r moves.
OnlyMoves(r) ==
  \A q \in Requests : q # r => pc'[q] = pc[q] /\ acct'[q] = acct[q] /\ cand'[q] = cand[q]

\* What a request may be doing after it left the slots, or before it asked for one.
Outside(r) ==
  /\ pc[r] \in {"idle", "parking", "handed", "revWait", "revPass", "probing"}
  /\ pc[r] = "handed" => acct[r] \in Acct
  /\ pc[r] = "parking" => bounded

\* Whoever is outside owns no permit and waits for none.
LEMMA OutsideOwnsNothing ==
  ASSUME SlotInv, NEW r \in Requests, Outside(r), NEW a \in Acct
  PROVE  owner[a] # r /\ ~Waits(waiters[a], r)
  BY DEF SlotInv, SlotIntegrity, QueueInv, Accountable, WaitsFor, Outside, Using

\* Moving about outside does not disturb the slots.
LEMMA OutsideMove ==
  ASSUME SlotInv, NEW r \in Requests, Outside(r), Outside(r)', OnlyMoves(r),
         UNCHANGED <<bounded, owner, waiters>>
  PROVE  SlotInv'
<1>1. \A a \in Acct : owner[a] # r /\ ~Waits(waiters[a], r)
  BY OutsideOwnsNothing
<1>2. SlotIntegrity'
  BY <1>1 DEF SlotInv, SlotIntegrity, Accountable, Using, OnlyMoves
<1>3. QueueInv'
  BY <1>1 DEF SlotInv, QueueInv, WaitsFor, OnlyMoves
<1>4. RequestInv'
  <2> SUFFICES ASSUME NEW q \in Requests
               PROVE  /\ pc'[q] \in {"handed", "queued", "serving", "failing"} => acct'[q] \in Acct
                      /\ Using(q)' => owner'[acct'[q]] = q
                      /\ pc'[q] \in {"parking", "parked"} => bounded'
    BY DEF RequestInv
  <2>1. CASE q = r
    BY <2>1 DEF Outside, Using
  <2>2. CASE q # r
    BY <2>2 DEF SlotInv, RequestInv, Using, OnlyMoves
  <2> QED
    BY <2>1, <2>2
<1> QED
  BY <1>2, <1>3, <1>4 DEF SlotInv

\* A request gives back the permits in held, drops those in lost, leaves every
\* queue and is outside.
LEMMA GivesUp ==
  ASSUME TypeOK, SlotInv, NEW r \in Requests, Outside(r)', OnlyMoves(r), UNCHANGED bounded,
         NEW held \in SUBSET Acct, NEW lost \in SUBSET Acct,
         held \cup lost = {a \in Acct : owner[a] = r}, held \cap lost = {},
         lost # {} => bounded,
         owner' = [a \in Acct |-> IF a \in lost THEN Lost
                                  ELSE IF a \in held THEN NextOwner(a) ELSE owner[a]],
         waiters' = [a \in Acct |-> IF a \in held
                       THEN IF waiters[a] = <<>> THEN <<>> ELSE Tail(waiters[a])
                       ELSE Without(waiters[a], r)]
  PROVE  SlotInv'
<1> USE PoolAssumption
<1>1. ASSUME NEW a \in Acct
      PROVE  /\ Distinct(waiters'[a])
             /\ \A q \in Requests :
                  Waits(waiters'[a], q) => q # r /\ Waits(waiters[a], q) /\ owner'[a] # q
             /\ \A q \in Requests : q # r /\ owner[a] = q => owner'[a] = q
             /\ owner'[a] \in Requests =>
                  /\ owner'[a] # r
                  /\ owner'[a] = owner[a] \/ Waits(waiters[a], owner'[a])
             /\ owner'[a] = Lost => bounded
             /\ owner'[a] = NoReq => waiters'[a] = <<>>
  <2>1. waiters[a] \in Seq(Requests) /\ Distinct(waiters[a])
    BY DEF TypeOK, SlotInv, QueueInv
  <2>2. \A q \in Requests : Waits(waiters[a], q) => owner[a] # q
    BY DEF SlotInv, QueueInv
  <2>3. owner[a] = Lost => bounded
    BY DEF SlotInv, SlotIntegrity
  <2>4. owner[a] = NoReq => waiters[a] = <<>>
    BY DEF SlotInv, SlotIntegrity
  <2>5. CASE a \in lost
    <3>1. owner'[a] = Lost /\ waiters'[a] = Without(waiters[a], r) /\ owner[a] = r
      BY <2>5
    <3>2. /\ Distinct(Without(waiters[a], r))
          /\ \A x : Waits(Without(waiters[a], r), x) => Waits(waiters[a], x) /\ x # r
      BY <2>1, WithoutMembers
    <3> QED
      BY <2>5, <3>1, <3>2
  <2>6. CASE a \in held /\ waiters[a] = <<>>
    <3>1. owner'[a] = NoReq /\ waiters'[a] = <<>> /\ owner[a] = r
      BY <2>6 DEF NextOwner
    <3>2. ~ \E x : Waits(<<>>, x)
      BY DEF Waits
    <3> QED
      BY <2>1, <2>6, <3>1, <3>2
  <2>7. CASE a \in held /\ waiters[a] # <<>>
    <3>1. owner'[a] = Head(waiters[a]) /\ waiters'[a] = Tail(waiters[a]) /\ owner[a] = r
      BY <2>7 DEF NextOwner
    <3>2. /\ Head(waiters[a]) \in Requests /\ Waits(waiters[a], Head(waiters[a]))
          /\ Distinct(Tail(waiters[a]))
          /\ \A x : Waits(Tail(waiters[a]), x) => Waits(waiters[a], x) /\ x # Head(waiters[a])
      BY <2>1, <2>7, TailMembers
    <3> QED
      BY <2>2, <2>7, <3>1, <3>2
  <2>8. CASE a \notin held /\ a \notin lost
    <3>1. owner'[a] = owner[a] /\ waiters'[a] = Without(waiters[a], r) /\ owner[a] # r
      BY <2>8
    <3>2. /\ Distinct(Without(waiters[a], r))
          /\ \A x : Waits(Without(waiters[a], r), x) => Waits(waiters[a], x) /\ x # r
      BY <2>1, WithoutMembers
    <3>3. waiters[a] = <<>> => Without(waiters[a], r) = <<>>
      BY DEF Without, Waits
    <3> QED
      BY <2>2, <2>3, <2>4, <3>1, <3>2, <3>3
  <2> QED
    BY <2>5, <2>6, <2>7, <2>8
<1>2. SlotIntegrity'
  <2> SUFFICES ASSUME NEW a \in Acct
               PROVE  /\ owner'[a] \in Requests => Accountable(owner[a], a)'
                      /\ owner'[a] = Lost => bounded'
                      /\ owner'[a] = NoReq => waiters'[a] = <<>>
    BY DEF SlotIntegrity
  <2>1. ASSUME owner'[a] \in Requests PROVE Accountable(owner[a], a)'
    <3>1. PICK q \in Requests :
            owner'[a] = q /\ q # r /\ (q = owner[a] \/ Waits(waiters[a], q))
      BY <1>1, <2>1
    <3>2. Accountable(q, a)
      BY <3>1 DEF SlotInv, SlotIntegrity, QueueInv, WaitsFor, Accountable
    <3>3. \/ pc'[q] \in {"serving", "failing", "queued"} /\ acct'[q] = a
          \/ pc'[q] = "parked" /\ a \in cand'[q]
      BY <3>1, <3>2 DEF Accountable, Using, OnlyMoves
    <3> QED
      BY <3>1, <3>3 DEF Accountable, Using
  <2> QED
    BY <1>1, <2>1
<1>3. QueueInv'
  BY <1>1 DEF SlotInv, QueueInv, WaitsFor, OnlyMoves
<1>4. RequestInv'
  <2> SUFFICES ASSUME NEW q \in Requests
               PROVE  /\ pc'[q] \in {"handed", "queued", "serving", "failing"} => acct'[q] \in Acct
                      /\ Using(q)' => owner'[acct'[q]] = q
                      /\ pc'[q] \in {"parking", "parked"} => bounded'
    BY DEF RequestInv
  <2>1. CASE q = r
    BY <2>1 DEF Outside, Using
  <2>2. CASE q # r
    BY <1>1, <2>2 DEF SlotInv, RequestInv, Using, OnlyMoves
  <2> QED
    BY <2>1, <2>2
<1> QED
  BY <1>2, <1>3, <1>4 DEF SlotInv

\* A request that gives up the permits it holds and the queues it is in disturbs no slot.
LEMMA LeavesSlots ==
  ASSUME TypeOK, SlotInv, NEW r \in Requests, Outside(r)', OnlyMoves(r), UNCHANGED bounded,
         NEW S \in SUBSET Acct, S = {a \in Acct : owner[a] = r}, LeaveSlots(r, S)
  PROVE  SlotInv'
<1> DEFINE lost == {}
<1>1. owner' = [a \in Acct |-> IF a \in lost THEN Lost
                               ELSE IF a \in S THEN NextOwner(a) ELSE owner[a]]
  BY DEF LeaveSlots
<1>2. waiters' = [a \in Acct |-> IF a \in S
                       THEN IF waiters[a] = <<>> THEN <<>> ELSE Tail(waiters[a])
                       ELSE Without(waiters[a], r)]
  BY DEF LeaveSlots
<1>3. lost \in SUBSET Acct /\ S \cup lost = {a \in Acct : owner[a] = r} /\ S \cap lost = {}
      /\ (lost # {} => bounded)
  OBVIOUS
<1> HIDE DEF lost
<1> QED
  BY <1>1, <1>2, <1>3, GivesUp

\* A request that was outside asks for the permits of the accounts in S, which
\* are those its record says it now waits for or uses.
LEMMA JoinsSlots ==
  ASSUME TypeOK, SlotInv, NEW r \in Requests, Outside(r), OnlyMoves(r), UNCHANGED bounded,
         NEW S \in SUBSET Acct, JoinSlots(r, S),
         \/ pc'[r] = "parked" /\ cand'[r] = S /\ bounded
         \/ /\ pc'[r] = "queued" /\ acct'[r] \in Acct /\ S = {acct'[r]}
         \/ /\ pc'[r] = "serving" /\ acct'[r] \in Acct /\ S = {acct'[r]}
            /\ ~Locked(acct'[r])
  PROVE  SlotInv'
<1> USE PoolAssumption
<1>0. \A a \in Acct : owner[a] # r /\ ~Waits(waiters[a], r)
  BY OutsideOwnsNothing
<1>1. \A a \in S : Accountable(r, a)'
  BY DEF Accountable, Using
<1>2. pc'[r] # "serving" => \A a \in S : WaitsFor(r, a)'
  BY DEF WaitsFor
<1>3. ASSUME NEW a \in Acct
      PROVE  \/ /\ owner'[a] = owner[a] /\ waiters'[a] = waiters[a]
                /\ a \notin S
             \/ /\ owner'[a] = r /\ waiters'[a] = waiters[a]
                /\ owner[a] = NoReq /\ waiters[a] = <<>> /\ a \in S
             \/ /\ owner'[a] = owner[a] /\ waiters'[a] = Append(waiters[a], r)
                /\ Locked(a) /\ a \in S
  BY DEF JoinSlots, Locked
<1>4. ASSUME NEW a \in Acct
      PROVE  /\ Distinct(waiters[a])
             /\ Distinct(Append(waiters[a], r)) /\ Append(waiters[a], r) # <<>>
             /\ \A x : Waits(Append(waiters[a], r), x) => Waits(waiters[a], x) \/ x = r
  <2>1. waiters[a] \in Seq(Requests) /\ Distinct(waiters[a]) /\ ~Waits(waiters[a], r)
    BY <1>0 DEF TypeOK, SlotInv, QueueInv
  <2> QED
    BY <2>1, AppendMembers
<1>5. \A q \in Requests, a \in Acct : q # r => /\ Accountable(q, a) => Accountable(q, a)'
                                               /\ WaitsFor(q, a) => WaitsFor(q, a)'
  BY DEF Accountable, WaitsFor, Using, OnlyMoves
<1>51. ASSUME NEW a \in Acct, owner[a] \in Requests, owner'[a] = owner[a]
      PROVE  Accountable(owner[a], a)'
  <2>1. PICK q \in Requests : owner[a] = q /\ q # r
    BY <1>0, <1>51
  <2>2. Accountable(q, a)
    BY <2>1 DEF SlotInv, SlotIntegrity
  <2>3. (pc'[q] \in {"serving", "failing", "queued"} /\ acct'[q] = a)
        \/ (pc'[q] = "parked" /\ a \in cand'[q])
    BY <2>1, <2>2 DEF Accountable, Using, OnlyMoves
  <2> QED
    BY <1>51, <2>1, <2>3 DEF Accountable, Using
<1>6. SlotIntegrity'
  <2> SUFFICES ASSUME NEW a \in Acct
               PROVE  /\ owner'[a] \in Requests => Accountable(owner[a], a)'
                      /\ owner'[a] = Lost => bounded'
                      /\ owner'[a] = NoReq => waiters'[a] = <<>>
    BY DEF SlotIntegrity
  <2>1. CASE owner'[a] = r /\ waiters'[a] = waiters[a] /\ owner[a] = NoReq
             /\ waiters[a] = <<>> /\ a \in S
    BY <1>1, <2>1 DEF Accountable
  <2>2. CASE owner'[a] = owner[a] /\ a \notin S /\ waiters'[a] = waiters[a]
    BY <1>0, <1>51, <2>2 DEF SlotInv, SlotIntegrity
  <2>3. CASE owner'[a] = owner[a] /\ waiters'[a] = Append(waiters[a], r) /\ Locked(a)
    <3>1. owner[a] # NoReq
      BY <2>3 DEF SlotInv, SlotIntegrity, Locked
    <3> QED
      BY <1>0, <1>51, <2>3, <3>1 DEF SlotInv, SlotIntegrity
  <2> QED
    BY <1>3, <2>1, <2>2, <2>3
<1>7. QueueInv'
  <2> SUFFICES ASSUME NEW a \in Acct
               PROVE  /\ Distinct(waiters'[a])
                      /\ \A q \in Requests : Waits(waiters'[a], q) =>
                                               WaitsFor(q, a)' /\ owner'[a] # q
    BY DEF QueueInv
  <2>1. \A q \in Requests : Waits(waiters[a], q) => WaitsFor(q, a)' /\ owner[a] # q /\ q # r
    BY <1>0, <1>5 DEF SlotInv, QueueInv
  <2>2. CASE owner'[a] = r /\ waiters'[a] = waiters[a]
    BY <1>4, <2>1, <2>2
  <2>3. CASE owner'[a] = owner[a] /\ waiters'[a] = waiters[a]
    BY <1>4, <2>1, <2>3
  <2>4. CASE owner'[a] = owner[a] /\ waiters'[a] = Append(waiters[a], r) /\ Locked(a) /\ a \in S
    <3>1. pc'[r] # "serving"
      BY <2>4
    <3>2. WaitsFor(r, a)'
      BY <1>2, <2>4, <3>1
    <3> QED
      BY <1>0, <1>4, <2>1, <2>4, <3>2
  <2> QED
    BY <1>3, <2>2, <2>3, <2>4
<1>8. RequestInv'
  <2> SUFFICES ASSUME NEW q \in Requests
               PROVE  /\ pc'[q] \in {"handed", "queued", "serving", "failing"} => acct'[q] \in Acct
                      /\ Using(q)' => owner'[acct'[q]] = q
                      /\ pc'[q] \in {"parking", "parked"} => bounded'
    BY DEF RequestInv
  <2>1. CASE q = r
    <3>1. pc'[r] = "serving" => owner'[acct'[r]] = r
      BY DEF JoinSlots
    <3> QED
      BY <2>1, <3>1 DEF Using
  <2>2. CASE q # r
    <3>1. /\ pc[q] \in {"handed", "queued", "serving", "failing"} => acct[q] \in Acct
          /\ Using(q) => owner[acct[q]] = q
          /\ pc[q] \in {"parking", "parked"} => bounded
      BY DEF SlotInv, RequestInv
    <3>2. Using(q) => owner'[acct[q]] = q
      BY <1>3, <3>1 DEF Using
    <3> QED
      BY <2>2, <3>1, <3>2 DEF Using, OnlyMoves
  <2> QED
    BY <2>1, <2>2
<1> QED
  BY <1>6, <1>7, <1>8 DEF SlotInv

\* Choosing an account, or being parked, is a move outside the slots.
LEMMA SelectMoves ==
  ASSUME TypeOK, NEW r \in Requests, NEW H \in SUBSET Acct, H # {}, Select(r, H),
         UNCHANGED bounded
  PROVE  Outside(r)' /\ OnlyMoves(r) /\ pc'[r] \in {"handed", "parking"}
<1>1. \A q \in Requests : cand'[q] = cand[q] \/ q = r
  <2>1. ASSUME NEW a, HandOver(r, a) \/ Park(r, a, H)
        PROVE  \A q \in Requests : cand'[q] = cand[q] \/ q = r
    BY <2>1 DEF HandOver, Park, TypeOK
  <2>2. \E a : HandOver(r, a) \/ Park(r, a, H)
    BY DEF Select, RoundRobin
  <2> QED
    BY <2>1, <2>2
<1>2. CASE \E a \in H : pc' = [pc EXCEPT ![r] = "handed"] /\ acct' = [acct EXCEPT ![r] = a]
  BY <1>1, <1>2 DEF TypeOK, Outside, OnlyMoves
<1>3. CASE pc' = [pc EXCEPT ![r] = "parking"] /\ bounded /\ acct' = acct
  BY <1>1, <1>3 DEF TypeOK, Outside, OnlyMoves
<1> QED
  BY <1>2, <1>3, SelectType

\* Ending a request touches no other request and leaves it outside every slot.
LEMMA LeaveMoves ==
  ASSUME TypeOK, NEW r \in Requests, Leave(r)
  PROVE  Outside(r)' /\ OnlyMoves(r) /\ pc'[r] = "idle"
  BY DEF Leave, TypeOK, Outside, OnlyMoves

\* So does the start of a pass, after which the request ends or probes.
LEMMA StartPassMoves ==
  ASSUME TypeOK, NEW r \in Requests, StartPass(r)
  PROVE  /\ Outside(r)' /\ OnlyMoves(r)
         /\ \/ pc'[r] = "idle"
            \/ pc'[r] = "probing" /\ revOwner' = r /\ revAt' \in Acct
<1>1. CASE /\ revOwner' = r /\ ProbeNext(Probable(Acct))
           /\ pc' = [pc EXCEPT ![r] = "probing"] /\ UNCHANGED <<acct, pref, cand>>
  <2>1. revAt' \in Acct
    BY <1>1 DEF ProbeNext, Probable
  <2> QED
    BY <1>1, <2>1 DEF TypeOK, Outside, OnlyMoves
<1>2. CASE Leave(r)
  BY <1>2, LeaveMoves
<1> QED
  BY <1>1, <1>2 DEF StartPass

\* So does what acquire does after a wait, which never starts to probe.
LEMMA AfterWaitMoves ==
  ASSUME TypeOK, NEW r \in Requests, AfterWait(r), UNCHANGED bounded
  PROVE  Outside(r)' /\ OnlyMoves(r) /\ pc'[r] # "probing"
<1>1. CASE Leave(r)
  BY <1>1, LeaveMoves
<1>2. CASE Healthy # {} /\ Select(r, Healthy)
  BY <1>2, SelectMoves DEF Healthy
<1> QED
  BY <1>1, <1>2 DEF AfterWait

\* Every step of a request is one of: a move outside the slots, giving up the
\* permits, asking for some, or waking up with the permit.
LEMMA NextSlots == TypeOK /\ SlotInv /\ ReviveInv /\ [Next]_vars => SlotInv'
<1> SUFFICES ASSUME TypeOK, SlotInv, ReviveInv, [Next]_vars PROVE SlotInv'
  OBVIOUS
<1> USE DEF slotVars, healthVars, revVars, reqVars
<1>1. ASSUME NEW r \in Requests, Arrive(r) PROVE SlotInv'
  <2>0. Outside(r)
    BY <1>1 DEF Arrive, Outside
  <2>1. CASE Healthy # {} /\ Select(r, Healthy)
    BY <1>1, <2>0, <2>1, SelectMoves, OutsideMove DEF Arrive, Healthy
  <2>2. CASE Revive(r)
    <3>1. CASE /\ pc' \in {[pc EXCEPT ![r] = "revWait"], [pc EXCEPT ![r] = "revPass"]}
               /\ UNCHANGED <<acct, cand>>
      <4>1. Outside(r)' /\ OnlyMoves(r)
        BY <3>1 DEF Outside, OnlyMoves, TypeOK
      <4> QED
        BY <1>1, <2>0, <4>1, OutsideMove DEF Arrive
    <3>2. CASE StartPass(r)
      BY <1>1, <2>0, <3>2, StartPassMoves, OutsideMove DEF Arrive
    <3> QED
      BY <2>2, <3>1, <3>2 DEF Revive
  <2> QED
    BY <1>1, <2>1, <2>2 DEF Arrive
<1>2. ASSUME NEW r \in Requests, Enqueue(r) PROVE SlotInv'
  <2>1. bounded
    BY <1>2 DEF Enqueue, SlotInv, RequestInv
  <2>2. Outside(r) /\ OnlyMoves(r)
    BY <1>2, <2>1 DEF Enqueue, Outside, OnlyMoves, TypeOK
  <2>3. cand[r] \in SUBSET Acct /\ pc'[r] = "parked" /\ cand'[r] = cand[r]
    BY <1>2 DEF Enqueue, TypeOK
  <2> QED
    BY <1>2, <2>1, <2>2, <2>3, JoinsSlots DEF Enqueue
<1>3. ASSUME NEW r \in Requests, Wake(r) PROVE SlotInv'
  <2>1. PICK a \in Won(r) : HandOver(r, a)
    BY <1>3 DEF Wake
  <2>2. Won(r) = {b \in Acct : owner[b] = r}
    BY <1>3 DEF Wake, Won, TypeOK, SlotInv, SlotIntegrity, Accountable, Using
  <2>3. Outside(r)' /\ OnlyMoves(r)
    BY <2>1, <2>2 DEF HandOver, Outside, OnlyMoves, TypeOK
  <2> QED
    BY <1>3, <2>2, <2>3, LeavesSlots DEF Wake
<1>4. ASSUME NEW r \in Requests, ParkTimeout(r) PROVE SlotInv'
  <2>1. Won(r) = {b \in Acct : owner[b] = r}
    BY <1>4 DEF ParkTimeout, Won, TypeOK, SlotInv, SlotIntegrity, Accountable, Using
  <2> QED
    BY <1>4, <2>1, LeaveMoves, LeavesSlots DEF ParkTimeout
<1>5. ASSUME NEW r \in Requests, TakeSlot(r) PROVE SlotInv'
  <2>1. acct[r] \in Acct
    BY <1>5 DEF TakeSlot, SlotInv, RequestInv
  <2>2. Outside(r) /\ OnlyMoves(r)
    BY <1>5, <2>1 DEF TakeSlot, Outside, OnlyMoves, TypeOK
  <2>3. {acct[r]} \in SUBSET Acct /\ acct'[r] = acct[r]
        /\ pc'[r] = IF Locked(acct[r]) THEN "queued" ELSE "serving"
    BY <1>5, <2>1 DEF TakeSlot, TypeOK
  <2> QED
    BY <1>5, <2>1, <2>2, <2>3, JoinsSlots DEF TakeSlot
<1>6. ASSUME NEW r \in Requests, Enter(r) PROVE SlotInv'
  <2>1. pc' = [pc EXCEPT ![r] = "serving"] /\ pc[r] = "queued" /\ owner[acct[r]] = r
        /\ UNCHANGED <<bounded, owner, waiters, acct, cand>>
    BY <1>6 DEF Enter
  <2>2. SlotIntegrity'
    BY <2>1 DEF SlotInv, SlotIntegrity, Accountable, Using, TypeOK
  <2>3. QueueInv'
    BY <2>1 DEF SlotInv, QueueInv, WaitsFor, TypeOK
  <2>4. RequestInv'
    BY <2>1 DEF SlotInv, RequestInv, Using, TypeOK
  <2> QED
    BY <2>2, <2>3, <2>4 DEF SlotInv
<1>7. ASSUME NEW r \in Requests, LockTimeout(r) PROVE SlotInv'
  BY <1>7, LeaveMoves, LeavesSlots DEF LockTimeout
<1>8. ASSUME NEW r \in Requests, AuthFails(r) PROVE SlotInv'
  <2>1. pc' = [pc EXCEPT ![r] = "failing"] /\ pc[r] = "serving"
        /\ UNCHANGED <<bounded, owner, waiters, acct, cand>>
    BY <1>8 DEF AuthFails
  <2>2. SlotIntegrity'
    BY <2>1 DEF SlotInv, SlotIntegrity, Accountable, Using, TypeOK
  <2>3. QueueInv'
    BY <2>1 DEF SlotInv, QueueInv, WaitsFor, TypeOK
  <2>4. RequestInv'
    BY <2>1 DEF SlotInv, RequestInv, Using, TypeOK
  <2> QED
    BY <2>2, <2>3, <2>4 DEF SlotInv
<1>9. ASSUME NEW r \in Requests, Finish(r) PROVE SlotInv'
  <2>1. acct[r] \in Acct /\ owner[acct[r]] = r
    BY <1>9 DEF Finish, SlotInv, RequestInv, Using
  <2>2. {acct[r]} = {b \in Acct : owner[b] = r}
    BY <1>9, <2>1 DEF Finish, SlotInv, SlotIntegrity, Accountable
  <2> QED
    BY <1>9, <2>1, <2>2, LeaveMoves, LeavesSlots DEF Finish
<1>10. ASSUME NEW r \in Requests, ProbeOk(r) PROVE SlotInv'
  <2>1. Outside(r) /\ Healthy \cup {revAt} \in SUBSET Acct
    BY <1>10 DEF ProbeOk, Outside, ReviveInv, Healthy
  <2> QED
    BY <1>10, <2>1, SelectMoves, OutsideMove DEF ProbeOk
<1>11. ASSUME NEW r \in Requests, ProbeFails(r) PROVE SlotInv'
  <2>1. Outside(r)
    BY <1>11 DEF ProbeFails, Outside
  <2>2. CASE UNCHANGED <<pc, acct, cand>>
    BY <1>11, <2>1, <2>2, OutsideMove DEF ProbeFails, Outside, OnlyMoves
  <2>3. CASE Leave(r)
    BY <1>11, <2>1, <2>3, LeaveMoves, OutsideMove DEF ProbeFails
  <2> QED
    BY <1>11, <2>2, <2>3 DEF ProbeFails
<1>12. ASSUME NEW r \in Requests, ReviveDone(r) \/ ReviveTimeout(r) PROVE SlotInv'
  <2>1. Outside(r) /\ AfterWait(r) /\ UNCHANGED <<bounded, owner, waiters>>
    BY <1>12 DEF ReviveDone, ReviveTimeout, Outside
  <2> QED
    BY <2>1, AfterWaitMoves, OutsideMove
<1>13. ASSUME NEW r \in Requests, ReviveTurn(r) PROVE SlotInv'
  <2>1. Outside(r) /\ StartPass(r) /\ UNCHANGED <<bounded, owner, waiters>>
    BY <1>13 DEF ReviveTurn, Outside
  <2> QED
    BY <2>1, StartPassMoves, OutsideMove
<1>14. ASSUME NEW r \in Requests, Cancel(r) PROVE SlotInv'
  <2>1. PICK lost \in IF pc[r] = "parked" THEN SUBSET Won(r) ELSE {{}} :
          LET held == {a \in Acct : owner[a] = r} \ lost
          IN  /\ owner' = [a \in Acct |-> IF a \in lost THEN Lost
                                          ELSE IF a \in held THEN NextOwner(a) ELSE owner[a]]
              /\ waiters' = [a \in Acct |-> IF a \in held
                               THEN IF waiters[a] = <<>> THEN <<>> ELSE Tail(waiters[a])
                               ELSE Without(waiters[a], r)]
    BY <1>14 DEF Cancel
  <2> DEFINE held == {a \in Acct : owner[a] = r} \ lost
  <2>2. lost \in SUBSET {a \in Acct : owner[a] = r} /\ (lost # {} => pc[r] = "parked")
    BY <2>1 DEF Won, TypeOK
  <2>3. held \in SUBSET Acct /\ lost \in SUBSET Acct /\ held \cap lost = {}
        /\ held \cup lost = {a \in Acct : owner[a] = r}
    BY <2>2
  <2>4. lost # {} => bounded
    BY <2>2 DEF SlotInv, RequestInv
  <2>5. /\ owner' = [a \in Acct |-> IF a \in lost THEN Lost
                                    ELSE IF a \in held THEN NextOwner(a) ELSE owner[a]]
        /\ waiters' = [a \in Acct |-> IF a \in held
                         THEN IF waiters[a] = <<>> THEN <<>> ELSE Tail(waiters[a])
                         ELSE Without(waiters[a], r)]
    BY <2>1
  <2>6. Outside(r)' /\ OnlyMoves(r) /\ UNCHANGED bounded
    BY <1>14, LeaveMoves DEF Cancel
  <2> HIDE DEF held
  <2> QED
    BY <2>3, <2>4, <2>5, <2>6, GivesUp
<1>15. CASE UNCHANGED <<bounded, owner, waiters, pc, acct, cand>>
  <2>1. SlotIntegrity'
    BY <1>15 DEF SlotInv, SlotIntegrity, Accountable, Using
  <2>2. QueueInv'
    BY <1>15 DEF SlotInv, QueueInv, WaitsFor
  <2>3. RequestInv'
    BY <1>15 DEF SlotInv, RequestInv, Using
  <2> QED
    BY <2>1, <2>2, <2>3 DEF SlotInv
<1>16. ASSUME NEW r \in Requests, Register(r) \/ DropSession(r)
       PROVE  UNCHANGED <<bounded, owner, waiters, pc, acct, cand>>
  BY <1>16 DEF Register, DropSession
<1>17. ASSUME NEW a \in Acct, CoolDown(a) \/ ReplaceToken(a)
       PROVE  UNCHANGED <<bounded, owner, waiters, pc, acct, cand>>
  BY <1>17 DEF CoolDown, ReplaceToken
<1>18. UNCHANGED vars => UNCHANGED <<bounded, owner, waiters, pc, acct, cand>>
  BY DEF vars
<1> QED
  BY <1>1, <1>2, <1>3, <1>4, <1>5, <1>6, <1>7, <1>8, <1>9, <1>10, <1>11, <1>12, <1>13,
     <1>14, <1>15, <1>16, <1>17, <1>18 DEF Next, Step, Timeout

-------------------------------------------------------------------------------
(* The revive lock *)

\* Only the holder of the lock probes, and it keeps the lock while it does.
LEMMA NextRevive == TypeOK /\ ReviveInv /\ [Next]_vars => ReviveInv'
<1> SUFFICES ASSUME TypeOK, ReviveInv, [Next]_vars PROVE ReviveInv'
  OBVIOUS
<1> USE PoolAssumption DEF slotVars, healthVars, revVars, reqVars
<1>1. ASSUME NEW r \in Requests, OnlyMoves(r), pc'[r] # "probing",
             UNCHANGED <<revOwner, revAt>>
      PROVE  ReviveInv'
  BY <1>1 DEF ReviveInv, OnlyMoves
<1>2. ASSUME NEW r \in Requests, revOwner = r, OnlyMoves(r), pc'[r] # "probing"
      PROVE  ReviveInv'
  BY <1>2 DEF ReviveInv, OnlyMoves
<1>3. ASSUME NEW r \in Requests, revOwner = NoReq, StartPass(r)
      PROVE  ReviveInv'
  BY <1>3, StartPassMoves DEF ReviveInv, OnlyMoves
<1>4. ASSUME NEW r \in Requests, Arrive(r) PROVE ReviveInv'
  <2>1. CASE Healthy # {} /\ Select(r, Healthy) /\ UNCHANGED revVars
    BY <1>1, <1>4, <2>1, SelectMoves DEF Arrive, Healthy
  <2>2. CASE Revive(r)
    <3>1. CASE /\ pc' \in {[pc EXCEPT ![r] = "revWait"], [pc EXCEPT ![r] = "revPass"]}
               /\ UNCHANGED <<acct, cand, revOwner, revAt>>
      <4>1. OnlyMoves(r) /\ pc'[r] # "probing"
        BY <3>1 DEF OnlyMoves, TypeOK
      <4> QED
        BY <1>1, <3>1, <4>1
    <3>2. CASE revOwner = NoReq /\ StartPass(r)
      BY <1>3, <3>2
    <3> QED
      BY <2>2, <3>1, <3>2 DEF Revive
  <2> QED
    BY <1>4, <2>1, <2>2 DEF Arrive
<1>5. ASSUME NEW r \in Requests,
             Enqueue(r) \/ TakeSlot(r) \/ Enter(r) \/ AuthFails(r)
      PROVE  ReviveInv'
  <2>1. /\ UNCHANGED <<acct, cand, revOwner, revAt>>
        /\ pc' \in {[pc EXCEPT ![r] = p] : p \in {"parked", "queued", "serving", "failing"}}
    BY <1>5 DEF Enqueue, TakeSlot, Enter, AuthFails
  <2>2. OnlyMoves(r) /\ pc'[r] # "probing"
    BY <2>1 DEF OnlyMoves, TypeOK
  <2> QED
    BY <1>1, <2>1, <2>2
<1>6. ASSUME NEW r \in Requests, Wake(r) PROVE ReviveInv'
  <2>1. PICK a : HandOver(r, a)
    BY <1>6 DEF Wake
  <2>2. OnlyMoves(r) /\ pc'[r] # "probing"
    BY <2>1 DEF HandOver, OnlyMoves, TypeOK
  <2> QED
    BY <1>1, <1>6, <2>2 DEF Wake
<1>7. ASSUME NEW r \in Requests, ParkTimeout(r) \/ LockTimeout(r) \/ Finish(r)
      PROVE  ReviveInv'
  BY <1>1, <1>7, LeaveMoves DEF ParkTimeout, LockTimeout, Finish
<1>8. ASSUME NEW r \in Requests, ProbeOk(r) PROVE ReviveInv'
  <2>1. revOwner = r /\ Healthy \cup {revAt} \in SUBSET Acct
    BY <1>8 DEF ProbeOk, ReviveInv, Healthy
  <2> QED
    BY <1>2, <1>8, <2>1, SelectMoves DEF ProbeOk
<1>9. ASSUME NEW r \in Requests, ProbeFails(r) PROVE ReviveInv'
  <2>1. revOwner = r
    BY <1>9 DEF ProbeFails, ReviveInv
  <2>2. CASE ProbeNext(revTodo) /\ UNCHANGED <<revOwner, pc>>
    <3>1. revAt' \in Acct
      BY <2>2 DEF ProbeNext, Probable, TypeOK
    <3> QED
      BY <2>2, <3>1 DEF ReviveInv
  <2>3. CASE Leave(r)
    BY <1>2, <2>1, <2>3, LeaveMoves
  <2> QED
    BY <1>9, <2>2, <2>3 DEF ProbeFails
<1>10. ASSUME NEW r \in Requests, ReviveDone(r) \/ ReviveTimeout(r) PROVE ReviveInv'
  BY <1>1, <1>10, AfterWaitMoves DEF ReviveDone, ReviveTimeout
<1>11. ASSUME NEW r \in Requests, ReviveTurn(r) PROVE ReviveInv'
  BY <1>3, <1>11 DEF ReviveTurn
<1>12. ASSUME NEW r \in Requests, Cancel(r) PROVE ReviveInv'
  <2>1. OnlyMoves(r) /\ pc'[r] # "probing"
    BY <1>12, LeaveMoves DEF Cancel
  <2>2. revOwner # r => UNCHANGED <<revOwner, revAt>>
    BY <1>12 DEF Cancel
  <2> QED
    BY <1>1, <1>2, <2>1, <2>2
<1>13. UNCHANGED <<pc, revOwner, revAt>> => ReviveInv'
  BY DEF ReviveInv
<1>14. ASSUME NEW r \in Requests, Register(r) \/ DropSession(r) PROVE ReviveInv'
  BY <1>13, <1>14 DEF Register, DropSession
<1>15. ASSUME NEW a \in Acct, CoolDown(a) \/ ReplaceToken(a) PROVE ReviveInv'
  BY <1>13, <1>15 DEF CoolDown, ReplaceToken
<1>16. CASE UNCHANGED vars
  BY <1>13, <1>16 DEF vars
<1> QED
  BY <1>4, <1>5, <1>6, <1>7, <1>8, <1>9, <1>10, <1>11, <1>12, <1>14, <1>15, <1>16
     DEF Next, Step, Timeout

-------------------------------------------------------------------------------
(* Theorems *)

\* Initially the slots, the requests and the recheck pass agree.
LEMMA InitInv == Init => IInv
<1> SUFFICES ASSUME Init PROVE IInv
  OBVIOUS
<1>1. TypeOK
  BY InitType
<1>2. ~ \E x : Waits(<<>>, x)
  BY DEF Waits
<1>3. Distinct(<<>>)
  BY DEF Distinct
<1>4. SlotInv
  BY <1>2, <1>3, PoolAssumption
     DEF Init, SlotInv, SlotIntegrity, QueueInv, RequestInv, Using
<1>5. ReviveInv
  BY DEF Init, ReviveInv
<1> QED
  BY <1>1, <1>4, <1>5 DEF IInv

\* The inductive invariant holds in every state of the pool.
THEOREM Invariance == Spec => []IInv
<1>1. Init => IInv
  BY InitInv
<1>2. IInv /\ [Next]_vars => IInv'
  BY NextType, NextSlots, NextRevive DEF IInv
<1> QED
  BY <1>1, <1>2, PTL DEF Spec

\* The variables of the pool (accounts.py: AccountPool, account_lock) keep their types.
THEOREM TypeCorrect == Spec => []TypeOK
<1>1. IInv => TypeOK
  BY DEF IInv
<1> QED
  BY <1>1, Invariance, PTL

\* A request inside the lock owns the slot, and a slot has one owner.
LEMMA Exclusion == IInv => MutualExclusion
<1> SUFFICES ASSUME IInv, NEW r \in Requests, NEW q \in Requests,
                    Using(r), Using(q), acct[r] = acct[q]
             PROVE  r = q
  BY DEF MutualExclusion
<1> QED
  BY DEF IInv, SlotInv, RequestInv

\* Two requests never use one account at once, for any number of accounts and
\* requests, whatever times out, breaks or is cancelled (account_lock, _free_account).
THEOREM SlotsAreExclusive == Spec => []MutualExclusion
  BY Exclusion, Invariance, PTL

\* A taken slot always has a request behind it that will give it back, and a free
\* one has nobody waiting for it; a permit is lost only where a timeout is set.
THEOREM SlotsAreAccountedFor == Spec => []SlotIntegrity
<1>1. IInv => SlotIntegrity
  BY DEF IInv, SlotInv
<1> QED
  BY <1>1, Invariance, PTL

\* At most one request rechecks credentials at a time (revive_broken).
THEOREM OneProbe == Spec => []SingleProbe
<1>1. IInv => SingleProbe
  BY DEF IInv, ReviveInv, SingleProbe
<1> QED
  BY <1>1, Invariance, PTL

\* A step that moves the pass to another account found it broken and cooled down.
LEMMA ProbeStep ==
  ASSUME [Next]_vars, revAt' # revAt, revAt' # 0
  PROVE  broken[revAt'] /\ cooled[revAt']
<1>1. \A S \in SUBSET Acct : ProbeNext(S) => broken[revAt'] /\ cooled[revAt']
  BY DEF ProbeNext, Probable
<1>2. Probable(Acct) \in SUBSET Acct
  BY DEF Probable
<1>3. \A r \in Requests : StartPass(r) => broken[revAt'] /\ cooled[revAt']
  BY <1>1, <1>2 DEF StartPass, PassOver
<1>4. \A r \in Requests : Arrive(r) => broken[revAt'] /\ cooled[revAt']
  BY <1>3 DEF Arrive, Revive, revVars
<1>5. \A r \in Requests : ReviveTurn(r) => broken[revAt'] /\ cooled[revAt']
  BY <1>3 DEF ReviveTurn
<1>6. \A r \in Requests : ProbeFails(r) => broken[revAt'] /\ cooled[revAt']
  BY DEF ProbeFails, ProbeNext, Probable, PassOver
<1>7. ASSUME NEW r \in Requests,
             \/ Enqueue(r) \/ Wake(r) \/ TakeSlot(r) \/ Enter(r) \/ Finish(r)
             \/ ProbeOk(r) \/ ReviveDone(r) \/ Timeout(r)
             \/ Register(r) \/ DropSession(r) \/ AuthFails(r) \/ Cancel(r)
      PROVE  FALSE
  BY <1>7 DEF Enqueue, Wake, TakeSlot, Enter, Finish, ProbeOk, ReviveDone, Timeout,
              ParkTimeout, LockTimeout, ReviveTimeout, Register, DropSession, AuthFails,
              Cancel, PassOver, revVars
<1>8. ASSUME NEW a \in Acct, CoolDown(a) \/ ReplaceToken(a)
      PROVE  FALSE
  BY <1>8 DEF CoolDown, ReplaceToken, revVars
<1>9. ~UNCHANGED vars
  BY DEF vars
<1> QED
  BY <1>4, <1>5, <1>6, <1>7, <1>8, <1>9 DEF Next, Step

\* A pass starts to recheck an account only if it is broken and has cooled down in that very
\* state (_revive_pass looks again when it reaches it), whoever replaced tokens meanwhile.
THEOREM OnlyBrokenAreProbed == Spec => ProbesOnlyBroken
<1>1. [Next]_vars => (revAt' # revAt /\ revAt' # 0 => broken[revAt'] /\ cooled[revAt'])
  BY ProbeStep
<1> QED
  BY <1>1, PTL DEF Spec, ProbesOnlyBroken

-------------------------------------------------------------------------------
(* The pool implements the exclusive use of accounts *)

\* A step moves the record of one request, and nobody changes account while using one.
LEMMA OneMoves ==
  TypeOK /\ ReviveInv /\ Next =>
    \/ UNCHANGED <<pc, acct>>
    \/ \E r \in Requests : OnlyMoves(r) /\ (Using(r) /\ Using(r)' => acct'[r] = acct[r])
<1> SUFFICES ASSUME TypeOK, ReviveInv, Next
             PROVE  \/ UNCHANGED <<pc, acct>>
                    \/ \E r \in Requests :
                         OnlyMoves(r) /\ (Using(r) /\ Using(r)' => acct'[r] = acct[r])
  OBVIOUS
<1> USE DEF slotVars, healthVars, revVars, reqVars
<1>1. ASSUME NEW r \in Requests, Outside(r)', OnlyMoves(r)
      PROVE  OnlyMoves(r) /\ (Using(r) /\ Using(r)' => acct'[r] = acct[r])
  BY <1>1 DEF Outside, Using
<1>2. ASSUME NEW r \in Requests, NEW p, pc' = [pc EXCEPT ![r] = p], UNCHANGED <<acct, cand>>
      PROVE  OnlyMoves(r) /\ (Using(r) /\ Using(r)' => acct'[r] = acct[r])
  BY <1>2 DEF OnlyMoves, TypeOK
<1>3. ASSUME NEW r \in Requests, NEW a, HandOver(r, a)
      PROVE  OnlyMoves(r) /\ (Using(r) /\ Using(r)' => acct'[r] = acct[r])
  BY <1>3 DEF HandOver, OnlyMoves, Using, TypeOK
<1>4. ASSUME NEW r \in Requests, Leave(r)
      PROVE  OnlyMoves(r) /\ (Using(r) /\ Using(r)' => acct'[r] = acct[r])
  BY <1>1, <1>4, LeaveMoves
<1>5. ASSUME NEW r \in Requests, Arrive(r)
      PROVE  OnlyMoves(r) /\ (Using(r) /\ Using(r)' => acct'[r] = acct[r])
  <2>1. CASE Healthy # {} /\ Select(r, Healthy)
    BY <1>1, <1>5, <2>1, SelectMoves DEF Arrive, Healthy
  <2>2. CASE Revive(r)
    <3>1. CASE StartPass(r)
      BY <1>1, <3>1, StartPassMoves
    <3>2. CASE pc' = [pc EXCEPT ![r] = "revWait"] /\ UNCHANGED <<acct, cand>>
      BY <1>2, <3>2
    <3>3. CASE pc' = [pc EXCEPT ![r] = "revPass"] /\ UNCHANGED <<acct, cand>>
      BY <1>2, <3>3
    <3> QED
      BY <2>2, <3>1, <3>2, <3>3 DEF Revive
  <2> QED
    BY <1>5, <2>1, <2>2 DEF Arrive
<1>6. ASSUME NEW r \in Requests, Step(r)
      PROVE  \/ UNCHANGED <<pc, acct>>
             \/ OnlyMoves(r) /\ (Using(r) /\ Using(r)' => acct'[r] = acct[r])
  <2>1. CASE Enqueue(r)
    BY <1>2, <2>1 DEF Enqueue
  <2>2. CASE Wake(r)
    BY <1>3, <2>2 DEF Wake
  <2>3. CASE TakeSlot(r)
    BY <1>2, <2>3 DEF TakeSlot
  <2>4. CASE Enter(r)
    BY <1>2, <2>4 DEF Enter
  <2>5. CASE Finish(r)
    BY <1>4, <2>5 DEF Finish
  <2>6. CASE ProbeOk(r)
    <3>1. Healthy \cup {revAt} \in SUBSET Acct
      BY <2>6 DEF ProbeOk, ReviveInv, Healthy
    <3> QED
      BY <1>1, <2>6, <3>1, SelectMoves DEF ProbeOk
  <2>7. CASE ProbeFails(r)
    BY <1>4, <2>7 DEF ProbeFails
  <2>8. CASE ReviveDone(r)
    BY <1>1, <2>8, AfterWaitMoves DEF ReviveDone
  <2>9. CASE ReviveTurn(r)
    BY <1>1, <2>9, StartPassMoves DEF ReviveTurn
  <2> QED
    BY <1>6, <2>1, <2>2, <2>3, <2>4, <2>5, <2>6, <2>7, <2>8, <2>9 DEF Step
<1>7. ASSUME NEW r \in Requests, Timeout(r)
      PROVE  OnlyMoves(r) /\ (Using(r) /\ Using(r)' => acct'[r] = acct[r])
  BY <1>1, <1>4, <1>7, AfterWaitMoves DEF Timeout, ParkTimeout, LockTimeout, ReviveTimeout
<1>8. ASSUME NEW r \in Requests, AuthFails(r)
      PROVE  OnlyMoves(r) /\ (Using(r) /\ Using(r)' => acct'[r] = acct[r])
  BY <1>2, <1>8 DEF AuthFails
<1>9. ASSUME NEW r \in Requests, Cancel(r)
      PROVE  OnlyMoves(r) /\ (Using(r) /\ Using(r)' => acct'[r] = acct[r])
  BY <1>4, <1>9 DEF Cancel
<1>10. ASSUME NEW r \in Requests, Register(r) \/ DropSession(r) PROVE UNCHANGED <<pc, acct>>
  BY <1>10 DEF Register, DropSession
<1>11. ASSUME NEW a \in Acct, CoolDown(a) \/ ReplaceToken(a) PROVE UNCHANGED <<pc, acct>>
  BY <1>11 DEF CoolDown, ReplaceToken
<1> QED
  BY <1>5, <1>6, <1>7, <1>8, <1>9, <1>10, <1>11 DEF Next

\* Such a step starts one use, stops one, or is invisible.
LEMMA StepImplements ==
  ASSUME IInv, IInv', NEW r \in Requests, OnlyMoves(r),
         Using(r) /\ Using(r)' => acct'[r] = acct[r]
  PROVE  [Exclusive!Next]_running
<1>1. \A q \in Requests : q # r => running'[q] = running[q]
  BY DEF running, OnlyMoves, Using
<1>2. running = [q \in Requests |-> running[q]] /\ running' = [q \in Requests |-> running'[q]]
  BY DEF running
<1>3. 0 \notin Acct
  BY PoolAssumption DEF Acct
<1>4. (Using(r) => acct[r] \in Acct) /\ (Using(r)' => acct'[r] \in Acct)
  BY DEF IInv, SlotInv, RequestInv, Using
<1>5. CASE ~Using(r) /\ Using(r)'
  <2>1. running[r] = 0 /\ running'[r] = acct'[r]
    BY <1>5 DEF running
  <2>2. MutualExclusion'
    BY Exclusion, PTL
  <2>3. ASSUME NEW q \in Requests, running[q] = acct'[r] PROVE FALSE
    <3>1. q # r
      BY <1>3, <1>4, <1>5, <2>1, <2>3
    <3>2. running'[q] = acct'[r]
      BY <1>1, <2>3, <3>1
    <3>3. Using(q)' /\ acct'[q] = acct'[r]
      BY <1>3, <1>4, <1>5, <3>2 DEF running
    <3> QED
      BY <1>5, <2>2, <3>1, <3>3 DEF MutualExclusion
  <2>4. running' = [running EXCEPT ![r] = acct'[r]]
    BY <1>1, <1>2, <2>1 DEF running
  <2>5. Exclusive!Start(r, acct'[r])
    BY <2>1, <2>3, <2>4 DEF Exclusive!Start
  <2>6. acct'[r] \in 1 .. N
    BY <1>4, <1>5 DEF Acct
  <2> QED
    BY <2>5, <2>6 DEF Exclusive!Next
<1>6. CASE Using(r) /\ ~Using(r)'
  <2>1. running[r] # 0 /\ running'[r] = 0
    BY <1>3, <1>4, <1>6 DEF running
  <2>2. running' = [running EXCEPT ![r] = 0]
    BY <1>1, <1>2, <2>1 DEF running
  <2> QED
    BY <2>1, <2>2 DEF Exclusive!Stop, Exclusive!Next
<1>7. CASE Using(r) <=> Using(r)'
  <2>1. running'[r] = running[r]
    BY <1>7 DEF running
  <2> QED
    BY <1>1, <1>2, <2>1
<1> QED
  BY <1>5, <1>6, <1>7

\* account_lock and the pool give each request the exclusive use of one account at
\* a time: the pool implements ExclusiveUse for any number of accounts and requests.
THEOREM Implementation == Spec => ImplementsExclusiveUse
<1>1. Init => Exclusive!Init
  BY DEF Init, Exclusive!Init, running, Using
<1>2. IInv /\ IInv' /\ [Next]_vars => [Exclusive!Next]_running
  <2>1. ASSUME UNCHANGED <<pc, acct>> PROVE [Exclusive!Next]_running
    BY <2>1 DEF running, Using
  <2>2. UNCHANGED vars => UNCHANGED <<pc, acct>>
    BY DEF vars
  <2> QED
    BY <2>1, <2>2, OneMoves, StepImplements DEF IInv
<1> QED
  BY <1>1, <1>2, Invariance, PTL DEF Spec, ImplementsExclusiveUse, Exclusive!Spec
===============================================================================
