------------------------------ MODULE AccountPool ------------------------------
(***************************************************************************)
(* danyapi/accounts.py: the pool that hands the accounts of one provider   *)
(* to requests, together with the account_lock every handler takes on the  *)
(* account it was handed.  asyncio runs one task at a time, so an action   *)
(* is the code between two awaits.  An account's slot is its               *)
(* asyncio.Semaphore(1): a released permit goes straight to the first      *)
(* waiter.  Time is abstracted: a cooldown elapses, an affinity expires    *)
(* and a timer fires at any moment it could.                               *)
(***************************************************************************)
EXTENDS Naturals, Sequences, FiniteSets

CONSTANTS
  N,            \* number of accounts, numbered in the order of self.accounts
  Requests,     \* requests; each may come back after it was answered
  Sessions,     \* session ids that have an affinity entry
  SessionOf,    \* the session id each request asks for
  NoReq,        \* nobody
  Lost          \* the owner of a permit that nobody will give back

Acct == 1..N

ASSUME PoolAssumption ==
  /\ N \in Nat \ {0}
  /\ SessionOf \in [Requests -> Sessions]
  /\ NoReq \notin Requests /\ Lost \notin Requests /\ NoReq # Lost

VARIABLES
  bounded,    \* settings.acquire_timeout is set (max_wait is not None); never changes
  broken,     \* account.broken
  cooled,     \* a broken account has been broken for _REVIVE_COOLDOWN
  owner,      \* who has the permit of account.sem, perhaps without having run yet
  waiters,    \* FIFO of the tasks waiting on account.sem
  rr,         \* pool._rr
  bySession,  \* pool._by_session: account of a session, 0 for no entry
  pc,         \* where the task of a request is
  acct,       \* the account acquire returned to the request, 0 before that
  pref,       \* the preferred account of _wait_free, 0 for None
  cand,       \* the candidates _free_account waits on
  revOwner,   \* holder of pool._revive_lock
  revQueue,   \* tasks waiting on pool._revive_lock
  revAt,      \* the account whose check_auth is running, 0 for none
  revTodo     \* accounts the running pass has still to look at

slotVars   == <<owner, waiters>>
healthVars == <<broken, cooled>>
revVars    == <<revOwner, revQueue, revAt, revTodo>>
reqVars    == <<pc, acct, pref, cand>>
vars == <<bounded, broken, cooled, owner, waiters, rr, bySession, pc, acct, pref, cand,
          revOwner, revQueue, revAt, revTodo>>

InFlight == {"parking", "parked", "handed", "queued", "serving", "failing",
             "revWait", "revPass", "probing"}

TypeOK ==
  /\ bounded \in BOOLEAN
  /\ broken \in [Acct -> BOOLEAN]
  /\ cooled \in [Acct -> BOOLEAN]
  /\ owner \in [Acct -> Requests \cup {NoReq, Lost}]
  /\ waiters \in [Acct -> Seq(Requests)]
  /\ rr \in 0 .. N - 1
  /\ bySession \in [Sessions -> Acct \cup {0}]
  /\ pc \in [Requests -> InFlight \cup {"idle"}]
  /\ acct \in [Requests -> Acct \cup {0}]
  /\ pref \in [Requests -> Acct \cup {0}]
  /\ cand \in [Requests -> SUBSET Acct]
  /\ revOwner \in Requests \cup {NoReq}
  /\ revQueue \in Seq(Requests)
  /\ revAt \in Acct \cup {0}
  /\ revTodo \in SUBSET Acct

Init ==
  /\ bounded \in BOOLEAN
  /\ broken = [a \in Acct |-> FALSE]
  /\ cooled = [a \in Acct |-> FALSE]
  /\ owner = [a \in Acct |-> NoReq]
  /\ waiters = [a \in Acct |-> <<>>]
  /\ rr = 0
  /\ bySession \in [Sessions -> Acct \cup {0}]   \* _restore_affinities
  /\ pc = [r \in Requests |-> "idle"]
  /\ acct = [r \in Requests |-> 0]
  /\ pref = [r \in Requests |-> 0]
  /\ cand = [r \in Requests |-> {}]
  /\ revOwner = NoReq
  /\ revQueue = <<>>
  /\ revAt = 0
  /\ revTodo = {}

-------------------------------------------------------------------------------
(* asyncio.Semaphore(1) *)

Locked(a) == owner[a] # NoReq \/ waiters[a] # <<>>

Waits(q, r) == \E i \in DOMAIN q : q[i] = r

\* q without r, which stands in it at most once
Without(q, r) ==
  IF Waits(q, r)
  THEN LET at == CHOOSE i \in DOMAIN q : q[i] = r
       IN  [i \in 1 .. Len(q) - 1 |-> IF i < at THEN q[i] ELSE q[i + 1]]
  ELSE q

NextOwner(a) == IF waiters[a] = <<>> THEN NoReq ELSE Head(waiters[a])

\* r gives back the permits of the accounts in S and leaves the queue of the others
LeaveSlots(r, S) ==
  /\ owner' = [a \in Acct |-> IF a \in S THEN NextOwner(a) ELSE owner[a]]
  /\ waiters' = [a \in Acct |->
                   IF a \in S
                   THEN IF waiters[a] = <<>> THEN <<>> ELSE Tail(waiters[a])
                   ELSE Without(waiters[a], r)]

\* r asks for the permit of every account in S
JoinSlots(r, S) ==
  /\ owner' = [a \in Acct |-> IF a \in S /\ ~Locked(a) THEN r ELSE owner[a]]
  /\ waiters' = [a \in Acct |-> IF a \in S /\ Locked(a)
                                THEN Append(waiters[a], r) ELSE waiters[a]]

-------------------------------------------------------------------------------
(* AccountPool.acquire *)

Healthy == {a \in Acct : ~broken[a]}

\* position of an account in the list of the accounts of H
Rank(H, a) == Cardinality({b \in H : b < a})

\* how far behind the cursor the round robin finds account a
Offset(H, a) == (Rank(H, a) + (Cardinality(H) - (rr % Cardinality(H)))) % Cardinality(H)

\* a faulty CursorAfter: the cursor does not wrap
CursorPast(H, a) == Rank(H, a) + 1

CursorAfter(H, a) == (Rank(H, a) + 1) % Cardinality(H)

HandOver(r, a) ==
  /\ pc' = [pc EXCEPT ![r] = "handed"]
  /\ acct' = [acct EXCEPT ![r] = a]
  /\ pref' = [pref EXCEPT ![r] = 0]
  /\ cand' = [cand EXCEPT ![r] = {}]

\* the request ends: answered, or refused with 429
Leave(r) ==
  /\ pc' = [pc EXCEPT ![r] = "idle"]
  /\ acct' = [acct EXCEPT ![r] = 0]
  /\ pref' = [pref EXCEPT ![r] = 0]
  /\ cand' = [cand EXCEPT ![r] = {}]

\* _wait_free up to the tasks _free_account creates, which run later
Park(r, p, H) ==
  /\ pc' = [pc EXCEPT ![r] = "parking"]
  /\ pref' = [pref EXCEPT ![r] = p]
  /\ cand' = [cand EXCEPT ![r] = IF p # 0 THEN {p} ELSE H]
  /\ UNCHANGED acct

RoundRobin(r, H) ==
  LET free == {a \in H : ~Locked(a)}
  IN  \/ \E a \in free :
           /\ \A b \in free : Offset(H, a) <= Offset(H, b)
           /\ rr' = CursorAfter(H, a)
           /\ HandOver(r, a)
      \/ /\ free = {} /\ bounded
         /\ Park(r, 0, H)
         /\ UNCHANGED rr
      \/ /\ free = {} /\ ~bounded
         /\ \E a \in H : Rank(H, a) = rr % Cardinality(H) /\ HandOver(r, a)
         /\ UNCHANGED rr

\* account_for_session and the choice of an account among the healthy ones;
\* fresh is FALSE when the affinity entry has outlived its ttl
Select(r, H) ==
  LET s == SessionOf[r]
      a == bySession[s]
  IN  \E fresh \in BOOLEAN :
        LET sticky == fresh /\ a \in H
        IN  /\ bySession' = IF sticky THEN bySession ELSE [bySession EXCEPT ![s] = 0]
            /\ \/ /\ sticky /\ ~(bounded /\ Locked(a))
                  /\ HandOver(r, a)
                  /\ UNCHANGED rr
               \/ /\ sticky /\ bounded /\ Locked(a)
                  /\ Park(r, a, H)
                  /\ UNCHANGED rr
               \/ ~sticky /\ RoundRobin(r, H)

-------------------------------------------------------------------------------
(* revive_broken and _revive_pass *)

\* the accounts of S a pass may still probe: it looks at broken and broken_at
\* again when it reaches each of them
Probable(S) == {a \in S : broken[a] /\ cooled[a]}

\* a faulty ProbeNext: it trusts what the pass saw when it started
ProbeNextUnchecked(S) ==
  \E a \in S : (\A b \in S : a <= b) /\ revAt' = a /\ revTodo' = {b \in S : b > a}

\* the pass moves to its next account
ProbeNext(S) ==
  \E a \in Probable(S) :
    /\ \A b \in Probable(S) : a <= b
    /\ revAt' = a
    /\ revTodo' = {b \in S : b > a}

\* a faulty PassOver: the lock is not released
PassKept == UNCHANGED revOwner /\ revAt' = 0 /\ revTodo' = {}

PassOver == revOwner' = NoReq /\ revAt' = 0 /\ revTodo' = {}

\* r holds _revive_lock and looks for an account worth a probe; when there is
\* none the pass returns None and acquire raises AccountPoolBusy
StartPass(r) ==
  \/ /\ Probable(Acct) # {}
     /\ revOwner' = r
     /\ ProbeNext(Probable(Acct))
     /\ pc' = [pc EXCEPT ![r] = "probing"]
     /\ UNCHANGED <<acct, pref, cand>>
  \/ /\ Probable(Acct) = {}
     /\ PassOver
     /\ Leave(r)

\* a faulty Revive: no lock around the pass
ReviveUnlocked(r) == StartPass(r) /\ UNCHANGED revQueue

Revive(r) ==
  \/ /\ revOwner # NoReq
     /\ pc' = [pc EXCEPT ![r] = "revWait"]
     /\ revQueue' = Append(revQueue, r)
     /\ UNCHANGED <<acct, pref, cand, revOwner, revAt, revTodo>>
  \/ /\ revOwner = NoReq /\ revQueue # <<>>
     /\ pc' = [pc EXCEPT ![r] = "revPass"]
     /\ revQueue' = Append(revQueue, r)
     /\ UNCHANGED <<acct, pref, cand, revOwner, revAt, revTodo>>
  \/ /\ revOwner = NoReq /\ revQueue = <<>>
     /\ StartPass(r)
     /\ UNCHANGED revQueue

\* a request that waited for another one's pass takes the first healthy account
\* as the sign that the pass helped
AfterWait(r) ==
  \/ /\ Healthy = {}
     /\ Leave(r)
     /\ UNCHANGED <<rr, bySession>>
  \/ Healthy # {} /\ Select(r, Healthy)

-------------------------------------------------------------------------------
(* Steps of a request *)

Arrive(r) ==
  /\ pc[r] = "idle"
  /\ \/ /\ Healthy # {}
        /\ Select(r, Healthy)
        /\ UNCHANGED revVars
     \/ /\ Healthy = {}
        /\ Revive(r)
        /\ UNCHANGED <<rr, bySession>>
  /\ UNCHANGED <<bounded, healthVars, slotVars>>

\* the sem.acquire tasks of _free_account start
Enqueue(r) ==
  /\ pc[r] = "parking"
  /\ JoinSlots(r, cand[r])
  /\ pc' = [pc EXCEPT ![r] = "parked"]
  /\ UNCHANGED <<bounded, healthVars, rr, bySession, acct, pref, cand, revVars>>

Won(r) == {a \in cand[r] : owner[a] = r}

\* a faulty Wake: only the permit of the chosen account is given back
WakeReleasesOne(r) ==
  /\ pc[r] = "parked"
  /\ \E a \in Won(r) :
       /\ LeaveSlots(r, {a})
       /\ rr' = IF pref[r] = 0 /\ a \in Healthy THEN CursorAfter(Healthy, a) ELSE rr
       /\ HandOver(r, a)
  /\ UNCHANGED <<bounded, healthVars, bySession, revVars>>

\* _free_account returns with winners: the first one is handed over and the
\* permits of all of them are given back.  The first need not be the first of
\* the accounts won: a waiter that was granted its permit but has not run is
\* cancelled, and gives it back itself.
Wake(r) ==
  /\ pc[r] = "parked"
  /\ LeaveSlots(r, Won(r))
  /\ \E a \in Won(r) :
       /\ rr' = IF pref[r] = 0 /\ a \in Healthy THEN CursorAfter(Healthy, a) ELSE rr
       /\ HandOver(r, a)
  /\ UNCHANGED <<bounded, healthVars, bySession, revVars>>

\* the timer of _free_account fires before a waiter has run; the permits already
\* granted are given back
ParkTimeout(r) ==
  /\ pc[r] = "parked"
  /\ LeaveSlots(r, Won(r))
  /\ Leave(r)
  /\ UNCHANGED <<bounded, healthVars, rr, bySession, revVars>>

\* a faulty TakeSlot: the account is used as handed over, without its lock
TakeSlotUnlocked(r) ==
  /\ pc[r] = "handed"
  /\ pc' = [pc EXCEPT ![r] = "serving"]
  /\ UNCHANGED <<bounded, healthVars, slotVars, rr, bySession, acct, pref, cand, revVars>>

\* the handler enters account_lock(account.sem)
TakeSlot(r) ==
  /\ pc[r] = "handed"
  /\ JoinSlots(r, {acct[r]})
  /\ pc' = [pc EXCEPT ![r] = IF Locked(acct[r]) THEN "queued" ELSE "serving"]
  /\ UNCHANGED <<bounded, healthVars, rr, bySession, acct, pref, cand, revVars>>

\* a faulty Enter: the wait for the permit ends early and nobody checks
EnterEarly(r) ==
  /\ pc[r] = "queued"
  /\ pc' = [pc EXCEPT ![r] = "serving"]
  /\ UNCHANGED <<bounded, healthVars, slotVars, rr, bySession, acct, pref, cand, revVars>>

Enter(r) ==
  /\ pc[r] = "queued" /\ owner[acct[r]] = r
  /\ pc' = [pc EXCEPT ![r] = "serving"]
  /\ UNCHANGED <<bounded, healthVars, slotVars, rr, bySession, acct, pref, cand, revVars>>

\* account_lock gives up after max_wait: AccountPoolBusy.  A permit granted to a
\* waiter that has not run yet is given back.
LockTimeout(r) ==
  /\ bounded
  /\ pc[r] = "queued"
  /\ LeaveSlots(r, {a \in Acct : owner[a] = r})
  /\ Leave(r)
  /\ UNCHANGED <<bounded, healthVars, rr, bySession, revVars>>

\* _prepare_session: pool.register, which may evict other entries
Register(r) ==
  /\ pc[r] = "serving"
  /\ \E gone \in SUBSET (Sessions \ {SessionOf[r]}) :
       bySession' = [s \in Sessions |-> IF s = SessionOf[r] THEN acct[r]
                                        ELSE IF s \in gone THEN 0 ELSE bySession[s]]
  /\ UNCHANGED <<bounded, healthVars, slotVars, rr, reqVars, revVars>>

\* _drop_session: pool.forget
DropSession(r) ==
  /\ pc[r] = "serving"
  /\ bySession' = [bySession EXCEPT ![SessionOf[r]] = 0]
  /\ UNCHANGED <<bounded, healthVars, slotVars, rr, reqVars, revVars>>

\* the provider refuses the credentials: mark_broken, and the error travels up
\* through account_lock
AuthFails(r) ==
  /\ pc[r] = "serving"
  /\ pc' = [pc EXCEPT ![r] = "failing"]
  /\ broken' = [broken EXCEPT ![acct[r]] = TRUE]
  /\ cooled' = [cooled EXCEPT ![acct[r]] = broken[acct[r]] /\ @]
  /\ UNCHANGED <<bounded, slotVars, rr, bySession, acct, pref, cand, revVars>>

Finish(r) ==
  /\ pc[r] \in {"serving", "failing"}
  /\ LeaveSlots(r, {acct[r]})
  /\ Leave(r)
  /\ UNCHANGED <<bounded, healthVars, rr, bySession, revVars>>

\* check_auth answers: the account is healthy again and acquire goes on
ProbeOk(r) ==
  /\ pc[r] = "probing"
  /\ broken' = [broken EXCEPT ![revAt] = FALSE]
  /\ cooled' = [cooled EXCEPT ![revAt] = FALSE]
  /\ PassOver
  /\ Select(r, Healthy \cup {revAt})
  /\ UNCHANGED <<bounded, slotVars, revQueue>>

\* check_auth refuses or times out: the cooldown starts again and the pass goes
\* on, unless nothing is left or its budget is spent
ProbeFails(r) ==
  /\ pc[r] = "probing"
  /\ cooled' = [cooled EXCEPT ![revAt] = FALSE]
  /\ \/ /\ ProbeNext(revTodo)
        /\ UNCHANGED <<revOwner, reqVars>>
     \/ /\ Probable(revTodo) = {} \/ bounded
        /\ PassOver
        /\ Leave(r)
  /\ UNCHANGED <<bounded, broken, slotVars, rr, bySession, revQueue>>

\* the lock of the pass comes round to a request that only waited for it
ReviveDone(r) ==
  /\ pc[r] = "revWait" /\ revOwner = NoReq
  /\ revQueue # <<>> /\ Head(revQueue) = r
  /\ revQueue' = Tail(revQueue)
  /\ AfterWait(r)
  /\ UNCHANGED <<bounded, healthVars, slotVars, revOwner, revAt, revTodo>>

ReviveTimeout(r) ==
  /\ bounded
  /\ pc[r] = "revWait"
  /\ revQueue' = Without(revQueue, r)
  /\ AfterWait(r)
  /\ UNCHANGED <<bounded, healthVars, slotVars, revOwner, revAt, revTodo>>

\* ... and to one that reached the lock when it was free but had waiters
ReviveTurn(r) ==
  /\ pc[r] = "revPass" /\ revOwner = NoReq
  /\ revQueue # <<>> /\ Head(revQueue) = r
  /\ revQueue' = Tail(revQueue)
  /\ StartPass(r)
  /\ UNCHANGED <<bounded, healthVars, slotVars, rr, bySession>>

\* The task of r is cancelled.  Leaving account_lock or a pending sem.acquire
\* gives the permit back.  In _free_account a permit whose task has already
\* finished is dropped: CancelledError leaves before the winners are released.
Cancel(r) ==
  /\ pc[r] \in InFlight
  /\ \E lost \in IF pc[r] = "parked" THEN SUBSET Won(r) ELSE {{}} :
       LET held == {a \in Acct : owner[a] = r} \ lost
       IN  /\ owner' = [a \in Acct |-> IF a \in lost THEN Lost
                                       ELSE IF a \in held THEN NextOwner(a) ELSE owner[a]]
           /\ waiters' = [a \in Acct |-> IF a \in held
                             THEN IF waiters[a] = <<>> THEN <<>> ELSE Tail(waiters[a])
                             ELSE Without(waiters[a], r)]
  /\ revQueue' = Without(revQueue, r)
  /\ IF revOwner = r THEN PassOver ELSE UNCHANGED <<revOwner, revAt, revTodo>>
  /\ Leave(r)
  /\ UNCHANGED <<bounded, healthVars, rr, bySession>>

-------------------------------------------------------------------------------
(* The world around the pool *)

CoolDown(a) ==
  /\ broken[a] /\ ~cooled[a]
  /\ cooled' = [cooled EXCEPT ![a] = TRUE]
  /\ UNCHANGED <<bounded, broken, slotVars, rr, bySession, reqVars, revVars>>

\* POST of a token for a broken account (api/envtokens.py): it is healthy again
ReplaceToken(a) ==
  /\ broken[a]
  /\ broken' = [broken EXCEPT ![a] = FALSE]
  /\ cooled' = [cooled EXCEPT ![a] = FALSE]
  /\ UNCHANGED <<bounded, slotVars, rr, bySession, reqVars, revVars>>

-------------------------------------------------------------------------------
\* what the event loop runs for a request without any timer
Step(r) ==
  \/ Enqueue(r) \/ Wake(r) \/ TakeSlot(r) \/ Enter(r) \/ Finish(r)
  \/ ProbeOk(r) \/ ProbeFails(r) \/ ReviveDone(r) \/ ReviveTurn(r)

\* its timers
Timeout(r) == ParkTimeout(r) \/ LockTimeout(r) \/ ReviveTimeout(r)

Next ==
  \/ \E r \in Requests :
       \/ Arrive(r) \/ Step(r) \/ Timeout(r)
       \/ Register(r) \/ DropSession(r) \/ AuthFails(r) \/ Cancel(r)
  \/ \E a \in Acct : CoolDown(a) \/ ReplaceToken(a)

Spec == Init /\ [][Next]_vars

\* The event loop runs every task that is ready and every timer that is due, an
\* upstream call ends, and check_auth is under wait_for.
FairSpec == Spec /\ \A r \in Requests : WF_vars(Step(r)) /\ WF_vars(Timeout(r))

-------------------------------------------------------------------------------
(* Properties *)

Using(r) == pc[r] \in {"serving", "failing"}

\* An account runs one completion at a time: two requests are never both inside
\* account_lock of the same account, whatever was handed over, timed out, broken
\* or cancelled in between (accounts.py: account_lock, _free_account).
MutualExclusion ==
  \A r, q \in Requests : Using(r) /\ Using(q) /\ acct[r] = acct[q] => r = q

\* r will give the permit of a back: it uses the account, or was granted the
\* permit and has yet to wake up
Accountable(r, a) ==
  \/ (Using(r) \/ pc[r] = "queued") /\ acct[r] = a
  \/ pc[r] = "parked" /\ a \in cand[r]

\* A taken slot has a request behind it that will give it back, and an account
\* nobody has taken has nobody waiting for it (no lost wake-up).  A permit is lost
\* only through _free_account, which runs only when a timeout is set.
SlotIntegrity ==
  \A a \in Acct :
    /\ owner[a] \in Requests => Accountable(owner[a], a)
    /\ owner[a] = Lost => bounded
    /\ owner[a] = NoReq => waiters[a] = <<>>

\* However many requests find every account broken at once, one of them
\* rechecks credentials and the others wait for it (revive_broken).
SingleProbe ==
  \A r, q \in Requests : pc[r] = "probing" /\ pc[q] = "probing" => r = q

\* A pass never starts to recheck an account that is healthy or still cooling
\* down, although tokens may be replaced while the pass awaits check_auth.
ProbesOnlyBroken ==
  [][revAt' # revAt /\ revAt' # 0 => broken[revAt'] /\ cooled[revAt']]_vars

\* Every request leaves the pool in the end, although none of its waits has a
\* timeout when DANYAPI_ACQUIRE_TIMEOUT is empty: slots and the revive lock are
\* passed on first come, first served, and every holder gives them back, even
\* one whose task is cancelled.
Answered == \A r \in Requests : pc[r] # "idle" ~> pc[r] = "idle"

\* _wait_free gives up when the preferred account breaks while the request waits
\* for it; it never hands that account over.
GivesUpBrokenAccount ==
  [][\A r \in Requests :
       pc[r] = "parked" /\ pref[r] # 0 /\ pc'[r] = "handed" => ~broken[acct'[r]]]_vars

\* the account each request is using, as the provider handlers see it
running == [r \in Requests |-> IF Using(r) THEN acct[r] ELSE 0]

Exclusive == INSTANCE ExclusiveUse WITH N <- N, Requests <- Requests, running <- running

\* The pool implements the exclusive use of accounts.
ImplementsExclusiveUse == Exclusive!Spec
===============================================================================
