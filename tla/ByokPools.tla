------------------------------ MODULE ByokPools ------------------------------
(***************************************************************************)
(* Pools that requests bring the keys for (api/byok.py): the cache of live *)
(* pools, its limits and evictions, the locks of the key sets, the verdict *)
(* cache, the build of a pool and its deferred close, and the keyless pool *)
(* that is cached a second time outside the limits.  A pool and a lock are *)
(* named by the request that made them; all keys are of one provider, the  *)
(* keyless pool of another.  A request acquires an account some time after *)
(* it was handed the pool.  Sessions and cache files are left out.         *)
(***************************************************************************)
EXTENDS Naturals, Sequences, FiniteSets, SequencesExt, PrefixFunctions

CONSTANTS
  ByokReqs,  \* requests; each comes once
  Keys,      \* key sets: sequences of tokens, <<Keyless>> for the keyless provider
  Wants,     \* what the requests may bring, functions in [Reqs -> Keys]
  Keyless,   \* EMPTY_CREDENTIAL or none
  ByokLimit, \* BYOK_POOL_LIMIT and BYOK_TOTAL_POOL_LIMIT
  LockLimit, \* BYOK_KEY_LOCK_LIMIT
  ByokNone   \* no request

VARIABLES
  byokCache,  \* _byok_pools_state(): the live pools in the order of their entries
  touched,    \* the same pools in the order of _danyapi_touched
  keyless,    \* _ALICE_BYOK_POOL[0] or _DUCKAI_BYOK_POOL[0]
  lockOf,     \* _KEY_LOCKS, and the lock of the keyless pool
  byokLock,   \* by lock: whether it is held, and its waiters
  auth,       \* by token, the cached verdict
  byokReq,    \* by request: where it is, its key set, its lock, its pool, the tokens to check
  byokClient, \* by pool and token, the client of the account
  held,       \* by pool and token, the account's slot is taken
  broken,     \* accounts marked broken
  closing     \* by pool, where _close_pool is

byokVars == <<byokCache, touched, keyless, lockOf, byokLock, auth, byokReq, byokClient, held, broken, closing>>
cacheVars == <<byokCache, touched>>
accountVars == <<byokClient, held, broken>>

ByokTokens == UNION {Range(k) : k \in Keys}
KeylessKey == <<Keyless>>

ASSUME ByokAssumption ==
  /\ Keys \subseteq Seq(ByokTokens) /\ Wants \subseteq [ByokReqs -> Keys]
  /\ ByokNone \notin ByokReqs /\ ByokLimit \in Nat /\ LockLimit \in Nat

KeyOf(p) == byokReq[p].key
Busy(p) == \E t \in ByokTokens : held[p][t]
Accounts(p) == {t \in ByokTokens : byokClient[p][t] # "none"}
Healthy(p) == \E t \in Accounts(p) : <<p, t>> \notin broken
At(k) == IF k = KeylessKey THEN {keyless} \ {ByokNone} ELSE {p \in Range(byokCache) : KeyOf(p) = k}

ByokReqStates ==
  [pc : {"new", "queued", "checking", "refreshing", "releasing", "ending", "got", "using", "over"}, key : Keys,
   lock : ByokReqs \cup {ByokNone}, pool : ByokReqs \cup {ByokNone},
   todo : Seq(ByokTokens), slot : ByokTokens \cup {ByokNone}]

ByokTypeOK ==
  /\ byokCache \in Seq(ByokReqs) /\ touched \in Seq(ByokReqs)
  /\ keyless \in ByokReqs \cup {ByokNone}
  /\ lockOf \in [Keys -> ByokReqs \cup {ByokNone}]
  /\ byokLock \in [ByokReqs -> [held : BOOLEAN, queue : Seq(ByokReqs)]]
  /\ auth \in [ByokTokens -> {"none", "ok", "bad"}]
  /\ byokReq \in [ByokReqs -> ByokReqStates]
  /\ byokClient \in [ByokReqs -> [ByokTokens -> {"none", "open", "deferred", "closed", "abandoned"}]]
  /\ held \in [ByokReqs -> [ByokTokens -> BOOLEAN]]
  /\ broken \subseteq ByokReqs \X ByokTokens
  /\ closing \in [ByokReqs -> {"no", "asked", "accounts"}]

ByokInit ==
  /\ byokCache = <<>> /\ touched = <<>> /\ keyless = ByokNone
  /\ lockOf = [k \in Keys |-> ByokNone]
  /\ byokLock = [l \in ByokReqs |-> [held |-> FALSE, queue |-> <<>>]]
  /\ auth = [t \in ByokTokens |-> "none"]
  /\ \E key \in Wants :
       byokReq = [r \in ByokReqs |-> [pc |-> "new", key |-> key[r], lock |-> ByokNone, pool |-> ByokNone, todo |-> <<>>, slot |-> ByokNone]]
  /\ byokClient = [p \in ByokReqs |-> [t \in ByokTokens |-> "none"]]
  /\ held = [p \in ByokReqs |-> [t \in ByokTokens |-> FALSE]]
  /\ broken = {}
  /\ closing = [p \in ByokReqs |-> "no"]

-------------------------------------------------------------------------------
(* The cache of pools *)

ByokWithout(s, gone) == Only(s, ByokReqs \ gone)
First(s, n) == SubSeq(s, 1, IF n < Len(s) THEN n ELSE Len(s))

\* _touch_pool_cache: the entry and its mark go to the end; the keyless pool is never marked
Touch(p) ==
  IF KeyOf(p) = KeylessKey THEN UNCHANGED cacheVars
  ELSE byokCache' = Append(ByokWithout(byokCache, {p}), p) /\ touched' = Append(ByokWithout(touched, {p}), p)

\* _evict_stale_cache: the provider's oldest pools that are too many, up to the first busy
\* one, which goes to the end instead
Oldest(c, incoming) ==
  LET keyed == Only(c, {p \in ByokReqs : KeyOf(p) # KeylessKey})
  IN IF Len(keyed) + incoming <= ByokLimit THEN <<>> ELSE First(keyed, Len(keyed) + incoming - ByokLimit)
FirstBusy(c, incoming) == SelectInSeq(Oldest(c, incoming), Busy)
ByokStale(c, incoming) ==
  IF FirstBusy(c, incoming) = 0 THEN Range(Oldest(c, incoming))
  ELSE Range(SubSeq(Oldest(c, incoming), 1, FirstBusy(c, incoming) - 1))
Rotated(c, incoming) ==
  LET left == ByokWithout(c, ByokStale(c, incoming))
      b == FirstBusy(c, incoming)
  IN IF b = 0 THEN left ELSE Append(ByokWithout(left, {Oldest(c, incoming)[b]}), Oldest(c, incoming)[b])

\* _evictable_pool_entries: the idle pools touched least recently, as many as are too many
Victims(t, protect, reserve) ==
  IF Len(t) + reserve <= ByokLimit THEN {}
  ELSE Range(First(Only(t, {p \in ByokReqs \ protect : ~Busy(p)}), Len(t) + reserve - ByokLimit))

CloseLater(gone) == closing' = [p \in ByokReqs |-> IF p \in gone THEN "asked" ELSE closing[p]]

-------------------------------------------------------------------------------
(* asyncio.Lock: release wakes the first waiter, who takes the lock when it runs *)

\* _key_lock: a new lock comes after a purge of those that nobody holds
Fetch(r, k) ==
  IF lockOf[k] # ByokNone THEN lockOf
  ELSE [j \in Keys |->
         IF j = k THEN r
         ELSE IF /\ KeylessKey \notin {j, k} /\ lockOf[j] # ByokNone /\ ~byokLock[lockOf[j]].held
                 /\ Cardinality({i \in Keys \ {KeylessKey} : lockOf[i] # ByokNone}) >= LockLimit
              THEN ByokNone ELSE lockOf[j]]

Free(l) == ~byokLock[l].held /\ byokLock[l].queue = <<>>
Taken(l, r) == [byokLock EXCEPT ![l] = [held |-> TRUE, queue |-> ByokWithout(@.queue, {r})]]
Released(l, r) == [byokLock EXCEPT ![l] = [held |-> FALSE, queue |-> ByokWithout(@.queue, {r})]]

-------------------------------------------------------------------------------
(* _build_accounts and _byok_validate *)

\* the tokens up to the first without a cached verdict need no check
Known(todo, a) ==
  LET n == SelectInSeq(todo, LAMBDA t : a[t] = "none")
  IN IF n = 0 THEN todo ELSE SubSeq(todo, 1, n - 1)

\* _register_keyless_pool, before the models are refreshed
Register(r) ==
  /\ keyless' = r
  /\ byokCache' = Append(ByokWithout(byokCache, {keyless}), r)
  /\ touched' = <<r>> \o ByokWithout(touched, {keyless})

\* r goes on with todo: it checks the next token, or has its accounts; without one it fails
Proceed(r, l, todo, a, pool) ==
  LET known == Known(todo, a)
      rest == SubSeq(todo, Len(known) + 1, Len(todo))
      accounts == {t \in ByokTokens : pool[t] = "open"} \cup {t \in Range(known) : a[t] = "ok"}
      over == rest = <<>> /\ accounts = {}
  IN /\ byokClient' = [byokClient EXCEPT ![r] = [t \in ByokTokens |-> IF t \in accounts THEN "open" ELSE "none"]]
     /\ byokReq' = [byokReq EXCEPT ![r].todo = rest,
                                   ![r].lock = IF over THEN ByokNone ELSE l,
                                   ![r].pc = IF over THEN "over" ELSE IF rest = <<>> THEN "refreshing" ELSE "checking",
                                   ![r].pool = IF rest = <<>> /\ KeyOf(r) = KeylessKey THEN keyless ELSE ByokNone]
     /\ byokLock' = IF over THEN Released(l, r) ELSE Taken(l, r)
     /\ IF KeyOf(r) = KeylessKey /\ rest = <<>> /\ ~over THEN Register(r) ELSE UNCHANGED keyless

\* the lock is r's: the pool may be there by now, or there may be no room for it; c, t and
\* gone are the cache, the touch order and the pools evicted by what r did before
ByokEnter(r, l, c, t, gone) ==
  LET k == KeyOf(r)
      victims == IF k = KeylessKey THEN {} ELSE Victims(t, At(k), 1)
      there == {p \in At(k) \ gone : Healthy(p)}
      full == k # KeylessKey /\ victims = {} /\ Len(t) >= ByokLimit
  IN /\ CloseLater(gone \cup IF there = {} THEN victims ELSE {})
     /\ IF there # {} THEN \E p \in there :
            /\ byokReq' = [byokReq EXCEPT ![r].pc = "got", ![r].lock = ByokNone, ![r].pool = p]
            /\ byokLock' = Released(l, r)
            /\ Touch(p)
            /\ UNCHANGED <<keyless, byokClient>>
        ELSE IF full THEN
            /\ byokReq' = [byokReq EXCEPT ![r].pc = "over", ![r].lock = ByokNone]
            /\ byokLock' = Released(l, r)
            /\ byokCache' = c /\ touched' = t
            /\ UNCHANGED <<keyless, byokClient>>
        ELSE
            /\ Proceed(r, l, k, auth, byokClient[r])
            /\ k # KeylessKey => byokCache' = ByokWithout(c, victims) /\ touched' = ByokWithout(t, victims)
            /\ k = KeylessKey => UNCHANGED cacheVars

-------------------------------------------------------------------------------
(* A request *)

\* _byok_pool as far as the lock, and on if it is free
ByokArrive(r) ==
  /\ byokReq[r].pc = "new"
  /\ LET k == KeyOf(r)
         there == {p \in At(k) : Healthy(p)}
         gone == IF k = KeylessKey THEN {} ELSE ByokStale(byokCache, 1)
         c == IF k = KeylessKey THEN byokCache ELSE Rotated(byokCache, 1)
     IN IF there # {}
          THEN /\ \E p \in there : byokReq' = [byokReq EXCEPT ![r].pc = "got", ![r].pool = p] /\ Touch(p)
               /\ UNCHANGED <<closing, keyless, lockOf, byokLock, byokClient>>
          ELSE /\ lockOf' = Fetch(r, k)
               /\ IF Free(lockOf'[k])
                    THEN ByokEnter(r, lockOf'[k], c, ByokWithout(touched, gone), gone)
                    ELSE /\ byokReq' = [byokReq EXCEPT ![r].pc = "queued", ![r].lock = lockOf'[k]]
                         /\ byokLock' = [byokLock EXCEPT ![lockOf'[k]].queue = Append(@, r)]
                         /\ byokCache' = c /\ touched' = ByokWithout(touched, gone)
                         /\ CloseLater(gone)
                         /\ UNCHANGED <<keyless, byokClient>>
  /\ UNCHANGED <<auth, held, broken>>

TakeLock(r) ==
  /\ byokReq[r].pc = "queued" /\ ~byokLock[byokReq[r].lock].held /\ Head(byokLock[byokReq[r].lock].queue) = r
  /\ ByokEnter(r, byokReq[r].lock, byokCache, touched, {})
  /\ UNCHANGED <<lockOf, auth, held, broken>>

\* check_auth of the next token returns; an error is no verdict, and the keyless one is not kept
ByokChecked(r, verdict) ==
  /\ byokReq[r].pc = "checking"
  /\ LET t == Head(byokReq[r].todo)
     IN /\ auth' = IF verdict = "error" \/ t = Keyless THEN auth ELSE [auth EXCEPT ![t] = verdict]
        /\ Proceed(r, byokReq[r].lock, Tail(byokReq[r].todo), auth', [byokClient[r] EXCEPT ![t] = IF verdict = "ok" THEN "open" ELSE "none"])
        /\ KeyOf(r) # KeylessKey \/ verdict # "ok" => UNCHANGED cacheVars
  /\ UNCHANGED <<lockOf, held, broken, closing>>

\* a faulty StalePools: the pool that the new one replaces is dropped
StaleDropped(r) == {}

\* the pools that the new one replaces
StalePools(r) == At(KeyOf(r)) \ {r}

\* a faulty AfterBuild: without the second look at the total
AfterBuildUntrimmed(c, t, r) == Rotated(c, 0)

\* the cache that is left when both limits were applied to the one with the new pool
AfterBuild(c, t, r) == ByokWithout(Rotated(c, 0), Victims(ByokWithout(t, ByokStale(c, 0)), {r}, 0))

\* r has its own pool, and leaves the lock
HandOut(r) ==
  /\ byokReq' = [byokReq EXCEPT ![r].pc = "got", ![r].pool = r, ![r].lock = ByokNone]
  /\ byokLock' = Released(byokReq[r].lock, r)

\* refresh_provider_models has returned: the pool is published and the cache trimmed
Built(r) ==
  /\ byokReq[r].pc = "refreshing" /\ KeyOf(r) # KeylessKey
  /\ LET c == Append(ByokWithout(byokCache, At(KeyOf(r))), r)
         t == Append(ByokWithout(touched, At(KeyOf(r))), r)
     IN /\ byokCache' = AfterBuild(c, t, r)
        /\ touched' = Only(t, Range(byokCache'))
        /\ CloseLater(StalePools(r) \cup (Range(c) \ Range(byokCache')))
  /\ HandOut(r)
  /\ UNCHANGED <<keyless, lockOf, auth, accountVars>>

\* the keyless pool was published before that; r closes the one it replaced, if any, itself
BuiltKeyless(r) ==
  /\ byokReq[r].pc = "refreshing" /\ KeyOf(r) = KeylessKey
  /\ IF byokReq[r].pool = ByokNone THEN HandOut(r)
     ELSE byokReq' = [byokReq EXCEPT ![r].pc = "releasing"] /\ UNCHANGED byokLock
  /\ UNCHANGED <<cacheVars, keyless, lockOf, auth, accountVars, closing>>

\* the thread of that _close_pool is back, and then all the accounts have had their turn
StaleReleased(r) ==
  /\ byokReq[r].pc = "releasing"
  /\ byokReq' = [byokReq EXCEPT ![r].pc = "ending"]
  /\ UNCHANGED <<cacheVars, keyless, lockOf, byokLock, auth, accountVars, closing>>
StaleClosed(r) ==
  /\ byokReq[r].pc = "ending" /\ \A t \in ByokTokens : byokClient[byokReq[r].pool][t] # "open"
  /\ HandOut(r)
  /\ UNCHANGED <<cacheVars, keyless, lockOf, auth, accountVars, closing>>

\* the task is cancelled: clients it has built so far are closed, but neither those of a
\* pool whose models it refreshes nor the keyless pool that it has replaced
ByokCancelled(r) ==
  /\ byokReq[r].pc \in {"queued", "checking", "refreshing", "releasing", "ending"}
  /\ byokReq' = [byokReq EXCEPT ![r].pc = "over", ![r].lock = ByokNone, ![r].pool = ByokNone, ![r].todo = <<>>]
  /\ byokLock' = IF byokReq[r].pc = "queued" THEN [byokLock EXCEPT ![byokReq[r].lock].queue = ByokWithout(@, {r})]
                 ELSE Released(byokReq[r].lock, r)
  /\ byokClient' = IF byokReq[r].pc # "checking" THEN byokClient
                   ELSE [byokClient EXCEPT ![r] = [t \in ByokTokens |-> IF @[t] = "open" THEN "closed" ELSE @[t]]]
  /\ UNCHANGED <<cacheVars, keyless, lockOf, auth, held, broken, closing>>

\* AccountPool.acquire and the end of the request, which may mark the account broken
Use(r, t) ==
  /\ byokReq[r].pc = "got" /\ t \in Accounts(byokReq[r].pool) /\ ~held[byokReq[r].pool][t]
  /\ held' = [held EXCEPT ![byokReq[r].pool][t] = TRUE]
  /\ byokReq' = [byokReq EXCEPT ![r].pc = "using", ![r].slot = t]
  /\ UNCHANGED <<cacheVars, keyless, lockOf, byokLock, auth, byokClient, broken, closing>>

ByokLeave(r) ==
  /\ byokReq[r].pc = "using"
  /\ held' = [held EXCEPT ![byokReq[r].pool][byokReq[r].slot] = FALSE]
  /\ byokReq' = [byokReq EXCEPT ![r].pc = "over", ![r].slot = ByokNone]
  /\ broken' \in {broken, broken \cup {<<byokReq[r].pool, byokReq[r].slot>>}}
  /\ UNCHANGED <<cacheVars, keyless, lockOf, byokLock, auth, byokClient, closing>>

\* a verdict expires, or is one too many
ByokForget(t) ==
  /\ auth[t] # "none"
  /\ auth' = [auth EXCEPT ![t] = "none"]
  /\ UNCHANGED <<cacheVars, keyless, lockOf, byokLock, byokReq, accountVars, closing>>

-------------------------------------------------------------------------------
(* _close_pool *)

\* the thread that flushes the stores is back
StoresReleased(p) ==
  /\ closing[p] = "asked"
  /\ closing' = [closing EXCEPT ![p] = "accounts"]
  /\ UNCHANGED <<cacheVars, keyless, lockOf, byokLock, auth, byokReq, accountVars>>

\* a faulty ByokEnds: whoever holds the slot
EndsAnyway(p, t) == "closed"

\* what an account's turn makes of its client
ByokEnds(p, t) == IF held[p][t] THEN "deferred" ELSE "closed"

CloseAccount(p, t) ==
  /\ closing[p] = "accounts" \/ \E r \in ByokReqs : byokReq[r].pc = "ending" /\ byokReq[r].pool = p
  /\ byokClient[p][t] = "open"
  /\ byokClient' = [byokClient EXCEPT ![p][t] = ByokEnds(p, t)]
  /\ UNCHANGED <<cacheVars, keyless, lockOf, byokLock, auth, byokReq, held, broken, closing>>

\* _close_busy_client gets the slot and closes the client
CloseDeferred(p, t) ==
  /\ byokClient[p][t] = "deferred" /\ ~held[p][t]
  /\ byokClient' = [byokClient EXCEPT ![p][t] = "closed"]
  /\ UNCHANGED <<cacheVars, keyless, lockOf, byokLock, auth, byokReq, held, broken, closing>>

\* it gives up after 300 seconds: the client stays open
GivesUp(p, t) ==
  /\ byokClient[p][t] = "deferred" /\ held[p][t]
  /\ byokClient' = [byokClient EXCEPT ![p][t] = "abandoned"]
  /\ UNCHANGED <<cacheVars, keyless, lockOf, byokLock, auth, byokReq, held, broken, closing>>

\* the loop, at its end, cancels it: it has the client closed, whoever holds the slot
CloseCancelled(p, t) ==
  /\ byokClient[p][t] = "deferred"
  /\ byokClient' = [byokClient EXCEPT ![p][t] = "closed"]
  /\ UNCHANGED <<cacheVars, keyless, lockOf, byokLock, auth, byokReq, held, broken, closing>>

ByokReqNext(r) ==
  \/ ByokArrive(r) \/ TakeLock(r) \/ Built(r) \/ BuiltKeyless(r) \/ StaleReleased(r) \/ StaleClosed(r)
  \/ ByokCancelled(r) \/ ByokLeave(r)
  \/ \E verdict \in {"ok", "bad", "error"} : ByokChecked(r, verdict)
  \/ \E t \in ByokTokens : Use(r, t)
CloseNext(p) ==
  \/ StoresReleased(p)
  \/ \E t \in ByokTokens : CloseAccount(p, t) \/ CloseDeferred(p, t) \/ GivesUp(p, t) \/ CloseCancelled(p, t)

ByokNext ==
  \/ \E r \in ByokReqs : ByokReqNext(r) \/ CloseNext(r)
  \/ \E t \in ByokTokens : ByokForget(t)

ByokSpec == ByokInit /\ [][ByokNext]_byokVars
-------------------------------------------------------------------------------
\* r is to close the clients of p: it builds them, or it has replaced the keyless pool p
Answers(r, p) ==
  \/ byokReq[r].pc = "checking" /\ p = r
  \/ byokReq[r].pc = "refreshing" /\ KeyOf(r) # KeylessKey /\ p = r
  \/ byokReq[r].pc \in {"refreshing", "releasing", "ending"} /\ KeyOf(r) = KeylessKey /\ p = byokReq[r].pool

\* the client needs no closing, its deferred close waits, or its pool is cached, being closed
\* or some request's to close
Answering(p, t) ==
  \/ byokClient[p][t] \in {"none", "deferred", "closed"}
  \/ /\ byokClient[p][t] = "open"
     /\ p \in Range(byokCache) \cup {keyless} \/ closing[p] # "no" \/ \E r \in ByokReqs : Answers(r, p)

\* No replacement, eviction or second build of a key set drops an open client: one that
\* somebody answers for stays so, but for the two leaks of the code, a cancellation after the
\* clients were built and a deferred close that gives up.
ClientsAccountedFor ==
  [][\A p \in ByokReqs, t \in ByokTokens :
       Answering(p, t) =>
         \/ Answering(p, t)' \/ GivesUp(p, t)
         \/ \E r \in ByokReqs : Answers(r, p) /\ byokReq[r].pc # "checking" /\ ByokCancelled(r)]_byokVars

\* A build leaves more pools than the limit only if all the others are in use.
TrimmedAfterBuild ==
  [][\A r \in ByokReqs : byokReq[r].pc = "refreshing" /\ byokReq'[r].pc = "got" /\ KeyOf(r) # KeylessKey =>
       Len(byokCache') <= ByokLimit \/ \A p \in Range(byokCache') \ {r} : Busy(p)]_byokVars

\* A client is closed under the request that holds the account's slot only when its deferred
\* close is cancelled: neither an eviction nor a replacement does it.
NoCloseWhileHeld ==
  [][\A p \in ByokReqs, t \in ByokTokens :
       held[p][t] /\ byokClient[p][t] # "closed" /\ byokClient'[p][t] = "closed" => CloseCancelled(p, t)]_byokVars
=============================================================================
