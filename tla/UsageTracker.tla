----------------------------- MODULE UsageTracker -----------------------------
(***************************************************************************)
(* The usage that is billed (usage.py): totals, counters of each model and *)
(* the last records, which threads add to, reset, and write to a store     *)
(* that a restart reads.  The counters of providers and users are kept     *)
(* like those of the models.                                               *)
(***************************************************************************)
EXTENDS Integers, FiniteSets, PrefixFunctions

CONSTANTS
  Threads,    \* threads that use the tracker
  Models,     \* keys of the counters
  Usages,     \* what answers cost: prompt, completion and total tokens
  MaxRecords, \* USAGE_MAX_RECORDS
  UsageMaxTurns,   \* bound on the records
  MaxCrashes, \* bound on the restarts
  Nobody      \* no thread

\* there is room for a counter, since USAGE_MAX_RECORDS below 1 counts as 1
UsageAssumption ==
  /\ Usages \subseteq [prompt : Nat, completion : Nat, total : Nat]
  /\ MaxRecords \in Nat \ {0} /\ UsageMaxTurns \in Nat /\ MaxCrashes \in Nat /\ Nobody \notin Threads
ASSUME UsageAssumption

VARIABLES
  totals,  \* _totals
  byModel, \* _by_model, in the order of the dictionary
  recent,  \* _recent, the records by their number
  due,     \* the parts whose interval is over
  usageHolder,  \* of _persist_lock
  usageJob,     \* by thread: what is left to write
  stored,  \* "usage" and "usage_recent" in the store
  disk,    \* the same in its file
  usageTurns,   \* records so far
  crashes,
  high,    \* requests in the newest usage that was stored
  evicted, \* a counter was dropped
  unsaved  \* a reset was not stored

memory == <<totals, byModel, recent>>
usageVars == <<memory, due, usageHolder, usageJob, stored, disk, usageTurns, crashes, high, evicted, unsaved>>

Zero == [requests |-> 0, prompt |-> 0, completion |-> 0, total |-> 0]
Rows == [DOMAIN Zero -> Nat]
Buckets == {b \in Seq([model : Models, row : Rows]) : Len(b) <= MaxRecords}
Recents == {s \in Seq(1 .. UsageMaxTurns) : Len(s) <= MaxRecords}

\* what the store has for "usage"; before a first record and after a reset there is no entry
Payloads == [there : BOOLEAN, totals : Rows, byModel : Buckets]
Empty == [there |-> FALSE, totals |-> Zero, byModel |-> <<>>]
Cleared == [usage |-> Empty, recent |-> <<>>]
Parts == {"usage", "recent"}
Stores == [usage : Payloads, recent : Recents]
UsageIdle == [todo |-> <<>>, usage |-> Empty, recent |-> <<>>, clears |-> FALSE]
UsageJobs == [todo : Seq(Parts \cup {"disk", "release"}), usage : Payloads, recent : Recents, clears : BOOLEAN]

UsageTypeOK ==
  /\ totals \in Rows /\ byModel \in Buckets /\ recent \in Recents
  /\ due \subseteq Parts /\ usageHolder \in Threads \cup {Nobody} /\ usageJob \in [Threads -> UsageJobs]
  /\ stored \in Stores /\ disk \in Stores
  /\ usageTurns \in 0 .. UsageMaxTurns /\ crashes \in 0 .. MaxCrashes /\ high \in Nat /\ {evicted, unsaved} \subseteq BOOLEAN

UsageInit ==
  /\ totals = Zero /\ byModel = <<>> /\ recent = <<>> /\ due = Parts /\ usageHolder = Nobody /\ usageJob = [t \in Threads |-> UsageIdle]
  /\ stored = Cleared /\ disk = Cleared /\ usageTurns = 0 /\ crashes = 0 /\ high = 0 /\ evicted = FALSE /\ unsaved = FALSE

-------------------------------------------------------------------------------
\* an answer that does not tell its total costs the sum
UsageTotal(usage) == IF usage.total = 0 THEN usage.prompt + usage.completion ELSE usage.total
Plus(row, usage) ==
  [requests |-> row.requests + 1, prompt |-> row.prompt + usage.prompt, completion |-> row.completion + usage.completion, total |-> row.total + UsageTotal(usage)]

\* a faulty Newest: room for one more is made too late
NewestLate(seq) == IF Len(seq) > MaxRecords + 1 THEN Tail(seq) ELSE seq

\* _add, _evict_overflow: the counter moves to the end, and the first makes room
Places(bucket, model) == {n \in DOMAIN bucket : bucket[n].model = model}
UsageAdded(bucket, model, usage) ==
  IF Places(bucket, model) = {} THEN Append(bucket, [model |-> model, row |-> Plus(Zero, usage)])
  ELSE LET n == CHOOSE n \in Places(bucket, model) : TRUE
       IN Append(RemoveAt(bucket, n), [model |-> model, row |-> Plus(bucket[n].row, usage)])
Newest(seq) == IF Len(seq) > MaxRecords THEN Tail(seq) ELSE seq

\* _snapshot_locked
Snapshot == [there |-> TRUE, totals |-> totals, byModel |-> byModel]

\* a faulty Takes: the lock is not waited for
TakesAnyway(t) == usageHolder' = t

\* _persist_lock
Takes(t) == usageHolder = Nobody /\ usageHolder' = t
Writes(t, todo, clears) ==
  usageJob' = [usageJob EXCEPT ![t] =
    [todo |-> todo, usage |-> IF clears THEN Empty ELSE Snapshot', recent |-> recent', clears |-> clears]]

\* record: outside the event loop the usage is always written
Record(t, model, usage, looped) ==
  /\ usageJob[t] = UsageIdle /\ usageTurns < UsageMaxTurns /\ usageTurns' = usageTurns + 1
  /\ totals' = Plus(totals, usage)
  /\ byModel' = Newest(UsageAdded(byModel, model, usage))
  /\ recent' = Newest(Append(recent, usageTurns'))
  /\ evicted' = (evicted \/ Len(UsageAdded(byModel, model, usage)) > MaxRecords)
  /\ LET parts == (IF looped THEN due ELSE due \cup {"usage"})
     IN /\ due' = due \ parts
        /\ Takes(t) /\ Writes(t, Only(<<"usage", "recent", "release">>, parts \cup {"release"}), FALSE)
  /\ UNCHANGED <<stored, disk, crashes, high, unsaved>>

\* flush
UsageFlush(t) ==
  /\ usageJob[t] = UsageIdle /\ Takes(t) /\ due' = {} /\ UNCHANGED memory /\ Writes(t, <<"usage", "recent", "disk", "release">>, FALSE)
  /\ UNCHANGED <<stored, disk, usageTurns, crashes, high, evicted, unsaved>>

\* reset
Reset(t) ==
  /\ usageJob[t] = UsageIdle /\ Takes(t)
  /\ totals' = Zero /\ byModel' = <<>> /\ recent' = <<>> /\ due' = Parts /\ evicted' = FALSE
  /\ Writes(t, <<"usage", "recent", "release">>, TRUE)
  /\ UNCHANGED <<stored, disk, usageTurns, crashes, high, unsaved>>

\* the next part is written
UsageDone(t) == usageJob' = [usageJob EXCEPT ![t].todo = Tail(@)]
NextIs(t, what) == usageJob[t].todo # <<>> /\ Head(usageJob[t].todo) = what
Write(t) ==
  /\ \E part \in Parts :
       /\ NextIs(t, part) /\ stored' = [stored EXCEPT ![part] = IF part = "usage" THEN usageJob[t].usage ELSE usageJob[t].recent]
       /\ high' = IF part = "recent" THEN high
                  ELSE IF unsaved \/ usageJob[t].clears \/ usageJob[t].usage.totals.requests > high THEN usageJob[t].usage.totals.requests ELSE high
       /\ unsaved' = (unsaved /\ part = "recent")
  /\ UsageDone(t) /\ UNCHANGED <<memory, due, usageHolder, disk, usageTurns, crashes, evicted>>

\* or fails, and what is left is not tried
UsageWriteFails(t) ==
  /\ NextIs(t, "usage") \/ NextIs(t, "recent") \/ NextIs(t, "disk")
  /\ usageJob' = [usageJob EXCEPT ![t].todo = <<"release">>]
  /\ unsaved' = (unsaved \/ usageJob[t].clears)
  /\ UNCHANGED <<memory, due, usageHolder, stored, disk, usageTurns, crashes, high, evicted>>

\* store.flush
ToDisk(t) == NextIs(t, "disk") /\ disk' = stored /\ UsageDone(t) /\ UNCHANGED <<memory, due, usageHolder, stored, usageTurns, crashes, high, evicted, unsaved>>
Release(t) ==
  /\ NextIs(t, "release") /\ usageHolder' = Nobody /\ usageJob' = [usageJob EXCEPT ![t] = UsageIdle]
  /\ UNCHANGED <<memory, due, stored, disk, usageTurns, crashes, high, evicted, unsaved>>

\* the store writes its file on its own
Saved == disk # stored /\ disk' = stored /\ UNCHANGED <<memory, due, usageHolder, usageJob, stored, usageTurns, crashes, high, evicted, unsaved>>

\* _USAGE_PERSIST_INTERVAL, _RECENT_PERSIST_INTERVAL
Passes(part) == part \notin due /\ due' = due \cup {part} /\ UNCHANGED <<memory, usageHolder, usageJob, stored, disk, usageTurns, crashes, high, evicted, unsaved>>

\* the process dies and another starts: _restore, which reads no records without a usage
Restart ==
  /\ crashes < MaxCrashes /\ crashes' = crashes + 1
  /\ usageHolder' = Nobody /\ usageJob' = [t \in Threads |-> UsageIdle] /\ due' = Parts
  /\ stored' = disk /\ totals' = disk.usage.totals /\ byModel' = disk.usage.byModel /\ recent' = (IF disk.usage.there THEN disk.recent ELSE <<>>)
  /\ high' = disk.usage.totals.requests /\ unsaved' = FALSE
  /\ evicted' = TRUE \* not known
  /\ UNCHANGED <<disk, usageTurns>>

UsageNext ==
  \/ \E t \in Threads :
       \/ \E model \in Models, usage \in Usages, looped \in BOOLEAN : Record(t, model, usage, looped)
       \/ UsageFlush(t) \/ Reset(t) \/ Write(t) \/ UsageWriteFails(t) \/ ToDisk(t) \/ Release(t)
  \/ Saved \/ Restart
  \/ \E part \in Parts : Passes(part)

UsageSpec == UsageInit /\ [][UsageNext]_usageVars

-------------------------------------------------------------------------------
Column(bucket, field) == [n \in DOMAIN bucket |-> bucket[n].row[field]]
SumOf(bucket, field) == Total(Column(bucket, field))

\* Usage: the counters of the models add up to the totals; the store has the newest usage that
\* was written, never more than the totals, so that a reset is not undone by a record made
\* before it; and only a failed reset leaves what it should have cleared.
UsageAddsUp ==
  /\ \A field \in DOMAIN Zero :
       SumOf(byModel, field) <= totals[field] /\ (~evicted => SumOf(byModel, field) = totals[field])
  /\ ~unsaved => stored.usage.totals.requests = high
  /\ (~unsaved /\ \A t \in Threads : ~usageJob[t].clears) => stored.usage.totals.requests <= totals.requests
=============================================================================
