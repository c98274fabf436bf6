---------------------------- MODULE StoredResponses ----------------------------
(***************************************************************************)
(* Stored responses of /v1/responses: create_response, cancel_response and *)
(* delete_response of api/openai.py over the responses store.  The store   *)
(* is read on the event loop but set on worker threads (asyncio.to_thread),*)
(* so a write is under way while other handlers run, goes on when its task *)
(* is cancelled, and is overtaken by a later one.  A record is abstracted  *)
(* to its status and to whether its conversation has the model's output;   *)
(* every request asks for its response to be stored.                       *)
(***************************************************************************)
EXTENDS Naturals

CONSTANTS
  Responses,  \* response ids
  Callers     \* callers of cancel_response

ASSUME ResponsesAssumption == Responses # {} /\ Responses \cap Callers = {}

VARIABLES
  mode,      \* req.stream
  pc,        \* where create_response is, or the generator it returned
  rec,       \* record of the responses store
  write,     \* by writer, a record on its way to the store in a worker thread
  listed,    \* the entry is in _INFLIGHT_RESPONSES
  cancel,    \* entry["cancel"]
  result,    \* status of the response that was made; of a stream, set with completed
  caller,    \* the response a caller of cancel_response waits for
  acked      \* responses whose cancellation was confirmed to a caller

asked == <<caller, acked>>
vars == <<mode, pc, rec, write, listed, cancel, result, caller, acked>>

None == [status |-> "none", output |-> FALSE]
Record(s, o) == [status |-> s, output |-> o]
Terminal == {"final", "cancelled"}     \* final: completed, incomplete or failed
Records == [status : Terminal \cup {"in_progress"}, output : BOOLEAN] \cup {None}

Nobody == "nobody"
Closer(r) == <<"closer", r>>           \* the finally of _guarded writes apart from the handler
Writers == Responses \cup Callers \cup {Closer(r) : r \in Responses}
Idle == [id |-> Nobody, record |-> None]

ASSUME NamesAssumption ==
  /\ Nobody \notin Responses
  /\ \A r \in Responses : Closer(r) \notin Responses \cup Callers

Places == {"new", "creating", "calling", "saving", "ready", "streaming", "pulling",
           "finishing", "closing", "done", "gone"}

\* The values the variables take.
TypeOK ==
  /\ mode \in [Responses -> {"plain", "stream"}]
  /\ pc \in [Responses -> Places]
  /\ rec \in [Responses -> Records]
  /\ write \in [Writers -> [id : Responses, record : Records \ {None}] \cup {Idle}]
  /\ listed \in [Responses -> BOOLEAN] /\ cancel \in [Responses -> BOOLEAN]
  /\ result \in [Responses -> Terminal \cup {"none"}]
  /\ caller \in [Callers -> Responses \cup {Nobody}]
  /\ acked \subseteq Responses

Init ==
  /\ mode \in [Responses -> {"plain", "stream"}]
  /\ pc = [r \in Responses |-> "new"]
  /\ rec = [r \in Responses |-> None]
  /\ write = [w \in Writers |-> Idle]
  /\ listed = [r \in Responses |-> FALSE] /\ cancel = [r \in Responses |-> FALSE]
  /\ result = [r \in Responses |-> "none"]
  /\ caller = [c \in Callers |-> Nobody] /\ acked = {}

Goto(r, p) == pc' = [pc EXCEPT ![r] = p]
Unlist(r) == listed' = [listed EXCEPT ![r] = FALSE]

\* _store_set begins: the thread has the record, the writer waits or goes away
Submit(w, r, record) == write' = [write EXCEPT ![w] = [id |-> r, record |-> record]]

\* JsonStore.set, in the thread
Set(w) ==
  /\ write[w] # Idle
  /\ rec' = [rec EXCEPT ![write[w].id] = write[w].record]
  /\ write' = [write EXCEPT ![w] = Idle]
  /\ UNCHANGED <<mode, pc, listed, cancel, result, asked>>

-------------------------------------------------------------------------------
(* create_response *)

Create(r) ==
  /\ pc[r] = "new"
  /\ listed' = [listed EXCEPT ![r] = TRUE]
  /\ Submit(r, r, Record("in_progress", FALSE))
  /\ Goto(r, "creating")
  /\ UNCHANGED <<mode, rec, cancel, result, asked>>

Created(r) ==
  /\ pc[r] = "creating" /\ write[r] = Idle
  /\ Goto(r, "calling")
  /\ UNCHANGED <<mode, rec, write, listed, cancel, result, asked>>

\* the task is cancelled before the try: the entry stays behind
CreateCancelled(r) ==
  /\ pc[r] = "creating"
  /\ Goto(r, "gone")
  /\ UNCHANGED <<mode, rec, write, listed, cancel, result, asked>>

\* the provider fails or the task is cancelled; the record stays in progress
CallFails(r) ==
  /\ pc[r] = "calling"
  /\ Unlist(r)
  /\ Goto(r, "gone")
  /\ UNCHANGED <<mode, rec, write, cancel, result, asked>>

\* a faulty Outcome: a response keeps the status it was created with
OutcomeAsCreated(r) == IF cancel[r] THEN "cancelled" ELSE "in_progress"

\* the status after _cancelled_public, which a cancel asked for so far calls for
Outcome(r) == IF cancel[r] THEN "cancelled" ELSE "final"

Answered(r) ==
  /\ pc[r] = "calling" /\ mode[r] = "plain"
  /\ result' = [result EXCEPT ![r] = Outcome(r)]
  /\ Submit(r, r, Record(Outcome(r), TRUE))
  /\ Goto(r, "saving")
  /\ UNCHANGED <<mode, rec, listed, cancel, asked>>

Saved(r) ==
  /\ pc[r] = "saving" /\ write[r] = Idle
  /\ Unlist(r)
  /\ Goto(r, "done")
  /\ UNCHANGED <<mode, rec, write, cancel, result, asked>>

\* the task is cancelled; its thread goes on
SaveCancelled(r) ==
  /\ pc[r] = "saving" /\ write[r] # Idle
  /\ Unlist(r)
  /\ Goto(r, "gone")
  /\ UNCHANGED <<mode, rec, write, cancel, result, asked>>

StreamReturned(r) ==
  /\ pc[r] = "calling" /\ mode[r] = "stream"
  /\ Goto(r, "ready")
  /\ UNCHANGED <<mode, rec, write, listed, cancel, result, asked>>

-------------------------------------------------------------------------------
(* _guarded over translate_stream over _CancellableStream *)

Start(r) ==
  /\ pc[r] = "ready"
  /\ Goto(r, "streaming")
  /\ UNCHANGED <<mode, rec, write, listed, cancel, result, asked>>

\* the client is gone before the generator ran: its finally never will
NeverStarted(r) ==
  /\ pc[r] = "ready"
  /\ Goto(r, "gone")
  /\ UNCHANGED <<mode, rec, write, listed, cancel, result, asked>>

Pull(r) ==
  /\ pc[r] = "streaming" /\ ~cancel[r]
  /\ Goto(r, "pulling")
  /\ UNCHANGED <<mode, rec, write, listed, cancel, result, asked>>

Chunk(r) ==
  /\ pc[r] = "pulling"
  /\ Goto(r, "streaming")
  /\ UNCHANGED <<mode, rec, write, listed, cancel, result, asked>>

\* the upstream ends or fails, or a cancel stops it: _on_complete
Complete(r) ==
  /\ \/ pc[r] = "pulling"
     \/ pc[r] = "streaming" /\ cancel[r]
  /\ result' = [result EXCEPT ![r] = "final"]
  /\ Submit(r, r, Record(Outcome(r), TRUE))
  /\ Goto(r, "finishing")
  /\ UNCHANGED <<mode, rec, listed, cancel, asked>>

\* the generator is closed, or cancelled while its last write goes on, or has
\* sent its last event: the finally begins
Leave(r) ==
  /\ pc[r] \in {"streaming", "pulling", "finishing"}
  /\ Unlist(r)
  /\ Goto(r, "closing")
  /\ UNCHANGED <<mode, rec, write, cancel, result, asked>>

\* a faulty Closed: completed is not looked at
ClosedAnyway(r) ==
  /\ pc[r] = "closing"
  /\ IF rec[r].status = "in_progress"
       THEN Submit(Closer(r), r, Record("cancelled", rec[r].output))
       ELSE UNCHANGED write
  /\ Goto(r, "done")
  /\ UNCHANGED <<mode, rec, listed, cancel, result, asked>>

\* a faulty Closed: without _store_abandoned
ClosedQuietly(r) ==
  /\ pc[r] = "closing"
  /\ Goto(r, "done")
  /\ UNCHANGED <<mode, rec, write, listed, cancel, result, asked>>

\* the translator is closed: _store_abandoned, unless completed
Closed(r) ==
  /\ pc[r] = "closing"
  /\ IF result[r] = "none" /\ rec[r].status = "in_progress"
       THEN Submit(Closer(r), r, Record("cancelled", rec[r].output))
       ELSE UNCHANGED write
  /\ Goto(r, "done")
  /\ UNCHANGED <<mode, rec, listed, cancel, result, asked>>

\* the task is cancelled while the translator is closed: nothing more is stored
CloseCancelled(r) ==
  /\ pc[r] = "closing"
  /\ Goto(r, "gone")
  /\ UNCHANGED <<mode, rec, write, listed, cancel, result, asked>>

-------------------------------------------------------------------------------
(* cancel_response, delete_response and what else happens to a record *)

\* a faulty CancelRequest: the record as read goes over the new status
CancelMergedBackwards(c, r) ==
  /\ caller[c] = Nobody /\ write[c] = Idle /\ rec[r].status = "in_progress"
  /\ cancel' = [cancel EXCEPT ![r] = @ \/ listed[r]]
  /\ Submit(c, r, rec[r])
  /\ caller' = [caller EXCEPT ![c] = r]
  /\ UNCHANGED <<mode, pc, rec, listed, result, acked>>

CancelRequest(c, r) ==
  /\ caller[c] = Nobody /\ write[c] = Idle /\ rec[r].status = "in_progress"
  /\ cancel' = [cancel EXCEPT ![r] = @ \/ listed[r]]
  /\ Submit(c, r, Record("cancelled", rec[r].output))
  /\ caller' = [caller EXCEPT ![c] = r]
  /\ UNCHANGED <<mode, pc, rec, listed, result, acked>>

CancelReturns(c) ==
  /\ caller[c] # Nobody /\ write[c] = Idle
  /\ acked' = acked \cup {caller[c]}
  /\ caller' = [caller EXCEPT ![c] = Nobody]
  /\ UNCHANGED <<mode, pc, rec, write, listed, cancel, result>>

\* delete_response, or JsonStore.set of another record evicts this one
Discard(r) ==
  /\ rec[r] # None
  /\ rec' = [rec EXCEPT ![r] = None]
  /\ UNCHANGED <<mode, pc, write, listed, cancel, result, asked>>

-------------------------------------------------------------------------------
Handler(r) ==
  \/ Create(r) \/ Created(r) \/ CreateCancelled(r) \/ CallFails(r)
  \/ Answered(r) \/ Saved(r) \/ SaveCancelled(r) \/ StreamReturned(r)

Generator(r) ==
  \/ Start(r) \/ NeverStarted(r) \/ Pull(r) \/ Chunk(r)
  \/ Complete(r) \/ Leave(r) \/ Closed(r) \/ CloseCancelled(r)

Next ==
  \/ \E w \in Writers : Set(w)
  \/ \E r \in Responses : Handler(r) \/ Generator(r) \/ Discard(r)
  \/ \E c \in Callers : CancelReturns(c) \/ \E r \in Responses : CancelRequest(c, r)

Spec == Init /\ [][Next]_vars

-------------------------------------------------------------------------------
Pending(r) == \E w \in Writers : write[w].id = r
CancelAsked(r) == r \in acked \/ \E c \in Callers : caller[c] = r

\* A record that has ended never goes back to in progress: whatever writes are
\* still under way when a response ends, none puts back what it had read before.
TerminalStays ==
  [][\A r \in Responses : rec[r].status \in Terminal => rec'[r].status # "in_progress"]_vars

\* A response that was made and that nobody cancelled is stored as it was made,
\* output and all, once its writes are through, however its client left: the
\* record the abandoned stream would leave never replaces it.
AnswerIsStored ==
  \A r \in Responses :
    result[r] = "final" /\ ~CancelAsked(r) /\ ~Pending(r) =>
      rec[r] \in {None, Record("final", TRUE)}

\* A stream that began and whose closing was let finish leaves no record in
\* progress behind: it completed, was cancelled, or was abandoned and says so.
StreamLeavesNoProgress ==
  \A r \in Responses :
    mode[r] = "stream" /\ pc[r] = "done" /\ ~Pending(r) => rec[r].status # "in_progress"

\* A response whose cancellation was confirmed is cancelled when it is read
\* afterwards, unless it was deleted.
CancelStays == \A r \in acked : rec[r].status \in {"cancelled", "none"}
===============================================================================
