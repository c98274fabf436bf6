------------------------- MODULE StoredResponsesProofs -------------------------
(* Proofs about StoredResponses, for any responses and callers. *)
EXTENDS StoredResponses, TLAPS

-------------------------------------------------------------------------------
(* The inductive invariant *)

\* A write to the record of r is made by its handler, by the closing of its stream,
\* or for a caller that waits for r.
WriterInv ==
  \A w \in Writers, r \in Responses :
    write[w].id = r => w = r \/ w = Closer(r) \/ (w \in Callers /\ caller[w] = r)

\* A response that was not asked for has no record, and none on its way.
NewInv == \A r \in Responses : pc[r] = "new" => rec[r] = None /\ ~Pending(r)

\* As long as the first record of a response is on its way, nothing else about it is:
\* the only write of a record in progress comes first.
FirstInv ==
  \A w \in Writers, r \in Responses :
    write[w].id = r /\ write[w].record.status = "in_progress" =>
      /\ w = r /\ pc[r] \in {"creating", "gone"} /\ result[r] = "none" /\ rec[r] = None
      /\ \A v \in Writers : write[v].id = r => v = r

\* Where a response stands once it was made, or its stream was closed without it.
PlaceInv ==
  \A r \in Responses :
    /\ result[r] # "none" => pc[r] \in {"saving", "finishing", "closing", "done", "gone"}
    /\ pc[r] \in {"saving", "finishing"} => result[r] # "none"
    /\ write[Closer(r)] # Idle => pc[r] = "done" /\ result[r] = "none"

\* The record of r has ended or is about to.
Ending(r) == rec[r].status # "in_progress" \/ Pending(r)

\* A response that was made, or whose handler is done, does not stay in progress.
EndInv == \A r \in Responses : result[r] # "none" \/ pc[r] = "done" => Ending(r)

\* The answer of a response that nobody cancelled is stored or on its way, and
\* whoever set its flag is a caller of cancel_response.
AnswerInv ==
  \A r \in Responses :
    /\ cancel[r] => CancelAsked(r)
    /\ result[r] = "final" /\ ~CancelAsked(r) =>
         \/ write[r].id = r /\ write[r].record = Record("final", TRUE)
         \/ write[r] = Idle /\ rec[r] \in {None, Record("final", TRUE)}

Claims == WriterInv /\ NewInv /\ FirstInv /\ PlaceInv /\ EndInv /\ AnswerInv

IInv == TypeOK /\ Claims

-------------------------------------------------------------------------------
(* Types *)

\* Writers are told apart, and none of them is an id of a response by accident.
LEMMA WriterNames ==
  /\ Responses \subseteq Writers /\ Callers \subseteq Writers
  /\ \A r \in Responses : Closer(r) \in Writers /\ Closer(r) \notin Responses \cup Callers
  /\ \A r, q \in Responses : Closer(r) = Closer(q) => r = q
  /\ \A r \in Responses : r \notin Callers /\ r # Nobody
BY ResponsesAssumption, NamesAssumption DEF Writers, Closer

\* No record is None, and a write that is not idle has a response it is for.
LEMMA WriteShape ==
  ASSUME TypeOK, NEW w \in Writers
  PROVE  /\ write[w] = Idle <=> write[w].id \notin Responses
         /\ write[w] # Idle => write[w].id \in Responses
                               /\ write[w].record \in Records \ {None}
BY WriterNames DEF TypeOK, Idle, None

\* A record is told apart from none by its status.
LEMMA RecordTypes ==
  /\ \A s \in Terminal \cup {"in_progress"}, o \in BOOLEAN :
       Record(s, o) \in Records \ {None} /\ Record(s, o).status = s /\ Record(s, o).output = o
  /\ None \in Records /\ None.status = "none"
  /\ \A x \in Records : x.status # "none" => x.output \in BOOLEAN
  /\ \A x \in Records : x = None <=> x.status = "none"
BY DEF Record, Records, None, Terminal

\* The outcome of a response is a terminal status.
LEMMA OutcomeType ==
  ASSUME TypeOK, NEW r \in Responses
  PROVE  Outcome(r) \in Terminal
BY DEF TypeOK, Outcome, Terminal

\* Every step keeps the types.
LEMMA TypeStep == TypeOK /\ [Next]_vars => TypeOK'
<1> SUFFICES ASSUME TypeOK, [Next]_vars PROVE TypeOK'
  OBVIOUS
<1> USE WriterNames, RecordTypes DEF TypeOK, Goto, Unlist, Submit, Places, asked
<1>1. ASSUME NEW w \in Writers, Set(w) PROVE TypeOK'
  BY <1>1, WriteShape DEF Set
<1>2. ASSUME NEW r \in Responses, Handler(r) PROVE TypeOK'
  <2>1. CASE Create(r)
    BY <2>1 DEF Create
  <2>2. CASE Answered(r)
    BY <2>2, OutcomeType DEF Answered
  <2>3. CASE \/ Created(r) \/ CreateCancelled(r) \/ CallFails(r) \/ Saved(r)
             \/ SaveCancelled(r) \/ StreamReturned(r)
    BY <2>3 DEF Created, CreateCancelled, CallFails, Saved, SaveCancelled, StreamReturned
  <2> QED
    BY <1>2, <2>1, <2>2, <2>3 DEF Handler
<1>3. ASSUME NEW r \in Responses, Generator(r) PROVE TypeOK'
  <2>1. CASE Complete(r)
    BY <2>1, OutcomeType DEF Complete, Terminal
  <2>2. CASE Closed(r)
    BY <2>2 DEF Closed, Terminal
  <2>3. CASE \/ Start(r) \/ NeverStarted(r) \/ Pull(r) \/ Chunk(r) \/ Leave(r)
             \/ CloseCancelled(r)
    BY <2>3 DEF Start, NeverStarted, Pull, Chunk, Leave, CloseCancelled
  <2> QED
    BY <1>3, <2>1, <2>2, <2>3 DEF Generator
<1>4. ASSUME NEW r \in Responses, Discard(r) PROVE TypeOK'
  BY <1>4 DEF Discard
<1>5. ASSUME NEW c \in Callers, CancelReturns(c) PROVE TypeOK'
  BY <1>5 DEF CancelReturns
<1>6. ASSUME NEW c \in Callers, NEW r \in Responses, CancelRequest(c, r) PROVE TypeOK'
  BY <1>6 DEF CancelRequest, Terminal
<1>7. CASE UNCHANGED vars
  BY <1>7 DEF vars
<1> QED
  BY <1>1, <1>2, <1>3, <1>4, <1>5, <1>6, <1>7 DEF Next

\* The variables have their types, for any responses and callers.
THEOREM TypeCorrect == Spec => []TypeOK
<1>1. Init => TypeOK
  BY RecordTypes DEF Init, TypeOK, Places
<1> QED
  BY <1>1, TypeStep, PTL DEF Spec

-------------------------------------------------------------------------------
(* What the helpers do, element by element *)

\* A step of one response moves its program counter alone.
LEMMA Moved ==
  ASSUME TypeOK, NEW r \in Responses, NEW p, Goto(r, p)
  PROVE  pc'[r] = p /\ \A q \in Responses : q # r => pc'[q] = pc[q]
BY DEF TypeOK, Goto

\* The result of one response is set alone.
LEMMA Made ==
  ASSUME TypeOK, NEW r \in Responses, NEW s, result' = [result EXCEPT ![r] = s]
  PROVE  result'[r] = s /\ \A q \in Responses : q # r => result'[q] = result[q]
BY DEF TypeOK

-------------------------------------------------------------------------------
(* The invariant holds *)

\* The thread of a write sets the record.
LEMMA SetStep ==
  ASSUME TypeOK, Claims, NEW w \in Writers, Set(w)
  PROVE  Claims'
<1> DEFINE id == write[w].id
           record == write[w].record
<1>1. id \in Responses /\ record \in Records \ {None} /\ write[w] # Idle
  BY WriteShape DEF Set
<1>2. \A v \in Writers : write'[v] = IF v = w THEN Idle ELSE write[v]
  BY DEF Set, TypeOK
<1>3. \A r \in Responses : rec'[r] = IF r = id THEN record ELSE rec[r]
  BY <1>1 DEF Set, TypeOK
<1>4. UNCHANGED <<pc, result, cancel, caller, acked>>
  BY DEF Set, asked
<1>5. \A v \in Writers, r \in Responses : write'[v].id = r => v # w /\ write[v].id = r
  BY <1>2, NamesAssumption DEF Idle
<1> HIDE DEF id, record
<1>6. WriterInv'
  BY <1>4, <1>5 DEF Claims, WriterInv
<1>7. NewInv'
  BY <1>1, <1>3, <1>4, <1>5 DEF Claims, NewInv, Pending, id
<1>8. FirstInv'
  BY <1>2, <1>3, <1>4, <1>5 DEF Claims, FirstInv, id
<1>9. PlaceInv'
  BY <1>2, <1>4, WriterNames DEF Claims, PlaceInv
<1>10. EndInv'
  <2> SUFFICES ASSUME NEW r \in Responses, result[r] # "none" \/ pc[r] = "done"
               PROVE  Ending(r)'
    BY <1>4 DEF EndInv
  <2>1. CASE id = r
    <3>1. record.status # "in_progress"
      BY <2>1 DEF Claims, FirstInv, id, record
    <3> QED
      BY <1>3, <2>1, <3>1 DEF Ending
  <2>2. CASE id # r /\ Pending(r)
    <3>1. PICK v \in Writers : write[v].id = r
      BY <2>2 DEF Pending
    <3>2. write'[v].id = r
      BY <1>2, <2>2, <3>1 DEF id
    <3> QED
      BY <3>2 DEF Ending, Pending
  <2>3. CASE id # r /\ ~Pending(r)
    BY <1>3, <2>3 DEF Claims, EndInv, Ending
  <2> QED
    BY <2>1, <2>2, <2>3
<1>11. AnswerInv'
  <2> SUFFICES ASSUME NEW r \in Responses
               PROVE  /\ cancel[r] => CancelAsked(r)'
                      /\ result[r] = "final" /\ ~CancelAsked(r)' =>
                           \/ write'[r].id = r /\ write'[r].record = Record("final", TRUE)
                           \/ write'[r] = Idle /\ rec'[r] \in {None, Record("final", TRUE)}
    BY <1>4 DEF AnswerInv
  <2>1. CancelAsked(r)' <=> CancelAsked(r)
    BY <1>4 DEF CancelAsked
  <2>2. cancel[r] => CancelAsked(r)
    BY DEF Claims, AnswerInv
  <2>3. ASSUME result[r] = "final", ~CancelAsked(r), id = r PROVE w = r
    BY <1>1, <2>3 DEF Claims, WriterInv, PlaceInv, CancelAsked, id
  <2>4. ASSUME result[r] = "final", ~CancelAsked(r)
        PROVE  \/ write'[r].id = r /\ write'[r].record = Record("final", TRUE)
               \/ write'[r] = Idle /\ rec'[r] \in {None, Record("final", TRUE)}
    <3>1. CASE w = r
      <4>1. write[r].id = r /\ write[r].record = Record("final", TRUE)
        BY <1>1, <2>4, <3>1 DEF Claims, AnswerInv
      <4>2. id = r /\ record = Record("final", TRUE)
        BY <3>1, <4>1 DEF id, record
      <4>3. rec'[r] = record /\ write'[r] = Idle
        BY <1>2, <1>3, <3>1, <4>2
      <4> QED
        BY <4>2, <4>3
    <3>2. CASE w # r
      <4>1. write'[r] = write[r] /\ rec'[r] = rec[r]
        BY <1>2, <1>3, <2>3, <2>4, <3>2, WriterNames
      <4> QED
        BY <2>4, <4>1 DEF Claims, AnswerInv
    <3> QED
      BY <3>1, <3>2
  <2> QED
    BY <2>1, <2>2, <2>4
<1> QED
  BY <1>6, <1>7, <1>8, <1>9, <1>10, <1>11 DEF Claims

\* A step of a handler that neither stores anything nor makes an answer.
LEMMA MoveStep ==
  ASSUME TypeOK, Claims, NEW r \in Responses, NEW p \in Places \ {"new"},
         Goto(r, p), UNCHANGED <<rec, write, cancel, result, caller, acked>>,
         write[r] = Idle \/ pc[r] \notin {"creating", "gone"} \/ p = "gone",
         result[r] # "none" => p \in {"finishing", "closing", "done", "gone"},
         p \in {"saving", "finishing"} => result[r] # "none",
         pc[r] = "done" => p = "done",
         p = "done" => Ending(r)
  PROVE  Claims'
<1>1. pc'[r] = p /\ \A q \in Responses : q # r => pc'[q] = pc[q]
  BY Moved
<1>2. WriterInv'
  BY DEF Claims, WriterInv
<1>3. NewInv'
  BY <1>1 DEF Claims, NewInv, Pending
<1>4. FirstInv'
  <2> SUFFICES ASSUME NEW w \in Writers, NEW q \in Responses,
                      write[w].id = q, write[w].record.status = "in_progress"
               PROVE  /\ w = q /\ pc'[q] \in {"creating", "gone"} /\ result[q] = "none"
                      /\ rec[q] = None /\ \A v \in Writers : write[v].id = q => v = q
    BY DEF FirstInv
  <2>1. /\ w = q /\ pc[q] \in {"creating", "gone"} /\ result[q] = "none"
        /\ rec[q] = None /\ \A v \in Writers : write[v].id = q => v = q
    BY DEF Claims, FirstInv
  <2>2. write[q] # Idle
    BY <2>1, NamesAssumption DEF Idle
  <2> QED
    BY <1>1, <2>1, <2>2
<1>5. PlaceInv'
  BY <1>1 DEF Claims, PlaceInv
<1>6. EndInv'
  BY <1>1 DEF Claims, EndInv, Ending, Pending
<1>7. AnswerInv'
  BY DEF Claims, AnswerInv, CancelAsked
<1> QED
  BY <1>2, <1>3, <1>4, <1>5, <1>6, <1>7 DEF Claims

\* The first record is on its way.
LEMMA CreateStep ==
  ASSUME TypeOK, Claims, NEW r \in Responses, Create(r)
  PROVE  Claims'
<1>1. pc[r] = "new" /\ rec[r] = None /\ ~Pending(r) /\ result[r] = "none"
  BY DEF Create, Claims, NewInv, PlaceInv
<1>2. pc'[r] = "creating" /\ \A q \in Responses : q # r => pc'[q] = pc[q]
  BY Moved DEF Create
<1>3. /\ write'[r].id = r /\ write'[r].record = Record("in_progress", FALSE)
      /\ \A v \in Writers : v # r => write'[v] = write[v]
    BY WriterNames DEF Create, Submit, TypeOK
<1>4. UNCHANGED <<rec, result, cancel, caller, acked>>
  BY DEF Create, asked
<1>5. \A v \in Writers, q \in Responses : write'[v].id = q => (v = r /\ q = r) \/ (write[v].id = q /\ q # r)
  <2> SUFFICES ASSUME NEW v \in Writers, v # r, NEW q \in Responses, write'[v].id = q
               PROVE  write[v].id = q /\ q # r
    BY <1>3
  <2> QED
    BY <1>1, <1>3 DEF Pending
<1>6. WriterInv'
  BY <1>4, <1>5 DEF Claims, WriterInv
<1>7. NewInv'
  BY <1>2, <1>4, <1>5 DEF Claims, NewInv, Pending
<1>8. FirstInv'
  BY <1>1, <1>2, <1>3, <1>4, <1>5 DEF Claims, FirstInv
<1>9. PlaceInv'
  BY <1>1, <1>2, <1>3, <1>4, WriterNames DEF Claims, PlaceInv
<1>10. EndInv'
  <2> SUFFICES ASSUME NEW q \in Responses, q # r, result[q] # "none" \/ pc[q] = "done"
               PROVE  Ending(q)'
    BY <1>1, <1>2, <1>4 DEF EndInv
  <2>1. CASE Pending(q)
    <3>1. PICK v \in Writers : write[v].id = q
      BY <2>1 DEF Pending
    <3> QED
      BY <1>1, <1>3, <3>1, WriterNames DEF Ending, Pending, Claims, WriterInv
  <2>2. CASE ~Pending(q)
    BY <1>4, <2>2 DEF Ending, Claims, EndInv
  <2> QED
    BY <2>1, <2>2
<1>11. AnswerInv'
  BY <1>1, <1>3, <1>4, WriterNames DEF Claims, AnswerInv, CancelAsked
<1> QED
  BY <1>6, <1>7, <1>8, <1>9, <1>10, <1>11 DEF Claims

\* The answer is made and is on its way, by a plain request or by a stream.
LEMMA AnswerStep ==
  ASSUME TypeOK, Claims, NEW r \in Responses, NEW p \in {"saving", "finishing"},
         NEW s \in {"final", Outcome(r)}, pc[r] \in {"calling", "streaming", "pulling"},
         Goto(r, p), result' = [result EXCEPT ![r] = s],
         Submit(r, r, Record(Outcome(r), TRUE)), UNCHANGED <<rec, cancel, caller, acked>>
  PROVE  Claims'
<1>1. pc'[r] = p /\ \A q \in Responses : q # r => pc'[q] = pc[q]
  BY Moved
<1>2. result'[r] = s /\ \A q \in Responses : q # r => result'[q] = result[q]
  BY Made
<1>3. /\ write'[r].id = r /\ write'[r].record = Record(Outcome(r), TRUE)
      /\ \A v \in Writers : v # r => write'[v] = write[v]
  <2>1. r \in Writers
    BY WriterNames
  <2> QED
    BY <2>1 DEF TypeOK, Submit
<1>4. Record(Outcome(r), TRUE).status # "in_progress" /\ s # "none"
  BY OutcomeType, RecordTypes DEF Terminal
<1>5. ASSUME NEW v \in Writers, write[v].id = r PROVE write[v].record.status # "in_progress"
  BY <1>5 DEF Claims, FirstInv
<1>6. ASSUME NEW v \in Writers, NEW q \in Responses, q # r, write[v].id = q PROVE v # r
  BY <1>6, WriterNames DEF Claims, WriterInv
<1>7. WriterInv'
  BY <1>3 DEF Claims, WriterInv
<1>8. NewInv'
  BY <1>1, <1>3, <1>6 DEF Claims, NewInv, Pending
<1>9. FirstInv'
  <2> SUFFICES ASSUME NEW v \in Writers, NEW q \in Responses,
                      write'[v].id = q, write'[v].record.status = "in_progress"
               PROVE  /\ v = q /\ pc'[q] \in {"creating", "gone"} /\ result'[q] = "none"
                      /\ rec[q] = None /\ \A u \in Writers : write'[u].id = q => u = q
    BY DEF FirstInv
  <2>1. v # r
    BY <1>3, <1>4
  <2>2. q # r /\ write[v].id = q /\ write[v].record.status = "in_progress"
    BY <1>3, <1>5, <2>1
  <2>3. /\ v = q /\ pc[q] \in {"creating", "gone"} /\ result[q] = "none"
        /\ rec[q] = None /\ \A u \in Writers : write[u].id = q => u = q
    BY <2>2 DEF Claims, FirstInv
  <2> QED
    BY <1>1, <1>2, <1>3, <2>2, <2>3
<1>10. PlaceInv'
  BY <1>1, <1>2, <1>3, <1>4, WriterNames DEF Claims, PlaceInv
<1>11. EndInv'
  <2> SUFFICES ASSUME NEW q \in Responses, result'[q] # "none" \/ pc'[q] = "done"
               PROVE  Ending(q)'
    BY DEF EndInv
  <2>1. CASE q = r
    BY <1>3, <2>1, WriterNames DEF Ending, Pending
  <2>2. CASE q # r
    BY <1>1, <1>2, <1>3, <1>6, <2>2 DEF Ending, Pending, Claims, EndInv
  <2> QED
    BY <2>1, <2>2
<1>12. AnswerInv'
  <2>1. ~cancel[r] => Outcome(r) = "final"
    BY DEF Outcome
  <2> QED
    BY <1>2, <1>3, <2>1, WriterNames DEF Claims, AnswerInv, CancelAsked
<1> QED
  BY <1>7, <1>8, <1>9, <1>10, <1>11, <1>12 DEF Claims

\* The stream is closed, and says that it was abandoned unless it was completed.
LEMMA ClosedStep ==
  ASSUME TypeOK, Claims, NEW r \in Responses, Closed(r)
  PROVE  Claims'
<1>1. pc[r] = "closing" /\ pc'[r] = "done" /\ \A q \in Responses : q # r => pc'[q] = pc[q]
  BY Moved DEF Closed
<1>2. UNCHANGED <<rec, result, cancel, caller, acked>>
  BY DEF Closed, asked
<1>3. CASE ~(result[r] = "none" /\ rec[r].status = "in_progress")
  <2>1. write' = write
    BY <1>3 DEF Closed
  <2>2. Ending(r)
    BY <1>3 DEF Claims, EndInv, Ending
  <2> QED
    BY <1>1, <1>2, <2>1, <2>2, MoveStep DEF Closed, Places
<1>4. CASE result[r] = "none" /\ rec[r].status = "in_progress"
  <2> DEFINE c == Closer(r)
  <2>1. c \in Writers /\ c \notin Responses /\ c \notin Callers
        /\ \A q \in Responses : Closer(q) = c => q = r
    BY WriterNames
  <2>2. Submit(c, r, Record("cancelled", rec[r].output)) /\ rec[r].output \in BOOLEAN
    BY <1>4, RecordTypes DEF Closed, TypeOK
  <2>3. Record("cancelled", rec[r].output).status # "in_progress"
    BY <2>2, RecordTypes DEF Terminal
  <2> HIDE DEF c
  <2>4. /\ write'[c].id = r /\ write'[c].record.status # "in_progress"
        /\ \A v \in Writers : v # c => write'[v] = write[v]
    <3>1. /\ write'[c].id = r /\ write'[c].record = Record("cancelled", rec[r].output)
          /\ \A v \in Writers : v # c => write'[v] = write[v]
      BY <2>1, <2>2 DEF TypeOK, Submit
    <3> QED
      BY <2>3, <3>1
  <2>5. ASSUME NEW v \in Writers, NEW q \in Responses, q # r, write[v].id = q PROVE v # c
    BY <2>1, <2>5 DEF Claims, WriterInv, c
  <2>6. WriterInv'
    BY <1>2, <2>4 DEF Claims, WriterInv, c
  <2>7. NewInv'
    BY <1>1, <1>2, <2>4, <2>5 DEF Claims, NewInv, Pending
  <2>8. FirstInv'
    BY <1>1, <1>2, <2>4, <2>5 DEF Claims, FirstInv
  <2>9. PlaceInv'
    BY <1>1, <1>2, <1>4, <2>1, <2>4, WriterNames DEF Claims, PlaceInv, c
  <2>10. EndInv'
    <3> SUFFICES ASSUME NEW q \in Responses, result[q] # "none" \/ pc'[q] = "done"
                 PROVE  Ending(q)'
      BY <1>2 DEF EndInv
    <3>1. CASE q = r
      BY <2>1, <2>4, <3>1 DEF Ending, Pending
    <3>2. CASE q # r
      BY <1>1, <1>2, <2>4, <2>5, <3>2 DEF Ending, Pending, Claims, EndInv
    <3> QED
      BY <3>1, <3>2
  <2>11. AnswerInv'
    BY <1>2, <2>1, <2>4, WriterNames DEF Claims, AnswerInv, CancelAsked
  <2> QED
    BY <2>6, <2>7, <2>8, <2>9, <2>10, <2>11 DEF Claims
<1> QED
  BY <1>3, <1>4

\* A caller has the record cancelled and waits for it.
LEMMA RequestStep ==
  ASSUME TypeOK, Claims, NEW c \in Callers, NEW r \in Responses, CancelRequest(c, r)
  PROVE  Claims'
<1>1. /\ caller[c] = Nobody /\ write[c] = Idle /\ rec[r].status = "in_progress"
      /\ rec[r].output \in BOOLEAN /\ c \in Writers /\ c \notin Responses
      /\ \A q \in Responses : c # Closer(q)
  BY RecordTypes, WriterNames DEF CancelRequest, TypeOK
<1>2. UNCHANGED <<pc, rec, result, acked>>
  BY DEF CancelRequest
<1>3. caller'[c] = r /\ \A d \in Callers : d # c => caller'[d] = caller[d]
  BY DEF CancelRequest, TypeOK
<1>4. \A q \in Responses : q # r => cancel'[q] = cancel[q]
  BY DEF CancelRequest, TypeOK
<1>5. /\ write'[c].id = r /\ write'[c].record = Record("cancelled", rec[r].output)
      /\ \A v \in Writers : v # c => write'[v] = write[v]
    BY <1>1 DEF CancelRequest, Submit, TypeOK
<1>6. write'[c].record.status # "in_progress"
  BY <1>1, <1>5, RecordTypes DEF Terminal
<1>7. \A q \in Responses : CancelAsked(q) => CancelAsked(q)'
  BY <1>1, <1>2, <1>3, NamesAssumption DEF CancelAsked
<1>8. CancelAsked(r)'
  BY <1>3 DEF CancelAsked
<1>9. \A q \in Responses : write[c].id # q
  <2>1. write[c].id = Nobody
    BY <1>1 DEF Idle
  <2> QED
    BY <2>1, NamesAssumption
<1>10. rec[r] # None
  BY <1>1, RecordTypes
<1>11. WriterInv'
  BY <1>3, <1>5, <1>9 DEF Claims, WriterInv
<1>12. NewInv'
  BY <1>2, <1>5, <1>10 DEF Claims, NewInv, Pending
<1>13. FirstInv'
  BY <1>2, <1>5, <1>6, <1>10 DEF Claims, FirstInv
<1>14. PlaceInv'
  BY <1>1, <1>2, <1>5, WriterNames DEF Claims, PlaceInv
<1>15. EndInv'
  BY <1>1, <1>2, <1>5, <1>9 DEF Claims, EndInv, Ending, Pending
<1>16. AnswerInv'
  BY <1>1, <1>2, <1>4, <1>5, <1>7, <1>8, WriterNames DEF Claims, AnswerInv
<1> QED
  BY <1>11, <1>12, <1>13, <1>14, <1>15, <1>16 DEF Claims

\* A caller is told that the response is cancelled.
LEMMA ReturnStep ==
  ASSUME TypeOK, Claims, NEW c \in Callers, CancelReturns(c)
  PROVE  Claims'
<1>1. write[c] = Idle /\ UNCHANGED <<pc, rec, write, cancel, result>>
  BY DEF CancelReturns
<1>2. caller'[c] = Nobody /\ \A d \in Callers : d # c => caller'[d] = caller[d]
  BY DEF CancelReturns, TypeOK
<1>3. \A q \in Responses : CancelAsked(q)' <=> CancelAsked(q)
  BY <1>2, NamesAssumption DEF CancelAsked, CancelReturns
<1>4. WriterInv'
  BY <1>1, <1>2, NamesAssumption DEF Claims, WriterInv, Idle
<1>5. NewInv' /\ FirstInv' /\ PlaceInv'
  BY <1>1 DEF Claims, NewInv, FirstInv, PlaceInv, Pending
<1>6. EndInv'
  BY <1>1 DEF Claims, EndInv, Pending, Ending
<1>7. AnswerInv'
  BY <1>1, <1>3 DEF Claims, AnswerInv
<1> QED
  BY <1>4, <1>5, <1>6, <1>7 DEF Claims

\* A record is deleted or evicted.
LEMMA DiscardStep ==
  ASSUME TypeOK, Claims, NEW r \in Responses, Discard(r)
  PROVE  Claims'
<1>1. UNCHANGED <<pc, write, cancel, result, caller, acked>>
  BY DEF Discard, asked
<1>2. rec'[r] = None /\ \A q \in Responses : q # r => rec'[q] = rec[q]
  BY DEF Discard, TypeOK
<1>3. UNCHANGED WriterInv /\ UNCHANGED PlaceInv
  BY <1>1 DEF WriterInv, PlaceInv
<1>4. \A q \in Responses : (CancelAsked(q)' <=> CancelAsked(q)) /\ (Pending(q)' <=> Pending(q))
  BY <1>1 DEF CancelAsked, Pending
<1>5. NewInv'
  BY <1>1, <1>2, <1>4 DEF Claims, NewInv
<1>6. FirstInv'
  BY <1>1, <1>2 DEF Claims, FirstInv
<1>7. EndInv'
  BY <1>1, <1>2, <1>4, RecordTypes DEF Claims, EndInv, Ending
<1>8. AnswerInv'
  BY <1>1, <1>2, <1>4 DEF Claims, AnswerInv
<1> QED
  BY <1>3, <1>5, <1>6, <1>7, <1>8 DEF Claims

\* Every step keeps the invariant.
LEMMA Step == IInv /\ [Next]_vars => IInv'
<1> SUFFICES ASSUME TypeOK, Claims, [Next]_vars PROVE Claims'
  BY TypeStep DEF IInv, Claims
<1>1. ASSUME NEW r \in Responses, Handler(r) PROVE Claims'
  <2>1. CASE Create(r)
    BY <2>1, CreateStep
  <2>2. CASE Answered(r)
    BY <2>2, AnswerStep DEF Answered, asked
  <2>3. CASE Created(r)
    BY <2>3, MoveStep DEF Created, asked, Places, Claims, PlaceInv
  <2>4. CASE CreateCancelled(r) \/ CallFails(r) \/ SaveCancelled(r)
    BY <2>4, MoveStep DEF CreateCancelled, CallFails, SaveCancelled, asked, Places
  <2>5. CASE Saved(r)
    BY <2>5, MoveStep DEF Saved, asked, Places, Claims, PlaceInv, EndInv
  <2>6. CASE StreamReturned(r)
    BY <2>6, MoveStep DEF StreamReturned, asked, Places, Claims, PlaceInv
  <2> QED
    BY <1>1, <2>1, <2>2, <2>3, <2>4, <2>5, <2>6 DEF Handler
<1>2. ASSUME NEW r \in Responses, Generator(r) PROVE Claims'
  <2>1. CASE Complete(r)
    BY <2>1, AnswerStep DEF Complete, asked
  <2>2. CASE Closed(r)
    BY <2>2, ClosedStep
  <2>3. CASE Start(r) \/ Pull(r) \/ Chunk(r)
    BY <2>3, MoveStep DEF Start, Pull, Chunk, asked, Places, Claims, PlaceInv
  <2>4. CASE NeverStarted(r) \/ CloseCancelled(r)
    BY <2>4, MoveStep DEF NeverStarted, CloseCancelled, asked, Places
  <2>5. CASE Leave(r)
    BY <2>5, MoveStep DEF Leave, asked, Places
  <2> QED
    BY <1>2, <2>1, <2>2, <2>3, <2>4, <2>5 DEF Generator
<1>3. CASE UNCHANGED vars
  <2>1. UNCHANGED <<pc, rec, write, cancel, result, caller, acked>>
    BY <1>3 DEF vars
  <2>2. WriterInv' /\ NewInv' /\ FirstInv' /\ PlaceInv'
    BY <2>1 DEF Claims, WriterInv, NewInv, FirstInv, PlaceInv, Pending
  <2>3. EndInv'
    BY <2>1 DEF Claims, EndInv, Ending, Pending
  <2>4. AnswerInv'
    BY <2>1 DEF Claims, AnswerInv, CancelAsked
  <2> QED
    BY <2>2, <2>3, <2>4 DEF Claims
<1> QED
  BY <1>1, <1>2, <1>3, SetStep, DiscardStep, ReturnStep, RequestStep DEF Next

\* The inductive invariant holds of every reachable state: the types, where a record may be on
\* its way to the store, and what has been stored when a response is over.
THEOREM Invariance == Spec => []IInv
<1>1. Init => IInv
  <2> SUFFICES ASSUME Init PROVE IInv
    OBVIOUS
  <2>1. TypeOK
    BY RecordTypes DEF Init, TypeOK, Places
  <2>2. \A w \in Writers, r \in Responses : write[w] = Idle /\ write[w].id # r
    BY NamesAssumption DEF Init, Idle
  <2>3. \A r \in Responses :
          pc[r] = "new" /\ rec[r] = None /\ result[r] = "none" /\ ~cancel[r]
    BY DEF Init
  <2> QED
    BY <2>1, <2>2, <2>3, WriterNames DEF IInv, Claims, WriterInv, NewInv, FirstInv, PlaceInv, EndInv,
       AnswerInv, Pending
<1> QED
  BY <1>1, Step, PTL DEF Spec

-------------------------------------------------------------------------------
\* create_response: the answer of a response that nobody cancelled is what the store has
\* in the end, whatever writes overtake each other and however its client leaves.
THEOREM AnswerStored == Spec => []AnswerIsStored
<1>1. IInv => AnswerIsStored
  <2> SUFFICES ASSUME IInv, NEW r \in Responses, result[r] = "final", ~CancelAsked(r), ~Pending(r)
               PROVE  rec[r] \in {None, Record("final", TRUE)}
    BY DEF AnswerIsStored
  <2>1. write[r].id # r
    BY WriterNames DEF Pending
  <2> QED
    BY <2>1 DEF IInv, Claims, AnswerInv
<1> QED
  BY <1>1, Invariance, PTL

\* _guarded and _store_abandoned: a stream whose closing was let finish has ended.
THEOREM StreamEnds == Spec => []StreamLeavesNoProgress
<1>1. IInv => StreamLeavesNoProgress
  BY DEF IInv, Claims, EndInv, Ending, StreamLeavesNoProgress
<1> QED
  BY <1>1, Invariance, PTL

\* Only Create writes a record in progress, and no record is there before that write.
THEOREM TerminalRecordStays == Spec => TerminalStays
<1>1. IInv /\ [Next]_vars =>
        [\A r \in Responses : rec[r].status \in Terminal => rec'[r].status # "in_progress"]_vars
  <2> SUFFICES ASSUME IInv, Next, NEW r \in Responses, rec[r].status \in Terminal
               PROVE  rec'[r].status # "in_progress"
    OBVIOUS
  <2>1. rec[r].status # "in_progress" /\ TypeOK /\ None.status # "in_progress" /\ rec[r] # None
    BY RecordTypes DEF IInv, Claims, Terminal
  <2>2. ASSUME NEW w \in Writers, Set(w) PROVE rec'[r].status # "in_progress"
    <3>1. write[w].id \in Responses
      BY <2>1, <2>2, WriteShape DEF Set
    <3>2. rec'[r] = IF r = write[w].id THEN write[w].record ELSE rec[r]
      BY <2>1, <2>2, <3>1 DEF Set, TypeOK
    <3> QED
      BY <2>1, <3>2 DEF IInv, Claims, FirstInv
  <2>3. ASSUME NEW q \in Responses, Discard(q) PROVE rec'[r].status # "in_progress"
    BY <2>1, <2>3 DEF Discard, TypeOK
  <2>4. ASSUME NEW q \in Responses, Handler(q) \/ Generator(q) PROVE rec' = rec
    BY <2>4 DEF Handler, Create, Created, CreateCancelled, CallFails, Answered, Saved,
       SaveCancelled, StreamReturned, Generator, Start, NeverStarted, Pull, Chunk, Complete,
       Leave, Closed, CloseCancelled
  <2>5. ASSUME NEW c \in Callers, CancelReturns(c) \/ \E q \in Responses : CancelRequest(c, q)
        PROVE  rec' = rec
    BY <2>5 DEF CancelReturns, CancelRequest
  <2> QED
    BY <2>1, <2>2, <2>3, <2>4, <2>5 DEF Next
<1> QED
  BY <1>1, Invariance, PTL DEF Spec, TerminalStays
===============================================================================
