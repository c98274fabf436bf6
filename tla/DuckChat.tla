------------------------------- MODULE DuckChat -------------------------------
(***************************************************************************)
(* Duck.ai: the attestation a client keeps (duckai/client.py) and a        *)
(* request that is retried until something was delivered (duckai/api.py).  *)
(* Every script served is solved into one attestation, so both bear its    *)
(* number; 0 is INITIAL_JSA.  The account's lock admits one request, but   *)
(* solving a script goes on beside it.                                     *)
(***************************************************************************)
EXTENDS Naturals, Sequences, FiniteSets

CONSTANTS
  DuckRequests, \* requests, one after the other
  DuckRetries,  \* MAX_RETRIES
  DuckEvents,   \* events of a stream
  Scripts       \* bound on the scripts served

VARIABLES
  jsa,         \* DuckAIClient._jsa, and the script it is of
  warm,        \* the script that the warm task solves, 0 without one
  check,       \* the script that a status call outside the request solves, 0 without one
  served,      \* scripts served
  duckRefused, \* attestations that were refused
  duckReq,     \* the request under way
  out          \* what its caller was sent

duckVars == <<jsa, warm, check, served, duckRefused, duckReq, out>>

ASSUME DuckAssumption == DuckRequests \in Nat /\ DuckRetries \in Nat /\ DuckEvents \in Nat /\ Scripts \in Nat

Attestations == 0 .. Scripts
Line(kind) == [kind |-> kind]
Sent == [kind : {"prelude", "error", "done"}] \cup [kind : {"event"}, of : (0 .. DuckRetries) \X (1 .. DuckEvents)]

DuckReqStates ==
  [n : 0 .. DuckRequests, pc : {"idle", "attest", "solve", "post", "stream", "join"},
   attempt : 0 .. DuckRetries, header : Attestations, events : 0 .. DuckEvents, delivered : BOOLEAN]

DuckTypeOK ==
  /\ jsa \in Attestations /\ warm \in Attestations /\ check \in Attestations /\ served \in Attestations
  /\ duckRefused \subseteq Attestations /\ duckReq \in DuckReqStates /\ out \in Seq(Sent)

DuckInit ==
  /\ jsa = 0 /\ warm = 0 /\ check = 0 /\ served = 0 /\ duckRefused = {}
  /\ duckReq = [n |-> 0, pc |-> "idle", attempt |-> 0, header |-> 0, events |-> 0, delivered |-> FALSE]
  /\ out = <<>>

Serves(next) == served < Scripts /\ next = served + 1 /\ served' = next

\* stream_openai: the role is sent once the account is locked
Begin ==
  /\ duckReq.pc = "idle" /\ duckReq.n < DuckRequests
  /\ duckReq' = [duckReq EXCEPT !.n = @ + 1, !.pc = "attest", !.attempt = 0, !.header = 0, !.events = 0, !.delivered = FALSE]
  /\ out' = <<Line("prelude")>>
  /\ UNCHANGED <<jsa, warm, check, served, duckRefused>>

-------------------------------------------------------------------------------
\* what an attempt may fail with
DuckFailures == {"transport", "challenge", "retryable", "fatal"}

\* a faulty DuckAgain: the stream is opened again whatever the caller has
AgainAnyway(kind) == kind \in {"challenge", "retryable"} /\ duckReq.attempt < DuckRetries

\* _open_stream: a failure is retried if nothing was delivered
DuckAgain(kind) ==
  /\ kind \in {"challenge", "retryable"}
  /\ ~duckReq.delivered /\ duckReq.attempt < DuckRetries

\* invalidate_attestation drops it and cancels the warm task
Invalidate == jsa' = 0 /\ warm' = 0

DuckFail(kind) ==
  /\ IF DuckAgain(kind)
       THEN /\ duckReq' = [duckReq EXCEPT !.pc = "attest", !.attempt = @ + 1, !.header = 0, !.events = 0]
            /\ UNCHANGED out
       ELSE /\ duckReq' = [duckReq EXCEPT !.pc = "idle"]
            /\ out' = Append(out, Line("error"))
  /\ IF kind = "challenge" THEN Invalidate ELSE UNCHANGED <<jsa, warm>>

\* attestation: the one at hand, or that of a script the status brings
Attest ==
  /\ duckReq.pc = "attest"
  /\ \/ /\ jsa # 0
        /\ duckReq' = [duckReq EXCEPT !.pc = "post", !.header = jsa]
        /\ UNCHANGED served
     \/ /\ jsa = 0
        /\ \E next \in Attestations : Serves(next) /\ duckReq' = [duckReq EXCEPT !.pc = "solve", !.header = next]
     \/ /\ jsa = 0    \* no script comes with the status
        /\ duckReq' = [duckReq EXCEPT !.pc = "post", !.header = 0]
        /\ UNCHANGED served
  /\ UNCHANGED <<jsa, warm, check, duckRefused, out>>

\* the status call itself fails
StatusFails(kind) ==
  /\ duckReq.pc = "attest" /\ jsa = 0
  /\ DuckFail(kind)
  /\ UNCHANGED <<check, served, duckRefused>>

\* _refresh_attestation of the request; without a solution it goes out with what there is
Solve(solved) ==
  /\ duckReq.pc = "solve"
  /\ jsa' = IF solved THEN duckReq.header ELSE 0
  /\ warm' = IF solved THEN warm ELSE 0
  /\ duckReq' = [duckReq EXCEPT !.pc = "post", !.header = jsa']
  /\ UNCHANGED <<check, served, duckRefused, out>>

\* chat: the upstream accepts the request; a new script is solved beside the stream, unless
\* the task before is at work
Accept ==
  /\ duckReq.pc = "post"
  /\ duckReq' = [duckReq EXCEPT !.pc = "stream"]
  /\ \/ UNCHANGED <<warm, served>>
     \/ \E next \in Attestations : Serves(next) /\ warm' = IF warm = 0 THEN next ELSE warm
  /\ UNCHANGED <<jsa, check, duckRefused, out>>

\* it does not, or the stream breaks; a challenge is about the attestation that was sent
Break(kind) ==
  /\ duckReq.pc \in {"post", "stream"}
  /\ duckRefused' = IF kind = "challenge" THEN duckRefused \cup {duckReq.header} ELSE duckRefused
  /\ DuckFail(kind)
  /\ UNCHANGED <<check, served>>

DuckEvent ==
  /\ duckReq.pc = "stream" /\ duckReq.events < DuckEvents
  /\ duckReq' = [duckReq EXCEPT !.events = @ + 1, !.delivered = TRUE]
  /\ out' = Append(out, [kind |-> "event", of |-> <<duckReq.attempt, duckReq.events + 1>>])
  /\ UNCHANGED <<jsa, warm, check, served, duckRefused>>

\* the end of the stream waits for the warm task
EndOfStream ==
  /\ duckReq.pc = "stream" /\ duckReq' = [duckReq EXCEPT !.pc = "join"]
  /\ UNCHANGED <<jsa, warm, check, served, duckRefused, out>>

Done ==
  /\ duckReq.pc = "join" /\ warm = 0
  /\ duckReq' = [duckReq EXCEPT !.pc = "idle"] /\ out' = Append(out, Line("done"))
  /\ UNCHANGED <<jsa, warm, check, served, duckRefused>>

DuckCancelled ==
  /\ duckReq.pc # "idle" /\ duckReq' = [duckReq EXCEPT !.pc = "idle"]
  /\ UNCHANGED <<jsa, warm, check, served, duckRefused, out>>

-------------------------------------------------------------------------------
\* _warm_attestation: an unsolved script leaves the attestation as it is
WarmEnds(solved) ==
  /\ warm # 0 /\ warm' = 0
  /\ jsa' = IF solved THEN warm ELSE jsa
  /\ UNCHANGED <<check, served, duckRefused, duckReq, out>>

\* check_auth, of a revival or a start
Check ==
  /\ check = 0 /\ \E next \in Attestations : Serves(next) /\ check' = next
  /\ UNCHANGED <<jsa, warm, duckRefused, duckReq, out>>

\* ... an unsolved script cancels the warm task, and with it the request that waits for its end
CheckEnds(solved) ==
  /\ check # 0 /\ check' = 0
  /\ jsa' = IF solved THEN check ELSE 0
  /\ warm' = IF solved THEN warm ELSE 0
  /\ duckReq' = IF ~solved /\ warm # 0 /\ duckReq.pc = "join" THEN [duckReq EXCEPT !.pc = "idle"] ELSE duckReq
  /\ UNCHANGED <<served, duckRefused, out>>

DuckNext ==
  \/ Begin \/ Attest \/ Accept \/ DuckEvent \/ EndOfStream \/ Done \/ DuckCancelled \/ Check
  \/ \E kind \in DuckFailures : StatusFails(kind) \/ Break(kind)
  \/ \E solved \in BOOLEAN : Solve(solved) \/ WarmEnds(solved) \/ CheckEnds(solved)

DuckSpec == DuckInit /\ [][DuckNext]_duckVars
-------------------------------------------------------------------------------
\* A caller gets the events of one attempt, in order and after a single prelude, and an
\* attestation that was refused is never sent again, although scripts are solved beside.
DuckRetriesAreUnseen ==
  /\ out # <<>> => /\ out[1].kind = "prelude"
                   /\ \A i \in 2 .. Len(out) : out[i].kind = "event" => out[i].of = <<duckReq.attempt, i - 1>>
  /\ duckReq.pc = "post" => duckReq.header = 0 \/ duckReq.header \notin duckRefused
=============================================================================
