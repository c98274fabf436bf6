----------------------------- MODULE MistralChat -----------------------------
(***************************************************************************)
(* Mistral's Le Chat (mistral/client.py, mistral/api.py): requests of one  *)
(* account, each attempt a chat of its own under the account's lock, and   *)
(* another attempt as long as nothing of an answer came.  The sign-in wall *)
(* is an answer with a text that asks for an account.                      *)
(***************************************************************************)
EXTENDS Naturals, Sequences

CONSTANTS
  MisReqs,       \* requests
  MisNone,       \* no request
  MisMaxRetries, \* MAX_RETRIES
  MaxEvents      \* bound on the events of an attempt

VARIABLES
  canLogin,  \* the account has a login, not only a token
  misToken,  \* the client has a token
  misHolder, \* of the account's lock
  misReq,    \* the requests
  told       \* of each request: what its caller got, "role" or the attempt that a text is of

misVars == <<canLogin, misToken, misHolder, misReq, told>>

Working == {"login", "creating", "posting", "reading", "relogin"}
MisFailures == {"transport", "auth", "limited", "retryable", "fatal"}

ASSUME MisAssumption == MisNone \notin MisReqs /\ MisMaxRetries \in Nat /\ MaxEvents \in Nat

MisReqStates ==
  [pc : Working \cup {"idle", "queued", "backoff", "over"}, attempt : 0 .. MisMaxRetries, started : BOOLEAN,
   events : 0 .. MaxEvents, chunks : BOOLEAN, wall : BOOLEAN, outcome : {"none", "answered", "error", "raised", "left"}]

MisTypeOK ==
  /\ canLogin \in BOOLEAN /\ misToken \in BOOLEAN /\ misHolder \in MisReqs \cup {MisNone}
  /\ misReq \in [MisReqs -> MisReqStates]
  /\ told \in [MisReqs -> Seq(0 .. MisMaxRetries)]

MisInit ==
  /\ canLogin \in BOOLEAN /\ misToken \in BOOLEAN /\ (misToken \/ canLogin) /\ misHolder = MisNone
  /\ misReq = [r \in MisReqs |-> [pc |-> "idle", attempt |-> 0, started |-> FALSE, events |-> 0, chunks |-> FALSE, wall |-> FALSE, outcome |-> "none"]]
  /\ told = [r \in MisReqs |-> <<>>]

-------------------------------------------------------------------------------
Goes(r, to) == misReq' = [misReq EXCEPT ![r].pc = to]
MisEnds(r, how) == misReq' = [misReq EXCEPT ![r].pc = "over", ![r].outcome = how]
Waits(r) == misReq' = [misReq EXCEPT ![r].pc = "backoff"]

MisArrive(r) == misReq[r].pc = "idle" /\ Goes(r, "queued") /\ UNCHANGED <<canLogin, misToken, misHolder, told>>

\* _stream_events: the lock is taken anew for each attempt, the role told at the first
MisEnter(r) ==
  /\ misReq[r].pc = "queued" /\ misHolder = MisNone /\ misHolder' = r
  /\ misReq' = [misReq EXCEPT ![r].pc = IF misToken THEN "creating" ELSE "login", ![r].started = TRUE, ![r].events = 0, ![r].chunks = FALSE, ![r].wall = FALSE]
  /\ UNCHANGED <<canLogin, misToken, told>>

\* login, for a client without a token; its failure is not one of the chat's
LoggedIn(r) == misReq[r].pc = "login" /\ misToken' = TRUE /\ Goes(r, "creating") /\ UNCHANGED <<canLogin, misHolder, told>>
LoginFails(r) ==
  /\ misReq[r].pc = "login" /\ misHolder' = MisNone
  /\ \E how \in {"raised", "error"} : MisEnds(r, how)
  /\ UNCHANGED <<canLogin, misToken, told>>

\* _new_chat, _post_chat
Created(r) == misReq[r].pc = "creating" /\ Goes(r, "posting") /\ UNCHANGED <<canLogin, misToken, misHolder, told>>
Posted(r) == misReq[r].pc = "posting" /\ Goes(r, "reading") /\ UNCHANGED <<canLogin, misToken, misHolder, told>>

\* a faulty MisMayRetry: whatever was delivered
MayRetryAnyway(r) == misReq[r].attempt < MisMaxRetries

\* an event was delivered, or the attempts are used up
MisMayRetry(r) == misReq[r].events = 0 /\ misReq[r].attempt < MisMaxRetries

\* _open_stream: what becomes of a failure; the error of a connection carries no status
MisFail(r, kind) ==
  \/ /\ kind = "auth" /\ MisMayRetry(r) /\ canLogin
     /\ misToken' = FALSE /\ Goes(r, "relogin") /\ UNCHANGED misHolder
  \/ /\ kind \in {"limited", "retryable"} /\ MisMayRetry(r)
     /\ Waits(r) /\ misHolder' = MisNone /\ UNCHANGED misToken
  \/ /\ \/ kind \in {"transport", "fatal"}
        \/ ~MisMayRetry(r)
        \/ kind = "auth" /\ ~canLogin
     /\ MisEnds(r, "error") /\ misHolder' = MisNone /\ UNCHANGED misToken

Refused(r) ==
  /\ misReq[r].pc \in {"creating", "posting", "reading"}
  /\ \E kind \in MisFailures : MisFail(r, kind)
  /\ UNCHANGED <<canLogin, told>>

\* relogin: anew under the lock, and then another attempt
Relogin(r) ==
  /\ misReq[r].pc = "relogin" /\ misHolder' = MisNone
  /\ \/ misToken' = TRUE /\ Waits(r)
     \/ UNCHANGED misToken /\ \E how \in {"error", "raised"} : MisEnds(r, how)
  /\ UNCHANGED <<canLogin, told>>

\* _sleep_backoff
BackoffEnds(r) ==
  /\ misReq[r].pc = "backoff" /\ misReq' = [misReq EXCEPT ![r].pc = "queued", ![r].attempt = @ + 1]
  /\ UNCHANGED <<canLogin, misToken, misHolder, told>>

-------------------------------------------------------------------------------
\* parse_line: an event with text, of the wall perhaps, or without
MisEvent(r, text, wall) ==
  /\ misReq[r].pc = "reading" /\ misReq[r].events < MaxEvents
  /\ misReq' = [misReq EXCEPT ![r].events = @ + 1, ![r].chunks = @ \/ text, ![r].wall = @ \/ wall]
  /\ told' = IF text THEN [told EXCEPT ![r] = Append(@, misReq[r].attempt)] ELSE told
  /\ UNCHANGED <<canLogin, misToken, misHolder>>

\* _events: the stream ends, or falls silent after some text; the wall is seen at the end
StreamEnds(r) ==
  /\ misReq[r].pc = "reading"
  /\ IF misReq[r].wall THEN MisFail(r, "auth") ELSE MisEnds(r, "answered") /\ misHolder' = MisNone /\ UNCHANGED misToken
  /\ UNCHANGED <<canLogin, told>>

\* falls silent before
Silent(r) ==
  /\ misReq[r].pc = "reading" /\ ~misReq[r].chunks
  /\ MisFail(r, "transport")
  /\ UNCHANGED <<canLogin, told>>

\* the caller goes away
Leaves(r) ==
  /\ misReq[r].pc \in Working \cup {"queued", "backoff"} /\ MisEnds(r, "left")
  /\ misHolder' = IF misHolder = r THEN MisNone ELSE misHolder
  /\ UNCHANGED <<canLogin, misToken, told>>

\* check_auth, beside the requests: it may fetch the token that is missing
MisChecked == canLogin /\ ~misToken /\ misToken' = TRUE /\ UNCHANGED <<canLogin, misHolder, misReq, told>>

MisNext ==
  \/ \E r \in MisReqs :
       \/ MisArrive(r) \/ MisEnter(r) \/ LoggedIn(r) \/ LoginFails(r) \/ Created(r) \/ Posted(r) \/ Refused(r) \/ Relogin(r) \/ BackoffEnds(r)
       \/ \E text \in BOOLEAN, wall \in BOOLEAN : (wall => text) /\ MisEvent(r, text, wall)
       \/ StreamEnds(r) \/ Silent(r) \/ Leaves(r)
  \/ MisChecked

MisSpec == MisInit /\ [][MisNext]_misVars

-------------------------------------------------------------------------------
\* Mistral: what a caller is told is of one attempt, the last; the sign-in wall never passes for
\* an answer; and the account is held exactly while a request works on it, not while it waits.
MistralRetriesAreUnseen ==
  /\ \A r \in MisReqs :
       /\ \A n \in DOMAIN told[r] : told[r][n] = misReq[r].attempt
       /\ (told[r] # <<>> => misReq[r].pc \notin {"backoff", "queued"})
       /\ (misReq[r].outcome = "answered" => ~misReq[r].wall)
  /\ \A r \in MisReqs : misReq[r].pc \in Working <=> misHolder = r
=============================================================================
