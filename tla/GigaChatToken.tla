---------------------------- MODULE GigaChatToken ----------------------------
(***************************************************************************)
(* The access token of a GigaChat account (gigachat/client.py): cached     *)
(* until it expires, fetched under a lock, dropped when the API rejects    *)
(* it, and not asked for again for a while after a refusal.  Requests of   *)
(* one client overlap: the model list and the check of the account go      *)
(* beside a chat.  Tokens are numbered as they are issued; the server may  *)
(* revoke one.                                                             *)
(***************************************************************************)
EXTENDS Naturals, Sequences, FiniteSets

CONSTANTS
  Requests,   \* requests
  None,       \* no request
  MaxTokens,  \* bound on the tokens issued
  MaxRetries  \* MAX_RETRIES

ASSUME TokenAssumption == MaxTokens \in Nat /\ MaxRetries \in Nat /\ None \notin Requests

VARIABLES
  token,    \* _token, 0 for none
  expired,  \* it has expired, or will soon
  deferred, \* _token_deferred_until lies ahead: "none", or the error to raise
  holder,   \* of _token_lock
  issued,   \* tokens issued by the server
  revoked,  \* tokens that the server rejects
  pc,       \* "idle", "waiting" for the lock, "fetching", "sending", "backoff", "over"
  using,    \* the token of the request's current attempt
  refused,  \* the tokens with which it was rejected
  retries,  \* retryable statuses so far
  result    \* "none", "answered", "auth", "error", "cancelled"

tokenVars == <<token, expired, deferred, holder, issued, revoked, pc, using, refused, retries, result>>
cache == <<token, expired, deferred>>

AccessTokens == 1 .. MaxTokens
Errors == {"auth", "error"}

\* The token and its lock, and for every request its place, its token, what was rejected and
\* how often it was tried again, which is bounded.
TokenTypeOK ==
  /\ token \in 0 .. MaxTokens /\ issued \in 0 .. MaxTokens /\ revoked \subseteq AccessTokens
  /\ expired \in BOOLEAN /\ deferred \in Errors \cup {"none"} /\ holder \in Requests \cup {None}
  /\ pc \in [Requests -> {"idle", "waiting", "fetching", "sending", "backoff", "over"}]
  /\ using \in [Requests -> 0 .. MaxTokens] /\ refused \in [Requests -> UNION {[1 .. n -> AccessTokens] : n \in 0 .. 2}]
  /\ retries \in [Requests -> 0 .. MaxRetries] /\ result \in [Requests -> Errors \cup {"none", "answered", "cancelled"}]

TokenInit ==
  /\ token = 0 /\ expired = FALSE /\ deferred = "none" /\ holder = None /\ issued = 0 /\ revoked = {}
  /\ pc = [r \in Requests |-> "idle"] /\ using = [r \in Requests |-> 0] /\ refused = [r \in Requests |-> <<>>]
  /\ retries = [r \in Requests |-> 0] /\ result = [r \in Requests |-> "none"]

-------------------------------------------------------------------------------
\* _cached_token
Cached(tok) == tok # 0 /\ ~expired

Ends(r, how) == pc' = [pc EXCEPT ![r] = "over"] /\ result' = [result EXCEPT ![r] = how]

\* the request is sent with the token at hand, or fails with the error that is remembered
Served(r, tok) ==
  \/ /\ Cached(tok)
     /\ using' = [using EXCEPT ![r] = tok] /\ pc' = [pc EXCEPT ![r] = "sending"] /\ UNCHANGED result
  \/ ~Cached(tok) /\ deferred # "none" /\ Ends(r, deferred) /\ UNCHANGED using

\* _obtain_token: a look without the lock, and then for the lock
Obtain(r, tok) ==
  \/ Served(r, tok) /\ UNCHANGED holder
  \/ /\ ~Cached(tok) /\ deferred = "none"
     /\ IF holder = None /\ \A q \in Requests : pc[q] # "waiting"
        THEN holder' = r /\ pc' = [pc EXCEPT ![r] = "fetching"]
        ELSE UNCHANGED holder /\ pc' = [pc EXCEPT ![r] = "waiting"]
     /\ UNCHANGED <<using, result>>

\* _request
Request(r) ==
  /\ pc[r] = "idle" /\ Obtain(r, token)
  /\ UNCHANGED <<cache, issued, revoked, refused, retries>>

\* a faulty Woken: whoever gets the lock fetches
WokenFetches(r) == holder' = r /\ pc' = [pc EXCEPT ![r] = "fetching"] /\ UNCHANGED <<using, result>>

\* the lock is the request's: another look
Woken(r) ==
  \/ Served(r, token) /\ UNCHANGED holder
  \/ /\ ~Cached(token) /\ deferred = "none"
     /\ holder' = r /\ pc' = [pc EXCEPT ![r] = "fetching"] /\ UNCHANGED <<using, result>>

Wake(r) ==
  /\ pc[r] = "waiting" /\ holder = None
  /\ Woken(r)
  /\ UNCHANGED <<cache, issued, revoked, refused, retries>>

\* the authorization endpoint answers with a token
Fetched(r) ==
  /\ pc[r] = "fetching" /\ issued < MaxTokens
  /\ issued' = issued + 1 /\ token' = issued' /\ expired' = FALSE /\ deferred' = "none" /\ holder' = None
  /\ using' = [using EXCEPT ![r] = token'] /\ pc' = [pc EXCEPT ![r] = "sending"]
  /\ UNCHANGED <<revoked, refused, retries, result>>

\* _defer_token: it refuses, cannot be reached, or issues an expired token
Deferred(r) ==
  /\ pc[r] = "fetching"
  /\ \E error \in Errors : deferred' = error /\ Ends(r, error)
  /\ token' = 0 /\ expired' = FALSE /\ holder' = None
  /\ UNCHANGED <<issued, revoked, using, refused, retries>>

\* it answers with something else: the next request asks again
FetchFails(r) ==
  /\ pc[r] = "fetching" /\ Ends(r, "error") /\ holder' = None
  /\ UNCHANGED <<cache, issued, revoked, using, refused, retries>>

-------------------------------------------------------------------------------
\* the API answers
Answered(r) ==
  /\ pc[r] = "sending" /\ using[r] \notin revoked /\ Ends(r, "answered")
  /\ UNCHANGED <<cache, holder, issued, revoked, using, refused, retries>>

\* a faulty Renew: the request tries the token at hand once more
RenewFromCache(r) == Obtain(r, token) /\ UNCHANGED cache

\* invalidate_token, whatever token is cached by now, and another round
Renew(r) == Obtain(r, 0) /\ token' = 0 /\ expired' = FALSE /\ UNCHANGED deferred

\* the API rejects the token: once it is renewed, then the account is given up
Rejected(r) ==
  /\ pc[r] = "sending" /\ using[r] \in revoked
  /\ refused' = [refused EXCEPT ![r] = Append(@, using[r])]
  /\ \/ refused[r] = <<>> /\ Renew(r)
     \/ refused[r] # <<>> /\ Ends(r, "auth") /\ UNCHANGED <<cache, holder, using>>
  /\ UNCHANGED <<issued, revoked, retries>>

MayRetry(r) == retries[r] < MaxRetries

\* a status to retry; the next attempt takes the token of its time
Retryable(r) ==
  /\ pc[r] = "sending"
  /\ IF MayRetry(r)
     THEN retries' = [retries EXCEPT ![r] = @ + 1] /\ pc' = [pc EXCEPT ![r] = "backoff"] /\ UNCHANGED result
     ELSE Ends(r, "error") /\ UNCHANGED retries
  /\ UNCHANGED <<cache, holder, issued, revoked, using, refused>>

Again(r) ==
  /\ pc[r] = "backoff" /\ Obtain(r, token)
  /\ UNCHANGED <<cache, issued, revoked, refused, retries>>

\* the request is cancelled at an await; the lock is released
RequestCancelled(r) ==
  /\ pc[r] \in {"waiting", "fetching", "sending", "backoff"} /\ Ends(r, "cancelled")
  /\ holder' = IF holder = r THEN None ELSE holder
  /\ UNCHANGED <<cache, issued, revoked, using, refused, retries>>

-------------------------------------------------------------------------------
\* time, and the server
Expires == token # 0 /\ ~expired /\ expired' = TRUE /\ UNCHANGED <<token, deferred, holder, issued, revoked, pc, using, refused, retries, result>>
DeferralEnds == deferred # "none" /\ deferred' = "none" /\ UNCHANGED <<token, expired, holder, issued, revoked, pc, using, refused, retries, result>>
Revokes(t) == t <= issued /\ t \notin revoked /\ revoked' = revoked \cup {t} /\ UNCHANGED <<cache, holder, issued, pc, using, refused, retries, result>>

TokenNext ==
  \/ \E r \in Requests : Request(r) \/ Wake(r) \/ Fetched(r) \/ Deferred(r) \/ FetchFails(r) \/ Answered(r) \/ Rejected(r)
                     \/ Retryable(r) \/ Again(r) \/ RequestCancelled(r)
  \/ Expires \/ DeferralEnds \/ \E t \in AccessTokens : Revokes(t)

TokenSpec == TokenInit /\ [][TokenNext]_tokenVars

-------------------------------------------------------------------------------
\* GigaChat: one request at a time fetches a token, and only while there is none to use and no
\* refusal is remembered; an account is given up only after a second token, issued for the
\* request or after it began, was rejected too, although a late rejection drops fresh tokens.
FetchesOneAtATime ==
  /\ \A r \in Requests : (pc[r] = "fetching" <=> holder = r) /\ (pc[r] = "fetching" => ~Cached(token) /\ deferred = "none")
  /\ \A r \in Requests : Len(refused[r]) = 2 => refused[r][1] < refused[r][2]
=============================================================================
