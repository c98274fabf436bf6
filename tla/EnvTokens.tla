------------------------------ MODULE EnvTokens ------------------------------
(***************************************************************************)
(* POST /v1/tokens (api/envtokens.py): tokens are planned against the      *)
(* credentials file and the pools, checked upstream with no lock held, and *)
(* then merged into the file and the pools.  _TOKENS_LOCK covers the plan  *)
(* and the merge, each of which is one action: nothing else writes the     *)
(* file.  Accounts break and are revived meanwhile.                        *)
(***************************************************************************)
EXTENDS Naturals, Sequences, FiniteSets

CONSTANTS
  Reqs,       \* requests
  Deepseek,   \* tokens of the one provider
  Qwen,       \* and of the other
  AtStart,    \* tokens whose accounts are in the pools from the start
  Stored,     \* tokens in the credentials file at the start
  Environ,    \* tokens in the environment of the process
  Shadowed    \* tokens of the providers whose variable the environment sets

VARIABLES
  file,       \* tokens in the credentials file
  settings,   \* settings.deepseek_tokens and settings.qwen_tokens
  pool,       \* the accounts of both pools: token, whether broken
  req,        \* where a request is; its plan, the tokens that passed, the file it read first
  client      \* by request and token, the client that the check made

envVars == <<file, settings, pool, req, client>>

Tokens == Deepseek \cup Qwen

\* load_dotenv(override=False): what a start reads from a credentials file.  A variable of
\* the environment wins over the variable of the same provider in the file.
Loaded(f) == Environ \cup (f \ Shadowed)

\* there are finitely many tokens, and the accounts of the start are those of the settings
ASSUME EnvAssumption ==
  /\ IsFiniteSet(Tokens)
  /\ Stored \subseteq Tokens
  /\ Environ \subseteq Shadowed /\ Shadowed \in {{}, Deepseek, Qwen, Tokens}
  /\ AtStart \subseteq Loaded(Stored)

New == [pc |-> "new", plan |-> <<>>, ok |-> {}, seen |-> {}]

\* The file, the pools and the clients, and for every request the plan; only tokens without
\* a working account were checked.
EnvTypeOK ==
  /\ file \subseteq Tokens /\ settings \subseteq Tokens
  /\ pool \in Seq([token : Tokens, broken : BOOLEAN])
  /\ \A r \in Reqs :
       /\ req[r].pc \in {"new", "deepseek", "qwen", "merge", "over"}
       /\ DOMAIN req[r].plan \subseteq Tokens
       /\ \A t \in DOMAIN req[r].plan : req[r].plan[t] \in {"live", "broken", "untracked", "new"}
       /\ req[r].ok \subseteq {t \in DOMAIN req[r].plan : req[r].plan[t] # "live"}
  /\ client \in [Reqs -> [Tokens -> {"none", "open", "pooled", "closed", "lost"}]]

EnvInit ==
  /\ file = Stored
  /\ settings = Loaded(Stored)
  /\ \E s \in [1 .. Cardinality(AtStart) -> AtStart] :
       /\ \A i, j \in DOMAIN s : s[i] = s[j] => i = j
       /\ pool = [i \in DOMAIN s |-> [token |-> s[i], broken |-> FALSE]]
  /\ req = [r \in Reqs |-> New]
  /\ client = [r \in Reqs |-> [t \in Tokens |-> "none"]]

AccountsOf(t) == {i \in DOMAIN pool : pool[i].token = t}
Broken(t) == \E i \in AccountsOf(t) : pool[i].broken

\* _plan_tokens
State(t) ==
  CASE AccountsOf(t) = {} -> IF t \in file \cup settings THEN "untracked" ELSE "new"
    [] Broken(t) -> "broken"
    [] OTHER -> "live"

Plan(r, tokens) ==
  /\ req[r].pc = "new"
  /\ req' = [req EXCEPT ![r] = [New EXCEPT !.pc = "deepseek", !.plan = [t \in tokens |-> State(t)], !.seen = file]]
  /\ UNCHANGED <<file, settings, pool, client>>

-------------------------------------------------------------------------------
\* a token whose account works needs no check
Asked(r) == {t \in DOMAIN req[r].plan : req[r].plan[t] # "live"}

\* _validated_tokens: the checks of a provider's tokens are all back, outcome says how; one
\* that did not reach the upstream fails the request, which closes the clients of this
\* provider alone.  A broken account is checked with its own client.
Validated(r, stage, next, group, outcome) ==
  LET asked == group \cap Asked(r)
      own == {t \in asked : req[r].plan[t] # "broken"}
      failed == \E t \in asked : outcome[t] = "error"
      passed == {t \in asked : outcome[t] = "ok"}
  IN /\ req[r].pc = stage
     /\ IF failed
          THEN /\ req' = [req EXCEPT ![r].pc = "over"]
               /\ client' = [client EXCEPT ![r] = [t \in Tokens |->
                    IF t \in own THEN "closed" ELSE IF @[t] = "open" THEN "lost" ELSE @[t]]]
          ELSE /\ req' = [req EXCEPT ![r].pc = next, ![r].ok = @ \cup passed]
               /\ client' = [client EXCEPT ![r] = [t \in Tokens |->
                    IF t \in own THEN (IF t \in passed THEN "open" ELSE "closed") ELSE @[t]]]
     /\ UNCHANGED <<file, settings, pool>>

-------------------------------------------------------------------------------
\* a faulty Merged: the new tokens added to the file as it was when the request was planned
MergedIntoSeen(r) == req[r].seen \cup {t \in req[r].ok : req[r].plan[t] = "new"}

\* the file is read again under the lock and keeps what is in it
Merged(r) == file \cup {t \in req[r].ok : req[r].plan[t] = "new"}

\* a faulty Fresh: as the request was planned
FreshAsPlanned(r) == {t \in req[r].ok : req[r].plan[t] # "broken"}

\* _account_decision: the tokens that have no account by now get one
Fresh(r) == {t \in req[r].ok : AccountsOf(t) = {}}

\* _apply_deepseek and _apply_qwen: accounts that are broken are revived, and the clients of
\* the others closed, except that of a token that was planned without an account and is
\* revived: it is lost
Apply(r) ==
  LET revived == {t \in req[r].ok \ Fresh(r) : Broken(t)}
  IN /\ \E s \in [1 .. Cardinality(Fresh(r)) -> Fresh(r)] :
          /\ \A i, j \in DOMAIN s : s[i] = s[j] => i = j
          /\ pool' = [i \in DOMAIN pool |-> [pool[i] EXCEPT !.broken = @ /\ pool[i].token \notin revived]]
                       \o [i \in DOMAIN s |-> [token |-> s[i], broken |-> FALSE]]
     /\ client' = [client EXCEPT ![r] = [t \in Tokens |->
          CASE @[t] # "open" -> @[t]
            [] t \in Fresh(r) -> "pooled"
            [] t \in revived -> "lost"
            [] OTHER -> "closed"]]

Merge(r) ==
  /\ req[r].pc = "merge"
  /\ file' = Merged(r)
  /\ settings' = IF Merged(r) = file THEN settings ELSE Merged(r)
  /\ Apply(r)
  /\ req' = [req EXCEPT ![r] = [New EXCEPT !.pc = "over"]]

\* the file cannot be read or written, or it is replaced and the sync of its directory
\* fails: nothing is applied and no client closed
MergeFails(r) ==
  /\ req[r].pc = "merge"
  /\ file' \in {file, Merged(r)}
  /\ req' = [req EXCEPT ![r] = [New EXCEPT !.pc = "over"]]
  /\ client' = [client EXCEPT ![r] = [t \in Tokens |-> IF @[t] = "open" THEN "lost" ELSE @[t]]]
  /\ UNCHANGED <<settings, pool>>

-------------------------------------------------------------------------------
\* requests of the chat endpoints break accounts, the pool revives them
Breaks(i) == pool' = [pool EXCEPT ![i].broken = TRUE] /\ UNCHANGED <<file, settings, req, client>>
Revived(i) == pool' = [pool EXCEPT ![i].broken = FALSE] /\ UNCHANGED <<file, settings, req, client>>

Outcomes(group) == [group -> {"ok", "bad", "error"}]

ReqNext(r) ==
  \/ \E tokens \in SUBSET Tokens \ {{}} : Plan(r, tokens)
  \/ \E outcome \in Outcomes(Deepseek) : Validated(r, "deepseek", "qwen", Deepseek, outcome)
  \/ \E outcome \in Outcomes(Qwen) : Validated(r, "qwen", "merge", Qwen, outcome)
  \/ Merge(r) \/ MergeFails(r)

EnvNext ==
  \/ \E r \in Reqs : ReqNext(r)
  \/ \E i \in DOMAIN pool : Breaks(i) \/ Revived(i)

EnvSpec == EnvInit /\ [][EnvNext]_envVars
-------------------------------------------------------------------------------
\* The token of an account that serves requests is kept, although requests that merge at
\* the same time replace the file: the next start loads it again, or, where a variable of the
\* environment shadows the file's variable of its provider, finds it in the file at least.
AccountsAreKept ==
  \A i \in DOMAIN pool :
    LET t == pool[i].token IN t \in Loaded(file) \/ t \in Shadowed \cap file

\* However many requests bring a token while it is checked, its pool has one account of it.
OneAccountPerToken == \A t \in Tokens : Cardinality(AccountsOf(t)) <= 1
=============================================================================
