------------------------------ MODULE Lifecycle ------------------------------
(***************************************************************************)
(* The life of the process (api/core.py, lifespan): clients are made and   *)
(* checked, those that pass become accounts, tool servers are started,     *)
(* requests are served, and on the way out everything is flushed and       *)
(* closed.  Tasks may be cancelled wherever they wait; a flush may fail.   *)
(***************************************************************************)
EXTENDS Naturals, Sequences, FiniteSets

CONSTANTS
  Clients, \* of the configured tokens, in the order of their providers: a sequence
  LifeKept, \* those whose accounts are kept although the check missed (Duck.ai)
  Servers, \* the MCP servers, a sequence
  Added    \* a client that POST /v1/tokens may add

VARIABLES
  lifePc,     \* where lifespan is
  lifeNext,   \* the client, then the server, that the loop of the start or of the stop is at
  ok,         \* the clients whose checks passed
  lifeClient, \* of each client: "none", "open", "account", "closed"
  lifeServer, \* of each server: "none", "running", "closing" while its end is awaited, "closed"
  published,  \* app.state.mcp_registry is set
  dirty,      \* "yes" while a store holds what its file does not, "missed" if a flush did not write it
  refresh,    \* the task of model_refresh_loop
  cleanup,    \* how far the task of _close_everything is
  cancelled   \* a cancellation came while it ran, raised again at its end

lifeVars == <<lifePc, lifeNext, ok, lifeClient, lifeServer, published, dirty, refresh, cleanup, cancelled>>

All == {Clients[i] : i \in DOMAIN Clients} \cup {Added}
ServerSet == {Servers[i] : i \in DOMAIN Servers}

ASSUME LifeAssumption == Clients \in Seq(All) /\ Servers \in Seq(ServerSet)

LifeTypeOK ==
  /\ lifePc \in {"new", "check", "adopt", "models", "servers", "serve", "stop", "close", "over"}
  /\ lifeNext \in 1 .. Len(Clients) + Len(Servers) + 1 /\ ok \subseteq All
  /\ lifeClient \in [All -> {"none", "open", "account", "closed"}]
  /\ lifeServer \in [ServerSet -> {"none", "running", "closing", "closed"}]
  /\ published \in BOOLEAN /\ dirty \in {"no", "yes", "missed"} /\ cancelled \in BOOLEAN /\ refresh \in {"none", "running", "over"}
  /\ cleanup \in {"none", "servers", "pow", "flush", "clients", "done"}

LifeInit ==
  /\ lifePc = "new" /\ lifeNext = 1 /\ ok = {}
  /\ lifeClient = [c \in All |-> "none"] /\ lifeServer = [s \in ServerSet |-> "none"]
  /\ published = FALSE /\ dirty = "no" /\ refresh = "none" /\ cleanup = "none" /\ cancelled = FALSE

-------------------------------------------------------------------------------
\* the start

Make ==
  /\ lifePc = "new" /\ lifePc' = "check"
  /\ lifeClient' = [c \in All |-> IF c = Added THEN "none" ELSE "open"]
  /\ UNCHANGED <<lifeNext, ok, lifeServer, published, dirty, refresh, cleanup, cancelled>>

\* all checks are gathered; one that raises counts as failed
LifeChecked(passed) ==
  /\ lifePc = "check" /\ lifePc' = "adopt"
  /\ ok' = passed
  /\ UNCHANGED <<lifeNext, lifeClient, lifeServer, published, dirty, refresh, cleanup, cancelled>>

\* the loop over a provider's clients: one that passed is an account, another is closed
Adopt ==
  /\ lifePc = "adopt" /\ lifeNext <= Len(Clients)
  /\ lifeClient' = [lifeClient EXCEPT ![Clients[lifeNext]] = IF Clients[lifeNext] \in ok \cup LifeKept THEN "account" ELSE "closed"]
  /\ lifeNext' = lifeNext + 1
  /\ UNCHANGED <<lifePc, ok, lifeServer, published, dirty, refresh, cleanup, cancelled>>

\* a pool for each provider that has accounts; without any the process does not start
Pools ==
  /\ lifePc = "adopt" /\ lifeNext = Len(Clients) + 1
  /\ IF \E c \in All : lifeClient[c] = "account" THEN lifePc' = "models" /\ UNCHANGED cleanup
                                                 ELSE lifePc' = "close" /\ cleanup' = "servers"
  /\ lifeNext' = 1
  /\ UNCHANGED <<ok, lifeClient, lifeServer, published, dirty, refresh, cancelled>>

LifeModels == lifePc = "models" /\ lifePc' = "servers" /\ UNCHANGED <<lifeNext, ok, lifeClient, lifeServer, published, dirty, refresh, cleanup, cancelled>>

\* McpRegistry.add: a server that does not start is skipped
AddServer(starts) ==
  /\ lifePc = "servers" /\ lifeNext <= Len(Servers)
  /\ lifeServer' = [lifeServer EXCEPT ![Servers[lifeNext]] = IF starts THEN "running" ELSE "closed"]
  /\ lifeNext' = lifeNext + 1
  /\ UNCHANGED <<lifePc, ok, lifeClient, published, dirty, refresh, cleanup, cancelled>>

Ready ==
  /\ lifePc = "servers" /\ lifeNext = Len(Servers) + 1
  /\ published' = TRUE /\ refresh' = "running" /\ lifePc' = "serve"
  /\ UNCHANGED <<lifeNext, ok, lifeClient, lifeServer, dirty, cleanup, cancelled>>

\* the start is cancelled while it waits: the outer finally runs
CutOff ==
  /\ lifePc \in {"check", "adopt", "models", "servers"}
  /\ lifePc' = "close" /\ cleanup' = "servers"
  /\ UNCHANGED <<lifeNext, ok, lifeClient, lifeServer, published, dirty, refresh, cancelled>>

-------------------------------------------------------------------------------
\* requests change the stores, POST /v1/tokens adds an account to a pool
Serve ==
  /\ lifePc = "serve" /\ dirty' = "yes"
  /\ UNCHANGED <<lifePc, lifeNext, ok, lifeClient, lifeServer, published, refresh, cleanup, cancelled>>

HotAdd ==
  /\ lifePc = "serve" /\ lifeClient[Added] = "none" /\ lifeClient' = [lifeClient EXCEPT ![Added] = "account"]
  /\ UNCHANGED <<lifePc, lifeNext, ok, lifeServer, published, dirty, refresh, cleanup, cancelled>>

\* the inner finally: the refresh is cancelled and awaited, then the servers are closed in turn
Stop ==
  /\ lifePc = "serve" /\ lifePc' = "stop" /\ refresh' = "over" /\ lifeNext' = 1
  /\ UNCHANGED <<ok, lifeClient, lifeServer, published, dirty, cleanup, cancelled>>

\* StdioTransport.close: its input is closed and it is marked closed before its end is awaited
BeginClose ==
  /\ lifePc = "stop" /\ lifeNext <= Len(Servers) /\ lifeServer[Servers[lifeNext]] = "running"
  /\ lifeServer' = [lifeServer EXCEPT ![Servers[lifeNext]] = "closing"]
  /\ UNCHANGED <<lifePc, lifeNext, ok, lifeClient, published, dirty, refresh, cleanup, cancelled>>

\* it has ended or was killed; one that did not start is not in the registry
EndClose ==
  /\ lifePc = "stop" /\ lifeNext <= Len(Servers) /\ lifeServer[Servers[lifeNext]] # "running"
  /\ lifeServer' = [lifeServer EXCEPT ![Servers[lifeNext]] = "closed"]
  /\ lifeNext' = lifeNext + 1
  /\ UNCHANGED <<lifePc, ok, lifeClient, published, dirty, refresh, cleanup, cancelled>>

\* all are closed, or the stop is cancelled while it awaits the end of one
StopEnds ==
  /\ lifePc = "stop" /\ (lifeNext <= Len(Servers) => lifeServer[Servers[lifeNext]] = "closing")
  /\ lifePc' = "close" /\ cleanup' = "servers"
  /\ UNCHANGED <<lifeNext, ok, lifeClient, lifeServer, published, dirty, refresh, cancelled>>

-------------------------------------------------------------------------------
\* _close_everything, step by step
\* the registry is closed once more: a server that is marked closed is not looked at again
CleanServers ==
  /\ cleanup = "servers" /\ cleanup' = "pow"
  /\ lifeServer' = [s \in ServerSet |-> IF published /\ lifeServer[s] = "running" THEN "closed" ELSE lifeServer[s]]
  /\ UNCHANGED <<lifePc, lifeNext, ok, lifeClient, published, dirty, refresh, cancelled>>

CleanPow == cleanup = "pow" /\ cleanup' = "flush" /\ UNCHANGED <<lifePc, lifeNext, ok, lifeClient, lifeServer, published, dirty, refresh, cancelled>>

\* a store that fails or is late is logged and left
Flush(written) ==
  /\ cleanup = "flush" /\ cleanup' = "clients"
  /\ dirty' = IF written \/ dirty = "no" THEN "no" ELSE "missed"
  /\ UNCHANGED <<lifePc, lifeNext, ok, lifeClient, lifeServer, published, refresh, cancelled>>

\* the accounts made at the start and those of the pools; a close that fails is logged
CloseClient(c) ==
  /\ cleanup = "clients" /\ lifeClient[c] = "account" /\ lifeClient' = [lifeClient EXCEPT ![c] = "closed"]
  /\ UNCHANGED <<lifePc, lifeNext, ok, lifeServer, published, dirty, refresh, cleanup, cancelled>>

CleanDone ==
  /\ cleanup = "clients" /\ \A c \in All : lifeClient[c] # "account"
  /\ cleanup' = "done"
  /\ UNCHANGED <<lifePc, lifeNext, ok, lifeClient, lifeServer, published, dirty, refresh, cancelled>>

LifeOver == lifePc' = "over" /\ UNCHANGED <<lifeNext, ok, lifeClient, lifeServer, published, dirty, refresh, cleanup, cancelled>>

\* _run_lifespan_cleanup ends when the task has
Waited == lifePc = "close" /\ cleanup = "done" /\ LifeOver

\* a faulty Interrupted: the cancellation ends the wait
InterruptedForGood == lifePc = "close" /\ cleanup # "done" /\ LifeOver

\* a cancellation while it waits is kept for later: the task is shielded and awaited again
Interrupted ==
  /\ lifePc = "close" /\ cleanup # "done" /\ cancelled' = TRUE
  /\ UNCHANGED <<lifePc, lifeNext, ok, lifeClient, lifeServer, published, dirty, refresh, cleanup>>

LifeNext ==
  \/ Make \/ Adopt \/ Pools \/ LifeModels \/ Ready \/ CutOff \/ Serve \/ HotAdd \/ Stop
  \/ \E passed \in SUBSET (All \ {Added}) : LifeChecked(passed)
  \/ \E starts \in BOOLEAN : AddServer(starts)
  \/ BeginClose \/ EndClose \/ StopEnds
  \/ \E written \in BOOLEAN : Flush(written)
  \/ CleanServers \/ CleanPow \/ CleanDone \/ Waited \/ Interrupted
  \/ \E c \in All : CloseClient(c)

LifeSpec == LifeInit /\ [][LifeNext]_lifeVars
-------------------------------------------------------------------------------
\* When the process is over, no account's client is open, those added meanwhile included, and what
\* the stores held was flushed, or the flush failed over it.  If it got as far as serving, then no
\* client is open and no server runs but the one whose end was awaited when the stop was
\* cancelled: its input is closed, and nobody waits for it or kills it any more.
NothingLeftOpen ==
  lifePc = "over" =>
    /\ dirty # "yes" /\ \A c \in All : lifeClient[c] # "account"
    /\ published => /\ \A c \in All : lifeClient[c] # "open"
                    /\ \A s \in ServerSet : lifeServer[s] # "running"
                    /\ \A s, t \in ServerSet : lifeServer[s] = "closing" /\ lifeServer[t] = "closing" => s = t
=============================================================================
