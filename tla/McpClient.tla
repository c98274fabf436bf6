------------------------------ MODULE McpClient ------------------------------
(***************************************************************************)
(* Tool execution by MCP servers (mcp/transport.py, mcp/registry.py,       *)
(* api/mcpagent.py): agent runs that alternate between the provider and    *)
(* the tools it calls, over one stdio server that answers requests in any  *)
(* order, late, or not at all.  Requests are told apart by their ids.      *)
(***************************************************************************)
EXTENDS Naturals, Sequences, PrefixFunctions

CONSTANTS
  Runs,       \* agent runs, each a chat request
  Iterations, \* settings.mcp_iterations
  McpTurns    \* the tool calls a provider may make in one answer, a sequence of kinds:
              \* "tool", "unknown" (no server has it), "nameless"

Kinds == {"tool", "unknown", "nameless"}

\* the configuration takes no smaller bound (MIN_MCP_ITERATIONS)
McpAssumption == Iterations \in Nat \ {0} /\ McpTurns \subseteq Seq(Kinds)
ASSUME McpAssumption

VARIABLES
  mcpServer, \* the registry's server: "down", "up", "exited" (its output ended), "closed"
  mcpNext,   \* StdioTransport._next_id
  pending,   \* StdioTransport._pending: what became of each awaited id
  wire,      \* requests the server has read and not answered
  run        \* what each agent run does

mcpVars == <<mcpServer, mcpNext, pending, wire, run>>

Calls == Runs \X Nat \X Nat \* by their run, turn and place in the answer
NoAnswer == [kind |-> "none"]
McpAnswers == [kind : {"result", "error"}, of : Calls]
Failed == [kind |-> "failed"]     \* an error text of ours
Null == [kind |-> "null"]         \* what a message without a result is taken for
Texts == McpAnswers \cup {Failed, Null}
Entries == [role : {"assistant"}, calls : McpTurns] \cup [role : {"tool"}, of : Calls, text : Texts]
McpWithout(f, i) == [j \in DOMAIN f \ {i} |-> f[j]]

McpTypeOK ==
  /\ mcpServer \in {"down", "up", "exited", "closed"}
  /\ mcpNext \in Nat
  /\ DOMAIN pending \subseteq 1 .. mcpNext /\ pending \in [DOMAIN pending -> Texts \cup {NoAnswer}]
  /\ wire \subseteq [id : 1 .. mcpNext, of : Calls]
  /\ run \in [Runs -> [pc : {"ask", "call", "wait", "over"}, left : 0 .. Iterations, history : Seq(Entries),
                       todo : Seq(Nat), id : 0 .. mcpNext]]

McpInit ==
  /\ mcpServer = "down" /\ mcpNext = 0 /\ pending = <<>> /\ wire = {}
  /\ run = [r \in Runs |-> [pc |-> "ask", left |-> Iterations, history |-> <<>>, todo |-> <<>>, id |-> 0]]

\* McpRegistry.add and McpServer.start: initialize and tools/list, before any request is
\* served; a server that fails or has no tools is closed and skipped
Start(up) ==
  /\ mcpServer = "down"
  /\ mcpServer' = IF up THEN "up" ELSE "closed"
  /\ mcpNext' = 2
  /\ UNCHANGED <<pending, wire, run>>

-------------------------------------------------------------------------------
\* the agent

Turn(r) == Iterations - run[r].left

\* _extract_tool_calls: the calls that name a tool, by their places in the answer
Valid(turn) == Only([i \in DOMAIN turn |-> i], {i \in DOMAIN turn : turn[i] # "nameless"})

\* run_mcp_chat: the provider's answer; with no call, or at the limit, it is the response
McpAsk(r, turn) ==
  /\ mcpServer # "down" /\ run[r].pc = "ask"
  /\ run' = [run EXCEPT ![r] =
       IF Valid(turn) = <<>> THEN [@ EXCEPT !.pc = "over", !.left = run[r].left - 1]
       ELSE [@ EXCEPT !.pc = "call", !.left = run[r].left - 1, !.todo = Valid(turn),
                      !.history = Append(run[r].history, [role |-> "assistant", calls |-> turn])]]
  /\ UNCHANGED <<mcpServer, mcpNext, pending, wire>>

\* _execute_tool_calls: the next call has its answer
McpAnswered(r, text) ==
  LET rest == Tail(run[r].todo)
  IN run' = [run EXCEPT ![r] =
       [@ EXCEPT !.history = Append(run[r].history, [role |-> "tool", of |-> <<r, Turn(r), Head(run[r].todo)>>, text |-> text]),
                 !.todo = rest, !.id = 0,
                 !.pc = CASE rest # <<>> -> "call" [] run[r].left = 0 -> "over" [] OTHER -> "ask"]]

\* the calls that are worked off are those of the last answer
Asks(h) == {i \in DOMAIN h : h[i].role = "assistant"}
LastAsk(h) == CHOOSE i \in Asks(h) : \A j \in Asks(h) : j <= i
Called(r) == run[r].history[LastAsk(run[r].history)].calls[Head(run[r].todo)]

\* McpRegistry.resolve finds no server for the name
Unresolved(r) ==
  /\ run[r].pc = "call" /\ (Called(r) = "unknown" \/ mcpServer = "closed")
  /\ McpAnswered(r, Failed)
  /\ UNCHANGED <<mcpServer, mcpNext, pending, wire>>

-------------------------------------------------------------------------------
\* the transport

\* a faulty NextId: the smallest id that is not pending
FreeId == CHOOSE i \in 1 .. mcpNext + 1 : i \notin DOMAIN pending /\ \A j \in 1 .. i - 1 : j \in DOMAIN pending

NextId == mcpNext + 1

\* StdioTransport.request up to its wait; a server that has exited does not read it
McpRequest(r) ==
  /\ run[r].pc = "call" /\ Called(r) = "tool" /\ mcpServer \in {"up", "exited"}
  /\ mcpNext' = mcpNext + 1
  /\ pending' = [i \in DOMAIN pending \cup {NextId} |-> IF i = NextId THEN NoAnswer ELSE pending[i]]
  /\ wire' = IF mcpServer = "up" THEN wire \cup {[id |-> NextId, of |-> <<r, Turn(r), Head(run[r].todo)>>]} ELSE wire
  /\ run' = [run EXCEPT ![r] = [@ EXCEPT !.pc = "wait", !.id = NextId]]
  /\ UNCHANGED mcpServer

\* the write to a server that has exited fails
WriteFails(r) ==
  /\ run[r].pc = "call" /\ Called(r) = "tool" /\ mcpServer = "exited"
  /\ mcpNext' = mcpNext + 1
  /\ McpAnswered(r, Failed)
  /\ UNCHANGED <<mcpServer, pending, wire>>

\* _read_loop: an answer is given to the future of its id, if one waits
Reply(m, kind) ==
  /\ mcpServer = "up" /\ m \in wire
  /\ wire' = wire \ {m}
  /\ pending' = IF m.id \in DOMAIN pending /\ pending[m.id] = NoAnswer
                THEN [pending EXCEPT ![m.id] = [kind |-> kind, of |-> m.of]] ELSE pending
  /\ UNCHANGED <<mcpServer, mcpNext, run>>

\* _read_loop takes a request of the server's own for the answer to an awaited one that has
\* its id: the call is told a null result, and the answer to it finds nobody
Stray(i) ==
  /\ mcpServer = "up" /\ i \in DOMAIN pending /\ pending[i] = NoAnswer
  /\ pending' = [pending EXCEPT ![i] = Null]
  /\ UNCHANGED <<mcpServer, mcpNext, wire, run>>

Resume(r) ==
  /\ run[r].pc = "wait" /\ run[r].id \in DOMAIN pending /\ pending[run[r].id] # NoAnswer
  /\ pending' = McpWithout(pending, run[r].id)
  /\ McpAnswered(r, pending[run[r].id])
  /\ UNCHANGED <<mcpServer, mcpNext, wire>>

McpTimeOut(r) ==
  /\ run[r].pc = "wait" /\ pending[run[r].id] = NoAnswer
  /\ pending' = McpWithout(pending, run[r].id)
  /\ McpAnswered(r, Failed)
  /\ UNCHANGED <<mcpServer, mcpNext, wire>>

\* the caller goes away
McpCancelled(r) ==
  /\ run[r].pc # "over"
  /\ pending' = McpWithout(pending, run[r].id)
  /\ run' = [run EXCEPT ![r] = [@ EXCEPT !.pc = "over", !.todo = <<>>, !.id = 0]]
  /\ UNCHANGED <<mcpServer, mcpNext, wire>>

\* the end of the server's output ends _read_loop, which tells nobody
Exits == mcpServer = "up" /\ mcpServer' = "exited" /\ wire' = {} /\ UNCHANGED <<mcpNext, pending, run>>

\* StdioTransport.close fails the pending futures, the registry forgets the server
McpClose ==
  /\ mcpServer \in {"up", "exited"}
  /\ mcpServer' = "closed" /\ wire' = {}
  /\ pending' = [i \in DOMAIN pending |-> IF pending[i] = NoAnswer THEN Failed ELSE pending[i]]
  /\ UNCHANGED <<mcpNext, run>>

RunNext(r) ==
  \/ \E turn \in McpTurns : McpAsk(r, turn)
  \/ Unresolved(r) \/ McpRequest(r) \/ WriteFails(r) \/ Resume(r) \/ McpTimeOut(r) \/ McpCancelled(r)

McpNext ==
  \/ \E r \in Runs : RunNext(r)
  \/ \E up \in BOOLEAN : Start(up)
  \/ \E m \in wire, kind \in {"result", "error"} : Reply(m, kind)
  \/ \E i \in DOMAIN pending : Stray(i)
  \/ Exits \/ McpClose

McpSpec == McpInit /\ [][McpNext]_mcpVars
-------------------------------------------------------------------------------
\* An answer of the server that a provider is told of is the one to that very call, although
\* answers come in any order and after the time-out, and the server's own requests under the
\* same ids (then it is told of a null result instead, or of a failure, never of another
\* call's answer); and it is told of each call it named once, in their order, before it is
\* asked again.
CallsAreAnswered ==
  \A r \in Runs :
    LET h == run[r].history
        asked == LastAsk(h)
        valid == Valid(h[asked].calls)
    IN /\ \A i \in DOMAIN h : h[i].role = "tool" /\ h[i].text \in McpAnswers => h[i].text.of = h[i].of
       /\ run[r].pc = "ask" /\ h # <<>> =>
            /\ Len(h) - asked = Len(valid)
            /\ \A n \in DOMAIN valid : h[asked + n].of = <<r, Turn(r), valid[n]>>
=============================================================================
