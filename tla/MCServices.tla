----------------------------- MODULE MCServices -----------------------------
(***************************************************************************)
(* The parts of the service that share no variables, checked in one run:   *)
(* the choice of active picks the part that a behaviour runs, so that the  *)
(* state space is the sum of theirs.  Most parts are extended, and their   *)
(* definitions bear the part in their names; the others are instances of   *)
(* their modules, with the bounds given here, over cells that they share,  *)
(* as a behaviour runs only one of them.                                   *)
(***************************************************************************)
EXTENDS Integers, Sequences, FiniteSets, PowManager, EnvTokens, GigaChatToken, AliceSocket, ByokPools,
        McpClient, Lifecycle, RequestGate, RetriedAnswers, CountedTurns

VARIABLES
  active,   \* the component that this behaviour runs; the extended ones rest in their initial states
  cell1, cell2, cell3, cell4, cell5, cell6, cell7, cell8, cell9, cell10, cell11, cell12,
  cell13, cell14, cell15   \* the variables that the instances share

K1 == <<"t1">>
K2 == <<"t2">>
K3 == <<"t1", "t2">>
NoKey == <<"keyless">>
\* two requests of one key set and a third that makes room; the keyless pool twice and
\* beside it a pool of two accounts
KeySets == {K1, K2, K3, NoKey}
KeysWanted == {[r1 |-> K1, r2 |-> K1, r3 |-> K2], [r1 |-> NoKey, r2 |-> NoKey, r3 |-> K3]}

CallTurns == {<<>>, <<"nameless", "unknown", "tool">>}

ThreeClients == <<"a", "b", "d">>
TwoServers == <<"s1", "s2">>

ThreeChunks == UNION {[1 .. n -> 1 .. 3] : n \in 0 .. 3}

OneUsage == {[prompt |-> 1, completion |-> 1, total |-> 0]}

Sse == INSTANCE SseReader WITH
  input <- cell1, fed <- cell2, buffer <- cell3, pos <- cell4, events <- cell5, state <- cell6,
  Inputs <- UNION {[1 .. n -> {"d", "r", "n"}] : n \in 0 .. 6} \cup UNION {[1 .. n -> {"e", "d", "n"}] : n \in 0 .. 5},
  MaxBuffer <- 5, CompactAt <- 3

Rec == INSTANCE Reconstructor WITH
  rec <- cell1, emitted <- cell2, pieces <- cell3, events <- cell4, rewritten <- cell5,
  renumbered <- cell6, Types <- {"main", "think", "other"}, MaxPieces <- 3, MaxEvents <- 4

Lim == INSTANCE StreamLimits WITH
  input <- cell1, markers <- cell2, budget <- cell3, fed <- cell4, held <- cell5, hit <- cell6,
  passed <- cell7, done <- cell8, sent <- cell9, over <- cell10,
  Inputs <- UNION {[1 .. n -> {"c", "s", "a"}] : n \in 0 .. 4} \cup {<<"a", "s", "a", "s", "c">>, <<"s", "a", "c", "c", "a">>},
  Stops <- {{}, {<<"a", "c">>}, {<<"a", "s", "c">>, <<"s">>}}, Budgets <- 1 .. 2, PerUnit <- 2,
  Unbounded <- 99

Ds == INSTANCE DeepseekAnswer WITH
  had <- cell1, calls <- cell2, variants <- cell3, pieces <- cell4, stream <- cell5,
  lines <- cell6, whole <- cell7, body <- cell8, MaxRetries <- 1, Rounds <- 2

Ant == INSTANCE AnthropicEvents WITH
  filtering <- cell1, hold <- cell2, deltas <- cell3, finish <- cell4, failed <- cell5,
  text <- cell6, thinking <- cell7, toolIndex <- cell8, started <- cell9, toolOpen <- cell10,
  next <- cell11, held <- cell12, stopped <- cell13, sent <- cell14, pc <- cell15,
  Slots <- {"s1", "s2"}, MaxDeltas <- 4, Holds <- {3}

Qst == INSTANCE QwenStream WITH
  input <- cell1, fed <- cell2, cuts <- cell3, scanTail <- cell4, images <- cell5,
  base <- cell6, summary <- cell7, told <- cell8, pieces <- cell9, replaced <- cell10,
  late <- cell11, over <- cell12,
  Inputs <- UNION {[1 .. n -> {"h", "t", "p", "s", "x"}] : n \in 0 .. 4} \cup {<<"h", "t", "x", "s", "h", "t", "x", "p", "x">>, <<"m", "h", "t", "x", "h", "t", "s", "x">>},
  MaxPieces <- 4

Qan == INSTANCE QwenAnswer WITH
  had <- cell1, tools <- cell2, parses <- cell3, choices <- cell4, stream <- cell5,
  lines <- cell6, whole <- cell7, body <- cell8, MaxRetries <- 1, MaxPieces <- 3

Resp == INSTANCE ResponsesEvents WITH
  deltas <- cell1, message <- cell2, items <- cell3, parts <- cell4, current <- cell5,
  tools <- cell6, finish <- cell7, error <- cell8, wire <- cell9, status <- cell10,
  Slots <- {"s1", "s2"}, MaxDeltas <- 3

Plain == INSTANCE PlainAnswer WITH
  provider <- cell1, streaming <- cell2, stopping <- cell3, pc <- cell4, attempt <- cell5,
  retries <- cell6, open <- cell7, whole <- cell8, sent <- cell9, hit <- cell10,
  emitted <- cell11, broken <- cell12, outcome <- cell13, MaxRetries <- 1,
  Pieces <- {<<"a">>, <<"a", "s">>, <<"t", "a">>, <<"a", "s", "t", "a">>}, MaxEvents <- 3

Hist == INSTANCE HistoryTurns WITH
  origin <- cell1, same <- cell2, named <- cell3, turns <- cell4, last <- cell5, late <- cell6,
  chat <- cell7, Ids <- {"f", "g"}, None <- "none", MaxTurns <- 4

DsmlUnits ==
  {<<"x">>, <<"<">>, <<"_", "u", "_">>, <<"|", "d", "s", "|">>, <<"<", "|", "d", "s", "|", "h", ">">>,
   <<"<", "/", "|", "d", "s", "|", "h", ">">>, <<"<", "|", "d", "s", "|", "_", "i", "h">>}
DsmlTexts ==
  DsmlUnits \cup {u \o v : u \in DsmlUnits, v \in DsmlUnits}
  \cup {u \o v \o w : u \in DsmlUnits, v \in DsmlUnits, w \in {<<"x">>, <<"|", "d", "s", "|">>, <<"<", "/", "|", "d", "s", "|", "h", ">">>}}
  \cup {<<"x", "<", "|", "d", "s", "|", "h", "/", ">", "x">>}
Dsml == INSTANCE DsmlFilter WITH
  input <- cell1, fed <- cell2, buf <- cell3, out <- cell4, flushed <- cell5,
  Inputs <- DsmlTexts

CallUnits ==
  {<<"x">>, <<"n">>, <<"{", "q", "a", "m", "q">>, <<"<", "_", "t", "c", "x", ">">>, <<"[", "_", "{">>, <<"<", "f", "g">>,
   <<"t", "c", "_", ":">>, <<"f", "g", "(">>, <<"<", "x", "_", "a", "m", "=">>, <<"<", "|", "D", "|">>, <<"<">>, <<"{">>}
CallTexts ==
  CallUnits \cup {u \o v : u \in CallUnits, v \in CallUnits}
  \cup {<<"<", "h", ">", "x", "<", "/", "h", ">", "{", "_", "a", "m", ":">>, <<"<", "x", "_", "[", "{", "a", "m", "=">>,
        <<"<", "_", "t", "c", "_", "[", "x", ">">>, <<"x", "<", "f", "g", "x">>, <<"x", "x", "x", "{", "q", "a", "x">>}
Tb == INSTANCE ToolBoundary WITH
  input <- cell1, fed <- cell2, shown <- cell3, hidden <- cell4, cache <- cell5,
  Inputs <- CallTexts,
  Others <- {<<"<", "x", "_", "{", "q", "t", "c", "q">>, <<"x", "n", "f", "g", "(">>, <<"<", "x", "_", "[", "{">>, <<"x", "x", "x", "{", "q", "a", "m", "q">>},
  CachePrefix <- 6, LookAhead <- 3

-------------------------------------------------------------------------------
cells == <<cell1, cell2, cell3, cell4, cell5, cell6, cell7, cell8, cell9, cell10, cell11,
           cell12, cell13, cell14, cell15>>
extended == <<powVars, envVars, tokenVars, aliceVars, byokVars, mcpVars, lifeVars, gateVars,
              duckVars, qwenVars, misVars, usageVars>>

Extended == {"Pow", "Env", "Token", "Alice", "Byok", "Mcp", "Life", "Gate", "Duck", "Qwen",
             "Mis", "Usage"}
Components == {"Pow", "Env", "Token", "Alice", "Byok", "Mcp", "Life", "Gate", "Duck", "Sse",
               "Rec", "Lim", "Ds", "Ant", "Qst", "Qwen", "Qan", "Resp", "Plain", "Hist", "Mis",
               "Dsml", "Tb", "Usage"}

\* a part uses as many cells as its module has variables
Unused == "unused"
UnusedFrom15 == cell15 = Unused
UnusedFrom14 == cell14 = Unused /\ UnusedFrom15
UnusedFrom13 == cell13 = Unused /\ UnusedFrom14
UnusedFrom12 == cell12 = Unused /\ UnusedFrom13
UnusedFrom11 == cell11 = Unused /\ UnusedFrom12
UnusedFrom10 == cell10 = Unused /\ UnusedFrom11
UnusedFrom9 == cell9 = Unused /\ UnusedFrom10
UnusedFrom8 == cell8 = Unused /\ UnusedFrom9
UnusedFrom7 == cell7 = Unused /\ UnusedFrom8
UnusedFrom6 == cell6 = Unused /\ UnusedFrom7
UnusedFrom5 == cell5 = Unused /\ UnusedFrom6
UnusedFrom4 == cell4 = Unused /\ UnusedFrom5
UnusedFrom3 == cell3 = Unused /\ UnusedFrom4
UnusedFrom2 == cell2 = Unused /\ UnusedFrom3
UnusedFrom1 == cell1 = Unused /\ UnusedFrom2

Init ==
  /\ active \in Components
  /\ PowInit
  /\ EnvInit
  /\ TokenInit
  /\ AliceInit
  /\ ByokInit /\ (active # "Byok" => byokReq.r3.key = K2)
  /\ McpInit
  /\ LifeInit
  /\ GateInit /\ (active # "Gate" => gateReq = [path |-> "chat", chunks |-> <<>>, declared |-> -1])
  /\ DuckInit
  /\ QwenInit
  /\ MisInit /\ (active # "Mis" => canLogin /\ misToken)
  /\ UsageInit
  /\ \/ active \in Extended /\ UnusedFrom1
     \/ active = "Sse" /\ Sse!Init /\ UnusedFrom7
     \/ active = "Rec" /\ Rec!Init /\ UnusedFrom7
     \/ active = "Lim" /\ Lim!Init /\ UnusedFrom11
     \/ active = "Ds" /\ Ds!Init /\ UnusedFrom9
     \/ active = "Ant" /\ Ant!Init
     \/ active = "Qst" /\ Qst!Init /\ UnusedFrom13
     \/ active = "Qan" /\ Qan!Init /\ UnusedFrom9
     \/ active = "Resp" /\ Resp!Init /\ UnusedFrom11
     \/ active = "Plain" /\ Plain!Init /\ UnusedFrom14
     \/ active = "Hist" /\ Hist!Init /\ UnusedFrom8
     \/ active = "Dsml" /\ Dsml!Init /\ UnusedFrom6
     \/ active = "Tb" /\ Tb!Init /\ UnusedFrom6

PowStep ==
  /\ active = "Pow" /\ PowNext
  /\ UNCHANGED <<active, envVars, tokenVars, aliceVars, byokVars, mcpVars, lifeVars, gateVars,
                 duckVars, qwenVars, misVars, usageVars, cells>>
EnvStep ==
  /\ active = "Env" /\ EnvNext
  /\ UNCHANGED <<active, powVars, tokenVars, aliceVars, byokVars, mcpVars, lifeVars, gateVars,
                 duckVars, qwenVars, misVars, usageVars, cells>>
TokenStep ==
  /\ active = "Token" /\ TokenNext
  /\ UNCHANGED <<active, powVars, envVars, aliceVars, byokVars, mcpVars, lifeVars, gateVars, duckVars,
                 qwenVars, misVars, usageVars, cells>>
AliceStep ==
  /\ active = "Alice" /\ AliceNext
  /\ UNCHANGED <<active, powVars, envVars, tokenVars, byokVars, mcpVars, lifeVars, gateVars, duckVars,
                 qwenVars, misVars, usageVars, cells>>
ByokStep ==
  /\ active = "Byok" /\ ByokNext
  /\ UNCHANGED <<active, powVars, envVars, tokenVars, aliceVars, mcpVars, lifeVars, gateVars, duckVars,
                 qwenVars, misVars, usageVars, cells>>
McpStep ==
  /\ active = "Mcp" /\ McpNext
  /\ UNCHANGED <<active, powVars, envVars, tokenVars, aliceVars, byokVars, lifeVars, gateVars,
                 duckVars, qwenVars, misVars, usageVars, cells>>
LifeStep ==
  /\ active = "Life" /\ LifeNext
  /\ UNCHANGED <<active, powVars, envVars, tokenVars, aliceVars, byokVars, mcpVars, gateVars, duckVars,
                 qwenVars, misVars, usageVars, cells>>
GateStep ==
  /\ active = "Gate" /\ GateNext
  /\ UNCHANGED <<active, powVars, envVars, tokenVars, aliceVars, byokVars, mcpVars, lifeVars, duckVars,
                 qwenVars, misVars, usageVars, cells>>
DuckStep ==
  /\ active = "Duck" /\ DuckNext
  /\ UNCHANGED <<active, powVars, envVars, tokenVars, aliceVars, byokVars, mcpVars, lifeVars, gateVars,
                 qwenVars, misVars, usageVars, cells>>
SseStep ==
  /\ active = "Sse" /\ Sse!Next
  /\ UNCHANGED <<active, extended, cell7, cell8, cell9, cell10, cell11, cell12, cell13, cell14, cell15>>
RecStep ==
  /\ active = "Rec" /\ Rec!Next
  /\ UNCHANGED <<active, extended, cell7, cell8, cell9, cell10, cell11, cell12, cell13, cell14, cell15>>
LimStep ==
  /\ active = "Lim" /\ Lim!Next
  /\ UNCHANGED <<active, extended, cell11, cell12, cell13, cell14, cell15>>
DsStep ==
  /\ active = "Ds" /\ Ds!Next
  /\ UNCHANGED <<active, extended, cell9, cell10, cell11, cell12, cell13, cell14, cell15>>
AntStep ==
  /\ active = "Ant" /\ Ant!Next
  /\ UNCHANGED <<active, extended>>
QstStep ==
  /\ active = "Qst" /\ Qst!Next
  /\ UNCHANGED <<active, extended, cell13, cell14, cell15>>
QwenStep ==
  /\ active = "Qwen" /\ QwenNext
  /\ UNCHANGED <<active, powVars, envVars, tokenVars, aliceVars, byokVars, mcpVars, lifeVars, gateVars,
                 duckVars, misVars, usageVars, cells>>
QanStep ==
  /\ active = "Qan" /\ Qan!Next
  /\ UNCHANGED <<active, extended, cell9, cell10, cell11, cell12, cell13, cell14, cell15>>
RespStep ==
  /\ active = "Resp" /\ Resp!Next
  /\ UNCHANGED <<active, extended, cell11, cell12, cell13, cell14, cell15>>
PlainStep ==
  /\ active = "Plain" /\ Plain!Next
  /\ UNCHANGED <<active, extended, cell14, cell15>>
HistStep ==
  /\ active = "Hist" /\ Hist!Next
  /\ UNCHANGED <<active, extended, cell8, cell9, cell10, cell11, cell12, cell13, cell14, cell15>>
MisStep ==
  /\ active = "Mis" /\ MisNext
  /\ UNCHANGED <<active, powVars, envVars, tokenVars, aliceVars, byokVars, mcpVars, lifeVars, gateVars,
                 duckVars, qwenVars, usageVars, cells>>
DsmlStep ==
  /\ active = "Dsml" /\ Dsml!Next
  /\ UNCHANGED <<active, extended, cell6, cell7, cell8, cell9, cell10, cell11, cell12, cell13, cell14,
                 cell15>>
TbStep ==
  /\ active = "Tb" /\ Tb!Next
  /\ UNCHANGED <<active, extended, cell6, cell7, cell8, cell9, cell10, cell11, cell12, cell13, cell14,
                 cell15>>
UsageStep ==
  /\ active = "Usage" /\ UsageNext
  /\ UNCHANGED <<active, powVars, envVars, tokenVars, aliceVars, byokVars, mcpVars, lifeVars, gateVars,
                 duckVars, qwenVars, misVars, cells>>

Next == PowStep \/ EnvStep \/ TokenStep \/ AliceStep \/ ByokStep \/ McpStep \/ LifeStep \/
        GateStep \/ DuckStep \/ SseStep \/ RecStep \/ LimStep \/ DsStep \/ AntStep \/
        QstStep \/ QwenStep \/ QanStep \/ RespStep \/ PlainStep \/ HistStep \/ MisStep \/
        DsmlStep \/ TbStep \/ UsageStep
vars == <<active, extended, cells>>

Spec == Init /\ [][Next]_vars

-------------------------------------------------------------------------------
\* The variables of the running component have their types.
TypeOK ==
  CASE active = "Pow" -> PowTypeOK
    [] active = "Env" -> EnvTypeOK
    [] active = "Token" -> TokenTypeOK
    [] active = "Alice" -> AliceTypeOK
    [] active = "Byok" -> ByokTypeOK
    [] active = "Mcp" -> McpTypeOK
    [] active = "Life" -> LifeTypeOK
    [] active = "Gate" -> GateTypeOK
    [] active = "Duck" -> DuckTypeOK
    [] active = "Sse" -> Sse!TypeOK
    [] active = "Rec" -> Rec!TypeOK
    [] active = "Lim" -> Lim!TypeOK
    [] active = "Ds" -> Ds!TypeOK
    [] active = "Ant" -> Ant!TypeOK
    [] active = "Qst" -> Qst!TypeOK
    [] active = "Qwen" -> QwenTypeOK
    [] active = "Qan" -> Qan!TypeOK
    [] active = "Resp" -> Resp!TypeOK
    [] active = "Plain" -> Plain!TypeOK
    [] active = "Hist" -> Hist!TypeOK
    [] active = "Mis" -> MisTypeOK
    [] active = "Dsml" -> Dsml!TypeOK
    [] active = "Tb" -> Tb!TypeOK
    [] active = "Usage" -> UsageTypeOK


\* DeepSeek: a caller who streams and one who does not get the same of the same provider.
\* Qwen: a caller who streams and one who does not get the same of the same provider.
\* Responses: the output of a stream is that of the body of the same answer.
\* OpenCode and GigaChat: a stream sends the text of the body, unless the deltas cut a marker.
SameAnswer ==
  /\ active = "Ds" => Ds!SameAnswer
  /\ active = "Qan" => Qan!SameAnswer
  /\ active = "Resp" => Resp!SameAnswer
  /\ active = "Plain" => Plain!SameAnswer

\* Anthropic streams: every event is about a block that is open, and blocks are closed at
\* the end.
\* Responses streams: an item is added, told and done, text grows only in the last item, and
\* all items are done at the end.
EventsInOrder ==
  /\ active = "Ant" => Ant!EventsInOrder
  /\ active = "Resp" => Resp!EventsInOrder

\* Responses: the result of every call that a stream told of is accepted in the next turn.
\* Histories: OpenCode, GigaChat and Duck.ai are told of no result without its call, and of
\* every result that the caller gave.
AnswersMatchCalls ==
  /\ active = "Resp" => Resp!AnswersMatchCalls
  /\ active = "Hist" => Hist!AnswersMatchCalls

=============================================================================
