------------------------------ MODULE ChatAgent ------------------------------
(* One chat with a brain (chat.go, agent.go): the tool-calling loop over     *)
(* Claude, the same loop over an OpenAI-compatible endpoint, and single-shot *)
(* retrieval.  The model is the environment: it replies with any text and    *)
(* any tool calls, rejects tools, or fails.                                  *)
(*                                                                           *)
(* recall, search and graph_neighbors differ only in where they look, so one *)
(* tool, "recall", stands for them and for an unknown tool, which finds      *)
(* nothing.  What a chat does to the world is counted outside the run of the *)
(* provider that did it, because a failed provider's run is thrown away.     *)
EXTENDS Integers, Sequences, SequencesExt

CONSTANTS
    Memories,       \* what the tools may find
    Providers,      \* {"openai"} or {"openai", "anthropic"}
    MaxIters,       \* agentMaxIters
    MaxCalls,       \* bound: tool calls in one reply
    MaxFound        \* bound: memories found by one tool call

ASSUME ProvidersAssumption == "openai" \in Providers
ASSUME BoundsAssumption ==
    /\ MaxIters \in Nat \ {0}
    /\ MaxCalls \in Nat
    /\ MaxFound \in Nat

VARIABLES
    asked,      \* asked: [tools], whether the chat may use tools
    phase,      \* where Store.Chat stands
    run,        \* the agentRun and the loop's locals
    told,       \* told: the numbered memories the model has read in this run
    done        \* done: [tools, dropped], what the chat did, whoever did it,
                \* and the steps of the runs that were given up

vars == <<asked, phase, run, told, done>>

\* The answers of a recall: rows of one query, each memory once.
Found == {s \in UNION {[1..n -> Memories] : n \in 0..MaxFound} :
            \A i, k \in DOMAIN s : s[i] = s[k] => i = k}
Tools == {"recall", "retain"}
Calls == UNION {[1..n -> Tools] : n \in 0..MaxCalls}
Texts == {"none", "text"}

Run == [provider : {"ollama", "anthropic"}, iters : 0..MaxIters,
        cites : Seq(Memories), steps : Nat, answer : Texts,
        calls : Calls, used : BOOLEAN, more : BOOLEAN]
Phases == {"start", "anthropic", "anthropicTools", "openai", "openaiTools", "final",
           "rag", "generate", "answered", "failed"}

NewRun == [provider |-> "ollama", iters |-> 0,
           cites |-> <<>>, steps |-> 0, answer |-> "none",
           calls |-> <<>>, used |-> FALSE, more |-> FALSE]

Init ==
    /\ asked \in [tools : BOOLEAN]
    /\ phase = "start"
    /\ run = NewRun
    /\ told = {}
    /\ done = [tools |-> 0, dropped |-> 0]

\* Begin another way of answering, with nothing of the last one.
Begin(next) ==
    /\ phase' = next
    /\ run' = [NewRun EXCEPT !.provider = IF next = "anthropic" THEN next ELSE @]
    /\ told' = {}

GiveUp == done' = [done EXCEPT !.dropped = @ + run.steps]

Chat ==
    /\ phase = "start"
    /\ Begin(IF ~ asked.tools THEN "rag"
             ELSE IF "anthropic" \in Providers THEN "anthropic" ELSE "openai")
    /\ UNCHANGED <<asked, done>>

-----------------------------------------------------------------------------
(* Tools.                                                                   *)

\* Mutant: a memory is numbered again each time a tool returns it.
registerAgain(cites, mems) == cites \o mems

\* A memory not cited yet gets the next number.
register(cites, mems) ==
    FoldLeft(LAMBDA c, m : IF \E n \in DOMAIN c : c[n] = m THEN c ELSE Append(c, m), cites, mems)

Numbered(cites, mems) ==
    {<<n, cites[n]>> : n \in {k \in DOMAIN cites : \E i \in DOMAIN mems : mems[i] = cites[k]}}

\* The tool call is a step of the run, whatever comes of it.
execTool(cites) ==
    /\ run' = [run EXCEPT !.calls = Tail(@), !.steps = @ + 1, !.cites = cites]
    /\ UNCHANGED <<asked, phase>>

Recall ==
    /\ phase \in {"anthropicTools", "openaiTools"}
    /\ run.calls # <<>> /\ Head(run.calls) = "recall"
    /\ \E mems \in Found :
          LET cites == register(run.cites, mems) IN
          /\ execTool(cites)
          /\ told' = told \cup Numbered(cites, mems)
    /\ done' = [done EXCEPT !.tools = @ + 1]

\* retain stores in a session that may write, unless it fails there; the model is
\* told either way.
Retain ==
    /\ phase \in {"anthropicTools", "openaiTools"}
    /\ run.calls # <<>> /\ Head(run.calls) = "retain"
    /\ execTool(run.cites)
    /\ done' = [done EXCEPT !.tools = @ + 1]
    /\ UNCHANGED told

-----------------------------------------------------------------------------
(* The loop over Claude.                                                    *)

\* A reply: text, tool calls and a stop reason, in any combination.
AnthropicTurn ==
    /\ phase = "anthropic"
    /\ \E calls \in Calls, text \in Texts, more \in BOOLEAN :
          run' = [run EXCEPT !.iters = @ + 1, !.calls = calls, !.used = calls # <<>>,
                             !.more = more, !.answer = IF text = "text" THEN text ELSE @]
    /\ phase' = "anthropicTools"
    /\ UNCHANGED <<asked, told, done>>

\* An error is not fatal: the next provider starts from the question.
AnthropicError ==
    /\ phase = "anthropic"
    /\ Begin("openai") /\ GiveUp
    /\ UNCHANGED asked

AnthropicNext ==
    /\ phase = "anthropicTools" /\ run.calls = <<>>
    /\ IF run.more /\ run.used
       THEN /\ run' = [run EXCEPT !.answer = "none"]
            /\ phase' = IF run.iters = MaxIters THEN "answered" ELSE "anthropic"
       ELSE phase' = "answered" /\ UNCHANGED run
    /\ UNCHANGED <<asked, told, done>>

-----------------------------------------------------------------------------
(* The loop over an OpenAI-compatible endpoint.                             *)

\* A reply: tool calls, or else the answer, which may be blank.
OpenAITurn ==
    /\ phase = "openai"
    /\ \E calls \in Calls, text \in Texts :
          /\ run' = [run EXCEPT !.iters = @ + 1, !.calls = calls, !.used = calls # <<>>,
                                !.answer = IF calls = <<>> THEN text ELSE @]
          /\ phase' = IF calls # <<>> THEN "openaiTools"
                      ELSE IF text = "text" THEN "answered" ELSE "final"
    /\ UNCHANGED <<asked, told, done>>

\* Mutant: at the cap the loop just ends, as it does over Claude.
OpenAINextNoFinal ==
    /\ phase = "openaiTools" /\ run.calls = <<>>
    /\ phase' = IF run.iters = MaxIters THEN "answered" ELSE "openai"
    /\ UNCHANGED <<asked, run, told, done>>

\* Mutant: the cap is one turn too high.
OpenAINextOffByOne ==
    /\ phase = "openaiTools" /\ run.calls = <<>>
    /\ phase' = IF run.iters > MaxIters THEN "final" ELSE "openai"
    /\ UNCHANGED <<asked, run, told, done>>

OpenAINext ==
    /\ phase = "openaiTools" /\ run.calls = <<>>
    /\ phase' = IF run.iters = MaxIters THEN "final" ELSE "openai"
    /\ UNCHANGED <<asked, run, told, done>>

\* Tools are rejected, on the first turn or later: single-shot retrieval
\* takes over.
OpenAIReject ==
    /\ phase = "openai"
    /\ Begin("rag") /\ GiveUp
    /\ UNCHANGED asked

\* Mutant: a blank last answer starts the loop again.
ForceFinalRestarting ==
    /\ phase = "final"
    /\ \E text \in Texts :
          /\ run' = [run EXCEPT !.answer = text, !.used = FALSE, !.iters = 0]
          /\ phase' = IF text = "text" THEN "answered" ELSE "openai"
    /\ UNCHANGED <<asked, told, done>>

\* No answer yet: one more turn, without tools.
ForceFinal ==
    /\ phase = "final"
    /\ \E text \in Texts : run' = [run EXCEPT !.answer = text, !.used = FALSE]
    /\ phase' = "answered"
    /\ UNCHANGED <<asked, told, done>>

-----------------------------------------------------------------------------
(* Single-shot retrieval, and failure.                                      *)

\* Mutant: the recall is not entered in the footprint.
FallbackRecallUnlisted ==
    /\ phase = "rag"
    /\ \E mems \in Found :
          /\ run' = [run EXCEPT !.cites = mems]
          /\ told' = {<<n, mems[n]>> : n \in DOMAIN mems}
    /\ done' = [done EXCEPT !.tools = @ + 1]
    /\ phase' = "generate"
    /\ UNCHANGED asked

FallbackRecall ==
    /\ phase = "rag"
    /\ \E mems \in Found :
          /\ run' = [run EXCEPT !.cites = mems, !.steps = 1]
          /\ told' = {<<n, mems[n]>> : n \in DOMAIN mems}
    /\ done' = [done EXCEPT !.tools = @ + 1]
    /\ phase' = "generate"
    /\ UNCHANGED asked

FallbackGenerate ==
    /\ phase = "generate"
    /\ \E text \in Texts : run' = [run EXCEPT !.answer = text]
    /\ phase' = "answered"
    /\ UNCHANGED <<asked, told, done>>

\* Any other error of the endpoint, or of the recall, ends the chat.
Fail ==
    /\ phase \in {"openai", "final", "rag", "generate"}
    /\ phase' = "failed"
    /\ UNCHANGED <<asked, run, told, done>>

-----------------------------------------------------------------------------

Next ==
    \/ Chat
    \/ Recall \/ Retain
    \/ AnthropicTurn \/ AnthropicError \/ AnthropicNext
    \/ OpenAITurn \/ OpenAINext \/ OpenAIReject \/ ForceFinal
    \/ FallbackRecall \/ FallbackGenerate \/ Fail

\* The handler's goroutine runs on; every call it makes has a timeout.
Spec == Init /\ [][Next]_vars /\ WF_vars(Next)

-----------------------------------------------------------------------------
(* Properties.                                                              *)

\* Every variable keeps its type.
TypeOK ==
    /\ asked \in [tools : BOOLEAN]
    /\ phase \in Phases
    /\ run \in Run
    /\ told \subseteq (Nat \X Memories)
    /\ done \in [tools : Nat, dropped : Nat]

\* register: the number under which the model read a memory, in whichever
\* tool result of whichever turn, is that memory's place in the citations of
\* the answer, and no memory has two numbers.
CitationsStable ==
    /\ \A t \in told : t[1] \in DOMAIN run.cites /\ run.cites[t[1]] = t[2]
    /\ \A i, k \in DOMAIN run.cites : run.cites[i] = run.cites[k] => i = k

\* chat.go:8-9: the footprint records the full trace of the tool calls, whichever
\* loop made them; all that is missing are those of a provider that was given up.
FootprintComplete == phase = "answered" => run.steps + done.dropped = done.tools

\* agent.go:406: when the cap is hit while the model still calls tools, a last
\* turn without tools makes it answer, so no answer is cut off in mid-search.
\* The loop over Claude has no such turn.
AnswerComesLast == phase = "answered" /\ run.provider = "ollama" => ~ run.used

\* Every chat ends, in an answer or an error.
ChatEnds == <>(phase \in {"answered", "failed"})
=============================================================================
