---------------------------- MODULE ChatAgentProofs ----------------------------
(* Proofs about ChatAgent, for any memories, providers, replies and caps.    *)
EXTENDS ChatAgent, WellFoundedInduction, TLAPS

Fields == {"provider", "iters", "cites", "steps", "answer", "calls", "used", "more"}

\* The trace of the current run and what was given up make up the tool calls;
\* the ways of answering begin with an empty trace, and only the loop over Claude
\* can stand in the middle of its tool calls when it ends.
Trace ==
    /\ run.steps \in Nat /\ done \in [tools : Nat, dropped : Nat]
    /\ run.steps + done.dropped = done.tools
    /\ phase \in {"start", "rag"} => run.steps = 0
LoopOf ==
    /\ phase \in {"anthropic", "anthropicTools"} => run.provider = "anthropic"
    /\ phase \in {"rag", "generate"} => ~ run.used

ChatInv == DOMAIN run = Fields /\ Trace /\ LoopOf /\ AnswerComesLast

LEMMA ChatInitial == ASSUME Init PROVE ChatInv
BY DEF Init, ChatInv, NewRun, Fields, Trace, LoopOf, AnswerComesLast

\* What a new run looks like.
LEMMA Beginning ==
    ASSUME NEW next, Begin(next)
    PROVE  /\ phase' = next /\ DOMAIN run' = Fields /\ run'.steps = 0 /\ ~ run'.used
           /\ next = "anthropic" => run'.provider = "anthropic"
BY DEF Begin, NewRun, Fields

LEMMA ChatStep == ASSUME ChatInv, Chat PROVE ChatInv'
<1>1. PICK next \in {"rag", "anthropic", "openai"} : Begin(next)
  BY DEF Chat
<1>2. phase = "start" /\ done' = done
  BY DEF Chat
<1>3. /\ phase' = next /\ DOMAIN run' = Fields /\ run'.steps = 0 /\ ~ run'.used
      /\ next = "anthropic" => run'.provider = "anthropic"
  BY <1>1, Beginning
<1> QED BY <1>2, <1>3 DEF ChatInv, Trace, LoopOf, AnswerComesLast

LEMMA GiveUpStep == ASSUME ChatInv, AnthropicError \/ OpenAIReject PROVE ChatInv'
<1>1. PICK next \in {"openai", "rag"} : Begin(next)
  BY DEF AnthropicError, OpenAIReject
<1>2. done' = [done EXCEPT !.dropped = @ + run.steps]
  BY DEF AnthropicError, OpenAIReject, GiveUp
<1>3. /\ phase' = next /\ DOMAIN run' = Fields /\ run'.steps = 0 /\ ~ run'.used
  BY <1>1, Beginning
<1>4. Trace'
  BY <1>2, <1>3 DEF ChatInv, Trace
<1> QED BY <1>3, <1>4 DEF ChatInv, LoopOf, AnswerComesLast

\* A tool call is one more step of the run and one more thing done.
LEMMA ToolStep == ASSUME ChatInv, Recall \/ Retain PROVE ChatInv'
<1>1. /\ phase \in {"anthropicTools", "openaiTools"} /\ phase' = phase
      /\ done' = [done EXCEPT !.tools = @ + 1]
  BY DEF Recall, Retain, execTool
<1>2. PICK cites : run' = [run EXCEPT !.calls = Tail(@), !.steps = @ + 1, !.cites = cites]
  BY DEF Recall, Retain, execTool
<1>3. /\ DOMAIN run' = Fields /\ run'.steps = run.steps + 1
      /\ run'.provider = run.provider
  BY <1>2 DEF ChatInv, Fields
<1> QED BY <1>1, <1>3 DEF ChatInv, Trace, LoopOf, AnswerComesLast

\* What a reply changes of the run is not the trace.
LEMMA AnthropicTurnStep == ASSUME ChatInv, AnthropicTurn PROVE ChatInv'
<1>1. PICK calls, text, more :
        run' = [run EXCEPT !.iters = @ + 1, !.calls = calls, !.used = calls # <<>>,
                           !.more = more, !.answer = IF text = "text" THEN text ELSE @]
  BY DEF AnthropicTurn
<1>2. /\ phase = "anthropic" /\ phase' = "anthropicTools" /\ done' = done
  BY DEF AnthropicTurn
<1>3. /\ DOMAIN run' = Fields /\ run'.steps = run.steps /\ run'.provider = run.provider
  BY <1>1 DEF ChatInv, Fields
<1> QED BY <1>2, <1>3 DEF ChatInv, Trace, LoopOf, AnswerComesLast

LEMMA OpenAITurnStep == ASSUME ChatInv, OpenAITurn PROVE ChatInv'
<1>1. PICK calls, text :
        /\ run' = [run EXCEPT !.iters = @ + 1, !.calls = calls, !.used = calls # <<>>,
                              !.answer = IF calls = <<>> THEN text ELSE @]
        /\ phase' = IF calls # <<>> THEN "openaiTools"
                    ELSE IF text = "text" THEN "answered" ELSE "final"
  BY DEF OpenAITurn
<1>2. phase = "openai" /\ done' = done
  BY DEF OpenAITurn
<1>3. /\ DOMAIN run' = Fields /\ run'.steps = run.steps /\ run'.provider = run.provider
      /\ run'.used = (calls # <<>>)
  BY <1>1 DEF ChatInv, Fields
<1>4. phase' \in {"openaiTools", "answered", "final"} /\ (phase' = "answered" => calls = <<>>)
  BY <1>1
<1>5. Trace' /\ LoopOf'
  BY <1>2, <1>3, <1>4 DEF ChatInv, Trace, LoopOf
<1>6. phase' = "answered" => ~ run'.used
  BY <1>3, <1>4
<1> QED BY <1>3, <1>5, <1>6 DEF ChatInv, AnswerComesLast

\* A round of tool calls is over.
LEMMA RoundStep == ASSUME ChatInv, AnthropicNext \/ OpenAINext PROVE ChatInv'
<1>1. /\ done' = done
      /\ \/ /\ phase = "anthropicTools" /\ phase' \in {"answered", "anthropic"}
         \/ /\ phase = "openaiTools" /\ phase' \in {"final", "openai"}
  BY DEF AnthropicNext, OpenAINext
<1>2. run' = run \/ run' = [run EXCEPT !.answer = "none"]
  BY DEF AnthropicNext, OpenAINext
<1>3. /\ DOMAIN run' = Fields /\ run'.steps = run.steps /\ run'.provider = run.provider
  BY <1>2 DEF ChatInv, Fields
<1> QED BY <1>1, <1>3 DEF ChatInv, Trace, LoopOf, AnswerComesLast

\* The turn without tools, and the answer of single-shot retrieval.
LEMMA LastTurnStep == ASSUME ChatInv, ForceFinal \/ FallbackGenerate PROVE ChatInv'
<1>1. /\ done' = done /\ phase' = "answered"
      /\ \/ \E text : phase = "final" /\ run' = [run EXCEPT !.answer = text, !.used = FALSE]
         \/ \E text : phase = "generate" /\ run' = [run EXCEPT !.answer = text]
  BY DEF ForceFinal, FallbackGenerate
<1>2. /\ DOMAIN run' = Fields /\ run'.steps = run.steps /\ ~ run'.used
  BY <1>1 DEF ChatInv, Fields, LoopOf
<1> QED BY <1>1, <1>2 DEF ChatInv, Trace, LoopOf, AnswerComesLast

LEMMA FallbackStep == ASSUME ChatInv, FallbackRecall PROVE ChatInv'
<1>1. PICK mems : run' = [run EXCEPT !.cites = mems, !.steps = 1]
  BY DEF FallbackRecall
<1>2. phase = "rag" /\ phase' = "generate" /\ done' = [done EXCEPT !.tools = @ + 1]
  BY DEF FallbackRecall
<1>3. /\ DOMAIN run' = Fields /\ run'.steps = 1 /\ run'.used = run.used
  BY <1>1 DEF ChatInv, Fields
<1> QED BY <1>2, <1>3 DEF ChatInv, Trace, LoopOf, AnswerComesLast

LEMMA FailStep == ASSUME ChatInv, Fail PROVE ChatInv'
BY DEF Fail, ChatInv, Trace, LoopOf, AnswerComesLast

LEMMA ChatInvariant == Spec => []ChatInv
<1>1. ChatInv /\ [Next]_vars => ChatInv'
  <2> SUFFICES ASSUME ChatInv, [Next]_vars PROVE ChatInv'
    OBVIOUS
  <2>1. CASE UNCHANGED vars
    BY <2>1 DEF vars, ChatInv, Trace, LoopOf, AnswerComesLast
  <2> QED BY <2>1, ChatStep, ToolStep, GiveUpStep, AnthropicTurnStep, OpenAITurnStep, RoundStep,
             LastTurnStep, FallbackStep, FailStep DEF Next
<1> QED BY <1>1, ChatInitial, PTL DEF Spec

\* chat.go:8-9: nothing that a chat did is missing from its footprint but what a
\* provider that was given up did.
THEOREM FootprintIsComplete == Spec => []FootprintComplete
<1>1. ChatInv => FootprintComplete
  BY DEF ChatInv, Trace, FootprintComplete
<1> QED BY <1>1, ChatInvariant, PTL

\* agent.go:406: no answer of the OpenAI-compatible loop, and none of single-shot
\* retrieval, is the text that came with tool calls.
THEOREM AnswersComeLast == Spec => []AnswerComesLast
<1>1. ChatInv => AnswerComesLast
  BY DEF ChatInv
<1> QED BY <1>1, ChatInvariant, PTL

-----------------------------------------------------------------------------
(* The numbers of the citations.                                            *)

\* A set of numbers that holds 0 and, with each number, the next holds them all.
LEMMA Counting ==
    ASSUME NEW S, 0 \in S, \A n \in Nat : n \in S => n + 1 \in S
    PROVE  Nat \subseteq S
<1> DEFINE T == Nat \ S
           R == OpToRel(<, Nat)
<1>1. \A x, y \in Nat : <<y, x>> \in R <=> y < x
  BY DEF OpToRel
<1>2. IsWellFoundedOn(R, Nat)
  BY NatLessThanWellFounded
<1> HIDE DEF R
<1>3. ASSUME T # {} PROVE FALSE
  <2>1. PICK x \in T : \A y \in T : ~ (<<y, x>> \in R)
    <3>1. T \subseteq Nat /\ T # {}
      BY <1>3
    <3> HIDE DEF T
    <3> QED BY <1>2, <3>1, WFMin
  <2>2. x \in Nat /\ x # 0
    OBVIOUS
  <2>3. x - 1 \in Nat /\ x - 1 < x /\ (x - 1) + 1 = x
    BY <2>2
  <2>4. x - 1 \notin T
    BY <1>1, <2>1, <2>2, <2>3
  <2> QED BY <2>2, <2>3, <2>4
<1> QED BY <1>3

\* The fold of register, as the sequence of what it has numbered so far.
With(c, m) == IF \E n \in DOMAIN c : c[n] = m THEN c ELSE Append(c, m)

LEMMA RegisterUnfolds ==
    ASSUME NEW cites, NEW mems \in Seq(Memories)
    PROVE  \E f : /\ f[0] = cites /\ f[Len(mems)] = register(cites, mems)
                  /\ \A k \in 1..Len(mems) : f[k] = With(f[k - 1], mems[k])
<1> DEFINE N == Len(mems)
           Folds(g, n) == g = [t \in SUBSET (1..n) |->
                                 IF t = {} THEN cites ELSE With(g[t \ {Max(t)}], mems[Max(t)])]
           K == {n \in Nat : \E g : Folds(g, n)}
<1>0. N \in Nat /\ DOMAIN mems = 1..N
  OBVIOUS
<1>1. ASSUME NEW n \in Nat, NEW t \in SUBSET (1..(n + 1)), n + 1 \in t PROVE Max(t) = n + 1
  <2>1. \A y \in t : y \in Int /\ n + 1 >= y
    OBVIOUS
  <2>2. \A z \in t : (\A y \in t : z >= y) => z = n + 1
    BY <1>1, <2>1
  <2> QED BY <1>1, <2>1, <2>2 DEF Max
<1>2. 0 \in K
  <2>1. Folds([t \in SUBSET (1..0) |-> cites], 0)
    OBVIOUS
  <2> QED BY <2>1
<1>3. ASSUME NEW n \in Nat, n \in K PROVE n + 1 \in K
  <2>1. PICK g : Folds(g, n)
    BY <1>3
  <2> DEFINE h == [t \in SUBSET (1..(n + 1)) |->
                     IF n + 1 \in t THEN With(g[t \ {n + 1}], mems[n + 1]) ELSE g[t]]
  <2>2. ASSUME NEW t \in SUBSET (1..(n + 1)), t # {}
        PROVE  h[t] = With(h[t \ {Max(t)}], mems[Max(t)])
    <3>1. CASE n + 1 \in t
      <4>1. t \ {n + 1} \in SUBSET (1..n) /\ n + 1 \notin t \ {n + 1}
        OBVIOUS
      <4> QED BY <1>1, <3>1, <4>1
    <3>2. CASE n + 1 \notin t
      <4>0. \A x \in t : x \in 1..n
        BY <3>2
      <4>1. t \in SUBSET (1..n) /\ t \ {Max(t)} \in SUBSET (1..n) /\ n + 1 \notin t \ {Max(t)}
        BY <3>2, <4>0
      <4>2. g[t] = With(g[t \ {Max(t)}], mems[Max(t)])
        BY <2>1, <2>2, <4>1
      <4> QED BY <3>2, <4>1, <4>2
    <3> QED BY <3>1, <3>2
  <2>3. h[{}] = cites
    BY <2>1
  <2>4. Folds(h, n + 1)
    <3>1. h = [t \in SUBSET (1..(n + 1)) |-> h[t]]
      OBVIOUS
    <3>2. \A t \in SUBSET (1..(n + 1)) :
            h[t] = IF t = {} THEN cites ELSE With(h[t \ {Max(t)}], mems[Max(t)])
      BY <2>2, <2>3
    <3> HIDE DEF h
    <3> QED BY <3>1, <3>2
  <2> HIDE DEF h
  <2>5. \E q : Folds(q, n + 1)
    BY <2>4
  <2> HIDE DEF Folds
  <2> QED BY <2>5
<1>4. \E g : Folds(g, N)
  <2> HIDE DEF K
  <2>1. N \in K
    BY <1>0, <1>2, <1>3, Counting
  <2> QED BY <2>1 DEF K
<1> DEFINE iter == CHOOSE g : Folds(g, N)
<1>5. Folds(iter, N)
  BY <1>4
<1>6. register(cites, mems) = iter[1..N]
  BY <1>0 DEF register, FoldLeft, MapThenFoldSet, With
<1> HIDE DEF iter
<1> DEFINE f == [k \in 0..N |-> iter[1..k]]
<1>7. f[0] = cites
  BY <1>0, <1>5
<1>8. ASSUME NEW k \in 1..N PROVE f[k] = With(f[k - 1], mems[k])
  <2>1. k - 1 \in Nat /\ (k - 1) + 1 = k /\ 1..k \in SUBSET (1..k) /\ k \in 1..k
    BY <1>0
  <2>2. Max(1..k) = k
    BY <1>1, <2>1
  <2>3. (1..k) \ {k} = 1..(k - 1) /\ 1..k # {} /\ 1..k \in SUBSET (1..N)
    <3>1. \A x \in 1..k : x \in 1..N
      BY <1>0
    <3>2. \A x : x \in (1..k) \ {k} <=> x \in 1..(k - 1)
      BY <1>0
    <3> HIDE DEF N
    <3> QED BY <2>1, <3>1, <3>2
  <2>4. iter[1..k] = With(iter[(1..k) \ {k}], mems[k])
    BY <1>5, <2>2, <2>3
  <2>5. k \in 0..N /\ k - 1 \in 0..N
    BY <1>0
  <2> QED BY <2>3, <2>4, <2>5
<1>9. f[N] = register(cites, mems)
  BY <1>0, <1>6
<1> HIDE DEF f, N
<1> QED BY <1>7, <1>8, <1>9 DEF N

Distinct(c) == \A i, k \in DOMAIN c : c[i] = c[k] => i = k

\* One more memory is numbered after all the others, or not at all.
LEMMA OneMore ==
    ASSUME NEW c \in Seq(Memories), Distinct(c), NEW m \in Memories
    PROVE  /\ With(c, m) \in Seq(Memories) /\ Distinct(With(c, m))
           /\ \A n \in DOMAIN c : n \in DOMAIN With(c, m) /\ With(c, m)[n] = c[n]
<1>1. CASE \E n \in DOMAIN c : c[n] = m
  BY <1>1 DEF With
<1>2. CASE ~ \E n \in DOMAIN c : c[n] = m
  <2> DEFINE d == Append(c, m)
  <2>1. /\ d \in Seq(Memories) /\ Len(d) = Len(c) + 1 /\ d[Len(c) + 1] = m
        /\ \A n \in 1..Len(c) : d[n] = c[n]
    OBVIOUS
  <2>2. DOMAIN c = 1..Len(c) /\ DOMAIN d = 1..(Len(c) + 1) /\ Len(c) \in Nat
    OBVIOUS
  <2> HIDE DEF d
  <2>3. Distinct(d)
    BY <1>2, <2>1, <2>2 DEF Distinct
  <2>4. With(c, m) = d
    BY <1>2 DEF With, d
  <2> QED BY <2>1, <2>2, <2>3, <2>4
<1> QED BY <1>1, <1>2

\* register keeps every number that was given, and gives no memory two.
LEMMA RegisterExtends ==
    ASSUME NEW cites \in Seq(Memories), Distinct(cites), NEW mems \in Seq(Memories)
    PROVE  /\ register(cites, mems) \in Seq(Memories) /\ Distinct(register(cites, mems))
           /\ \A n \in DOMAIN cites :
                n \in DOMAIN register(cites, mems) /\ register(cites, mems)[n] = cites[n]
<1> DEFINE N == Len(mems)
           Extends(c) == /\ c \in Seq(Memories) /\ Distinct(c)
                         /\ \A n \in DOMAIN cites : n \in DOMAIN c /\ c[n] = cites[n]
<1>1. PICK f : /\ f[0] = cites /\ f[N] = register(cites, mems)
               /\ \A k \in 1..N : f[k] = With(f[k - 1], mems[k])
  BY RegisterUnfolds
<1>2. N \in Nat /\ \A k \in 1..N : mems[k] \in Memories
  OBVIOUS
<1> DEFINE K == {k \in Nat : k <= N => Extends(f[k])}
<1>3. 0 \in K
  BY <1>1
<1>4. ASSUME NEW k \in Nat, k \in K PROVE k + 1 \in K
  <2> SUFFICES ASSUME k + 1 <= N PROVE Extends(f[k + 1])
    OBVIOUS
  <2>1. k + 1 \in 1..N /\ (k + 1) - 1 = k /\ Extends(f[k])
    BY <1>2, <1>4
  <2>2. f[k + 1] = With(f[k], mems[k + 1]) /\ mems[k + 1] \in Memories
    BY <1>1, <1>2, <2>1
  <2> QED BY <2>1, <2>2, OneMore
<1>5. N \in K
  <2> HIDE DEF K
  <2> QED BY <1>2, <1>3, <1>4, Counting
<1> QED BY <1>1, <1>2, <1>5

-----------------------------------------------------------------------------
(* Types, and the numbers of the citations, of a whole chat.                *)

\* A turn is only taken while the cap leaves room for it.
Capped == phase \in {"anthropic", "openai"} => run.iters < MaxIters

TypeInv == TypeOK /\ Capped

LEMMA CallsShrink ==
    ASSUME NEW calls \in Calls, calls # <<>>
    PROVE  Tail(calls) \in Calls
<1>1. PICK n \in 0..MaxCalls : calls \in [1..n -> Tools]
  BY DEF Calls
<1>2. n # 0 /\ calls \in Seq(Tools) /\ Len(calls) = n
  BY <1>1, BoundsAssumption
<1>3. n - 1 \in 0..MaxCalls
  BY <1>2, BoundsAssumption
<1>4. Tail(calls) \in Seq(Tools) /\ Len(Tail(calls)) = n - 1
  BY <1>2
<1>5. \A s \in Seq(Tools) : s \in [1..Len(s) -> Tools]
  OBVIOUS
<1>6. Tail(calls) \in [1..(n - 1) -> Tools]
  BY <1>4, <1>5, Zenon
<1> QED BY <1>3, <1>6 DEF Calls

LEMMA NewRunTyped == /\ NewRun \in Run
                     /\ \A n \in Phases : [NewRun EXCEPT !.provider = IF n = "anthropic" THEN n ELSE @] \in Run
<1>1. <<>> \in Calls
  <2>1. <<>> \in [1..0 -> Tools] /\ 0 \in 0..MaxCalls
    BY BoundsAssumption
  <2> QED BY <2>1 DEF Calls
<1>2. <<>> \in Seq(Memories) /\ 0 \in 0..MaxIters
  BY BoundsAssumption
<1> QED BY <1>1, <1>2 DEF NewRun, Run, Texts

\* What a tool finds, and what a turn without tools answers with.
LEMMA FoundTyped == ASSUME NEW mems \in Found PROVE mems \in Seq(Memories) /\ Distinct(mems)
<1>1. PICK n \in 0..MaxFound : mems \in [1..n -> Memories]
  BY DEF Found
<1>2. n \in Nat
  BY BoundsAssumption
<1> QED BY <1>1, <1>2 DEF Found, Distinct

LEMMA BeginTyped ==
    ASSUME NEW next \in Phases, Begin(next)
    PROVE  phase' \in Phases /\ run' \in Run /\ told' = {} /\ run'.iters = 0 /\ run'.cites = <<>>
BY NewRunTyped DEF Begin, NewRun

\* The history of a chat: [tools, dropped] only grows by whole tool calls.
LEMMA TypeInitial == ASSUME Init PROVE TypeInv
BY NewRunTyped, BoundsAssumption DEF Init, TypeInv, TypeOK, Capped, Phases

LEMMA TypeStep == ASSUME TypeInv, CitationsStable, [Next]_vars PROVE TypeInv'
<1>1. CASE Chat \/ AnthropicError \/ OpenAIReject
  <2>1. PICK next \in {"rag", "anthropic", "openai"} : Begin(next)
    BY <1>1 DEF Chat, AnthropicError, OpenAIReject
  <2>2. phase' \in Phases /\ run' \in Run /\ told' = {} /\ run'.iters = 0
    BY <2>1, BeginTyped DEF Phases
  <2>3. asked' = asked /\ done' \in [tools : Nat, dropped : Nat]
    BY <1>1 DEF TypeInv, TypeOK, Chat, AnthropicError, OpenAIReject, GiveUp, Run
  <2> QED BY <2>2, <2>3, BoundsAssumption DEF TypeInv, TypeOK, Capped
<1>2. CASE Recall \/ Retain
  <2>1. PICK cites \in Seq(Memories) :
          /\ run' = [run EXCEPT !.calls = Tail(@), !.steps = @ + 1, !.cites = cites]
          /\ told' \subseteq (Nat \X Memories)
    <3>1. CASE Retain
      BY <3>1 DEF Retain, execTool, TypeInv, TypeOK, Run
    <3>2. CASE Recall
      <4>1. PICK mems \in Found :
              LET cites == register(run.cites, mems)
              IN  execTool(cites) /\ told' = told \cup Numbered(cites, mems)
        BY <3>2 DEF Recall
      <4> DEFINE cites == register(run.cites, mems)
      <4>2. run.cites \in Seq(Memories) /\ Distinct(run.cites)
        BY DEF TypeInv, TypeOK, Run, CitationsStable, Distinct
      <4>3. cites \in Seq(Memories)
        BY <4>2, FoundTyped, RegisterExtends
      <4> HIDE DEF cites
      <4>4. Numbered(cites, mems) \subseteq (Nat \X Memories)
        BY <4>3 DEF Numbered
      <4> QED BY <4>1, <4>3, <4>4 DEF execTool, cites, TypeInv, TypeOK
    <3> QED BY <1>2, <3>1, <3>2
  <2>2. phase' = phase /\ asked' = asked /\ done' = [done EXCEPT !.tools = @ + 1] /\ run.calls # <<>>
    BY <1>2 DEF Recall, Retain, execTool
  <2>3. Tail(run.calls) \in Calls
    BY <2>2, CallsShrink DEF TypeInv, TypeOK, Run
  <2>4. run \in Run /\ run.steps + 1 \in Nat
    BY DEF TypeInv, TypeOK, Run
  <2>5. run' = [run EXCEPT !.calls = Tail(run.calls), !.steps = run.steps + 1, !.cites = cites]
    BY <2>1
  <2> HIDE DEF Calls
  <2>6. run' \in Run /\ run'.iters = run.iters
    BY <2>3, <2>4, <2>5 DEF Run
  <2> QED BY <2>1, <2>2, <2>6 DEF TypeInv, TypeOK, Capped
<1>3. CASE AnthropicTurn
  <2>1. PICK calls \in Calls, text \in Texts, more \in BOOLEAN :
          run' = [run EXCEPT !.iters = @ + 1, !.calls = calls, !.used = calls # <<>>,
                             !.more = more, !.answer = IF text = "text" THEN text ELSE @]
    BY <1>3 DEF AnthropicTurn
  <2>2. run.iters + 1 \in 0..MaxIters /\ (calls # <<>>) \in BOOLEAN
    BY <1>3, BoundsAssumption DEF AnthropicTurn, TypeInv, TypeOK, Capped, Run
  <2>3. run' \in Run
    BY <2>1, <2>2 DEF TypeInv, TypeOK, Run
  <2> QED BY <1>3, <2>3 DEF AnthropicTurn, TypeInv, TypeOK, Capped, Phases
<1>4. CASE OpenAITurn
  <2>1. PICK calls \in Calls, text \in Texts :
          /\ run' = [run EXCEPT !.iters = @ + 1, !.calls = calls, !.used = calls # <<>>,
                                !.answer = IF calls = <<>> THEN text ELSE @]
          /\ phase' = IF calls # <<>> THEN "openaiTools"
                      ELSE IF text = "text" THEN "answered" ELSE "final"
    BY <1>4 DEF OpenAITurn
  <2>2. run.iters + 1 \in 0..MaxIters /\ (calls # <<>>) \in BOOLEAN
    BY <1>4, BoundsAssumption DEF OpenAITurn, TypeInv, TypeOK, Capped, Run
  <2>3. run' \in Run
    BY <2>1, <2>2 DEF TypeInv, TypeOK, Run
  <2>4. phase' \in {"openaiTools", "answered", "final"}
    BY <2>1
  <2> QED BY <1>4, <2>3, <2>4 DEF OpenAITurn, TypeInv, TypeOK, Capped, Phases
<1>5. CASE AnthropicNext
  <2>1. run' \in Run /\ run'.iters = run.iters /\ phase' \in {"answered", "anthropic"}
        /\ (phase' = "anthropic" => run.iters # MaxIters)
    BY <1>5 DEF AnthropicNext, TypeInv, TypeOK, Run, Texts
  <2> QED BY <1>5, <2>1, BoundsAssumption DEF AnthropicNext, TypeInv, TypeOK, Capped, Phases, Run
<1>6. CASE OpenAINext
  BY <1>6, BoundsAssumption DEF OpenAINext, TypeInv, TypeOK, Capped, Phases, Run
<1>7. CASE ForceFinal \/ FallbackGenerate \/ Fail
  BY <1>7 DEF ForceFinal, FallbackGenerate, Fail, TypeInv, TypeOK, Capped, Phases, Run
<1>8. CASE FallbackRecall
  <2>1. PICK mems \in Found :
          run' = [run EXCEPT !.cites = mems, !.steps = 1] /\ told' = {<<n, mems[n]>> : n \in DOMAIN mems}
    BY <1>8 DEF FallbackRecall
  <2>2. mems \in Seq(Memories)
    BY FoundTyped
  <2>3. run' \in Run
    BY <2>1, <2>2 DEF TypeInv, TypeOK, Run
  <2>4. told' \subseteq (Nat \X Memories)
    BY <2>1, <2>2
  <2> QED BY <1>8, <2>3, <2>4 DEF FallbackRecall, TypeInv, TypeOK, Capped, Phases
<1>9. CASE UNCHANGED vars
  BY <1>9 DEF vars, TypeInv, TypeOK, Capped
<1> QED BY <1>1, <1>2, <1>3, <1>4, <1>5, <1>6, <1>7, <1>8, <1>9 DEF Next

LEMMA CitationsStep == ASSUME TypeInv, CitationsStable, [Next]_vars PROVE CitationsStable'
<1>0. run.cites \in Seq(Memories) /\ Distinct(run.cites)
  BY DEF TypeInv, TypeOK, Run, CitationsStable, Distinct
<1>1. CASE Chat \/ AnthropicError \/ OpenAIReject
  <2>1. PICK next \in {"rag", "anthropic", "openai"} : Begin(next)
    BY <1>1 DEF Chat, AnthropicError, OpenAIReject
  <2>2. told' = {} /\ run'.cites = <<>>
    BY <2>1, BeginTyped DEF Phases
  <2> QED BY <2>2 DEF CitationsStable
<1>2. CASE Recall
  <2>1. PICK mems \in Found :
          LET cites == register(run.cites, mems)
          IN  execTool(cites) /\ told' = told \cup Numbered(cites, mems)
    BY <1>2 DEF Recall
  <2> DEFINE cites == register(run.cites, mems)
  <2>2. /\ cites \in Seq(Memories) /\ Distinct(cites)
        /\ \A n \in DOMAIN run.cites : n \in DOMAIN cites /\ cites[n] = run.cites[n]
    BY <1>0, FoundTyped, RegisterExtends
  <2>3. run'.cites = cites /\ told' = told \cup Numbered(cites, mems)
    BY <2>1 DEF execTool, TypeInv, TypeOK, Run
  <2> HIDE DEF cites
  <2>4. ASSUME NEW t \in told' PROVE t[1] \in DOMAIN cites /\ cites[t[1]] = t[2]
    <3>1. CASE t \in told
      BY <2>2, <3>1 DEF CitationsStable
    <3>2. CASE t \in Numbered(cites, mems)
      BY <3>2 DEF Numbered
    <3> QED BY <2>3, <3>1, <3>2
  <2> QED BY <2>2, <2>3, <2>4 DEF CitationsStable, Distinct
<1>3. CASE FallbackRecall
  <2>1. PICK mems \in Found :
          run' = [run EXCEPT !.cites = mems, !.steps = 1] /\ told' = {<<n, mems[n]>> : n \in DOMAIN mems}
    BY <1>3 DEF FallbackRecall
  <2>2. run'.cites = mems /\ Distinct(mems)
    BY <2>1, FoundTyped DEF TypeInv, TypeOK, Run
  <2> QED BY <2>1, <2>2 DEF CitationsStable, Distinct
<1>4. CASE Retain \/ AnthropicTurn \/ AnthropicNext \/ OpenAITurn \/ OpenAINext \/ ForceFinal
           \/ FallbackGenerate \/ Fail \/ UNCHANGED vars
  <2>1. run'.cites = run.cites /\ told' = told
    BY <1>4 DEF Retain, execTool, AnthropicTurn, AnthropicNext, OpenAITurn, OpenAINext, ForceFinal,
                FallbackGenerate, Fail, vars, TypeInv, TypeOK, Run
  <2> QED BY <2>1 DEF CitationsStable
<1> QED BY <1>1, <1>2, <1>3, <1>4 DEF Next

LEMMA NumbersInvariant == Spec => [](TypeInv /\ CitationsStable)
<1>1. Init => CitationsStable
  BY DEF Init, CitationsStable, NewRun
<1>2. (TypeInv /\ CitationsStable) /\ [Next]_vars => (TypeInv /\ CitationsStable)'
  BY TypeStep, CitationsStep
<1> QED BY <1>1, <1>2, TypeInitial, PTL DEF Spec

\* Every variable of a chat keeps its type: the loops stop at the cap, the
\* citations are memories that tools found, the counts are of whole calls.
THEOREM ChatTypeCorrect == Spec => []TypeOK
<1>1. TypeInv /\ CitationsStable => TypeOK
  BY DEF TypeInv
<1> QED BY <1>1, NumbersInvariant, PTL

\* register: a number that the model has read names the same memory until the run
\* ends, and no memory gets two, however often the tools find it.
THEOREM CitationsStayStable == Spec => []CitationsStable
BY NumbersInvariant, PTL
=============================================================================
