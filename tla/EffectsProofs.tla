----------------------------- MODULE EffectsProofs -----------------------------
(* Proofs about Effects, for any handlers, dashboards, buffers and tokens.   *)
EXTENDS Effects, SequenceTheorems, TLAPS

-----------------------------------------------------------------------------
(* A retry carries another token.                                           *)

\* Every token in use has been issued.
TokensIssued ==
    /\ jwt <= issued
    /\ \A g \in Goroutines : call[g].token <= issued /\ call[g].refused <= issued

\* A token that is logged in for but not stored yet is nobody else's, and has not
\* been refused to anyone.
TokenIsFresh(g) ==
    /\ call[g].token # NoToken /\ jwt # call[g].token
    /\ \A h \in Goroutines :
          /\ h # g => call[h].token # call[g].token
          /\ call[h].refused # call[g].token
FreshTokens == \A g \in Goroutines : call[g].step = "store" => TokenIsFresh(g)

\* Once a goroutine has dropped the token it was refused with, that token is
\* neither in the cache nor what the goroutine is about to send.
Dropped(g) ==
    call[g].refused # NoToken /\ call[g].step # "drop" =>
        /\ jwt # call[g].refused
        /\ call[g].step = "send" => call[g].token # call[g].refused

ClientInv == ClientTypeOK /\ TokensIssued /\ FreshTokens /\ \A g \in Goroutines : Dropped(g)

ClientSteps == {"none", "token", "login", "store", "send", "drop", "ok", "failed"}
CallType == [step : ClientSteps, request : {"add", "cognify"}, token : Tokens \cup {NoToken},
             refused : Tokens \cup {NoToken}]

\* What a step changes of a goroutine's call changes no other's.
LEMMA GoesOn ==
    ASSUME ClientTypeOK, NEW g \in Goroutines, NEW next \in CallType, Goes(g, next)
    PROVE  /\ call' \in [Goroutines -> CallType]
           /\ call'[g] = next
           /\ \A h \in Goroutines : h # g => call'[h] = call[h]
BY DEF ClientTypeOK, Goes, CallType, ClientSteps

\* The tokens are numbers, so that an issued one is not above the counter.
LEMMA Numbers ==
    ASSUME ClientTypeOK
    PROVE  /\ issued \in Nat /\ jwt \in Nat
           /\ call \in [Goroutines -> CallType]
           /\ \A g \in Goroutines : call[g].token \in Nat /\ call[g].refused \in Nat
BY TokensAssumption DEF ClientTypeOK, CallType, ClientSteps, Tokens, NoToken

LEMMA ClientInitial == ASSUME ClientInit PROVE ClientInv
BY TokensAssumption DEF ClientInit, ClientInv, ClientTypeOK, TokensIssued, FreshTokens, TokenIsFresh,
    Dropped, NoCall, Call, Tokens, NoToken

\* Goroutines that begin, fail or go on to their next request carry no token.
LEMMA FreshCall ==
    ASSUME ClientInv, NEW g \in Goroutines, NEW next \in CallType, Goes(g, next),
           next.token = NoToken, next.refused = NoToken, next.step # "store",
           UNCHANGED <<jwt, issued>>
    PROVE  ClientInv'
<1>1. /\ call' \in [Goroutines -> CallType] /\ call'[g] = next
      /\ \A h \in Goroutines : h # g => call'[h] = call[h]
  BY GoesOn DEF ClientInv
<1>2. /\ issued \in Nat /\ jwt \in Nat
      /\ \A h \in Goroutines : call[h].token \in Nat /\ call[h].refused \in Nat
  BY Numbers DEF ClientInv
<1>3. ClientTypeOK'
  BY <1>1 DEF ClientInv, ClientTypeOK, CallType, ClientSteps
<1>4. TokensIssued'
  BY <1>1, <1>2 DEF ClientInv, TokensIssued, NoToken
<1>5. FreshTokens'
  <2> SUFFICES ASSUME NEW h \in Goroutines, call'[h].step = "store" PROVE TokenIsFresh(h)'
    BY DEF FreshTokens
  <2>1. h # g /\ call'[h] = call[h] /\ TokenIsFresh(h)
    BY <1>1 DEF ClientInv, FreshTokens
  <2>2. call[h].token # NoToken
    BY <2>1 DEF TokenIsFresh
  <2>3. /\ jwt' # call'[h].token
        /\ \A k \in Goroutines : k # h => call'[k].token # call'[h].token
    BY <1>1, <2>1, <2>2 DEF TokenIsFresh
  <2>4. \A k \in Goroutines : call'[k].refused # call'[h].token
    BY <1>1, <2>1, <2>2 DEF TokenIsFresh
  <2> QED BY <2>1, <2>2, <2>3, <2>4 DEF TokenIsFresh
<1>6. \A h \in Goroutines : Dropped(h)'
  BY <1>1 DEF ClientInv, Dropped
<1> QED BY <1>3, <1>4, <1>5, <1>6 DEF ClientInv

-----------------------------------------------------------------------------
(* One lemma for each step of the client.                                   *)

LEMMA TokenCachedStep ==
    ASSUME ClientInv, NEW g \in Goroutines, TokenCached(g) PROVE ClientInv'
<1> DEFINE next == Call(IF jwt = NoToken THEN "login" ELSE "send", call[g].request, jwt, call[g].refused)
<1>1. /\ call[g].step = "token" /\ Goes(g, next)
      /\ jwt' = jwt /\ issued' = issued
  BY DEF TokenCached
<1>2. /\ issued \in Nat /\ jwt \in Nat /\ call \in [Goroutines -> CallType]
      /\ \A h \in Goroutines : call[h].token \in Nat /\ call[h].refused \in Nat
  BY Numbers DEF ClientInv
<1>3. next \in CallType
  BY <1>2 DEF ClientInv, ClientTypeOK, Call, CallType, ClientSteps
<1>4. /\ next.step \in {"login", "send"} /\ next.token = jwt
      /\ next.refused = call[g].refused /\ next.request = call[g].request
  BY <1>2 DEF Call
<1> HIDE DEF next
<1>5. /\ call' \in [Goroutines -> CallType] /\ call'[g] = next
      /\ \A h \in Goroutines : h # g => call'[h] = call[h]
  BY <1>1, <1>3, GoesOn DEF ClientInv
<1>6. ClientTypeOK'
  BY <1>1, <1>5 DEF ClientInv, ClientTypeOK, CallType, ClientSteps
<1>7. TokensIssued'
  BY <1>1, <1>2, <1>4, <1>5 DEF ClientInv, TokensIssued
<1>8. FreshTokens'
  <2> SUFFICES ASSUME NEW h \in Goroutines, call'[h].step = "store" PROVE TokenIsFresh(h)'
    BY DEF FreshTokens
  <2>1. h # g /\ call'[h] = call[h] /\ TokenIsFresh(h)
    BY <1>4, <1>5 DEF ClientInv, FreshTokens
  <2>2. \A k \in Goroutines : k # h => call'[k].token # call'[h].token
    BY <1>4, <1>5, <2>1 DEF TokenIsFresh
  <2>3. \A k \in Goroutines : call'[k].refused # call'[h].token
    BY <1>4, <1>5, <2>1 DEF TokenIsFresh
  <2> QED BY <1>1, <2>1, <2>2, <2>3 DEF TokenIsFresh
<1>9. \A h \in Goroutines : Dropped(h)'
  <2> SUFFICES ASSUME NEW h \in Goroutines PROVE Dropped(h)'
    OBVIOUS
  <2>1. Dropped(h)
    BY DEF ClientInv
  <2>2. CASE h = g
    BY <1>1, <1>4, <1>5, <2>1, <2>2 DEF Dropped
  <2>3. CASE h # g
    BY <1>1, <1>5, <2>1, <2>3 DEF Dropped
  <2> QED BY <2>2, <2>3
<1> QED BY <1>6, <1>7, <1>8, <1>9 DEF ClientInv

LEMMA LoginStep ==
    ASSUME ClientInv, NEW g \in Goroutines, Login(g) PROVE ClientInv'
<1>1. CASE Goes(g, Failed) /\ UNCHANGED <<jwt, issued>>
  <2>1. /\ Failed \in CallType /\ Failed.token = NoToken /\ Failed.refused = NoToken
        /\ Failed.step # "store"
    BY DEF Failed, Call, CallType, ClientSteps
  <2> QED BY <1>1, <2>1, FreshCall DEF Goes
<1>2. CASE /\ issued < MaxTokens /\ issued' = issued + 1
           /\ Goes(g, Call("store", call[g].request, issued + 1, call[g].refused))
           /\ UNCHANGED jwt
  <2> DEFINE next == Call("store", call[g].request, issued + 1, call[g].refused)
  <2>1. /\ call[g].step = "login" /\ issued < MaxTokens
        /\ Goes(g, next) /\ jwt' = jwt /\ issued' = issued + 1
    BY <1>2 DEF Login
  <2>2. /\ issued \in Nat /\ jwt \in Nat /\ call \in [Goroutines -> CallType]
        /\ \A h \in Goroutines : call[h].token \in Nat /\ call[h].refused \in Nat
    BY Numbers DEF ClientInv
  <2>3. /\ next.step = "store" /\ next.token = issued + 1
        /\ next.refused = call[g].refused /\ next.request = call[g].request
    BY DEF Call
  <2>4. next \in CallType
    BY <2>1, <2>2, TokensAssumption DEF Call, CallType, ClientSteps, Tokens
  <2> HIDE DEF next
  <2>5. /\ call' \in [Goroutines -> CallType] /\ call'[g] = next
        /\ \A h \in Goroutines : h # g => call'[h] = call[h]
    BY <2>1, <2>4, GoesOn DEF ClientInv
  <2>6. ClientTypeOK'
    BY <2>1, <2>2, <2>5, TokensAssumption DEF ClientInv, ClientTypeOK, CallType, ClientSteps
  <2>7. jwt <= issued /\ \A h \in Goroutines : call[h].token <= issued /\ call[h].refused <= issued
    BY DEF ClientInv, TokensIssued
  <2>8. TokensIssued'
    BY <2>1, <2>2, <2>3, <2>5, <2>7 DEF TokensIssued
  <2>9. FreshTokens'
    <3> SUFFICES ASSUME NEW h \in Goroutines, call'[h].step = "store" PROVE TokenIsFresh(h)'
      BY DEF FreshTokens
    <3>1. CASE h = g
      <4>1. call'[h].token = issued + 1 /\ issued + 1 # NoToken
        BY <3>1, <2>2, <2>3, <2>5 DEF NoToken
      <4>2. \A k \in Goroutines : k # h => call'[k].token # call'[h].token
        BY <3>1, <4>1, <2>2, <2>5, <2>7
      <4>3. \A k \in Goroutines : call'[k].refused # call'[h].token
        BY <3>1, <4>1, <2>2, <2>3, <2>5, <2>7
      <4>4. jwt' # call'[h].token
        BY <4>1, <2>1, <2>2, <2>7
      <4> QED BY <4>1, <4>2, <4>3, <4>4 DEF TokenIsFresh
    <3>2. CASE h # g
      <4>1. call'[h] = call[h] /\ TokenIsFresh(h)
        BY <3>2, <2>5 DEF ClientInv, FreshTokens
      <4>2. call'[g].token # call'[h].token
        BY <4>1, <2>2, <2>3, <2>5, <2>7
      <4>3. \A k \in Goroutines : k # h => call'[k].token # call'[h].token
        BY <4>1, <4>2, <2>5 DEF TokenIsFresh
      <4>4. \A k \in Goroutines : call'[k].refused # call'[h].token
        BY <4>1, <2>3, <2>5 DEF TokenIsFresh
      <4> QED BY <2>1, <4>1, <4>3, <4>4 DEF TokenIsFresh
    <3> QED BY <3>1, <3>2
  <2>10. \A h \in Goroutines : Dropped(h)'
    BY <2>1, <2>3, <2>5 DEF ClientInv, Dropped
  <2> QED BY <2>6, <2>8, <2>9, <2>10 DEF ClientInv
<1> QED BY <1>1, <1>2 DEF Login

LEMMA TokenStoreStep ==
    ASSUME ClientInv, NEW g \in Goroutines, TokenStore(g) PROVE ClientInv'
<1> DEFINE next == [call[g] EXCEPT !.step = "send"]
<1>1. call[g].step = "store" /\ jwt' = call[g].token /\ Goes(g, next) /\ issued' = issued
  BY DEF TokenStore
<1>2. /\ issued \in Nat /\ jwt \in Nat /\ call \in [Goroutines -> CallType]
      /\ \A h \in Goroutines : call[h].token \in Nat /\ call[h].refused \in Nat
  BY Numbers DEF ClientInv
<1>3. /\ next \in CallType /\ next.step = "send" /\ next.token = call[g].token
      /\ next.refused = call[g].refused
  BY <1>2 DEF CallType, ClientSteps
<1> HIDE DEF next
<1>4. /\ call' \in [Goroutines -> CallType] /\ call'[g] = next
      /\ \A h \in Goroutines : h # g => call'[h] = call[h]
  BY <1>1, <1>3, GoesOn DEF ClientInv
<1>5. TokenIsFresh(g)
  BY <1>1 DEF ClientInv, FreshTokens
<1>6. ClientTypeOK'
  BY <1>1, <1>2, <1>4 DEF ClientInv, ClientTypeOK, CallType, ClientSteps
<1>7. TokensIssued'
  BY <1>1, <1>3, <1>4 DEF ClientInv, TokensIssued
<1>8. FreshTokens'
  <2> SUFFICES ASSUME NEW h \in Goroutines, call'[h].step = "store" PROVE TokenIsFresh(h)'
    BY DEF FreshTokens
  <2>1. h # g /\ call'[h] = call[h] /\ TokenIsFresh(h)
    BY <1>3, <1>4 DEF ClientInv, FreshTokens
  <2>2. \A k \in Goroutines : k # h => call'[k].token # call'[h].token
    BY <1>3, <1>4, <2>1 DEF TokenIsFresh
  <2>3. \A k \in Goroutines : call'[k].refused # call'[h].token
    BY <1>3, <1>4, <2>1 DEF TokenIsFresh
  <2>4. jwt' # call'[h].token
    BY <1>1, <2>1 DEF TokenIsFresh
  <2> QED BY <2>1, <2>2, <2>3, <2>4 DEF TokenIsFresh
<1>9. \A h \in Goroutines : Dropped(h)'
  <2> SUFFICES ASSUME NEW h \in Goroutines PROVE Dropped(h)'
    OBVIOUS
  <2>1. Dropped(h) /\ call[h].refused # call[g].token
    BY <1>5 DEF ClientInv, TokenIsFresh
  <2>2. CASE h = g
    BY <1>1, <1>3, <1>4, <2>1, <2>2 DEF Dropped
  <2>3. CASE h # g
    BY <1>1, <1>4, <2>1, <2>3 DEF Dropped
  <2> QED BY <2>2, <2>3
<1> QED BY <1>6, <1>7, <1>8, <1>9 DEF ClientInv

\* The call of a goroutine that begins, goes on to its next request or ends.
LEMMA EndOrNext ==
    /\ \A step \in ClientSteps, request \in {"add", "cognify"} :
          /\ Call(step, request, NoToken, NoToken) \in CallType
          /\ Call(step, request, NoToken, NoToken).step = step
          /\ Call(step, request, NoToken, NoToken).token = NoToken
          /\ Call(step, request, NoToken, NoToken).refused = NoToken
BY DEF Call, CallType

LEMMA AnswerStep ==
    ASSUME ClientInv, NEW g \in Goroutines, Accepted(g) \/ Broken(g) PROVE ClientInv'
<1>1. UNCHANGED <<jwt, issued>>
  BY DEF Accepted, Broken
<1>2. \/ Goes(g, Call("token", "cognify", NoToken, NoToken))
      \/ Goes(g, Call("ok", "add", NoToken, NoToken))
      \/ Goes(g, Call("failed", "add", NoToken, NoToken))
  BY DEF Accepted, Broken, Failed
<1>3. {"token", "ok", "failed"} \subseteq ClientSteps /\ "store" \notin {"token", "ok", "failed"}
  BY DEF ClientSteps
<1>4. PICK next \in CallType :
        Goes(g, next) /\ next.token = NoToken /\ next.refused = NoToken /\ next.step # "store"
  <2> HIDE DEF Goes
  <2> QED BY <1>2, <1>3, EndOrNext DEF Goes
<1> QED BY <1>1, <1>4, FreshCall DEF Goes

LEMMA RefusedStep ==
    ASSUME ClientInv, NEW g \in Goroutines, Refused(g) PROVE ClientInv'
<1>1. call[g].step = "send" /\ jwt' = jwt /\ issued' = issued
  BY DEF Refused
<1>2. /\ issued \in Nat /\ jwt \in Nat /\ call \in [Goroutines -> CallType]
      /\ \A h \in Goroutines : call[h].token \in Nat /\ call[h].refused \in Nat
  BY Numbers DEF ClientInv
<1>3. CASE call[g].refused # NoToken
  <2>1. Goes(g, Call("failed", "add", NoToken, NoToken))
    BY <1>3 DEF Refused, Failed
  <2>2. "failed" \in ClientSteps
    BY DEF ClientSteps
  <2> QED BY <1>1, <2>1, <2>2, EndOrNext, FreshCall DEF Goes
<1>4. CASE call[g].refused = NoToken
  <2> DEFINE next == Call("drop", call[g].request, NoToken, call[g].token)
  <2>1. Goes(g, next)
    BY <1>4 DEF Refused
  <2>2. /\ next \in CallType /\ next.step = "drop" /\ next.token = NoToken
        /\ next.refused = call[g].token
    BY <1>2 DEF Call, CallType, ClientSteps
  <2> HIDE DEF next
  <2>3. /\ call' \in [Goroutines -> CallType] /\ call'[g] = next
        /\ \A h \in Goroutines : h # g => call'[h] = call[h]
    BY <2>1, <2>2, GoesOn DEF ClientInv
  <2>4. ClientTypeOK'
    BY <1>1, <2>3 DEF ClientInv, ClientTypeOK, CallType, ClientSteps
  <2>5. TokensIssued'
    BY <1>1, <1>2, <2>2, <2>3 DEF ClientInv, TokensIssued, NoToken
  <2>6. FreshTokens'
    <3> SUFFICES ASSUME NEW h \in Goroutines, call'[h].step = "store" PROVE TokenIsFresh(h)'
      BY DEF FreshTokens
    <3>1. h # g /\ call'[h] = call[h] /\ TokenIsFresh(h)
      BY <2>2, <2>3 DEF ClientInv, FreshTokens
    <3>2. \A k \in Goroutines : k # h => call'[k].token # call'[h].token
      BY <2>2, <2>3, <3>1 DEF TokenIsFresh
    <3>3. \A k \in Goroutines : call'[k].refused # call'[h].token
      BY <2>2, <2>3, <3>1 DEF TokenIsFresh
    <3> QED BY <1>1, <3>1, <3>2, <3>3 DEF TokenIsFresh
  <2>7. \A h \in Goroutines : Dropped(h)'
    BY <1>1, <2>2, <2>3 DEF ClientInv, Dropped
  <2> QED BY <2>4, <2>5, <2>6, <2>7 DEF ClientInv
<1> QED BY <1>3, <1>4

LEMMA DropStep ==
    ASSUME ClientInv, NEW g \in Goroutines, Drop(g) PROVE ClientInv'
<1> DEFINE next == [call[g] EXCEPT !.step = "token"]
<1>1. call[g].step = "drop" /\ jwt' = NoToken /\ Goes(g, next) /\ issued' = issued
  BY DEF Drop
<1>2. /\ issued \in Nat /\ jwt \in Nat /\ call \in [Goroutines -> CallType]
      /\ \A h \in Goroutines : call[h].token \in Nat /\ call[h].refused \in Nat
  BY Numbers DEF ClientInv
<1>3. /\ next \in CallType /\ next.step = "token" /\ next.token = call[g].token
      /\ next.refused = call[g].refused
  BY <1>2 DEF CallType, ClientSteps
<1> HIDE DEF next
<1>4. /\ call' \in [Goroutines -> CallType] /\ call'[g] = next
      /\ \A h \in Goroutines : h # g => call'[h] = call[h]
  BY <1>1, <1>3, GoesOn DEF ClientInv
<1>5. ClientTypeOK'
  BY <1>1, <1>4 DEF ClientInv, ClientTypeOK, CallType, ClientSteps
<1>6. TokensIssued'
  BY <1>1, <1>2, <1>3, <1>4 DEF ClientInv, TokensIssued, NoToken
<1>7. FreshTokens'
  <2> SUFFICES ASSUME NEW h \in Goroutines, call'[h].step = "store" PROVE TokenIsFresh(h)'
    BY DEF FreshTokens
  <2>1. h # g /\ call'[h] = call[h] /\ TokenIsFresh(h)
    BY <1>3, <1>4 DEF ClientInv, FreshTokens
  <2>2. \A k \in Goroutines : k # h => call'[k].token # call'[h].token
    BY <1>3, <1>4, <2>1 DEF TokenIsFresh
  <2>3. \A k \in Goroutines : call'[k].refused # call'[h].token
    BY <1>3, <1>4, <2>1 DEF TokenIsFresh
  <2> QED BY <1>1, <2>1, <2>2, <2>3 DEF TokenIsFresh
<1>8. \A h \in Goroutines : Dropped(h)'
  BY <1>1, <1>3, <1>4 DEF ClientInv, Dropped
<1> QED BY <1>5, <1>6, <1>7, <1>8 DEF ClientInv

\* Every step of the whole keeps the client's invariant.
LEMMA ClientStep ==
    ASSUME ClientInv, [EffectsNext]_effectsVars PROVE ClientInv'
<1>1. CASE UNCHANGED clientVars
  BY <1>1 DEF clientVars, ClientInv, ClientTypeOK, TokensIssued, FreshTokens, TokenIsFresh, Dropped
<1>2. ASSUME NEW h \in Handlers, Stored(h) PROVE ClientInv'
  <2>1. h \in Goroutines
    BY EffectsAssumption
  <2> DEFINE next == [NoCall EXCEPT !.step = "token"]
  <2>2. Goes(h, next) /\ UNCHANGED <<jwt, issued>>
    BY <1>2 DEF Stored
  <2>3. next \in CallType /\ next.step = "token" /\ next.token = NoToken /\ next.refused = NoToken
    BY DEF NoCall, Call, CallType, ClientSteps
  <2> HIDE DEF next
  <2> QED BY <2>1, <2>2, <2>3, FreshCall DEF Goes
<1>3. ASSUME NEW g \in Goroutines, Cognify(g) PROVE ClientInv'
  BY <1>3, TokenCachedStep, LoginStep, TokenStoreStep, AnswerStep, RefusedStep, DropStep DEF Cognify
<1> QED BY <1>1, <1>2, <1>3 DEF EffectsNext, effectsVars, Served

\* client.go:251-254: whatever the goroutines that share the client do
\* meanwhile, a request that was refused is not tried again with the same token.
THEOREM RetryIsNotTheSame == EffectsSpec => []RetriesWithAnotherToken
<1>1. EffectsInit => ClientInv
  BY ClientInitial DEF EffectsInit
<1>2. ClientInv /\ [EffectsNext]_effectsVars => ClientInv'
  BY ClientStep
<1>3. ClientInv => RetriesWithAnotherToken
  BY DEF ClientInv, Dropped, RetriesWithAnotherToken
<1> QED BY <1>1, <1>2, <1>3, PTL DEF EffectsSpec

-----------------------------------------------------------------------------
(* The dashboards see the events in one order.                              *)

\* What is in the order of the events has been published.
Ordered == \A i \in DOMAIN order : pub[order[i]] \in {"send", "done"}

\* The event that is being handed out is the last one.
LastIsSent ==
    \A h \in Handlers : pub[h] = "send" => order # <<>> /\ order[Len(order)] = h

\* A dashboard sees published events only,
SeesPublished ==
    \A s \in Subscribers : \A m \in DOMAIN Stream(s) :
        \E i \in DOMAIN order : order[i] = Stream(s)[m]

\* and has not seen the one it has still to be handed.
NotYetSeen ==
    \A h \in Handlers : \A s \in left[h] :
        pub[h] = "send" => \A m \in DOMAIN Stream(s) : Stream(s)[m] # h

HubInv == HubTypeOK /\ Ordered /\ LastIsSent /\ SeesPublished /\ NotYetSeen /\ OneOrder

LEMMA HubInitial == ASSUME HubInit PROVE HubInv
<1>1. HubTypeOK
  BY HubAssumption DEF HubInit, HubTypeOK
<1>2. \A s \in Subscribers : Stream(s) = <<>>
  BY DEF HubInit, Stream
<1>3. Ordered /\ LastIsSent /\ NotYetSeen
  BY <1>2 DEF HubInit, Ordered, LastIsSent, NotYetSeen
<1> QED BY <1>1, <1>2, <1>3 DEF HubInv, SeesPublished, OneOrder

\* What reaches a channel comes at the end of its stream, and what its client
\* takes from it stays in the stream.
LEMMA StreamGrows ==
    ASSUME NEW t \in Seq(Handlers), NEW c \in Seq(Handlers), NEW h \in Handlers
    PROVE  t \o Append(c, h) = Append(t \o c, h)
<1>1. t \o c \in Seq(Handlers)
  BY ConcatProperties
<1>2. Append(c, h) = c \o <<h>> /\ Append(t \o c, h) = (t \o c) \o <<h>>
  BY <1>1, AppendIsConcat
<1>3. <<h>> \in Seq(Handlers)
  OBVIOUS
<1>4. (t \o c) \o <<h>> = t \o (c \o <<h>>)
  BY <1>3, ConcatAssociative
<1> QED BY <1>2, <1>4

LEMMA StreamStays ==
    ASSUME NEW t \in Seq(Handlers), NEW c \in Seq(Handlers), c # <<>>
    PROVE  Append(t, Head(c)) \o Tail(c) = t \o c
<1>1. /\ Head(c) \in Handlers /\ Tail(c) \in Seq(Handlers) /\ Len(Tail(c)) = Len(c) - 1
      /\ \A i \in 1..Len(Tail(c)) : Tail(c)[i] = c[i + 1]
  BY HeadTailProperties
<1> DEFINE a == Append(t, Head(c))
           after == a \o Tail(c)
           before == t \o c
<1>2. /\ a \in Seq(Handlers) /\ Len(a) = Len(t) + 1
      /\ \A i \in 1..Len(t) : a[i] = t[i]
      /\ a[Len(t) + 1] = Head(c)
  BY <1>1, AppendProperties
<1> HIDE DEF a
<1>3. /\ after \in Seq(Handlers) /\ Len(after) = Len(a) + Len(Tail(c))
      /\ \A i \in 1..Len(a) + Len(Tail(c)) :
            after[i] = IF i <= Len(a) THEN a[i] ELSE Tail(c)[i - Len(a)]
  BY <1>1, <1>2, ConcatProperties
<1>4. /\ before \in Seq(Handlers) /\ Len(before) = Len(t) + Len(c)
      /\ \A i \in 1..Len(t) + Len(c) : before[i] = IF i <= Len(t) THEN t[i] ELSE c[i - Len(t)]
  BY ConcatProperties
<1>5. Len(t) \in Nat /\ Len(c) \in Nat /\ Head(c) = c[1]
  OBVIOUS
<1> HIDE DEF after, before
<1>6. Len(after) = Len(before)
  BY <1>1, <1>2, <1>3, <1>4, <1>5
<1>7. ASSUME NEW i \in 1..Len(before) PROVE after[i] = before[i]
  <2>1. CASE i <= Len(t)
    <3>1. /\ i \in 1..Len(t) /\ i \in 1..Len(a) + Len(Tail(c)) /\ i <= Len(a)
          /\ i \in 1..Len(t) + Len(c)
      BY <2>1, <1>1, <1>2, <1>4, <1>5
    <3>2. after[i] = a[i] /\ before[i] = t[i]
      BY <2>1, <3>1, <1>3, <1>4
    <3> QED BY <3>1, <3>2, <1>2
  <2>2. CASE i = Len(t) + 1
    BY <2>2, <1>1, <1>2, <1>3, <1>4, <1>5
  <2>3. CASE i > Len(t) + 1
    <3>1. i - Len(a) \in 1..Len(Tail(c)) /\ (i - Len(a)) + 1 = i - Len(t)
      BY <2>3, <1>1, <1>2, <1>4, <1>5
    <3>2. /\ i \in 1..Len(a) + Len(Tail(c)) /\ ~(i <= Len(a))
          /\ i \in 1..Len(t) + Len(c) /\ ~(i <= Len(t))
      BY <2>3, <1>1, <1>2, <1>4, <1>5
    <3>3. after[i] = Tail(c)[i - Len(a)]
      BY <3>2, <1>3
    <3>4. before[i] = c[i - Len(t)]
      BY <3>2, <1>4
    <3> QED BY <3>1, <3>3, <3>4, <1>1
  <2> QED BY <2>1, <2>2, <2>3, <1>4, <1>5
<1>8. after = before
  BY <1>3, <1>4, <1>6, <1>7, SeqEqual
<1> QED BY <1>8 DEF after, before, a

\* Steps that publish nothing new and let every stream be as it was, or cut it off.
Calm ==
    /\ order' = order
    /\ \A h \in Handlers :
          /\ pub'[h] = "send" => pub[h] = "send"
          /\ pub[h] \in {"send", "done"} => pub'[h] \in {"send", "done"}
          /\ left'[h] \subseteq left[h]
    /\ \A s \in Subscribers : Stream(s)' = Stream(s) \/ Stream(s)' = <<>>

LEMMA StreamsKept ==
    ASSUME HubInv, HubTypeOK', Calm PROVE HubInv'
<1>1. order \in Seq(Handlers) /\ \A i \in DOMAIN order : order[i] \in Handlers
  BY DEF HubInv, HubTypeOK
<1>2. Ordered'
  BY <1>1 DEF HubInv, Ordered, Calm
<1>3. LastIsSent'
  BY DEF HubInv, LastIsSent, Calm
<1>4. SeesPublished'
  BY DEF HubInv, SeesPublished, Calm
<1>5. NotYetSeen'
  <2> SUFFICES ASSUME NEW h \in Handlers, NEW s \in left'[h], pub'[h] = "send",
                      NEW m \in DOMAIN Stream(s)'
               PROVE  Stream(s)'[m] # h
    BY DEF NotYetSeen
  <2>1. s \in Subscribers /\ s \in left[h] /\ pub[h] = "send"
    BY DEF HubTypeOK, Calm
  <2> QED BY <2>1 DEF HubInv, NotYetSeen, Calm
<1>6. OneOrder'
  BY DEF HubInv, OneOrder, Calm
<1> QED BY <1>2, <1>3, <1>4, <1>5, <1>6 DEF HubInv

LEMMA LockStep ==
    ASSUME HubInv, NEW h \in Handlers, PublishLock(h) PROVE HubInv'
<1>1. /\ pub[h] = "lock" /\ mu = Free /\ mu' = h /\ order' = Append(order, h)
      /\ left' = [left EXCEPT ![h] = subs] /\ pub' = [pub EXCEPT ![h] = "send"]
      /\ subs' = subs /\ chan' = chan /\ told' = told
  BY DEF PublishLock
<1>2. HubTypeOK'
  BY <1>1, HubAssumption DEF HubInv, HubTypeOK
<1>3. /\ order \in Seq(Handlers) /\ DOMAIN order = 1..Len(order) /\ Len(order) \in Nat
      /\ \A i \in DOMAIN order : order[i] \in Handlers
  BY DEF HubInv, HubTypeOK
<1>4. /\ DOMAIN order' = 1..(Len(order) + 1) /\ Len(order') = Len(order) + 1
      /\ order'[Len(order) + 1] = h
      /\ \A i \in DOMAIN order : order'[i] = order[i]
  BY <1>1, <1>3
<1>5. /\ pub'[h] = "send"
      /\ \A g \in Handlers : g # h => pub'[g] = pub[g] /\ pub[g] # "send"
      /\ \A g \in Handlers : g # h => left'[g] = left[g]
  BY <1>1, HubAssumption DEF HubInv, HubTypeOK
<1>6. \A s \in Subscribers : Stream(s)' = Stream(s)
  BY <1>1 DEF Stream
<1>7. Ordered'
  BY <1>3, <1>4, <1>5 DEF HubInv, Ordered
<1>8. LastIsSent'
  BY <1>3, <1>4, <1>5 DEF LastIsSent
<1>9. DOMAIN order \subseteq DOMAIN order'
  BY <1>3, <1>4
<1>10. SeesPublished'
  BY <1>4, <1>6, <1>9 DEF HubInv, SeesPublished
<1>11. NotYetSeen'
  <2> SUFFICES ASSUME NEW g \in Handlers, NEW s \in left'[g], pub'[g] = "send",
                      NEW m \in DOMAIN Stream(s)'
               PROVE  Stream(s)'[m] # g
    BY DEF NotYetSeen
  <2>1. g = h
    BY <1>5
  <2>2. s \in Subscribers
    BY <1>2 DEF HubTypeOK
  <2>3. PICK i \in DOMAIN order : order[i] = Stream(s)[m]
    BY <1>6, <2>2 DEF HubInv, SeesPublished
  <2>4. order[i] # h
    BY <1>1 DEF HubInv, Ordered
  <2> QED BY <1>6, <2>1, <2>2, <2>3, <2>4
<1>12. OneOrder'
  <2> SUFFICES ASSUME NEW s \in Subscribers, NEW m \in DOMAIN Stream(s)', NEW n \in DOMAIN Stream(s)',
                      m < n
               PROVE  /\ Stream(s)'[m] # Stream(s)'[n]
                      /\ \E i, j \in DOMAIN order' :
                            i < j /\ order'[i] = Stream(s)'[m] /\ order'[j] = Stream(s)'[n]
    BY DEF OneOrder
  <2>1. Stream(s)[m] # Stream(s)[n]
    BY <1>6 DEF HubInv, OneOrder
  <2>2. PICK i, j \in DOMAIN order : i < j /\ order[i] = Stream(s)[m] /\ order[j] = Stream(s)[n]
    BY <1>6 DEF HubInv, OneOrder
  <2> QED BY <1>4, <1>6, <1>9, <2>1, <2>2
<1> QED BY <1>2, <1>7, <1>8, <1>10, <1>11, <1>12 DEF HubInv

LEMMA SendStep ==
    ASSUME HubInv, NEW h \in Handlers, PublishSend(h) PROVE HubInv'
<1>1. PICK s \in left[h] :
        /\ chan' = IF Len(chan[s]) < Buffer THEN [chan EXCEPT ![s] = Append(@, h)] ELSE chan
        /\ left' = [left EXCEPT ![h] = @ \ {s}]
  BY DEF PublishSend
<1>2. /\ pub[h] = "send" /\ mu' = mu /\ subs' = subs /\ pub' = pub /\ told' = told
      /\ order' = order
  BY DEF PublishSend
<1>3. s \in Subscribers
  BY DEF HubInv, HubTypeOK
<1>4. \A g \in Handlers : left'[g] \subseteq left[g] /\ left'[g] \subseteq Subscribers
  BY <1>1 DEF HubInv, HubTypeOK
<1>5. CASE ~(Len(chan[s]) < Buffer)
  <2>1. chan' = chan
    BY <1>1, <1>5
  <2>2. HubTypeOK'
    BY <1>1, <1>2, <2>1 DEF HubInv, HubTypeOK
  <2>3. \A t \in Subscribers : Stream(t)' = Stream(t)
    BY <1>2, <2>1 DEF Stream
  <2> QED BY <1>2, <1>4, <2>2, <2>3, StreamsKept DEF Calm
<1>6. CASE Len(chan[s]) < Buffer
  <2>1. chan' = [chan EXCEPT ![s] = Append(@, h)]
    BY <1>1, <1>6
  <2>2. chan[s] \in Seq(Handlers) /\ told[s] \in Seq(Handlers)
    BY <1>3 DEF HubInv, HubTypeOK
  <2>3. HubTypeOK'
    <3>1. chan' \in [Subscribers -> Seq(Handlers)]
      BY <1>3, <2>1, <2>2 DEF HubInv, HubTypeOK
    <3>2. \A t \in Subscribers : Len(chan'[t]) <= Buffer
      BY <1>3, <1>6, <2>1, <2>2, HubAssumption DEF HubInv, HubTypeOK
    <3>3. left' \in [Handlers -> SUBSET Subscribers]
      BY <1>1 DEF HubInv, HubTypeOK
    <3> QED BY <1>2, <3>1, <3>2, <3>3 DEF HubInv, HubTypeOK
  <2>4. \A t \in Subscribers : t # s => Stream(t)' = Stream(t)
    BY <1>2, <2>1 DEF HubInv, HubTypeOK, Stream
  <2>5. chan'[s] = Append(chan[s], h) /\ told'[s] = told[s]
    BY <1>2, <1>3, <2>1 DEF HubInv, HubTypeOK
  <2>6. /\ Stream(s) \in Seq(Handlers) /\ Stream(s)' = Append(Stream(s), h)
    BY <2>2, <2>5, StreamGrows, ConcatProperties DEF Stream
  <2>7. /\ DOMAIN Stream(s) = 1..Len(Stream(s)) /\ Len(Stream(s)) \in Nat
        /\ DOMAIN Stream(s)' = 1..(Len(Stream(s)) + 1)
        /\ Stream(s)'[Len(Stream(s)) + 1] = h
        /\ \A m \in DOMAIN Stream(s) : Stream(s)'[m] = Stream(s)[m]
    BY <2>6
  <2>8. /\ order \in Seq(Handlers) /\ DOMAIN order = 1..Len(order) /\ Len(order) \in Nat
        /\ order # <<>> /\ order[Len(order)] = h
    BY <1>2 DEF HubInv, HubTypeOK, LastIsSent
  <2>9. Len(order) \in DOMAIN order
    BY <2>8
  <2>10. Ordered' /\ LastIsSent'
    BY <1>2 DEF HubInv, Ordered, LastIsSent
  <2>11. SeesPublished'
    <3> SUFFICES ASSUME NEW t \in Subscribers, NEW m \in DOMAIN Stream(t)'
                 PROVE  \E i \in DOMAIN order : order[i] = Stream(t)'[m]
      BY <1>2 DEF SeesPublished
    <3>1. CASE t # s
      BY <3>1, <2>4 DEF HubInv, SeesPublished
    <3>2. CASE t = s /\ m \in DOMAIN Stream(s)
      BY <3>2, <2>7 DEF HubInv, SeesPublished
    <3>3. CASE t = s /\ m = Len(Stream(s)) + 1
      BY <3>3, <2>7, <2>8, <2>9
    <3> QED BY <2>7, <3>1, <3>2, <3>3
  <2>12. NotYetSeen'
    <3> SUFFICES ASSUME NEW g \in Handlers, NEW t \in left'[g], pub'[g] = "send",
                        NEW m \in DOMAIN Stream(t)'
                 PROVE  Stream(t)'[m] # g
      BY DEF NotYetSeen
    <3>1. g = h
      BY <1>2 DEF HubInv, HubTypeOK
    <3>2. t # s /\ t \in Subscribers /\ t \in left[h]
      BY <1>1, <1>4, <3>1 DEF HubInv, HubTypeOK
    <3> QED BY <1>2, <2>4, <3>1, <3>2 DEF HubInv, NotYetSeen
  <2>13. OneOrder'
    <3> SUFFICES ASSUME NEW t \in Subscribers, NEW m \in DOMAIN Stream(t)',
                        NEW n \in DOMAIN Stream(t)', m < n
                 PROVE  /\ Stream(t)'[m] # Stream(t)'[n]
                        /\ \E i, j \in DOMAIN order :
                              i < j /\ order[i] = Stream(t)'[m] /\ order[j] = Stream(t)'[n]
      BY <1>2 DEF OneOrder
    <3>1. CASE t # s
      BY <3>1, <2>4 DEF HubInv, OneOrder
    <3>2. CASE t = s /\ n \in DOMAIN Stream(s)
      <4>1. m \in DOMAIN Stream(s)
        BY <3>2, <2>7
      <4> QED BY <3>2, <4>1, <2>7 DEF HubInv, OneOrder
    <3>3. CASE t = s /\ n = Len(Stream(s)) + 1
      <4>1. m \in DOMAIN Stream(s)
        BY <3>3, <2>7
      <4>2. PICK i \in DOMAIN order : order[i] = Stream(s)[m]
        BY <4>1, <1>3 DEF HubInv, SeesPublished
      <4>3. Stream(s)[m] # h
        BY <4>1, <1>2 DEF HubInv, NotYetSeen
      <4>4. i < Len(order)
        BY <4>2, <4>3, <2>8
      <4> QED BY <3>3, <4>1, <4>2, <4>3, <4>4, <2>7, <2>8, <2>9
    <3> QED BY <2>7, <3>1, <3>2, <3>3
  <2> QED BY <2>3, <2>10, <2>11, <2>12, <2>13 DEF HubInv
<1> QED BY <1>5, <1>6

LEMMA UnlockStep ==
    ASSUME HubInv, NEW h \in Handlers, PublishUnlock(h) PROVE HubInv'
<1>1. /\ pub[h] = "send" /\ mu' = Free /\ pub' = [pub EXCEPT ![h] = "done"]
      /\ subs' = subs /\ chan' = chan /\ left' = left /\ told' = told /\ order' = order
  BY DEF PublishUnlock
<1>2. HubTypeOK'
  BY <1>1, HubAssumption DEF HubInv, HubTypeOK
<1>3. \A g \in Handlers : /\ pub'[g] = "send" => pub[g] = "send"
                          /\ pub[g] \in {"send", "done"} => pub'[g] \in {"send", "done"}
  BY <1>1 DEF HubInv, HubTypeOK
<1>4. \A s \in Subscribers : Stream(s)' = Stream(s)
  BY <1>1 DEF Stream
<1> QED BY <1>1, <1>2, <1>3, <1>4, StreamsKept DEF Calm

LEMMA BeginStep ==
    ASSUME HubInv, NEW h \in Handlers, Stored(h) \/ Served(h) PROVE HubInv'
<1>1. /\ pub[h] = "none" /\ pub' = [pub EXCEPT ![h] = "lock"]
      /\ mu' = mu /\ subs' = subs /\ chan' = chan /\ left' = left /\ told' = told /\ order' = order
  BY DEF Stored, Served
<1>2. HubTypeOK'
  BY <1>1 DEF HubInv, HubTypeOK
<1>3. \A g \in Handlers : /\ pub'[g] = "send" => pub[g] = "send"
                          /\ pub[g] \in {"send", "done"} => pub'[g] \in {"send", "done"}
  BY <1>1 DEF HubInv, HubTypeOK
<1>4. \A s \in Subscribers : Stream(s)' = Stream(s)
  BY <1>1 DEF Stream
<1> QED BY <1>1, <1>2, <1>3, <1>4, StreamsKept DEF Calm

LEMMA DashboardStep ==
    ASSUME HubInv, NEW s \in Subscribers, Dashboard(s) PROVE HubInv'
<1>1. CASE Subscribe(s)
  <2>1. HubTypeOK'
    BY <1>1 DEF HubInv, HubTypeOK, Subscribe
  <2>2. \A t \in Subscribers : Stream(t)' = Stream(t)
    BY <1>1 DEF Stream, Subscribe
  <2> QED BY <1>1, <2>1, <2>2, StreamsKept DEF Subscribe, Calm
<1>2. CASE Receive(s)
  <2>1. /\ chan[s] # <<>> /\ told' = [told EXCEPT ![s] = Append(@, Head(chan[s]))]
        /\ chan' = [chan EXCEPT ![s] = Tail(@)]
        /\ mu' = mu /\ subs' = subs /\ pub' = pub /\ left' = left /\ order' = order
    BY <1>2 DEF Receive
  <2>2. chan[s] \in Seq(Handlers) /\ told[s] \in Seq(Handlers) /\ Len(chan[s]) <= Buffer
    BY DEF HubInv, HubTypeOK
  <2>3. /\ Head(chan[s]) \in Handlers /\ Tail(chan[s]) \in Seq(Handlers)
        /\ Len(Tail(chan[s])) <= Buffer
    BY <2>1, <2>2, HubAssumption
  <2>4. HubTypeOK'
    <3>1. chan' \in [Subscribers -> Seq(Handlers)] /\ told' \in [Subscribers -> Seq(Handlers)]
      BY <2>1, <2>2, <2>3 DEF HubInv, HubTypeOK
    <3>2. \A t \in Subscribers : Len(chan'[t]) <= Buffer
      BY <2>1, <2>3 DEF HubInv, HubTypeOK
    <3> QED BY <2>1, <3>1, <3>2 DEF HubInv, HubTypeOK
  <2>5. \A t \in Subscribers : t # s => Stream(t)' = Stream(t)
    BY <2>1 DEF HubInv, HubTypeOK, Stream
  <2>6. chan'[s] = Tail(chan[s]) /\ told'[s] = Append(told[s], Head(chan[s]))
    BY <2>1 DEF HubInv, HubTypeOK
  <2>7. Append(told[s], Head(chan[s])) \o Tail(chan[s]) = told[s] \o chan[s]
    BY <2>1, <2>2, StreamStays
  <2>8. Stream(s)' = Stream(s)
    BY <2>6, <2>7 DEF Stream
  <2> QED BY <2>1, <2>4, <2>5, <2>8, StreamsKept DEF Calm
<1>3. CASE Unsubscribe(s)
  <2>1. /\ chan' = [chan EXCEPT ![s] = <<>>] /\ told' = [told EXCEPT ![s] = <<>>]
        /\ subs' = subs \ {s} /\ mu' = mu /\ pub' = pub /\ left' = left /\ order' = order
    BY <1>3 DEF Unsubscribe
  <2>2. HubTypeOK'
    <3>1. chan' \in [Subscribers -> Seq(Handlers)] /\ told' \in [Subscribers -> Seq(Handlers)]
      BY <2>1 DEF HubInv, HubTypeOK
    <3>2. \A t \in Subscribers : Len(chan'[t]) <= Buffer
      BY <2>1, HubAssumption DEF HubInv, HubTypeOK
    <3> QED BY <2>1, <3>1, <3>2 DEF HubInv, HubTypeOK
  <2>3. \A t \in Subscribers : t # s => Stream(t)' = Stream(t)
    BY <2>1 DEF HubInv, HubTypeOK, Stream
  <2>4. Stream(s)' = <<>>
    BY <2>1 DEF HubInv, HubTypeOK, Stream
  <2> QED BY <2>1, <2>2, <2>3, <2>4, StreamsKept DEF Calm
<1> QED BY <1>1, <1>2, <1>3 DEF Dashboard

\* Every step of the whole keeps the hub's invariant.
LEMMA HubStep ==
    ASSUME HubInv, [EffectsNext]_effectsVars PROVE HubInv'
<1>1. CASE UNCHANGED hubVars
  <2>1. HubTypeOK'
    BY <1>1 DEF hubVars, HubInv, HubTypeOK
  <2>2. \A s \in Subscribers : Stream(s)' = Stream(s)
    BY <1>1 DEF hubVars, Stream
  <2> QED BY <1>1, <2>1, <2>2, StreamsKept DEF hubVars, Calm
<1>2. ASSUME NEW h \in Handlers, Publish(h) PROVE HubInv'
  BY <1>2, LockStep, SendStep, UnlockStep DEF Publish
<1> QED BY <1>1, <1>2, BeginStep, DashboardStep DEF EffectsNext, effectsVars

\* The type invariant of Effects.
THEOREM EffectsTypeCorrect == EffectsSpec => []EffectsTypeOK
<1>1. EffectsInit => HubInv /\ ClientInv
  BY HubInitial, ClientInitial DEF EffectsInit
<1>2. HubInv /\ ClientInv /\ [EffectsNext]_effectsVars => (HubInv /\ ClientInv)'
  BY HubStep, ClientStep
<1>3. HubInv /\ ClientInv => EffectsTypeOK
  BY DEF HubInv, ClientInv, EffectsTypeOK
<1> QED BY <1>1, <1>2, <1>3, PTL DEF EffectsSpec

\* events.go:33-41: however many handlers publish at once and whatever is lost
\* to channels that are full, the dashboards see the events in one order.
THEOREM EventsInOneOrder == EffectsSpec => []OneOrder
<1>1. EffectsInit => HubInv
  BY HubInitial DEF EffectsInit
<1>2. HubInv /\ [EffectsNext]_effectsVars => HubInv'
  BY HubStep
<1>3. HubInv => OneOrder
  BY DEF HubInv
<1> QED BY <1>1, <1>2, <1>3, PTL DEF EffectsSpec
=============================================================================
