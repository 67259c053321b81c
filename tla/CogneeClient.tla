------------------------------ MODULE CogneeClient ------------------------------
(* The client of the Cognee service (plugins/brain-cognee, client.go), which *)
(* the goroutines of a process share.  Retain starts one of them for each    *)
(* memory it stores; it uploads the memory (add) and then asks for the graph *)
(* of its brain to be built (cognify).  Both go through recv: a request that *)
(* is refused (401) drops the cached token and is sent once more.            *)
(*                                                                           *)
(* Tokens are numbers in the order in which the service issued them.  The    *)
(* service accepts and refuses them as it likes: they expire, it restarts.   *)
(* That each login returns a token never issued before is assumed of the     *)
(* service: nothing in the client compares the new one with the refused one. *)
EXTENDS Integers, FiniteSets

CONSTANTS
    Goroutines,     \* the calls of Cognify, one for each memory
    MaxTokens       \* bound: tokens issued

ASSUME TokensAssumption == MaxTokens \in Nat

NoToken == 0
Tokens == 1..MaxTokens

VARIABLES
    jwt,            \* the cached token, or NoToken
    issued,         \* tokens issued so far
    call            \* call[g]: the request that goroutine g is making

clientVars == <<jwt, issued, call>>

\* step: where it is; request: add or cognify; token: what it will send;
\* refused: the token of the first try, if that was refused.
Call(step, request, token, refused) ==
    [step |-> step, request |-> request, token |-> token, refused |-> refused]
NoCall == Call("none", "add", NoToken, NoToken)
Failed == Call("failed", "add", NoToken, NoToken)

ClientInit ==
    /\ jwt = NoToken /\ issued = 0
    /\ call = [g \in Goroutines |-> NoCall]

Goes(g, next) == call' = [call EXCEPT ![g] = next]

-----------------------------------------------------------------------------
(* token                                                                    *)

\* The cached token is used if there is one.
TokenCached(g) ==
    /\ call[g].step = "token"
    /\ Goes(g, Call(IF jwt = NoToken THEN "login" ELSE "send", call[g].request, jwt, call[g].refused))
    /\ UNCHANGED <<jwt, issued>>

\* Outside the lock, so that several goroutines may log in at once.
Login(g) ==
    /\ call[g].step = "login"
    /\ \/ /\ issued < MaxTokens /\ issued' = issued + 1
          /\ Goes(g, Call("store", call[g].request, issued + 1, call[g].refused))
       \/ /\ UNCHANGED issued
          /\ Goes(g, Failed)
    /\ UNCHANGED jwt

TokenStore(g) ==
    /\ call[g].step = "store"
    /\ jwt' = call[g].token
    /\ Goes(g, [call[g] EXCEPT !.step = "send"])
    /\ UNCHANGED issued

-----------------------------------------------------------------------------
(* do and recv                                                              *)

\* The service takes the memory in, and Cognify goes on to its second request;
\* or it starts building the graph, and Cognify is over.
Accepted(g) ==
    /\ call[g].step = "send"
    /\ Goes(g, IF call[g].request = "add" THEN Call("token", "cognify", NoToken, NoToken)
               ELSE Call("ok", "add", NoToken, NoToken))
    /\ UNCHANGED <<jwt, issued>>

\* A network error, a timeout, or a status from 300 other than 401; the service
\* may have done what it was asked all the same.
Broken(g) ==
    /\ call[g].step = "send"
    /\ Goes(g, Failed)
    /\ UNCHANGED <<jwt, issued>>

\* 401: once more with another token; the second 401 is an error like another.
Refused(g) ==
    /\ call[g].step = "send"
    /\ Goes(g, IF call[g].refused = NoToken
               THEN Call("drop", call[g].request, NoToken, call[g].token)
               ELSE Failed)
    /\ UNCHANGED <<jwt, issued>>

\* Mutant: the token stays in the cache.
DropNothing(g) ==
    /\ call[g].step = "drop"
    /\ Goes(g, [call[g] EXCEPT !.step = "token"])
    /\ UNCHANGED <<jwt, issued>>

\* Whatever token is cached goes, be it the refused one or a newer one.
Drop(g) ==
    /\ call[g].step = "drop"
    /\ jwt' = NoToken
    /\ Goes(g, [call[g] EXCEPT !.step = "token"])
    /\ UNCHANGED issued

Cognify(g) ==
    \/ TokenCached(g) \/ Login(g) \/ TokenStore(g)
    \/ Accepted(g) \/ Broken(g) \/ Refused(g) \/ Drop(g)

-----------------------------------------------------------------------------
(* Properties.                                                              *)

ClientTypeOK ==
    /\ jwt \in Tokens \cup {NoToken} /\ issued \in 0..MaxTokens
    /\ call \in [Goroutines ->
          [step : {"none", "token", "login", "store", "send", "drop", "ok", "failed"},
           request : {"add", "cognify"}, token : Tokens \cup {NoToken},
           refused : Tokens \cup {NoToken}]]

\* client.go:251-254: on a 401 the cached token is dropped and the request sent
\* once more.  Whatever the other goroutines read, drop, log in for and store
\* meanwhile, the second try never carries the token that has been refused.
RetriesWithAnotherToken ==
    \A g \in Goroutines :
        call[g].step = "send" /\ call[g].refused # NoToken => call[g].token # call[g].refused
=============================================================================
