-------------------------------- MODULE Effects --------------------------------
(* What a request leaves behind it once its memory is stored: an event for   *)
(* the dashboards (Hub) and a goroutine that hands the memory to Cognee      *)
(* (CogneeClient), on one side the clients who may stop reading, on the      *)
(* other a service that may fail or change its mind about a token.           *)
EXTENDS Hub, CogneeClient

ASSUME EffectsAssumption == Goroutines = Handlers

effectsVars == <<hubVars, clientVars>>

EffectsInit == HubInit /\ ClientInit

\* A memory is stored: its Cognify goes off on its own, and the handler publishes.
Stored(h) ==
    /\ pub[h] = "none"
    /\ Goes(h, [NoCall EXCEPT !.step = "token"])
    /\ pub' = [pub EXCEPT ![h] = "lock"]
    /\ UNCHANGED <<mu, subs, chan, left, told, order, jwt, issued>>

\* A request that stores nothing new publishes all the same.
Served(h) ==
    /\ pub[h] = "none"
    /\ pub' = [pub EXCEPT ![h] = "lock"]
    /\ UNCHANGED <<mu, subs, chan, left, told, order, clientVars>>

EffectsNext ==
    \/ \E h \in Handlers : Stored(h) \/ Served(h)
    \/ \E h \in Handlers : Publish(h) /\ UNCHANGED clientVars
    \/ \E s \in Subscribers : Dashboard(s) /\ UNCHANGED clientVars
    \/ \E g \in Goroutines : Cognify(g) /\ UNCHANGED hubVars

\* A handler that can go on does; a client may stop reading for good.
Fairness == \A h \in Handlers : WF_effectsVars(Publish(h) /\ UNCHANGED clientVars)

EffectsSpec == EffectsInit /\ [][EffectsNext]_effectsVars /\ Fairness

-----------------------------------------------------------------------------
(* Properties.                                                              *)

EffectsTypeOK == HubTypeOK /\ ClientTypeOK

\* events.go:22: publishing does not block.  A handler gets through, though
\* others publish too and no dashboard reads a word of what it is sent.
PublishEnds == \A h \in Handlers : pub[h] = "lock" ~> pub[h] = "done"
=============================================================================
