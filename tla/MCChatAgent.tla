----------------------------- MODULE MCChatAgent -----------------------------
(* Small instances of ChatAgent.                                            *)
EXTENDS ChatAgent
=============================================================================
