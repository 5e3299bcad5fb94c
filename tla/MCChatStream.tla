---------------------------- MODULE MCChatStream ----------------------------
(* Two requests that compete for one thread, as model values.              *)
EXTENDS ChatStream

CONSTANTS r1, r2

MCRequests == {r1, r2}
=============================================================================
