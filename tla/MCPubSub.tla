------------------------------ MODULE MCPubSub -----------------------------
(* Model checking of PubSub: a channel that fills up at once, and one that *)
(* holds two messages, so that Unsub can drain it in part.                 *)
EXTENDS PubSub

CONSTANT c1

MCBufCap == [c \in Chans |-> IF c = c1 THEN 1 ELSE 2]
=============================================================================
