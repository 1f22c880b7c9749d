--------------------------- MODULE MCFileStorage ---------------------------
(* Model checking of FileStorage: two messages that share an id, with      *)
(* contents of the same length that differ in their last chunk.            *)
EXTENDS FileStorage, TLC

CONSTANTS i1, m1, m2

MCMsgs == {m1, m2}
MCIdOf == [m \in MCMsgs |-> i1]
MCContent == [m \in MCMsgs |-> IF m = m1 THEN <<"a", "a">> ELSE <<"a", "b">>]
Symmetric == Permutations(Handlers)
=============================================================================
