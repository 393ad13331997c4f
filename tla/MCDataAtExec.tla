---------------------------- MODULE MCDataAtExec ----------------------------
(* Lists of one to three parameters: streamed, buffered, and with a length. *)
EXTENDS DataAtExec, TLC

S == [buffer |-> FALSE, expected |-> NoLength]
B == [buffer |-> TRUE, expected |-> NoLength]
L == [buffer |-> FALSE, expected |-> 1]

Lists == {<<>>, <<S, L>>, <<S, B, S>>, <<B>>}
Symmetry == Permutations(Threads)
=============================================================================
