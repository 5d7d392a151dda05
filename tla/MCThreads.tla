----------------------------- MODULE MCThreads -----------------------------
(* A process of up to three threads for TLC. *)
EXTENDS Threads

CONSTANTS l1, l2, c2, c3, b1, b2

OneLock == {l1}
TwoLocks == {l1, l2}
TwoTidWords == {c2, c3}
TwoBits == {b1, b2}
MixedKeys == {<<{b1, b2}, FALSE>>, <<{b1}, TRUE>>}
OneSleep == {1}
Pair == {1, 2}
EarlyOrLate == {<<TRUE, FALSE>>, <<FALSE, TRUE>>}
Symmetry == Permutations(TwoTidWords)

=============================================================================
