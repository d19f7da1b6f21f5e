---------------------------- MODULE MCSharedPtr ----------------------------
(* Small instances of SharedPtr for TLC. *)
EXTENDS SharedPtr, TLC

CONSTANTS t1, t2, b1, b2, p1, p2, p3, s1, s2, k1, k2

TwoThreads == {t1, t2}
TwoSlots == {s1, s2}
TwoCopies == {k1, k2}
TwoBlocks == {b1, b2}
ThreePlayers == {p1, p2, p3}

Symmetry ==
    Permutations(Threads) \cup Permutations(Blocks) \cup Permutations(Players)
        \cup Permutations(Slots) \cup Permutations(Copies)
=============================================================================
