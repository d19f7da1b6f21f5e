------------------------------ MODULE MCSession ------------------------------
(* Small instances of Session for TLC. *)
EXTENDS Session, TLC

CONSTANTS t1, t2, c1, c2, c3, i1, i2

TwoConns == {c1, c2}
ThreeConns == {c1, c2, c3}
TwoThreads == {t1, t2}
OneId == {i1}
TwoIds == {i1, i2}
OneIdQueue == <<i1>>
TwoIdQueue == <<i1, i2>>

Symmetry == Permutations(Threads) \cup Permutations(Conns)
=============================================================================
