------------------------------- MODULE MCCombat ------------------------------
(* Two attackers, at equal strength, and a monster that bears four fists. *)
EXTENDS Combat, TLC

Symmetry == Permutations(Attackers)

=============================================================================
