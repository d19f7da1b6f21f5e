------------------------------ MODULE MCMonster ------------------------------
(* Two worker threads, two attackers and up to two chains. *)
EXTENDS Monster

=============================================================================
