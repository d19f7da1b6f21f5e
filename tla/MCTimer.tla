------------------------------- MODULE MCTimer -------------------------------
(* Two timer threads and three events, up to two ticks ahead. *)
EXTENDS Timer

=============================================================================
