--------------------------- MODULE MCRecycleList ---------------------------
(* A small instance of RecycleList for TLC. *)
EXTENDS RecycleList
=============================================================================
