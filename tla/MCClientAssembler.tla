-------------------------- MODULE MCClientAssembler --------------------------
(* Pieces that hold several packets, and pieces that hold less than one.     *)
EXTENDS ClientAssembler, StreamShapes

MCStreams == StreamsOf(StreamLen, MaxPacket)
=============================================================================
