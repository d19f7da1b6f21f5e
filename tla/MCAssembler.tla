----------------------------- MODULE MCAssembler -----------------------------
(* A scaled-down buffer, which runs out several times in a stream.           *)
EXTENDS Assembler, StreamShapes

MCStreams == StreamsOf(StreamLen, MaxPacket)
=============================================================================
