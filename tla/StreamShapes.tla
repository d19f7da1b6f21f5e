---------------------------- MODULE StreamShapes ----------------------------
(* The streams of a given length that are made of packets of two to max      *)
(* bytes, in every order; payload bytes are zero.                            *)
EXTENDS Naturals

\* The stream of len bytes whose packets start at the places of S.
StreamFrom(S, len) ==
    [p \in 0 .. len - 1 |->
        IF p \in S
            THEN CHOOSE n \in 1 .. len :
                     p + n \in S /\ \A m \in 1 .. n - 1 : p + m \notin S
            ELSE 0]

StreamsOf(len, max) ==
    {StreamFrom(S, len) : S \in
        {X \in SUBSET (0 .. len) :
            /\ {0, len} \subseteq X
            /\ \A p \in X \ {len} :
                /\ p + 1 \notin X
                /\ \E n \in 2 .. max : p + n \in X}}
=============================================================================
