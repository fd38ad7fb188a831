---------------------------- MODULE MCSseFraming ----------------------------
(* Every stream of at most six bytes of three kinds, and longer ones that  *)
(* start with an event, in every chunking.                                 *)
EXTENDS SseFraming

CONSTANT x   \* any other byte

Bytes == {x, CR, LF}

MCStreams ==
    UNION { [1 .. n -> Bytes] : n \in 0 .. 6 }
    \cup { <<x, LF, LF>> \o tail : tail \in UNION { [1 .. n -> Bytes] : n \in 4 .. 5 } }
=============================================================================
