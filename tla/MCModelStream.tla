---------------------------- MODULE MCModelStream ----------------------------
(* Every stream of at most six bytes of three kinds, of at most four with  *)
(* a space among them, and streams of up to three events with tails of     *)
(* each kind, in every chunking, for exact calls of two routes and for     *)
(* calls that exclude any of them.                                         *)
EXTENDS ModelStream, TLC

CONSTANTS x, SP, r1, r2

MCRoutes   == {r1, r2}
RouteSymmetry == Permutations(MCRoutes)

Bytes  == {x, CR, LF}
Short  == UNION { [1 .. n -> Bytes] : n \in 0 .. 6 }
Spaced == UNION { [1 .. n -> Bytes \cup {SP}] : n \in 0 .. 4 }
Event1 == { <<x, LF, LF>>, <<x, CR, LF, CR, LF>> }
Tails  == { <<>>, <<LF>>, <<CR, LF>>, <<x>>, <<x, LF>>,
            <<SP>>, <<SP, LF, LF>>, <<SP, x>> }

MCStreams ==
    Short \cup Spaced
    \cup { e \o f \o tail : e, f \in Event1, tail \in Tails }
    \cup { e \o f \o g \o tail : e, f, g \in Event1, tail \in Tails }
=============================================================================
