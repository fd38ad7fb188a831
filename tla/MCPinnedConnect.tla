--------------------------- MODULE MCPinnedConnect ---------------------------
(* Two public addresses and a private one, in every resolution of at most   *)
(* two of them, and deadlines before, at and after the polling interval.    *)
EXTENDS PinnedConnect

CONSTANTS pub1, pub2, private

MCAddresses   == {pub1, pub2, private}
MCPublic      == {pub1, pub2}
MCResolutions == UNION { [1 .. n -> MCAddresses] : n \in 0 .. 2 }
MCBackends    == {"plain", "guarded", "async"}
MCTimes       == {0, 1, 2, 3, 5, Never}
MCTimeouts    == {1, 3, Never}
=============================================================================
