------------------------ MODULE MCConversationScan ------------------------
(* Every sequence of at most four messages of eight kinds (two sizes,      *)
(* single calls, a batch of two calls), shorter ones with the two results  *)
(* of a batch out of order, and the five-message ones of the six kinds     *)
(* that make two exchanges after a prefix.                                 *)
EXTENDS ConversationScan, TLC

CONSTANTS a, b,              \* tool call IDs
          short, long        \* message payloads

MCCallIds   == {a, b}
MCBodies    == {short, long}
MCBodyBytes == short :> 1 @@ long :> 4

Kinds ==
    { System(short), User(short), User(long),
      Assistant(<<>>, short), Assistant(<<a>>, short), Assistant(<<a, b>>, short),
      Results(<<a>>, long), Results(<<a, b>>, short) }

\* The results of a batch out of order, and a call with the other ID.
Odd == { Results(<<b, a>>, short), Assistant(<<b>>, short) }

\* Enough for a system prefix and two tool exchanges.
Five == { System(short), User(long), Assistant(<<a>>, short), Results(<<a>>, long),
          Assistant(<<b>>, short), Results(<<b>>, short) }

MCInputs ==
    UNION { [1 .. n -> Kinds] : n \in 0 .. 4 }
    \cup UNION { [1 .. n -> Kinds \cup Odd] : n \in 1 .. 3 }
    \cup [1 .. 5 -> Five]

MCLimitsSet == { [messages |-> 3, bytes |-> 30], [messages |-> 5, bytes |-> 11],
                 [messages |-> 4, bytes |-> 1] }
=============================================================================
