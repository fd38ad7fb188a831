------------------------------ MODULE MCHarness ------------------------------
(* A small instance: two routes, two tool call IDs, short and long messages. *)
(* One harness compacts and has a custom tool executor; the other prunes or  *)
(* stops and runs its tools in sequence.  The policy tells the two apart.    *)
EXTENDS Harness, TLC

CONSTANTS a, b, short, long, r1, r2

MCCallIds   == {a, b}
MCBodies    == {short, long}
MCBodyBytes == short :> 1 @@ long :> 4
MCRoutes    == {r1, r2}

MCSequential == {"prune", "model or stop"}
MCCustom     == {"model or prune"}

MCFirstStates ==
    { <<System(short), User(short)>>,
      <<User(long)>>,
      <<Assistant(<<a>>, short), Results(<<a>>, short)>> }

MCQuestions == { User(short) }

MCAnswers ==
    { Assistant(<<>>, short), Assistant(<<a>>, short), Assistant(<<b>>, short),
      Assistant(<<a, b>>, long) }

MCCompactions ==
    { <<>>,
      <<System(short), Results(<<a>>, short)>>,
      <<System(short), User(short)>>,
      <<User(long)>>,
      <<Assistant(<<a>>, short), Results(<<a>>, short)>>,
      <<System(short), Assistant(<<a>>, short), Results(<<a>>, short)>>,
      <<User(short), Assistant(<<a>>, short), Results(<<a>>, long)>> }

MCLimits == [messages |-> 4, bytes |-> 14]

MCExecutorResults == { <<>>, <<a>>, <<b, a>>, <<a, b>> }

Sequential ==
    INSTANCE Harness WITH
        Policies <- MCSequential, Executor <- "sequential", MaxCallBytes <- 18

EitherInit == Init \/ Sequential!Init

EitherNext ==
    \/ policy \in MCCustom /\ Next
    \/ policy \in MCSequential /\ Sequential!Next

EitherRunStep ==
    \/ policy \in MCCustom /\ RunStep
    \/ policy \in MCSequential /\ Sequential!RunStep

EitherSpec == EitherInit /\ [][EitherNext]_vars /\ WF_vars(EitherRunStep)
=============================================================================
