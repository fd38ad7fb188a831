---------------------------- MODULE MCRouterCalls ----------------------------
EXTENDS RouterCalls, TLC

CONSTANTS t1, t2, t3

MCTurns == {t1, t2, t3}
MCSticky == {t1}
=============================================================================
