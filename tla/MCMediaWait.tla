----------------------------- MODULE MCMediaWait -----------------------------
EXTENDS MediaWait

MCTimeouts == {0, 3, 4}
=============================================================================
