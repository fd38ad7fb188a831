--------------------------- MODULE MCGenerationWait ---------------------------
EXTENDS GenerationWait

MCTimeouts == {1, 4, 6}
=============================================================================
