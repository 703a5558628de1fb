------------------------- MODULE MCGenerationStore -------------------------
EXTENDS GenerationStore

CONSTANTS w1, d1, d2, c1, c2

TwoBatches == <<{c1}, {c2}>>
=============================================================================
