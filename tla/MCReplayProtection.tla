------------------------- MODULE MCReplayProtection -------------------------
EXTENDS ReplayProtection, TLC

\* The client's clock is right, or as far ahead as is accepted.
ClockSkews == {0, 1}

Symmetry == Permutations(Handlers) \union Permutations(Salts)
=============================================================================
