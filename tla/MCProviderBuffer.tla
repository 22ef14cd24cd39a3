-------------------------- MODULE MCProviderBuffer --------------------------
EXTENDS ProviderBufferProps, TLC

CONSTANTS b1, b2, c1, c2

Each == {{"canvas"}, {"gem", "canvas"}, {"touch"}, {"extra"}, {"status"}}

Symmetry == Permutations({b1, b2})
=============================================================================
