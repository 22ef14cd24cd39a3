---------------------------- MODULE MCProviderApp ----------------------------
EXTENDS ProviderAppProps, TLC

CONSTANTS i1, i2, a1, a2

Each == {{"pause", "sync"}, {"path", "update", "break"}, {"break", "update", "fini", "terminate", "sync"}}

Symmetry == Permutations({i1, i2}) \cup Permutations({a1, a2})
=============================================================================
