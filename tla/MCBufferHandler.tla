-------------------------- MODULE MCBufferHandler ---------------------------
EXTENDS BufferHandlerProps, TLC

CONSTANTS c1, c2

Each == {{"widget", "gbar"}, {"widget", "widget_extra"}, {"gbar", "gbar_extra"}}

Symmetry == Permutations({c1, c2})
=============================================================================
