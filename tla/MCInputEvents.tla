--------------------------- MODULE MCInputEvents ---------------------------
EXTENDS InputEventsProps

L(canvas, kind, slot) == <<<<canvas, kind>>, slot>>

TwoFingers == {L("widget", "mouse", 0), L("widget", "mouse", 1)}
TwoBars    == {L("gbar", "mouse", 0), L("gbar", "key", 0)}
OneKey     == {L("widget", "key", 1)}

Viewers == {TwoFingers, TwoBars, OneKey}
=============================================================================
