--------------------------- MODULE MCSlaveWidget ---------------------------
EXTENDS SlaveWidgetProps, TLC

CONSTANTS w1, w2

One == [i \in Widgets |-> w1]
Own == [i \in Widgets |-> i]
Kinds == {One, Own}

Quiet   == {{}, {"schedule"}}
Busy    == {{}, {"output"}, {"quick"}, {"schedule", "force"}}
Failing == {{"force"}, {"error"}}

Create == {"create", "ask", "period"}

Each == {<<Create \cup {"pause all", "pause"}, Quiet>>,
         <<{"create", "update", "bar"}, Failing>>,
         <<{"create", "update", "delete", "event"}, Busy>>,
         <<{"create", "update", "show", "bar"}, Quiet>>,
         <<{"renew", "path", "delete", "exit", "connect"}, Quiet>>,
         <<Create \cup {"pause all", "system"}, Quiet>>}

Symmetry == Permutations({w1, w2})
=============================================================================
