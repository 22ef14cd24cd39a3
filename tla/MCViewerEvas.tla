---------------------------- MODULE MCViewerEvas ----------------------------
EXTENDS ViewerTouchProps, TLC

CONSTANTS x1, x2

(* Each use mixes the requests whose order matters to one another; all of  *)
(* them at once are beyond a run.                                          *)
Each == {{"another", "resize", "delete", "fault"}, {"place", "delayed", "delete", "frame"},
         {"place", "renderer", "another"}, {"place", "renderer", "delete"},
         {"place", "renderer", "extra", "frame"}, {"fault", "place", "overlay", "frame"},
         {"another", "system", "delete"}, {"manual", "frame"}, {"bar", "delete"},
         {"bar", "system", "delete"}, {"bar", "place", "frame"},
         {"touch", "bar"}, {"touch", "resize"}}
Feeds == {{}, {"auto"}, {"sensitive", "selector"}}
=============================================================================
