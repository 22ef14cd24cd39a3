--------------------------- MODULE MCViewerWidget ---------------------------
EXTENDS ViewerWidgetProps, TLC

Sharing  == {"add", "show", "delete"}
Sizing   == {"add", "size", "show"}
Bars     == {"add", "gbar", "ungbar"}
Setting1 == {"add", "mode", "period"}
Setting2 == {"add", "group", "pinup"}
Feeding  == {"add", "access", "key"}
Sending  == {"add", "text", "xpixmap"}
Pixmaps  == {"add", "pixmap"}
Posting  == {"add", "post", "tell"}
Asking1  == {"ask"}
Adopting == {"adopt", "delete"}

Each == {Sharing, Sizing, Bars, Setting1, Setting2, Feeding} \X {4}
          \cup {Sending, Pixmaps, Posting, Asking1, Adopting} \X {3}

Symmetry == Permutations(H)
=============================================================================
