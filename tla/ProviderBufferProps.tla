------------------------- MODULE ProviderBufferProps -------------------------
(* What an app may rely on when it draws and is touched.                   *)
EXTENDS ProviderBuffer

(* Types; only an acquired buffer has memory, and the touch device is open *)
(* once and exactly while a buffer is registered (event_add_object,        *)
(* event_remove_object, event_cb): otherwise the descriptors leak or a     *)
(* touch is never read.                                                    *)
TypeOK ==
  /\ \A b \in Bufs :
       LET x == q.buf[b] IN
       /\ x.st \in {"none", "init", "created"} /\ x.press \in {"up", "down", "bad"}
       /\ (x.fb = NoFb) = (x.st # "created")
       /\ x.fb.buffer \in Canvases \cup {None} /\ x.skip \in 0..Skip
  /\ q.fd = (AllRegistered(q) # {}) /\ q.open = (IF q.fd THEN 1 ELSE 0)

(* widget_provider_buffer.c:2130 "Even if we destroy the buffer object, if *)
(* the user references it, it will not be destroyed, it only can be        *)
(* destroyed when there is no reference exists": over resizes and releases *)
(* of the buffer a canvas lives as long as the app holds it, no longer, and*)
(* memory that is gone is never used.                                      *)
CanvasHeld ==
  /\ \A c \in Canvases : (q.canvas[c].st = "live") = (q.canvas[c].held > 0)
  /\ ~q.bad

(* event.c: whenever a buffer is registered, whatever the times of the     *)
(* touch and of the events read, and however the touch ends, the app sees  *)
(* down, moves and up, in that order, and is left with no finger down.     *)
PressBalanced ==
  \A b \in Bufs :
    /\ q.buf[b].press # "bad"
    /\ "touch" \in q.uses /\ q.buf[b].press = "down" =>
         Active(q, b)

(* pre_render, post_render, acquire_gem, release_gem: device memory is     *)
(* locked exactly while a frame is drawn into it, compensate buffers apart,*)
(* and a lock that is not taken is not given back.                         *)
RenderLocked ==
  \A b \in Bufs :
    LET x == q.buf[b] g == x.fb.gem IN
    /\ g.locks \in {0, 1} /\ g.refcnt \in {0, 1}
    /\ ~x.frame => g.refcnt = 0 /\ g.locks = 0 /\ ~g.data /\ x.lock # "taken"
    /\ g.locks = 1 => g.data

(* clear_frame_skip, post_render: the app is told once, when the frames to *)
(* skip are over, however they end.                                        *)
SkipClearedOnce ==
  \A b \in Bufs :
    LET x == q.buf[b] IN
    FindBuffer(q, b) /\ x.handler => x.cleared = (IF x.skip = 0 THEN 1 ELSE 0)

(* destroy_gem, fb_master_disconnected, "Resource is not trusted anymore": *)
(* what a master gave is not touched once it is gone.                      *)
GemTrusted == ~q.touched

(* The memory and the descriptors of an app's buffers are there as long as *)
(* the app draws into them and no longer, also after the master that gave  *)
(* them is gone (widget_provider_buffer.c, fb.c).                          *)
MemoryIsSafe == TypeOK /\ CanvasHeld /\ GemTrusted

(* A frame that is drawn locks its memory and counts, once                 *)
(* (widget_provider_buffer_pre_render, _post_render).                      *)
FramesAreWhole == RenderLocked /\ SkipClearedOnce
=============================================================================
