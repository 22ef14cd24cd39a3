--------------------------- MODULE ProviderBuffer ---------------------------
(***************************************************************************)
(* What a widget draws into and how it is touched: widget_provider_buffer.c*)
(* (the buffers of a provider), fb.c (the memory beneath them) and event.c *)
(* (the touch device, read by the provider itself).                        *)
(*                                                                         *)
(* A buffer is acquired from the master, which answers with a pixmap, a    *)
(* file or a shared segment, resized by it and released to it.  The app    *)
(* draws into a canvas it refers to, or, a pixmap with a gem, into the     *)
(* device memory it locks for the time of a frame.  While a finger is on   *)
(* the widget, the master registers its buffer with the touch device.      *)
(*                                                                         *)
(* Everything runs in the main loop of the app: an action is one call of   *)
(* the app or one event, an operator maps the process to what it is after  *)
(* the function it stands for.  Memory never runs out.                     *)
(***************************************************************************)
EXTENDS Integers, FiniteSets

CONSTANTS
  Bufs,        (* what a buffer is made for: a widget or its bar            *)
  Canvases,    (* room for canvases                                         *)
  None,        (* no canvas, no buffer                                      *)
  Kinds,       (* the memory the master gives                               *)
  Skip,        (* WIDGET_CONF_FRAME_SKIP: the frames not to be shown        *)
  Extras,      (* WIDGET_CONF_EXTRA_BUFFER_COUNT                            *)
  Uses,        (* what a run may be made of: sets of requests               *)
  Rare,        (* orders left out unless named here                         *)
  MaxHeld,     (* bound: references to one canvas                           *)
  MaxTime      (* bound: the clock of the touch device                      *)

ASSUME ProviderBufferAssumption ==
  /\ IsFiniteSet(Bufs) /\ IsFiniteSet(Canvases) /\ None \notin Bufs \cup Canvases
  /\ Kinds \subseteq {"pixmap", "file", "shm"}
  /\ Skip \in Nat /\ Extras \in Nat /\ MaxHeld \in Nat /\ MaxTime \in Nat

VARIABLE q

vars == q

(* A gem: its count, whether it is mapped (data), the locks taken of the   *)
(* device memory, whether it has a compensate buffer, and whether the      *)
(* master that gave the pixmap is gone.                                    *)
NoGem == [st |-> "none", refcnt |-> 0, data |-> FALSE, locks |-> 0, comp |-> FALSE, old |-> FALSE]
NoFb  == [kind |-> "none", buffer |-> None, gem |-> NoGem]

(* press: what the app was told of the finger; cleared: how often it was   *)
(* told that the frames are shown now; asked: what came of the last        *)
(* request for a status; frame: between pre_render and post_render.        *)
NoBuf == [st |-> "none", handler |-> FALSE, fb |-> NoFb, lock |-> "none", skip |-> 0,
          extra |-> {}, press |-> "up", cleared |-> 0, asked |-> "none", frame |-> FALSE]

NoCanvas == [st |-> "none", kind |-> "none", refcnt |-> 0, held |-> 0]

(* A buffer is in the list of event objects once at most, and none of them *)
(* looks at another: of the list it matters who is in it (st), since when  *)
(* (ts) and whether it was told of the finger (ACTIVATED).                 *)
NoTouch == [st |-> "none", ts |-> 0]

(* eo: the event objects; last: the time of the last event read; fd: the   *)
(* device is open and watched;                                             *)
(* open: descriptors of it; bufmgr, gone (master_disconnected): the device *)
(* memory; bad: memory was used that is not there; touched: device memory  *)
(* of a master that is gone was used.                                      *)
Init == \E use \in Uses :
  q = [buf |-> [b \in Bufs |-> NoBuf], canvas |-> [c \in Canvases |-> NoCanvas],
       eo |-> [b \in Bufs |-> NoTouch], last |-> 0, fd |-> FALSE, open |-> 0, bufmgr |-> TRUE,
       gone |-> FALSE, bad |-> FALSE, touched |-> FALSE, uses |-> use]

Created(w, b) == w.buf[b].st = "created"
FindBuffer(w, b) == w.buf[b].st # "none"
Bad(w) == [w EXCEPT !.bad = TRUE]
-----------------------------------------------------------------------------
(* Gems *)

FbSupportGem(w, b) == w.buf[b].fb.kind = "pixmap"
FbHasGem(w, b) == FbSupportGem(w, b) /\ w.buf[b].fb.gem.st = "live"

SetGem(w, b, g) == [w EXCEPT !.buf[b].fb.gem = g]

CreateGem(w, b, comp, ok) ==
  IF ~w.bufmgr \/ ~ok THEN w
  ELSE SetGem(w, b, [NoGem EXCEPT !.st = "live", !.comp = comp])

DestroyGem(w, b) ==
  [SetGem(w, b, NoGem) EXCEPT !.touched = @ \/ (w.buf[b].fb.gem.old /\ ~w.gone)]

(* Without a compensate buffer the memory is locked as long as it is used. *)
Mapped(g, maps) ==
  [g EXCEPT !.refcnt = @ + 1, !.data = @ \/ maps,
            !.locks = IF ~g.data /\ ~g.comp /\ maps THEN @ + 1 ELSE @]

AcquireGem(w, b, maps) == SetGem(w, b, Mapped(w.buf[b].fb.gem, maps))

Dropped(g) ==   \* seeded fault: the mapping stays
  [g EXCEPT !.refcnt = IF @ > 0 THEN @ - 1 ELSE 0]

(* The lock is taken for the copy of a compensate buffer, and given back.  *)
Unmapped(g) ==
  IF g.refcnt = 1
  THEN [g EXCEPT !.refcnt = 0, !.data = FALSE,
                 !.locks = IF g.comp /\ g.data THEN @ ELSE @ - 1]
  ELSE IF g.refcnt > 1 THEN [g EXCEPT !.refcnt = @ - 1]
  ELSE [g EXCEPT !.refcnt = 0]

ReleaseGem(w, b) == SetGem(w, b, Unmapped(w.buf[b].fb.gem))

-----------------------------------------------------------------------------
(* Canvases *)

FreeCanvases(w) == {c \in Canvases : w.canvas[c].st = "none"}

(* create_pixmap_info may fail; the pixmap's canvas goes on shm_list, where*)
(* it is found as long as it lives.                                        *)
CreatePixmapInfo(w, b, c, ok) ==
  IF ~ok THEN w
  ELSE [w EXCEPT !.canvas[c] = [NoCanvas EXCEPT !.st = "live", !.kind = "pixmap"],
                 !.buf[b].fb.buffer = c]

NewBuffer(w, b, c, ok) ==
  LET kind == w.buf[b].fb.kind IN
  IF kind = "pixmap" THEN CreatePixmapInfo(w, b, c, ok)
  ELSE [w EXCEPT !.canvas[c] = [NoCanvas EXCEPT !.st = "live", !.kind = kind],
                 !.buf[b].fb.buffer = c]

Counted(x) == IF x.kind = "shm" THEN [x EXCEPT !.held = @ + 1]
              ELSE [x EXCEPT !.refcnt = @ + 1, !.held = @ + 1]

FbAcquireBuffer(w, b, c, ok) ==
  LET u == IF w.buf[b].fb.buffer = None THEN NewBuffer(w, b, c, ok) ELSE w
      d == u.buf[b].fb.buffer
  IN IF d = None THEN u
     ELSE IF u.canvas[d].st # "live" THEN Bad(u)
     ELSE [u EXCEPT !.canvas[d] = Counted(@)]

(* Nobody points to the canvas any longer: the room is free again.         *)
Forget(w, c) ==
  IF \E b \in Bufs : w.buf[b].fb.buffer = c THEN w ELSE [w EXCEPT !.canvas[c] = NoCanvas]

DropBuffer(w, c) ==
  [w EXCEPT !.canvas[c] = NoCanvas,
            !.buf = [b \in Bufs |-> IF @[b].fb.buffer = c
                                    THEN [@[b] EXCEPT !.fb.buffer = None] ELSE @[b]]]

(* A shared segment is detached at once, and the frame buffer points to it *)
(* still; the others go with their last reference.                         *)
FbReleaseBuffer(w, c) ==
  LET x == w.canvas[c] IN
  IF x.st # "live" THEN Bad([w EXCEPT !.canvas[c].held = @ - 1])
  ELSE IF x.kind = "shm" THEN Forget([w EXCEPT !.canvas[c].st = "unmapped", !.canvas[c].held = @ - 1], c)
  ELSE IF x.refcnt > 1 THEN [w EXCEPT !.canvas[c].refcnt = @ - 1, !.canvas[c].held = @ - 1]
  ELSE DropBuffer(w, c)

(* The type is read from the canvas when there is one.                     *)
FbType(w, b) ==
  LET c == w.buf[b].fb.buffer IN
  IF c # None /\ w.canvas[c].st # "live" THEN Bad(w) ELSE w

FbSync(w, b) == FbType(w, b)
-----------------------------------------------------------------------------
(* Buffers *)

BufferCreate(w, b, handler) ==
  [w EXCEPT !.buf[b] = [NoBuf EXCEPT !.st = "init", !.handler = handler, !.skip = Skip]]

(* What the master answers is made a frame buffer; a file or a segment gets*)
(* a lock.                                                                 *)
SendAcquireRequest(kind) == [NoFb EXCEPT !.kind = kind]

BufferAcquire(w, b, kind, ok) ==
  IF ~ok THEN w
  ELSE [w EXCEPT !.buf[b] = [@ EXCEPT !.fb = SendAcquireRequest(kind), !.st = "created",
                                      !.lock = IF kind = "pixmap" THEN "none" ELSE "free"]]

SendResizeRequest(kind) == [NoFb EXCEPT !.kind = kind]

(* The old frame buffer is neither destroyed nor kept.                     *)
LeaveFb(w, b, fb) ==
  LET c == w.buf[b].fb.buffer
      u == [w EXCEPT !.buf[b].fb = fb]
  IN IF c # None /\ w.canvas[c].st = "unmapped" THEN Forget(u, c) ELSE u

DropResized(w, b, ok) ==   \* seeded fault: the old canvas goes as well
  IF ~Created(w, b) \/ ~ok THEN w
  ELSE LET c == w.buf[b].fb.buffer
           u == [w EXCEPT !.buf[b].fb = SendResizeRequest(w.buf[b].fb.kind)]
       IN IF c = None THEN u ELSE [u EXCEPT !.canvas[c].st = "unmapped"]

BufferResize(w, b, ok) ==
  IF ~Created(w, b) \/ ~ok THEN w
  ELSE LeaveFb(w, b, SendResizeRequest(w.buf[b].fb.kind))

BufferRef(w, b, c, ok) == IF Created(w, b) THEN FbAcquireBuffer(w, b, c, ok) ELSE w

BufferUnref(w, c) == FbReleaseBuffer(w, c)

(* Whatever the master answers, the buffer goes back to its first state.   *)
BufferRelease(w, b) ==
  IF ~Created(w, b) THEN w
  ELSE [LeaveFb(w, b, NoFb) EXCEPT !.buf[b] = [@ EXCEPT !.st = "init", !.lock = "none"]]

BufferDestroy(w, b) ==
  IF w.buf[b].st # "init" THEN w ELSE [w EXCEPT !.buf[b] = NoBuf]

BufferSync(w, b) == IF Created(w, b) THEN FbSync(w, b) ELSE w

SendAcquireExtra(w, b, idx, ok) ==
  [w EXCEPT !.buf[b].extra = IF ok THEN @ \cup {idx} ELSE @ \ {idx}]

ExtraAcquire(w, b, idx, ok) == IF idx >= Extras THEN w ELSE SendAcquireExtra(w, b, idx, ok)

SendReleaseExtra(w, b, idx, ok) == [w EXCEPT !.buf[b].extra = IF ok THEN @ \ {idx} ELSE @]

ExtraRelease(w, b, idx, ok) ==
  IF ~Created(w, b) \/ idx >= Extras THEN w ELSE SendReleaseExtra(w, b, idx, ok)

(* The extra buffers are an array of Extras numbers.                       *)
SendExtraUpdated(w, b, idx) ==
  IF ~FindBuffer(w, b) \/ idx > Extras THEN w
  ELSE IF w.buf[b].extra = {} \/ idx = Extras THEN Bad(w) ELSE w
-----------------------------------------------------------------------------
(* Frames *)

CreateHw(w, b, comp, ok) ==
  IF Created(w, b) /\ FbSupportGem(w, b) /\ ~FbHasGem(w, b)
  THEN CreateGem(w, b, comp, ok) ELSE w

DestroyHw(w, b) == IF Created(w, b) /\ FbHasGem(w, b) THEN DestroyGem(w, b) ELSE w

HwAddr(w, b) ==
  IF Created(w, b) /\ FbHasGem(w, b) THEN ReleaseGem(AcquireGem(w, b, TRUE), b) ELSE w

DumpFrame(w, b) ==
  IF w.buf[b].st = "init" THEN Bad(w)
  ELSE IF FbHasGem(w, b) THEN ReleaseGem(AcquireGem(w, b, TRUE), b) ELSE w

Lock(x, now) == IF x.fb.kind = "shm" THEN [x EXCEPT !.lock = now] ELSE x

LockBuffer(w, b, now) == [FbType(w, b) EXCEPT !.buf[b] = Lock(@, now)]

PreRender(w, b, maps) ==
  IF w.buf[b].st = "init" THEN Bad(w)
  ELSE IF FbHasGem(w, b) THEN AcquireGem(w, b, maps)
  ELSE LockBuffer(w, b, "taken")

(* The touch, the keys and the end of the frames to skip go to the app's   *)
(* handler.                                                                *)
FeedFrameSkipCleared(x) == IF x.handler THEN [x EXCEPT !.cleared = @ + 1] ELSE x

SkipFrame(x) ==
  LET y == [x EXCEPT !.skip = IF @ > 0 THEN @ - 1 ELSE 0]
  IN IF x.skip = 1 THEN FeedFrameSkipCleared(y) ELSE y

PostRender(w, b) ==
  IF w.buf[b].st = "init" THEN Bad(w)
  ELSE LET u == IF FbHasGem(w, b) THEN ReleaseGem(w, b) ELSE LockBuffer(w, b, "free")
       IN [u EXCEPT !.buf[b] = SkipFrame(@)]

ClearFrameSkip(w, b) ==
  IF w.buf[b].skip > 0
  THEN [w EXCEPT !.buf[b] = FeedFrameSkipCleared([@ EXCEPT !.skip = 0])] ELSE w
-----------------------------------------------------------------------------
(* The touch device *)

Told(p, what) ==
  IF what = "down" /\ p = "up" THEN "down"
  ELSE IF what = "move" /\ p = "down" THEN "down"
  ELSE IF what = "up" /\ p = "down" THEN "up"
  ELSE "bad"

(* x: a buffer; without a handler the app hears nothing.                   *)
Press(x, what) == IF x.handler THEN [x EXCEPT !.press = Told(@, what)] ELSE x

MouseDown(x) == Press(x, "down")
MouseMove(x) == Press(x, "move")
MouseUp(x)   == Press(x, "up")

Registered(w, b) == w.eo[b].st # "none"
Active(w, b)     == w.eo[b].st = "ACTIVATED"

(* The buffers in S are called, also one that is destroyed while it is     *)
(* registered.                                                             *)
Direct(w, S) == [w EXCEPT !.bad = @ \/ \E b \in S : ~FindBuffer(w, b)]

(* An event for the registered buffers; older ones than its touch are not  *)
(* a buffer's own.                                                         *)
PumpOne(w, b) == IF Active(w, b) THEN MouseMove(w.buf[b]) ELSE MouseDown(w.buf[b])

ProcessingInputEvent(w, t) ==
  LET due == {b \in Bufs : Registered(w, b) /\ w.eo[b].ts <= t} IN
  [Direct(w, due) EXCEPT
     !.last = t,
     !.buf = [b \in Bufs |-> IF b \in due THEN PumpOne(w, b) ELSE w.buf[b]],
     !.eo = [b \in Bufs |-> IF b \in due THEN [w.eo[b] EXCEPT !.st = "ACTIVATED"] ELSE w.eo[b]]]

(* What is left of a touch, down, move and up, is given at its end.        *)
HasRest(w, b) == Active(w, b) \/ w.last >= w.eo[b].ts

EndQuietly(w, b) ==   \* seeded fault: nothing of a touch that is going on
  IF Active(w, b) \/ ~HasRest(w, b) THEN w.buf[b]
  ELSE MouseUp(MouseMove(MouseDown(w.buf[b])))

EndTouch(w, b) ==
  IF ~HasRest(w, b) THEN w.buf[b]
  ELSE MouseUp(MouseMove(IF Active(w, b) THEN w.buf[b] ELSE MouseDown(w.buf[b])))

EndTouches(w, S) ==
  [Direct(w, {b \in S : HasRest(w, b)}) EXCEPT
     !.buf = [b \in Bufs |-> IF b \in S THEN EndTouch(w, b) ELSE w.buf[b]],
     !.eo = [b \in Bufs |-> IF b \in S THEN NoTouch ELSE w.eo[b]]]

AllRegistered(w) == {b \in Bufs : Registered(w, b)}

Close(w) == [w EXCEPT !.fd = FALSE, !.open = @ - 1]

(* event_cb: the device is lost, everybody's touch ends.                   *)
InputLost(w) == Close(EndTouches(w, AllRegistered(w)))

(* The descriptor comes with the request; a second one is closed.          *)
EventAddObject(w, b, ts, ok) ==
  LET u == [w EXCEPT !.eo[b] = [st |-> "ACTIVATE", ts |-> ts]] IN
  IF Registered(w, b) THEN [w EXCEPT !.open = @ + 1]
  ELSE IF w.fd THEN u
  ELSE IF ok THEN [u EXCEPT !.fd = TRUE, !.open = @ + 1]
  ELSE w

EventRemoveObject(w, b) ==
  LET u == IF Registered(w, b) THEN EndTouches(w, {b}) ELSE w IN
  IF ~w.fd THEN w ELSE IF AllRegistered(u) = {} THEN Close(u) ELSE u

MouseSet(w, b, ts, ok) == IF FindBuffer(w, b) THEN EventAddObject(w, b, ts, ok) ELSE w

MouseUnset(w, b) == IF FindBuffer(w, b) THEN EventRemoveObject(w, b) ELSE w
-----------------------------------------------------------------------------
(* What the master sends instead of the device.  Keys and most access      *)
(* events are refused for an app without a handler; those that tell of a   *)
(* value, a gesture or a reading are dropped, and the viewer waits on.     *)

Feed(w, b, asks) ==
  IF ~FindBuffer(w, b) THEN w
  ELSE IF asks THEN [w EXCEPT !.buf[b].asked = IF w.buf[b].handler THEN "handed" ELSE "refused"]
  ELSE w

FeedUnrefused(w, b) ==
  IF FindBuffer(w, b)
  THEN [w EXCEPT !.buf[b].asked = IF w.buf[b].handler THEN "handed" ELSE "lost"] ELSE w

Touch(w, b, what) ==
  IF FindBuffer(w, b) THEN [w EXCEPT !.buf[b] = Press(@, what)] ELSE w

WidgetKey(w, b)        == Feed(w, b, TRUE)
GbarKey(w, b)          == Feed(w, b, TRUE)
WidgetEnter(w, b)      == Feed(w, b, FALSE)
GbarEnter(w, b)        == Feed(w, b, FALSE)
WidgetMouse(w, b, what) == Touch(w, b, what)
GbarMouse(w, b, what)   == Touch(w, b, what)
WidgetAccess(w, b)     == Feed(w, b, TRUE)
GbarAccess(w, b)       == Feed(w, b, TRUE)
WidgetActivate(w, b)   == Feed(w, b, TRUE)
GbarActivate(w, b)     == Feed(w, b, TRUE)
WidgetAccessMouse(w, b) == FeedUnrefused(w, b)
GbarAccessMouse(w, b) == FeedUnrefused(w, b)
WidgetAccessRead(w, b) == FeedUnrefused(w, b)
GbarAccessRead(w, b) == FeedUnrefused(w, b)
WidgetHold(w, b)       == Feed(w, b, FALSE)
GbarHold(w, b)         == Feed(w, b, FALSE)

(* The app answers what it was handed.                                     *)
SendStatus(w, b) == [w EXCEPT !.buf[b].asked = IF @ = "handed" THEN "none" ELSE @]
-----------------------------------------------------------------------------
(* The master is gone; the device memory it gave is not to be used.        *)

Aged(x) == [x EXCEPT !.fb.gem.old = @ \/ x.fb.gem.st = "live"]

MasterGone(w) == [w EXCEPT !.gone = TRUE, !.buf = [b \in Bufs |-> Aged(w.buf[b])]]

FbFini(w) == [w EXCEPT !.bufmgr = FALSE]
FbInit(w) == [w EXCEPT !.bufmgr = TRUE, !.gone = FALSE]
-----------------------------------------------------------------------------
(* The app and its main loop *)

May(use)   == use \in q.uses
Times      == 0..MaxTime
Idx        == 0..Extras
InFrame(b) == q.buf[b].frame
Held(c)    == q.canvas[c].held > 0
Gems       == {b \in Bufs : FbHasGem(q, b)}

(* A frame is drawn at one go.                                             *)
Settled(b) == ~InFrame(b)
Usable(b)  == Created(q, b) \/ (FindBuffer(q, b) /\ "not_acquired" \in Rare)

AppCreates == ~q.gone /\ \E b \in Bufs, handler \in BOOLEAN :
  ~FindBuffer(q, b) /\ (handler \/ May("status")) /\ q' = BufferCreate(q, b, handler)

AppAcquires == ~q.gone /\ \E b \in Bufs, kind \in Kinds, ok \in BOOLEAN :
  q.buf[b].st = "init" /\ q' = BufferAcquire(q, b, kind, ok)

AppResizes == ~q.gone /\ \E b \in Bufs, ok \in BOOLEAN :
  Settled(b) /\ q' = BufferResize(q, b, ok)

AppRefers == May("canvas") /\ FreeCanvases(q) # {} /\ \E b \in Bufs, ok \in BOOLEAN :
  LET c == CHOOSE c \in FreeCanvases(q) : TRUE IN
  /\ \A d \in Canvases : q.canvas[d].held < MaxHeld
  /\ q' = BufferRef(q, b, c, ok)

AppUnrefers == \E c \in Canvases : Held(c) /\ q' = BufferUnref(q, c)

AppReleases == \E b \in Bufs : Settled(b) /\ q' = BufferRelease(q, b)

AppDestroys == \E b \in Bufs :
  /\ ~Registered(q, b) \/ "destroyed_touched" \in Rare
  /\ q' = BufferDestroy(q, b)

AppSyncs == \E b \in Bufs : q' = BufferSync(q, b)

AppExtra == May("extra") /\ \E b \in Bufs, idx \in Idx, ok \in BOOLEAN :
  \/ FindBuffer(q, b) /\ q' = ExtraAcquire(q, b, idx, ok)
  \/ q' = ExtraRelease(q, b, idx, ok)
  \/ /\ idx \in q.buf[b].extra \/ "extra_missing" \in Rare
     /\ q' = SendExtraUpdated(q, b, idx)

AppGem == May("gem") /\ \E b \in Bufs :
  \/ ~q.gone /\ \E comp, ok \in BOOLEAN : q' = CreateHw(q, b, comp, ok)
  \/ Settled(b) /\ q' = DestroyHw(q, b)
  \/ ~q.gone /\ q' = HwAddr(q, b)
  \/ ~q.gone /\ Usable(b) /\ q' = DumpFrame(q, b)

AppStartsFrame == May("gem") /\ ~q.gone /\ \E b \in Bufs, maps \in BOOLEAN :
  /\ Usable(b) /\ ~InFrame(b) /\ (maps \/ "map_fails" \in Rare)
  /\ q' = [PreRender(q, b, maps) EXCEPT !.buf[b].frame = TRUE]

AppEndsFrame == \E b \in Bufs :
  /\ InFrame(b) /\ Created(q, b)
  /\ q' = [PostRender(q, b) EXCEPT !.buf[b].frame = FALSE]

AppClearsSkip == \E b \in Bufs : FindBuffer(q, b) /\ q' = ClearFrameSkip(q, b)

AppAnswers == \E b \in Bufs : q' = SendStatus(q, b)

MasterSets == May("touch") /\ ~q.gone /\ \E b \in Bufs, ts \in Times, ok \in BOOLEAN :
  /\ ~Registered(q, b) \/ "set_twice" \in Rare
  /\ q' = MouseSet(q, b, ts, ok)

MasterUnsets == May("touch") /\ ~q.gone /\ \E b \in Bufs : q' = MouseUnset(q, b)

Touched == q.fd /\ \E t \in q.last..MaxTime : q' = ProcessingInputEvent(q, t)

DeviceLost == q.fd /\ q' = InputLost(q)

MasterAsks == May("status") /\ ~q.gone /\ \E b \in Bufs :
  \/ q' = WidgetKey(q, b)
  \/ q' = GbarKey(q, b)
  \/ q' = WidgetEnter(q, b)
  \/ q' = GbarEnter(q, b)
  \/ q' = WidgetAccess(q, b)
  \/ q' = GbarAccess(q, b)
  \/ q' = WidgetActivate(q, b)
  \/ q' = GbarActivate(q, b)
  \/ q' = WidgetAccessMouse(q, b)
  \/ q' = GbarAccessMouse(q, b)
  \/ q' = WidgetAccessRead(q, b)
  \/ q' = GbarAccessRead(q, b)
  \/ q' = WidgetHold(q, b)
  \/ q' = GbarHold(q, b)

MasterTouches == May("status") /\ ~q.gone /\ \E b \in Bufs :
  \E what \in IF q.buf[b].press = "up" THEN {"down"} ELSE {"move", "up"} :
    \/ q' = WidgetMouse(q, b, what)
    \/ q' = GbarMouse(q, b, what)

MasterLost == ~q.gone /\ (\A b \in Bufs : ~InFrame(b)) /\ q' = FbFini(MasterGone(q))

MasterBack == q.gone /\ (Gems = {} \/ "gem_outlives" \in Rare) /\ q' = FbInit(q)

Next ==
  \/ AppCreates \/ AppAcquires \/ AppResizes \/ AppRefers \/ AppUnrefers
  \/ AppReleases \/ AppDestroys \/ AppSyncs \/ AppExtra \/ AppGem
  \/ AppStartsFrame \/ AppEndsFrame \/ AppClearsSkip \/ AppAnswers
  \/ MasterSets \/ MasterUnsets \/ Touched \/ DeviceLost
  \/ MasterAsks \/ MasterTouches \/ MasterLost \/ MasterBack

Spec == Init /\ [][Next]_vars
=============================================================================
