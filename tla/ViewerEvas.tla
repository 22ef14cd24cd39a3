----------------------------- MODULE ViewerEvas -----------------------------
(***************************************************************************)
(* The widget object of a viewer app: the life cycle half of               *)
(* widget_viewer_evas.c.                                                   *)
(*                                                                         *)
(* An evas object made by the app has a data record, counted: one          *)
(* reference for the object and one for each callback the viewer library   *)
(* still owes.  The data drives a handle of the library, which is asked,   *)
(* created, faulted, deleted; what the handle shows is drawn into the      *)
(* content of the object, at once or by the renderer that walks a list of  *)
(* dirty objects, in pixmaps acquired from and released to the master.     *)
(*                                                                         *)
(* The library and the master beneath it are what a handle may answer.     *)
(* Everything runs in the main loop of the app: an action is one call or   *)
(* one callback, an operator maps the app to what it is after the function *)
(* it stands for.  Memory never runs out; all widgets are of one package.  *)
(***************************************************************************)
EXTENDS Integers, Sequences, FiniteSets, SequencesExt

CONSTANTS
  Objs,        (* the evas objects the app makes, in order                  *)
  Handles,     (* room for handles of the library                           *)
  None,        (* no handle, no object                                      *)
  Kinds,       (* the content of a package                                  *)
  Uses,        (* what a run may be made of: sets of requests               *)
  Rare,        (* orders left out unless named here                         *)
  MaxTaps      (* bound: activations asked for at one time                  *)

ASSUME ViewerEvasAssumption ==
  /\ IsFiniteSet(Objs) /\ IsFiniteSet(Handles) /\ None \notin Objs \cup Handles
  /\ Kinds \subseteq {"image", "pixmap", "buffer"} /\ MaxTaps \in Nat

VARIABLE e

vars == e

(* alive: there is an evas object; refs: the count; timer: the timer of the*)
(* overlay; resumes: the one of a delayed resume; hidden: the app hid the  *)
(* overlay of a fault; acts: activations asked for.  pixmap: the resource  *)
(* the content shows, 0 for none; asks: an acquisition is under way.       *)
NoPart == [content |-> "none", pixmap |-> 0, fb |-> FALSE, extra |-> FALSE,
           idx |-> "primary", dirty |-> FALSE, asks |-> FALSE]
NoData == [st |-> "none", alive |-> FALSE, refs |-> 0, handle |-> None, created |-> FALSE,
           deleted |-> FALSE, sendDelete |-> FALSE, faulted |-> FALSE, hideOnce |-> FALSE,
           overlay |-> FALSE, counter |-> 0, timer |-> FALSE, resumes |-> FALSE,
           initial |-> FALSE, frozen |-> "no", shown |-> FALSE, barLayout |-> FALSE,
           barCreated |-> FALSE, hidden |-> FALSE, acts |-> 0, widget |-> NoPart, bar |-> NoPart]

(* The library: whose widget the handle is (data), whom its creation is    *)
(* told (owner), the callbacks it owes, the resources of the widget and of *)
(* its bar, what of them was acquired.                                     *)
NoHandle == [st |-> "none", user |-> TRUE, kind |-> "image", data |-> None, owner |-> None,
             owes |-> {}, visible |-> FALSE, open |-> FALSE, res |-> 1, bres |-> 1,
             held |-> [r \in {} |-> 0]]

Init == \E use \in Uses :
  e = [d |-> [o \in Objs |-> NoData], h |-> [x \in Handles |-> NoHandle],
       list |-> <<>>, wdirty |-> <<>>, bdirty |-> <<>>, renderer |-> FALSE,
       animator |-> FALSE, bad |-> FALSE, uses |-> use]

Live(w, o)  == w.d[o].st = "live"
Bad(w)      == [w EXCEPT !.bad = TRUE]
Owes(w, x, cb) == cb \in w.h[x].owes
Owe(w, x, cb)  == [w EXCEPT !.h[x].owes = @ \cup {cb}]
Paid(w, x, cb) == [w EXCEPT !.h[x].owes = @ \ {cb}]
-----------------------------------------------------------------------------
(* The resources: acquired and released in the name of a handle, whatever  *)
(* its state; the master counts.                                           *)

(* Besides the pixmaps, 1 and 2, the buffer and the extra pixmap.          *)
Fb    == -1
Extra == -2

Count(held, r, n) ==
  LET m == n + (IF r \in DOMAIN held THEN held[r] ELSE 0)
      D == IF m = 0 THEN DOMAIN held \ {r} ELSE DOMAIN held \cup {r}
  IN [k \in D |-> IF k = r THEN m ELSE held[k]]

Hold(w, x, r) == IF x = None THEN w ELSE [w EXCEPT !.h[x].held = Count(@, r, 1)]
ReleaseResource(w, x, r) == IF x = None THEN w ELSE [w EXCEPT !.h[x].held = Count(@, r, -1)]

ReleaseIf(w, c, x, r) == IF c THEN ReleaseResource(w, x, r) ELSE w

(* The callback of the content that goes.                                  *)
WidgetPixmapDel(w, o) ==
  LET p == w.d[o].widget
      x == w.d[o].handle
      u == ReleaseIf(w, p.pixmap # 0, x, <<"widget", p.pixmap>>)
  IN [ReleaseIf(u, p.extra, x, <<"widget", Extra>>)
        EXCEPT !.d[o].widget.pixmap = 0, !.d[o].widget.extra = FALSE,
               !.d[o].widget.content = "none"]

(* The extra buffers of a bar are released as the widget's.                *)
GbarPixmapDel(w, o) ==
  LET p == w.d[o].bar
      x == w.d[o].handle
      u == ReleaseIf(w, p.pixmap # 0, x, <<"bar", p.pixmap>>)
  IN [ReleaseIf(u, p.extra, x, <<"widget", Extra>>)
        EXCEPT !.d[o].bar.pixmap = 0, !.d[o].bar.extra = FALSE, !.d[o].bar.content = "none"]

DelContent(w, o) ==
  IF w.d[o].widget.content = "pixmap" THEN WidgetPixmapDel(w, o)
  ELSE [w EXCEPT !.d[o].widget.content = "none"]

DelBarContent(w, o) ==
  IF w.d[o].bar.content = "pixmap" THEN GbarPixmapDel(w, o)
  ELSE [w EXCEPT !.d[o].bar.content = "none"]

(* The last picture stays, the pixmap does not.  The content of the bar is *)
(* looked for in the layout of the widget, and never found there.          *)
ReplaceWidgetPixmapWithImage(w, o) ==
  IF w.d[o].widget.content = "none" THEN w
  ELSE [DelContent(w, o) EXCEPT !.d[o].widget.content = "image"]
ReplaceGbarPixmapWithImage(w, o) == w

ReleaseWidgetFb(w, o) ==
  IF ~w.d[o].widget.fb THEN w
  ELSE [ReleaseResource(w, w.d[o].handle, <<"widget", Fb>>) EXCEPT !.d[o].widget.fb = FALSE]
ReleaseGbarFb(w, o) ==
  IF ~w.d[o].bar.fb THEN w
  ELSE [ReleaseResource(w, w.d[o].handle, <<"bar", Fb>>) EXCEPT !.d[o].bar.fb = FALSE]
-----------------------------------------------------------------------------
(* References *)

Ref(w, o) == [w EXCEPT !.d[o].refs = @ + 1]

Destroyed(w, o) ==
  LET u == ReleaseGbarFb(ReleaseWidgetFb(DelBarContent(DelContent(w, o), o), o), o)
  IN [u EXCEPT !.d[o] = [NoData EXCEPT !.st = "freed", !.resumes = w.d[o].resumes]]

Unref(w, o) ==
  IF ~Live(w, o) THEN Bad(w)
  ELSE LET u == [w EXCEPT !.d[o].refs = @ - 1]
       IN IF u.d[o].refs = 0 THEN Destroyed(u, o) ELSE u

Without(seq, o) == SelectSeq(seq, LAMBDA x : x # o)

RemoveDirty(w, o) == [w EXCEPT !.wdirty = Without(@, o), !.bdirty = Without(@, o)]
-----------------------------------------------------------------------------
(* The overlay *)

DelayedOverlayDisable(w, o) ==
  IF ~Live(w, o) THEN Bad(w)
  ELSE [w EXCEPT !.d[o].overlay = FALSE, !.d[o].counter = 2, !.d[o].timer = FALSE]

(* Counted down by the frames, or by a timer that the first frame starts.  *)
OverlayDisable(w, o, noTimer, atOnce) ==
  LET r == w.d[o]
      c == IF atOnce THEN -1 ELSE IF r.counter > -1 THEN r.counter - 1 ELSE -1
      u == [w EXCEPT !.d[o].counter = c]
  IN IF ~r.overlay THEN w
     ELSE IF c <= 0 /\ noTimer THEN DelayedOverlayDisable(u, o)
     ELSE IF ~noTimer THEN [u EXCEPT !.d[o].timer = TRUE]
     ELSE u

OverlayLoading(w, o) ==
  IF w.d[o].overlay THEN w ELSE [w EXCEPT !.d[o].overlay = TRUE, !.d[o].counter = 2]

OverlayFaulted(w, o) ==
  IF ~Live(w, o) THEN Bad(w)
  ELSE IF w.d[o].hideOnce THEN [w EXCEPT !.d[o].hideOnce = FALSE, !.d[o].hidden = TRUE]
  ELSE [OverlayDisable(w, o, TRUE, TRUE) EXCEPT !.d[o].overlay = TRUE, !.d[o].hidden = FALSE]

HideOverlay(w, o) ==
  IF w.d[o].overlay THEN [DelayedOverlayDisable(w, o) EXCEPT !.d[o].hidden = TRUE] ELSE w

HideFaultedOverlayOnce(w, o) ==
  IF ~w.d[o].faulted THEN w
  ELSE [OverlayDisable(w, o, TRUE, TRUE) EXCEPT !.d[o].hideOnce = TRUE, !.d[o].hidden = TRUE]
-----------------------------------------------------------------------------
(* Drawing *)

(* Before its creation the library says of no handle that it is shown.     *)
Visible(w, o) ==
  LET x == w.d[o].handle IN x # None /\ w.h[x].st = "live" /\ w.h[x].visible

(* A pixmap that is not the one shown is acquired first.                   *)
UpdatePixmapObject(w, o) ==
  LET p == w.d[o].widget
      x == w.d[o].handle
  IN IF x = None \/ p.idx # "primary" \/ w.h[x].res = p.pixmap \/ p.asks
        \/ w.h[x].st # "live" THEN w
     ELSE [Owe(Ref(w, o), x, "pixmap") EXCEPT !.d[o].widget.asks = TRUE]

UpdateBufferObject(w, o) ==
  LET u == ReleaseWidgetFb(w, o)
      x == u.d[o].handle
  IN IF x = None \/ u.h[x].st # "live" THEN u
     ELSE [Hold(u, x, <<"widget", Fb>>) EXCEPT !.d[o].widget.fb = TRUE]

WidgetUpdated(w, o) ==
  LET u == [w EXCEPT !.d[o].widget.dirty = FALSE]
      c == w.d[o].widget.content
  IN IF ~Live(w, o) THEN Bad(w)
     ELSE IF w.d[o].deleted \/ c = "none" THEN u
     ELSE IF c = "pixmap" THEN UpdatePixmapObject(u, o)
     ELSE OverlayDisable(IF c = "buffer" THEN UpdateBufferObject(u, o) ELSE u, o, FALSE, FALSE)

GbarUpdatePixmapObject(w, o) ==
  LET p == w.d[o].bar
      x == w.d[o].handle
  IN IF x = None \/ p.idx # "primary" \/ w.h[x].bres = p.pixmap \/ p.asks
        \/ w.h[x].st # "live" THEN w
     ELSE [Owe(Ref(w, o), x, "barPixmap") EXCEPT !.d[o].bar.asks = TRUE]

GbarUpdateBufferObject(w, o) ==
  LET u == ReleaseGbarFb(w, o)
      x == u.d[o].handle
  IN IF x = None \/ u.h[x].st # "live" THEN u
     ELSE [Hold(u, x, <<"bar", Fb>>) EXCEPT !.d[o].bar.fb = TRUE]

GbarUpdated(w, o) ==
  LET u == [w EXCEPT !.d[o].bar.dirty = FALSE]
      c == w.d[o].bar.content
  IN IF ~Live(w, o) THEN Bad(w)
     ELSE IF w.d[o].deleted \/ c = "none" THEN u
     ELSE IF c = "pixmap" THEN GbarUpdatePixmapObject(u, o)
     ELSE IF c = "buffer" THEN GbarUpdateBufferObject(u, o)
     ELSE u

With(seq, o) == IF \E i \in DOMAIN seq : seq[i] = o THEN seq ELSE Append(seq, o)

(* A viewer that draws at once gives up all that others have yet to draw.  *)
AppendWidgetDirty(w, o, idx) ==
  LET u == [w EXCEPT !.d[o].widget.dirty = TRUE,
                     !.d[o].widget.idx = IF idx = "keep" THEN @ ELSE idx]
  IN IF ~Visible(u, o) THEN u
     ELSE IF u.animator THEN [u EXCEPT !.wdirty = With(@, o), !.renderer = TRUE]
     ELSE WidgetUpdated([u EXCEPT !.renderer = FALSE, !.wdirty = <<>>], o)

AppendGbarDirty(w, o, idx) ==
  LET u == [w EXCEPT !.d[o].bar.dirty = TRUE, !.d[o].bar.idx = IF idx = "keep" THEN @ ELSE idx]
  IN IF ~Visible(u, o) THEN u
     ELSE IF u.animator THEN [u EXCEPT !.bdirty = With(@, o), !.renderer = TRUE]
     ELSE GbarUpdated([u EXCEPT !.renderer = FALSE, !.bdirty = <<>>], o)

Renderer(w) ==
  LET u == FoldLeft(WidgetUpdated, [w EXCEPT !.wdirty = <<>>], w.wdirty)
  IN [FoldLeft(GbarUpdated, [u EXCEPT !.bdirty = <<>>], w.bdirty) EXCEPT !.renderer = FALSE]

(* The pixmap that was shown goes back when the next one is there.         *)
ReplacePixmap(w, x, o, r) ==
  LET old == w.d[o].widget.pixmap IN ReleaseIf(w, old # 0, x, <<"widget", old>>)

(* What is acquired is drawn whatever became of the object meanwhile.      *)
AcquireWidgetPixmapCb(w, x, o, r) ==
  LET u == OverlayDisable([w EXCEPT !.d[o].widget.asks = FALSE], o, FALSE, FALSE)
      v == [ReplacePixmap(Hold(u, x, <<"widget", r>>), x, o, r) EXCEPT !.d[o].widget.pixmap = r]
  IN IF ~Live(w, o) THEN Bad(w)
     ELSE IF r = 0 THEN Unref(u, o)
     ELSE Unref(AppendWidgetDirty(v, o, "keep"), o)

AcquireGbarPixmapCb(w, x, o, r) ==
  LET u   == [w EXCEPT !.d[o].bar.asks = FALSE]
      old == w.d[o].bar.pixmap
      v   == [ReleaseIf(Hold(u, x, <<"bar", r>>), old # 0, x, <<"bar", old>>)
                EXCEPT !.d[o].bar.pixmap = r]
  IN IF ~Live(w, o) THEN Bad(w)
     ELSE IF r = 0 THEN Unref(u, o)
     ELSE Unref(AppendGbarDirty(v, o, "keep"), o)
-----------------------------------------------------------------------------
(* Visibility *)

(* What the master made is never hidden.                                   *)
SetVisibility(w, o, v) ==
  LET x == w.d[o].handle IN
  IF x = None \/ w.h[x].st # "live" \/ (~w.h[x].user /\ ~v) THEN w
  ELSE [w EXCEPT !.h[x].visible = v]

DelayedResume(w, o) ==
  LET u == SetVisibility(w, o, TRUE)
      v == IF u.d[o].widget.dirty THEN AppendWidgetDirty(u, o, "keep") ELSE u
  IN IF ~Live(w, o) THEN Bad(w) ELSE [v EXCEPT !.d[o].resumes = FALSE]

NoTimer(w, o) == [w EXCEPT !.d[o].resumes = FALSE]
Delay(w)      == "delayed" \in w.uses

Reappear(w, o) ==
  IF ~Delay(w) THEN DelayedResume(w, o)
  ELSE IF w.d[o].resumes THEN w
  ELSE IF ~w.d[o].initial THEN DelayedResume([w EXCEPT !.d[o].initial = TRUE], o)
  ELSE [w EXCEPT !.d[o].resumes = TRUE]

HideLate(w, o) ==   \* seeded fault: the timer of a resume outlives the hiding
  LET r == w.d[o] IN
  IF r.handle = None \/ ~r.created THEN w
  ELSE IF r.frozen # "no" THEN w
  ELSE IF r.shown THEN Reappear(w, o) ELSE SetVisibility(w, o, FALSE)

UpdateVisibility(w, o) ==
  LET r == w.d[o] IN
  IF r.handle = None \/ ~r.created THEN w
  ELSE IF r.frozen = "show" THEN SetVisibility([NoTimer(w, o) EXCEPT !.d[o].initial = TRUE], o, TRUE)
  ELSE IF r.frozen = "hide" THEN SetVisibility(NoTimer(w, o), o, FALSE)
  ELSE IF r.frozen = "keep" THEN w
  ELSE IF r.shown THEN Reappear(w, o) ELSE SetVisibility(NoTimer(w, o), o, FALSE)

(* Shown and hidden, or moved in and out of the view port.                 *)
Place(w, o, shown) == UpdateVisibility([w EXCEPT !.d[o].shown = shown], o)

FreezeVisibility(w, o, how) == [w EXCEPT !.d[o].frozen = how]
ThawVisibility(w, o)        == [w EXCEPT !.d[o].frozen = "no"]

PauseWidget(w, o) ==
  IF ~w.d[o].created \/ w.d[o].handle = None THEN w ELSE SetVisibility(NoTimer(w, o), o, FALSE)
ResumeWidget(w, o) ==
  IF ~w.d[o].created \/ w.d[o].handle = None THEN w
  ELSE SetVisibility([NoTimer(w, o) EXCEPT !.d[o].initial = TRUE], o, TRUE)
-----------------------------------------------------------------------------
(* Creation *)

WidgetAdd(w, o) ==
  [w EXCEPT !.d[o] = [NoData EXCEPT !.st = "live", !.alive = TRUE, !.refs = 1],
            !.list = Append(@, o)]

(* A setup that fails frees the data, and leaves it with the object.       *)
AddWidget(w, o, ok) ==
  LET u == WidgetAdd(w, o) IN IF ok THEN u ELSE [u EXCEPT !.d[o].st = "freed"]

(* The library takes the request, or says no at once.                      *)
AddHandle(w, o, x, kind, ok) ==
  LET u == [w EXCEPT !.d[o].created = FALSE, !.d[o].sendDelete = TRUE,
                     !.d[o].handle = IF ok THEN x ELSE None]
  IN IF ~ok THEN u
     ELSE OverlayLoading(Ref([u EXCEPT !.h[x] = [NoHandle EXCEPT !.st = "asked", !.kind = kind,
                                                   !.data = o, !.owner = o, !.owes = {"created"}]],
                             o), o)

Resize(w, o, x, kind, ok) ==
  LET r == w.d[o] IN
  IF ~Live(w, o) THEN Bad(w)
  ELSE IF r.faulted THEN w
  ELSE IF r.handle = None THEN AddHandle(w, o, x, kind, ok)
  ELSE IF ok /\ w.h[r.handle].st = "live" /\ ~Owes(w, r.handle, "resized")
  THEN Owe(Ref(w, o), r.handle, "resized")
  ELSE w

ResizeCb(w, x, o) == IF ~Live(w, o) THEN Bad(w) ELSE Unref(w, o)

CreateContent(w, o, kind) ==
  IF w.d[o].widget.content = "none" THEN [w EXCEPT !.d[o].widget.content = kind] ELSE w

(* Forced, because an update may have overtaken the creation.              *)
Ready(w, o, idx) == AppendWidgetDirty(UpdateVisibility([w EXCEPT !.d[o].created = TRUE], o), o, idx)

CreateAborted(w, o) ==
  LET r == w.d[o]
      u == IF r.deleted THEN w
           ELSE IF r.faulted THEN [w EXCEPT !.d[o].hideOnce = FALSE]
           ELSE OverlayFaulted([w EXCEPT !.d[o].faulted = TRUE], o)
  IN Unref([u EXCEPT !.d[o].sendDelete = FALSE], o)

Uncounted(w, x, ok, content) ==   \* seeded fault: the reference is kept
  IF ~ok THEN CreateAborted([w EXCEPT !.d[w.h[x].owner].handle = None], w.h[x].owner)
  ELSE Ready(CreateContent(w, w.h[x].owner, w.h[x].kind), w.h[x].owner, "keep")

CreatedCb(w, x, ok, content) ==
  LET o == w.h[x].owner IN
  IF ~Live(w, o) THEN Bad(w)
  ELSE IF ~ok THEN CreateAborted([w EXCEPT !.d[o].handle = None], o)
  ELSE IF ~content THEN Unref([w EXCEPT !.d[o].sendDelete = FALSE], o)
  ELSE Unref(Ready(CreateContent(w, o, w.h[x].kind), o, "keep"), o)
-----------------------------------------------------------------------------
(* The glance bar *)

BarKind(kind) == IF kind = "pixmap" THEN "pixmap" ELSE "buffer"

(* The library: there is no bar, a request is under way, or it takes this  *)
(* one.  An open bar is reported as opened, and the callback dropped.      *)
OpenGbar(w, o) ==
  LET x == w.d[o].handle
      u == Ref(w, o)
  IN IF x = None \/ w.d[o].faulted \/ w.d[o].barCreated \/ w.h[x].st # "live" THEN w
     ELSE IF w.h[x].open THEN u
     ELSE IF Owes(w, x, "gbar") THEN Unref(u, o)
     ELSE Owe(u, x, "gbar")

Closable(w, x) ==
  /\ x # None /\ w.h[x].st = "live" /\ (w.h[x].open \/ Owes(w, x, "gbar"))
  /\ ~Owes(w, x, "close") /\ ~Owes(w, x, "close0")

CloseGbar(w, o) ==
  LET x == w.d[o].handle IN
  IF Closable(w, x) THEN Owe(Ref(w, o), x, "close") ELSE w

DestroyGbar(w, o) ==
  LET r == w.d[o] IN
  IF ~r.created \/ r.handle = None \/ ~r.barCreated THEN w ELSE CloseGbar(w, o)

CreateGbarCb(w, x, ok, content) ==
  LET o == w.h[x].owner
      u == [w EXCEPT !.d[o].barLayout = TRUE]
  IN IF ~Live(w, o) THEN Bad(w)
     ELSE IF ~ok THEN Unref(w, o)
     ELSE IF w.d[o].deleted THEN IF Closable(w, x) THEN Owe(w, x, "close0") ELSE w
     ELSE IF ~content THEN Unref(CloseGbar(u, o), o)
     ELSE
            Unref([u EXCEPT !.d[o].bar.content = IF @ = "none" THEN BarKind(w.h[x].kind) ELSE @,
                            !.d[o].barCreated = TRUE], o)

(* The callback of a pixmap content releases its pixmap, and so does this. *)
DropBar(w, o) ==
  LET p == w.d[o].bar
      x == w.d[o].handle
  IN IF p.content = "none" \/ x = None THEN [w EXCEPT !.d[o].bar.content = "none"]
     ELSE IF p.content = "pixmap"
     THEN ReleaseIf(DelBarContent(w, o), p.pixmap # 0, x, <<"bar", p.pixmap>>)
     ELSE DelBarContent(ReleaseGbarFb(w, o), o)

DestroyGbarCb(w, o) ==
  IF ~Live(w, o) THEN Bad(w)
  ELSE Unref([DropBar(w, o) EXCEPT !.d[o].barCreated = FALSE, !.d[o].barLayout = FALSE,
                                   !.bdirty = Without(@, o)], o)
-----------------------------------------------------------------------------
(* The end of an object and of a handle *)

(* A handle that was never created is left to the callback of its creation.*)
DeleteHandle(w, o) ==
  LET r == w.d[o]
      u == [w EXCEPT !.h[r.handle].data = None]
  IN IF ~r.sendDelete THEN u
     ELSE IF r.created THEN Owe([Ref(u, o) EXCEPT !.h[r.handle].st = "leaving"], r.handle, "deleted")
     ELSE [u EXCEPT !.h[r.handle].st = "dying"]

KeepTimer(w, o) ==   \* seeded fault: the timer of a resume goes on
  LET u == [w EXCEPT !.d[o].deleted = TRUE, !.list = Without(@, o)]
      v == IF u.d[o].handle = None THEN u ELSE DeleteHandle(u, o)
  IN IF ~Live(w, o) THEN Bad(w) ELSE Unref([v EXCEPT !.d[o].alive = FALSE], o)

WidgetDel(w, o) ==
  LET u == [NoTimer(w, o) EXCEPT !.d[o].deleted = TRUE, !.list = Without(@, o)]
      v == IF u.d[o].handle = None THEN u ELSE DeleteHandle(u, o)
  IN IF ~Live(w, o) THEN Bad(w)
     ELSE IF w.d[o].deleted THEN w
     ELSE Unref([v EXCEPT !.d[o].alive = FALSE], o)

DestroyWidgetCb(w, o) ==
  LET u == IF w.d[o].widget.pixmap # 0 THEN ReplaceWidgetPixmapWithImage(w, o) ELSE w
  IN IF ~Live(w, o) THEN Bad(w)
     ELSE Unref(RemoveDirty([u EXCEPT !.d[o].sendDelete = FALSE], o), o)

(* The app may delete the object as it is told of it.                      *)
EventDeleted(w, o, del) ==
  LET u == ReleaseGbarFb(ReleaseWidgetFb(w, o), o)
      v == IF u.d[o].widget.pixmap # 0 THEN ReplaceWidgetPixmapWithImage(u, o) ELSE u
      t == Ref([v EXCEPT !.d[o].sendDelete = FALSE], o)
      r == RemoveDirty(IF del THEN WidgetDel(t, o) ELSE t, o)
  IN Unref([r EXCEPT !.d[o].handle = None], o)
-----------------------------------------------------------------------------
(* Faults *)

FaultOf(w, o, del) ==
  LET u == [w EXCEPT !.d[o].faulted = TRUE]
  IN IF ~Live(w, o) THEN w ELSE OverlayFaulted(IF o \in del THEN WidgetDel(u, o) ELSE u, o)

(* The app may delete a widget as it is told, of which the walk knows      *)
(* nothing.                                                                *)
FaultHandler(w, del) == FoldLeft(LAMBDA u, o : FaultOf(u, o, del), w, w.list)

OverlayClicked(w, o) ==
  IF ~w.d[o].faulted THEN w ELSE [Ref(w, o) EXCEPT !.d[o].acts = @ + 1]

ActivateFaultedWidget(w, o) == OverlayClicked(w, o)

ActivateRetCb(w, o, x, kind, ret, ok) ==
  LET r == w.d[o]
      u == OverlayDisable([w EXCEPT !.d[o].acts = @ - 1], o, TRUE, TRUE)
      v == AddHandle([u EXCEPT !.d[o].faulted = FALSE], o, x, kind, ok)
  IN IF ~Live(w, o) THEN Bad(w)
     ELSE IF r.deleted \/ ~ret THEN Unref([u EXCEPT !.d[o].deleted = FALSE], o)
     ELSE IF ok THEN Unref(v, o)
     ELSE v
-----------------------------------------------------------------------------
(* What the master makes, for those who subscribed to its group or category*)

(* One that nobody wants is deleted, as an object: no request is sent for  *)
(* what the app did not ask for.                                           *)
WidgetSystemCreated(w, o, content) ==
  IF content THEN Ready(CreateContent(w, o, w.h[w.d[o].handle].kind), o, "primary")
  ELSE WidgetDel(w, o)

CreateWidgetObject(w, x, o, wanted) ==
  LET u == [AddWidget(w, o, TRUE) EXCEPT !.d[o].handle = x, !.h[x].data = o, !.h[x].owner = o]
  IN WidgetSystemCreated(u, o, wanted)

(* Without a subscription, or an object, the handle is deleted at once.    *)
HandleSubscribed(w, x, o, subscribed, wanted) ==
  IF subscribed THEN CreateWidgetObject(w, x, o, wanted)
  ELSE [w EXCEPT !.h[x].st = "leaving"]
-----------------------------------------------------------------------------
(* widget_event_handler: what the library tells of a handle concerns the   *)
(* object its data names, as long as that is an object.                    *)

Told(w, x) ==
  LET o == w.h[x].data IN o # None /\ Live(w, o) /\ ~w.d[o].deleted
Target(w, x) == w.h[x].data

ExtraBufferCreated(w, x) ==
  LET o == Target(w, x) IN [Hold(w, x, <<"widget", Extra>>) EXCEPT !.d[o].widget.extra = TRUE]
BarExtraBufferCreated(w, x) ==
  LET o == Target(w, x) IN [Hold(w, x, <<"bar", Extra>>) EXCEPT !.d[o].bar.extra = TRUE]

(* The array of the extra buffers is looked into without a check.          *)
ExtraBufferDestroyed(w, x) ==
  LET o == Target(w, x) IN
  IF ~w.d[o].widget.extra THEN Bad(w)
  ELSE [ReleaseResource(w, x, <<"widget", Extra>>) EXCEPT !.d[o].widget.extra = FALSE]
BarExtraBufferDestroyed(w, x) ==
  LET o == Target(w, x) IN
  IF ~w.d[o].bar.extra THEN Bad(w)
  ELSE [ReleaseResource(w, x, <<"bar", Extra>>) EXCEPT !.d[o].bar.extra = FALSE]

ExtraUpdated(w, x) ==
  LET o == Target(w, x) IN IF w.d[o].widget.extra THEN AppendWidgetDirty(w, o, "extra") ELSE w
BarExtraUpdated(w, x) ==
  LET o == Target(w, x) IN IF w.d[o].bar.extra THEN AppendGbarDirty(w, o, "extra") ELSE w
-----------------------------------------------------------------------------
(* The app, the library and the main loop                                  *)

May(use)   == use \in e.uses
FreeHandles == {x \in Handles : e.h[x].st = "none"}
Room(x)    == x = CHOOSE y \in FreeHandles : TRUE
NewObjs    == {o \in Objs : e.d[o].st = "none" /\ (May("another") \/ \A p \in Objs : e.d[p].st = "none")}
AppHas(o)  == Live(e, o) /\ e.d[o].alive
Handled(o) == AppHas(o) /\ e.d[o].handle # None

(* The room of a handle that is gone is free when nobody points to it.     *)
Collect(w) ==
  [w EXCEPT !.h = [x \in Handles |->
     IF /\ w.h[x].st = "gone" /\ w.h[x].owes = {}
        /\ \A o \in Objs : w.d[o].handle # x
     THEN NoHandle ELSE w.h[x]]]

Does(w) == e' = Collect(w)

AppAdds == \E o \in NewObjs, ok \in BOOLEAN :
  /\ ok \/ "setup fails" \in Rare
  /\ Does(AddWidget(e, o, ok))

AppResizes == \E o \in Objs, kind \in Kinds, ok \in BOOLEAN :
  /\ e.d[o].alive
  /\ \/ e.d[o].handle # None /\ May("resize") /\ Does(Resize(e, o, None, kind, ok))
     \/ e.d[o].handle = None /\ FreeHandles # {}
        /\ \E x \in FreeHandles : Room(x) /\ Does(Resize(e, o, x, kind, ok))

AppDeletes == \E o \in Objs :
  /\ AppHas(o) /\ May("delete")
  /\ "deleted while the bar opens" \in Rare
     \/ \A x \in Handles : e.h[x].owner # o \/ ~Owes(e, x, "gbar")
  /\ Does(WidgetDel(e, o))

AppShows == \E o \in Objs, shown \in BOOLEAN :
  May("place") /\ AppHas(o) /\ shown # e.d[o].shown /\ Does(Place(e, o, shown))

AppFreezes == \E o \in Objs, how \in {"show", "hide"} :
  May("manual") /\ AppHas(o) /\ Does(FreezeVisibility(e, o, how))
AppThaws   == \E o \in Objs : May("manual") /\ AppHas(o) /\ Does(ThawVisibility(e, o))
AppPauses  == \E o \in Objs : May("manual") /\ AppHas(o) /\ Does(PauseWidget(e, o))
AppResumes == \E o \in Objs : May("manual") /\ AppHas(o) /\ Does(ResumeWidget(e, o))

(* Set by the app, and by a touch when the app leaves it to the touch.     *)
AppSelectsRenderer == \E on \in BOOLEAN :
  /\ May("renderer") /\ on # e.animator
  /\ on \/ "mode changes over updates" \in Rare \/ (e.wdirty = <<>> /\ e.bdirty = <<>>)
  /\ e' = [e EXCEPT !.animator = on]

AppHidesOverlay == \E o \in Objs : May("overlay") /\ AppHas(o) /\ Does(HideOverlay(e, o))
AppHidesFault   == \E o \in Objs : May("overlay") /\ AppHas(o) /\ Does(HideFaultedOverlayOnce(e, o))

UserTaps == \E o \in Objs :
  /\ May("fault") /\ AppHas(o) /\ e.d[o].overlay /\ e.d[o].acts < MaxTaps
  /\ e.d[o].acts = 0 \/ "tapped twice" \in Rare
  /\ e.d[o].handle = None \/ "tapped while it lives" \in Rare
  /\ Does(ActivateFaultedWidget(e, o))

UserFlicks == \E o \in Objs :
  /\ May("bar") /\ Handled(o)
  /\ ~e.h[e.d[o].handle].open \/ e.d[o].barCreated \/ "flicked while it closes" \in Rare
  /\ Does(OpenGbar(e, o))
AppClosesBar == \E o \in Objs : May("bar") /\ Handled(o) /\ Does(DestroyGbar(e, o))

(* A deleted handle is told as cancelled when it is created.               *)
LibCreates == \E x \in Handles, ok \in BOOLEAN, content \in BOOLEAN :
  LET w == Paid(e, x, "created") IN
  /\ Owes(e, x, "created") /\ (ok => e.h[x].st = "asked") /\ (~ok => ~content)
  /\ ~ok \/ ~e.d[e.h[x].owner].faulted \/ "updates after a fault" \in Rare
  /\ content \/ ~ok \/ "content fails" \in Rare
  /\ Does(CreatedCb([w EXCEPT !.h[x].st = IF ok THEN "live" ELSE "gone",
                              !.h[x].visible = ok], x, ok, content))

LibResizes == \E x \in Handles :
  Owes(e, x, "resized") /\ Does(ResizeCb(Paid(e, x, "resized"), x, e.h[x].owner))

(* Answered after the DELETED event, a request has failed.                 *)
LibAcquires == \E x \in Handles, r \in 0..2 :
  /\ Owes(e, x, "pixmap") /\ (r # 0 => e.h[x].st \in {"live", "leaving"})
  /\ ~e.d[e.h[x].owner].faulted \/ "updates after a fault" \in Rare
  /\ Does(AcquireWidgetPixmapCb(Paid(e, x, "pixmap"), x, e.h[x].owner, IF r = 0 THEN 0 ELSE e.h[x].res))
LibAcquiresBar == \E x \in Handles, r \in 0..1 :
  /\ Owes(e, x, "barPixmap") /\ (r # 0 => e.h[x].st \in {"live", "leaving"})
  /\ Does(AcquireGbarPixmapCb(Paid(e, x, "barPixmap"), x, e.h[x].owner, IF r = 0 THEN 0 ELSE e.h[x].bres))

LibDeletes == \E x \in Handles :
  /\ Owes(e, x, "deleted")
  /\ Does([DestroyWidgetCb(Paid(e, x, "deleted"), e.h[x].owner) EXCEPT !.h[x].st = "gone"])

LibOpensBar == \E x \in Handles, ok \in BOOLEAN, content \in BOOLEAN :
  LET w == Paid(e, x, "gbar") IN
  /\ Owes(e, x, "gbar") /\ (ok => e.h[x].st = "live" /\ ~Owes(e, x, "close"))
  /\ content \/ "bar fails" \in Rare
  /\ Does(CreateGbarCb([w EXCEPT !.h[x].open = ok], x, ok, content))

LibClosesBar == \E x \in Handles :
  LET w == [Paid(e, x, "close") EXCEPT !.h[x].open = FALSE] IN
  /\ Owes(e, x, "close")
  /\ e.d[e.h[x].owner].bar.pixmap = 0 \/ "pixmap bar closes" \in Rare
  /\ Does(DestroyGbarCb(w, e.h[x].owner))
LibClosesUnwanted == \E x \in Handles :
  Owes(e, x, "close0") /\ Does([Paid(e, x, "close0") EXCEPT !.h[x].open = FALSE])

LibActivates == \E o \in Objs, ret \in BOOLEAN, ok \in BOOLEAN, kind \in Kinds :
  /\ e.d[o].acts > 0
  /\ ret \/ e.d[o].deleted \/ "activation fails" \in Rare
  /\ ok \/ "add refused" \in Rare
  /\ FreeHandles # {}
  /\ \E x \in FreeHandles : Room(x) /\ Does(ActivateRetCb(e, o, x, kind, ret, ok))

(* The provider draws, perhaps into another pixmap than before.            *)
MayDraw(x, res) == res = 1 \/ (May("frame") /\ e.h[x].kind = "pixmap")

Updates == \E x \in Handles, res \in 1..2 :
  LET w == [e EXCEPT !.h[x].res = res] IN
  /\ May("frame") /\ e.h[x].st = "live" /\ Told(e, x) /\ MayDraw(x, res)
  /\ ~e.d[Target(e, x)].faulted \/ "updates after a fault" \in Rare
  /\ Does(AppendWidgetDirty(w, Target(w, x), "primary"))
UpdatesBar == \E x \in Handles, res \in 1..2 :
  LET w == [e EXCEPT !.h[x].bres = res] IN
  /\ May("bar") /\ e.h[x].st = "live" /\ e.h[x].open /\ Told(e, x) /\ MayDraw(x, res)
  /\ Does(AppendGbarDirty(w, Target(w, x), "primary"))

(* A bar with extra buffers of its own shares them with the widget.        *)
MayExtra(x, part) ==
  /\ May("extra") /\ e.h[x].st = "live" /\ Told(e, x)
  /\ part = "widget" \/ "bar extras" \in Rare

MakesExtra == \E x \in Handles, part \in {"widget", "bar"} :
  /\ MayExtra(x, part) /\ e.h[x].kind = "pixmap"
  /\ \/ part = "widget" /\ ~e.d[Target(e, x)].widget.extra /\ Does(ExtraBufferCreated(e, x))
     \/ part = "bar" /\ ~e.d[Target(e, x)].bar.extra /\ Does(BarExtraBufferCreated(e, x))
DropsExtra == \E x \in Handles, part \in {"widget", "bar"} :
  /\ MayExtra(x, part)
  /\ e.d[Target(e, x)][part].extra \/ "extra not there" \in Rare
  /\ Does(IF part = "widget" THEN ExtraBufferDestroyed(e, x) ELSE BarExtraBufferDestroyed(e, x))
UpdatesExtra == \E x \in Handles, part \in {"widget", "bar"} :
  /\ MayExtra(x, part)
  /\ Does(IF part = "widget" THEN ExtraUpdated(e, x) ELSE BarExtraUpdated(e, x))

(* The library deletes the handle after its event.                         *)
Deletes == \E x \in Handles, del \in BOOLEAN :
  LET o == Target(e, x)
      w == [e EXCEPT !.h[x].st = "gone"]
  IN /\ May("delete") /\ e.h[x].st = "live" /\ (del => Told(e, x) /\ ~Owes(e, x, "gbar"))
     /\ (Told(e, x) /\ "deleted under a drawn bar" \notin Rare => e.d[o].bar.pixmap = 0)
     /\ IF Told(e, x) THEN Does(EventDeleted(w, o, del)) ELSE Does([w EXCEPT !.h[x].data = None])

RequestsClose == \E x \in Handles :
  May("bar") /\ e.h[x].st = "live" /\ Told(e, x) /\ Does(CloseGbar(e, Target(e, x)))

(* The master gives a package up, or a provider is lost; its handles go    *)
(* first, unless the provider left them behind.                            *)
Faults == \E del \in SUBSET Objs :
  /\ May("fault") /\ e.list # <<>>
  /\ del = {} \/ "deleted when faulted" \in Rare
  /\ \A x \in Handles : e.h[x].st # "live" \/ "tapped while it lives" \in Rare
  /\ Does(FaultHandler(e, del))

SystemCreates == \E x \in FreeHandles, o \in NewObjs, kind \in Kinds,
                    subscribed \in BOOLEAN, wanted \in BOOLEAN :
  LET w == [e EXCEPT !.h[x] = [NoHandle EXCEPT !.st = "live", !.user = FALSE, !.kind = kind, !.visible = TRUE]]
  IN May("system") /\ Room(x) /\ (wanted \/ ~subscribed \/ "nobody wants it" \in Rare)
     /\ Does(HandleSubscribed(w, x, o, subscribed, wanted))

SystemGone == \E x \in Handles :
  e.h[x].st \in {"leaving", "dying"} /\ ~Owes(e, x, "deleted") /\ ~Owes(e, x, "created")
  /\ Does([e EXCEPT !.h[x].st = "gone"])

RendererRuns    == e.renderer /\ Does(Renderer(e))
ResumeTimer     == \E o \in Objs : e.d[o].resumes /\ Does(DelayedResume(e, o))
OverlayTimer    == \E o \in Objs : e.d[o].timer /\ Does(DelayedOverlayDisable(e, o))

Next ==
  ~e.bad /\
  ( AppAdds \/ AppResizes \/ AppDeletes \/ AppShows \/ AppFreezes \/ AppThaws
  \/ AppPauses \/ AppResumes \/ AppSelectsRenderer \/ AppHidesOverlay \/ AppHidesFault
  \/ UserTaps \/ UserFlicks \/ AppClosesBar \/ LibCreates \/ LibResizes \/ LibAcquires
  \/ LibAcquiresBar \/ LibDeletes \/ LibOpensBar \/ LibClosesBar \/ LibClosesUnwanted
  \/ LibActivates \/ Updates \/ UpdatesBar \/ MakesExtra \/ DropsExtra \/ UpdatesExtra \/ Deletes \/ RequestsClose
  \/ Faults \/ SystemCreates \/ SystemGone \/ RendererRuns \/ ResumeTimer \/ OverlayTimer )

Spec == Init /\ [][Next]_vars
=============================================================================
