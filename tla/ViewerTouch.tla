----------------------------- MODULE ViewerTouch -----------------------------
(***************************************************************************)
(* The fingers on the widget objects of a viewer app: the input half of    *)
(* widget_viewer_evas.c, over the life cycle of ViewerEvas.                *)
(*                                                                         *)
(* The stage and the bar of an object are told of a finger that comes,     *)
(* moves and goes; the object tells the master, as one of two ways of      *)
(* feeding wants it: a device set and unset, or a button down and up.  A   *)
(* finger that moves too far, a second finger, or the app, makes of the    *)
(* press a hold; one that is nothing else is a click.  A finger that moves *)
(* down opens the bar.                                                     *)
(*                                                                         *)
(* A handle may change, fail or go under a finger.                         *)
(***************************************************************************)
EXTENDS ViewerEvas

CONSTANT Ways   (* how a run feeds: sets of "auto", "sensitive", "selector" *)

ASSUME ViewerTouchAssumption ==
  \A way \in Ways : way \subseteq {"auto", "sensitive", "selector"}

VARIABLE t

tvars == <<e, t>>

Devices == {0, 1}   \* the mouse, and one more of the 32 of MAX_DEVICE

(* pressed, down.is_gbar, cancel_click, flick_down; moved since the finger *)
(* came, off its view port; mouse: the package wants all events.  holds    *)
(* and clicks are counted while a press lasts.                             *)
NoTouch == [pressed |-> {}, isGbar |-> FALSE, cancel |-> "disabled", flick |-> FALSE,
            moved |-> FALSE, off |-> FALSE, far |-> FALSE, mouse |-> FALSE,
            holds |-> 0, clicks |-> 0]

(* finger: what it is on; fed: what the master was told of a handle.       *)
TInit == Init /\ \E way \in Ways :
  /\ "touch" \in e.uses \/ way = {}
  /\ t = [p |-> [o \in Objs |-> NoTouch], finger |-> [dev \in Devices |-> <<>>],
          fed |-> [x \in Handles |-> {}], way |-> way]

Auto      == "auto" \in t.way
Sensitive == "sensitive" \in t.way

(* Both halves, as one function after the other leaves them.               *)
Both == [e |-> e, t |-> t]
P(s, o) == s.t.p[o]
-----------------------------------------------------------------------------
(* Feeding: the library takes an event of a handle that it created.        *)

Feedable(s, o) == s.e.d[o].handle # None /\ ~s.e.d[o].faulted

Fed(s, o, S) ==
  LET x == s.e.d[o].handle
  IN IF x = None \/ s.e.h[x].st # "live" THEN s ELSE [s EXCEPT !.t.fed[x] = S]
Now(s, o) == IF s.e.d[o].handle = None THEN {} ELSE s.t.fed[s.e.d[o].handle]

FeedDown(s, o, part, dev) ==
  LET how == IF Auto /\ (part = "bar" \/ P(s, o).mouse) THEN "set" ELSE "down"
  IN Fed(s, o, Now(s, o) \cup {<<part, dev, how>>})

FeedUp(s, o, part, dev) ==
  LET how == IF Auto /\ (part = "bar" \/ P(s, o).mouse) THEN "set" ELSE "down"
  IN Fed(s, o, Now(s, o) \ {<<part, dev, how>>})

OnHold(s, o) == [s EXCEPT !.t.p[o].cancel = "processed", !.t.p[o].holds = @ + 1]

Selects(s, on) == IF "selector" \in s.t.way THEN [s EXCEPT !.e.animator = on] ELSE s

SetPressed(s, o, dev) ==
  [s EXCEPT !.t.p[o].pressed = @ \cup {dev},
            !.t.p[o].holds   = IF P(s, o).pressed = {} THEN 0 ELSE @,
            !.t.p[o].clicks  = IF P(s, o).pressed = {} THEN 0 ELSE @]
SetReleased(s, o, dev) == [s EXCEPT !.t.p[o].pressed = @ \ {dev}]
FlickCancelled(s, o)   == [s EXCEPT !.t.p[o].flick = FALSE]
-----------------------------------------------------------------------------
(* The widget *)

(* With sensitive_move, a press off the view port is none.                 *)
WidgetDown(s, o) ==
  LET u == Selects([s EXCEPT !.t.p[o].flick = @ \/ ~s.e.d[o].barCreated, !.t.p[o].isGbar = FALSE,
                             !.t.p[o].moved = FALSE, !.t.p[o].far = FALSE], FALSE)
      v == SetPressed(u, o, 0)
  IN IF Sensitive /\ P(s, o).off THEN Selects(SetReleased(u, o, 0), TRUE)
     ELSE IF Feedable(s, o) THEN FeedDown(v, o, "widget", 0) ELSE v

WidgetMultiDown(s, o, dev) ==
  LET v == SetPressed(Selects(FlickCancelled(s, o), FALSE), o, dev)
      u == FeedDown(v, o, "widget", dev)
  IN IF ~Feedable(s, o) THEN v
     ELSE IF P(s, o).cancel # "processed" THEN OnHold(u, o) ELSE u

(* far: past the region of a click; up: not down enough for a flick.       *)
WidgetMove(s, o, far, up) ==
  LET u == [s EXCEPT !.t.p[o].far = far, !.t.p[o].flick = @ /\ ~up]
      v == IF P(u, o).cancel = "user" THEN Selects(OnHold(u, o), TRUE) ELSE u
  IN IF 0 \notin P(s, o).pressed THEN s
     ELSE IF ~Feedable(s, o) THEN Selects(u, TRUE)
     ELSE IF far THEN FlickCancelled(v, o) ELSE v

WidgetMultiUp(s, o, dev) ==
  LET u == Selects(s, TRUE)
      v == SetReleased(u, o, dev)
  IN IF dev \notin P(s, o).pressed THEN u
     ELSE IF Feedable(s, o) THEN FeedUp(v, o, "widget", dev) ELSE v

(* The finger went down far enough, and fast enough for no move to tell.   *)
Flick(s, o, flicked) ==
  IF ~P(s, o).flick \/ ~flicked \/ ~Feedable(s, o) THEN FlickCancelled(s, o)
  ELSE [FlickCancelled(s, o) EXCEPT !.e = OpenGbar(s.e, o)]

IsHold(r, held) == r.moved \/ r.cancel = "user" \/ (~r.mouse /\ r.far) \/ held

(* An open bar is closed, else what is no hold is a click.                 *)
EndOfPress(s, o) ==
  IF s.e.d[o].barCreated THEN [s EXCEPT !.e = CloseGbar(@, o)]
  ELSE IF P(s, o).cancel = "disabled" THEN [s EXCEPT !.t.p[o].clicks = @ + 1]
  ELSE s

UpUntold(s, o, flicked, held) ==   \* seeded fault: a hold is not told to be up
  LET u == Flick(Selects(SetReleased(s, o, 0), TRUE), o, flicked)
      v == IF P(u, o).cancel # "processed" /\ IsHold(P(u, o), held) THEN OnHold(u, o)
           ELSE IF P(u, o).cancel = "processed" THEN u ELSE FeedUp(u, o, "widget", 0)
  IN IF 0 \notin P(s, o).pressed THEN s
     ELSE IF ~Feedable(s, o) THEN u
     ELSE [EndOfPress(v, o) EXCEPT !.t.p[o].cancel = "disabled"]

WidgetUp(s, o, flicked, held) ==
  LET u == Flick(Selects(SetReleased(s, o, 0), TRUE), o, flicked)
      v == IF P(u, o).cancel # "processed" /\ IsHold(P(u, o), held) THEN OnHold(u, o) ELSE u
  IN IF 0 \notin P(s, o).pressed THEN s
     ELSE IF ~Feedable(s, o) THEN u
     ELSE [EndOfPress(FeedUp(v, o, "widget", 0), o) EXCEPT !.t.p[o].cancel = "disabled"]
-----------------------------------------------------------------------------
(* The bar *)

GbarDown(s, o) ==
  LET u == [s EXCEPT !.t.p[o].isGbar = TRUE, !.t.p[o].moved = FALSE]
  IN FeedDown(Selects(SetPressed(u, o, 0), FALSE), o, "bar", 0)

GbarMultiDown(s, o, dev) ==
  LET u == FeedDown(SetPressed(s, o, dev), o, "bar", dev)
  IN IF P(s, o).cancel = "user" THEN OnHold(u, o) ELSE u

GbarMove(s, o) ==
  LET told == P(s, o).cancel = "user" \/ ~Auto
      u == IF P(s, o).cancel = "user" THEN OnHold(s, o) ELSE s
  IN IF 0 \notin P(s, o).pressed \/ ~told THEN s ELSE Selects(u, FALSE)

GbarMultiMove(s, o, dev) ==
  IF dev \in P(s, o).pressed /\ ~Auto THEN Selects(s, FALSE) ELSE s

GbarMultiUp(s, o, dev) ==
  IF dev \notin P(s, o).pressed THEN s ELSE FeedUp(SetReleased(s, o, dev), o, "bar", dev)

GbarUp(s, o) ==
  LET u == SetReleased(s, o, 0)
      v == IF (P(s, o).moved \/ P(s, o).cancel = "user") /\ P(s, o).cancel # "processed"
           THEN OnHold(u, o) ELSE u
  IN IF 0 \notin P(s, o).pressed THEN s
     ELSE [FeedUp(v, o, "bar", 0) EXCEPT !.t.p[o].cancel = "disabled"]
-----------------------------------------------------------------------------
(* The app *)

(* Of the widget, whatever was pressed.                                    *)
DoForceMouseUp(s, o) ==
  LET u == Selects(s, TRUE)
      v == IF P(s, o).cancel # "processed" THEN OnHold(u, o) ELSE u
      w == FoldSet(LAMBDA dev, z : FeedUp(z, o, "widget", dev), v, P(s, o).pressed)
  IN IF P(s, o).pressed = {} THEN u
     ELSE [FlickCancelled(w, o) EXCEPT !.t.p[o].pressed = {}, !.t.p[o].cancel = "disabled"]

FeedMouseUp(s, o) ==
  IF s.e.d[o].created /\ s.e.d[o].handle # None THEN DoForceMouseUp(s, o) ELSE s

CancelClick(s, o) ==
  IF s.e.d[o].created /\ s.e.d[o].handle # None /\ P(s, o).pressed # {}
     /\ P(s, o).cancel = "disabled"
  THEN [s EXCEPT !.t.p[o].cancel = "user"] ELSE s

(* An object that moves; in or out of its view port.                       *)
WidgetMoves(s, o, off) ==
  LET u == [s EXCEPT !.t.p[o].moved = TRUE, !.t.p[o].off = off,
                     !.e = UpdateVisibility(@, o)]
  IN IF Sensitive THEN DoForceMouseUp(u, o) ELSE u
-----------------------------------------------------------------------------
(* The canvas tells the object that a finger came upon of what the finger  *)
(* does, until it goes, as long as there is the object.                    *)

On(dev, o, part) == t.finger[dev] = <<o, part>>
There(o, part)   == AppHas(o) /\ (part = "bar" => e.d[o].barCreated)

(* The mode of the renderer is not to change over what is to be drawn.     *)
Steady(s) == s.e.animator = e.animator \/ s.e.animator \/ "mode changes over updates" \in Rare
             \/ (e.wdirty = <<>> /\ e.bdirty = <<>>)

Becomes(s) == ~e.bad /\ Steady(s) /\ e' = Collect(s.e) /\ t' = s.t

Put(s, dev, where) == [s EXCEPT !.t.finger[dev] = where]

Press == \E o \in Objs, part \in {"widget", "bar"} :
  LET s == Put(Both, 0, <<o, part>>) IN
  /\ May("touch") /\ There(o, part) /\ \A dev \in Devices : t.finger[dev] = <<>>
  /\ Becomes(IF part = "widget" THEN WidgetDown(s, o) ELSE GbarDown(s, o))

PressMore == \E o \in Objs, part \in {"widget", "bar"} :
  LET s == Put(Both, 1, <<o, part>>) IN
  /\ May("touch") /\ There(o, part) /\ On(0, o, part) /\ t.finger[1] = <<>>
  /\ Becomes(IF part = "widget" THEN WidgetMultiDown(s, o, 1) ELSE GbarMultiDown(s, o, 1))

Drag == \E o \in Objs, part \in {"widget", "bar"}, dev \in Devices, far \in BOOLEAN, up \in BOOLEAN :
  /\ On(dev, o, part) /\ There(o, part) /\ (far \/ up => part = "widget" /\ dev = 0)
  /\ Becomes(CASE part = "widget" /\ dev = 0 -> WidgetMove(Both, o, far, up)
               [] part = "bar" /\ dev = 0    -> GbarMove(Both, o)
               [] part = "bar" /\ dev = 1    -> GbarMultiMove(Both, o, dev)
               [] OTHER                      -> Both)

Lift == \E dev \in Devices, flicked \in BOOLEAN, held \in BOOLEAN :
  LET o    == t.finger[dev][1]
      part == t.finger[dev][2]
      s    == Put(Both, dev, <<>>)
  IN /\ t.finger[dev] # <<>> /\ (flicked \/ held => part = "widget" /\ dev = 0)
     /\ Becomes(IF ~There(o, part) THEN s
                ELSE IF part = "widget" /\ dev = 0 THEN WidgetUp(s, o, flicked, held)
                ELSE IF part = "widget" /\ dev = 1 THEN WidgetMultiUp(s, o, dev)
                ELSE IF part = "bar" /\ dev = 0 THEN GbarUp(s, o)
                ELSE GbarMultiUp(s, o, dev))

(* A bar is not forced, nor what is left when the first finger is gone.    *)
Forceable(o) ==
  (~P(Both, o).isGbar /\ 0 \in P(Both, o).pressed) \/ "forced out of place" \in Rare

AppFeedsUp == \E o \in Objs :
  /\ May("touch") /\ AppHas(o) /\ P(Both, o).pressed # {} /\ Forceable(o)
  /\ Becomes(FeedMouseUp(Both, o))
AppCancels == \E o \in Objs : May("touch") /\ AppHas(o) /\ Becomes(CancelClick(Both, o))
AppMoves   == \E o \in Objs, off \in BOOLEAN :
  /\ May("touch") /\ AppHas(o)
  /\ ~Sensitive \/ P(Both, o).pressed = {} \/ Forceable(o)
  /\ Becomes(WidgetMoves(Both, o, off))

(* What happens beneath: a handle that is new, or of a new size, may want  *)
(* all events or none.                                                     *)
Asks(x) == IF x = None THEN {} ELSE e.h[x].owes
Sized(o) == e'.d[o].handle # None /\
  (e'.d[o].handle # e.d[o].handle \/ e'.h[e'.d[o].handle].owes \ Asks(e.d[o].handle) = {"resized"})

Beneath == Next /\ \E mouse \in BOOLEAN :
  /\ mouse => May("touch") /\ \E o \in Objs : Sized(o)
  /\ \A o \in Objs : Sized(o) /\ mouse # t.p[o].mouse =>
       t.p[o].pressed = {} \/ e'.d[o].handle # e.d[o].handle \/ "sized under a finger" \in Rare
  /\ \A o \in Objs, dev \in Devices : On(dev, o, "bar") /\ e'.d[o].st = "live" =>
       e'.d[o].barCreated \/ "bar closes under a finger" \in Rare
  /\ t' = [t EXCEPT
       !.p   = [o \in Objs |-> IF e'.d[o].st # "live" THEN NoTouch
                               ELSE IF Sized(o) THEN [t.p[o] EXCEPT !.mouse = mouse] ELSE t.p[o]],
       !.fed = [x \in Handles |-> IF e'.h[x].st = "live" THEN t.fed[x] ELSE {}]]

TNext ==
  Beneath \/ Press \/ PressMore \/ Drag \/ Lift \/ AppFeedsUp \/ AppCancels \/ AppMoves

TSpec == TInit /\ [][TNext]_tvars
=============================================================================
