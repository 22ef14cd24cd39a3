-------------------------- MODULE ViewerEvasProps --------------------------
(***************************************************************************)
(* What is to hold of the widget objects of a viewer app.                  *)
(***************************************************************************)
EXTENDS ViewerEvas

(* The state is made of what the module says, and what is counted is       *)
(* counted by a number: a record of data, dirty lists of objects with data *)
(* that live, resources held once or more (widget_viewer_evas.c:229-404).  *)
TypeOK ==
  /\ \A o \in Objs :
       /\ e.d[o].refs \in Nat /\ e.d[o].handle \in Handles \cup {None}
       /\ e.d[o].st # "live" => ~e.d[o].alive \/ "setup fails" \in Rare
  /\ ToSet(e.list) \subseteq {o \in Objs : e.d[o].alive}
  /\ ToSet(e.wdirty) \cup ToSet(e.bdirty) \subseteq {o \in Objs : Live(e, o)}
  /\ \A x \in Handles : \A r \in DOMAIN e.h[x].held : e.h[x].held[r] \in Nat \ {0}

(* Every reference is owed: those who will drop one are the object and the *)
(* callbacks under way in its name, no more and no fewer, so that data are *)
(* freed neither early nor never (widget_ref, widget_unref, every          *)
(* registration of a callback).                                            *)
Callbacks == {"created", "resized", "deleted", "gbar", "close", "pixmap", "barPixmap"}
OwedTo(o) == {<<x, cb>> \in Handles \X Callbacks : e.h[x].owner = o /\ Owes(e, x, cb)}
RefsAreOwed == ~e.bad => \A o \in Objs : Live(e, o) =>
  e.d[o].refs = (IF e.d[o].alive THEN 1 ELSE 0) + e.d[o].acts + Cardinality(OwedTo(o))

(* Nobody uses data that were freed: no callback, timer, renderer or walk  *)
(* comes after the last widget_unref.                                      *)
NoStaleUse == ~e.bad

(* The master is told of a widget whether it is seen: after each change    *)
(* the visibility of the handle is what the object's is, or a timer is     *)
(* going to make it so (update_visibility, delayed_resume_cb).             *)
VisibilityTold == \A o \in Objs :
  LET r == e.d[o] IN
  ~e.bad /\ Live(e, o) /\ r.alive /\ r.created /\ ~r.deleted /\ r.handle # None
  /\ e.h[r.handle].st = "live" /\ e.h[r.handle].user /\ ~May("manual")
  => /\ r.resumes => r.shown
     /\ ~r.resumes => (e.h[r.handle].visible <=> r.shown)

(* A handle that the app asked for and that was not deleted is the handle  *)
(* of one object that is there: no faulted, resized or deleted object      *)
(* leaves its handle behind with nobody to delete it (add_widget,          *)
(* activate_ret_cb, widget_created_cb).                                    *)
OneHandle == ~e.bad => \A x \in Handles :
  e.h[x].st \in {"asked", "live"} /\ e.h[x].user =>
    \E o \in Objs : Live(e, o) /\ e.d[o].alive /\ e.d[o].handle = x

(* What is acquired of a resource is shown by one content: each release    *)
(* is of an acquisition and nothing acquired is forgotten while the handle *)
(* lives (acquire_widget_pixmap_cb, the callbacks of the contents).        *)
Shows(o, r) ==
  LET p == e.d[o].widget
      b == e.d[o].bar
  IN IF r = <<"widget", Fb>> THEN p.fb
     ELSE IF r = <<"bar", Fb>> THEN b.fb
     ELSE IF r = <<"widget", Extra>> THEN p.extra
     ELSE IF r = <<"bar", Extra>> THEN b.extra
     ELSE IF r[1] = "widget" THEN p.pixmap = r[2]
     ELSE b.pixmap = r[2]
Resources == {"widget", "bar"} \X {Fb, Extra} \cup {"widget", "bar"} \X {1, 2}
HeldOf(x, r) == IF r \in DOMAIN e.h[x].held THEN e.h[x].held[r] ELSE 0
PixmapHeldOnce == ~e.bad => \A x \in Handles, r \in Resources :
  e.h[x].st = "live" /\ e.h[x].data # None =>
    HeldOf(x, r) = IF \E o \in Objs : Live(e, o) /\ e.d[o].handle = x /\ Shows(o, r) THEN 1 ELSE 0

(* An update is drawn: a content that is dirty, of a widget that is seen,  *)
(* is in the list of the renderer and the renderer runs                    *)
(* (append_widget_dirty_object_list, delayed_resume_cb).                   *)
UpdateShown == \A o \in Objs :
  ~e.bad /\ Live(e, o) /\ e.d[o].widget.dirty /\ Visible(e, o) /\ ~e.d[o].deleted
  /\ e.d[o].created /\ ~May("manual")
  => e.renderer /\ o \in ToSet(e.wdirty)

(* A widget that failed says so: it has the overlay that the user taps to  *)
(* activate it, unless the app hid it (widget_overlay_faulted,             *)
(* widget_overlay_loading, overlay_disable).                               *)
FaultShown == \A o \in Objs :
  ~e.bad /\ Live(e, o) /\ e.d[o].faulted /\ e.d[o].alive => e.d[o].overlay \/ e.d[o].hidden

(* Objects, handles and their data count and find one another              *)
(* (widget_viewer_evas.c, data_create to widget_unref).                    *)
HandlesCounted == TypeOK /\ RefsAreOwed /\ OneHandle

(* What the user sees is what there is: visibility, contents, updates and  *)
(* faults of a widget are on the screen or on their way to it.             *)
Shown == VisibilityTold /\ PixmapHeldOnce /\ UpdateShown /\ FaultShown
=============================================================================
