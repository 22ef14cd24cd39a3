-------------------------- MODULE ViewerTouchProps --------------------------
(***************************************************************************)
(* What is to hold of the fingers on a widget object.                      *)
(***************************************************************************)
EXTENDS ViewerTouch, ViewerEvasProps

(* What the master was told is pressed, the object still knows to be       *)
(* pressed, and so will tell when it goes: no press of a provider is left  *)
(* behind by a second finger, an up fed by the app, an object that moves   *)
(* or a bar that opens (SET_PRESSED, SET_RELEASED and every feed of a down *)
(* or an up).                                                              *)
PressTold == ~e.bad => \A o \in Objs :
  LET x == e.d[o].handle IN
  x # None /\ e.h[x].st = "live" => \A f \in t.fed[x] : f[2] \in t.p[o].pressed

(* From the first finger to the last the provider is told once at most     *)
(* that the press is a hold, and what was a hold is no click               *)
(* (cancel_click: the comments at widget_viewer_evas.c:1486 and 3343).     *)
OneHold == ~e.bad => \A o \in Objs :
  /\ t.p[o].holds <= 1 /\ t.p[o].clicks <= 1
  /\ t.p[o].clicks = 1 => t.p[o].holds = 0

(* The fingers on an object and the presses a provider was told of agree   *)
(* from the first down to the last up.                                     *)
TouchTold == PressTold /\ OneHold
=============================================================================
