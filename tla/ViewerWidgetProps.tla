-------------------------- MODULE ViewerWidgetProps --------------------------
(* What the viewer library promises to a viewer and to itself.             *)
EXTENDS ViewerWidget

Commands == v.q \o v.sent

Of(h, s) == SelectSeq(s, LAMBDA x : x.h = h)

Carrying(h, slot) ==
  Len(SelectSeq(Commands, LAMBDA x : x.h = h /\ x.carries /\ x.slot = slot))

\* The slot whose callback a job carries.
JobSlot == [create |-> "created", size |-> "size", delete |-> "deleted"]

JobCarrying(h, slot) ==
  Len(SelectSeq(v.jobs, LAMBDA x : x.h = h /\ x.carries /\ JobSlot[x.job] = slot))

(* Types: a common handle is there exactly while a handle is in its list,  *)
(* and a request is repeated Ttl times at most.                            *)
TypeOK ==
  /\ \A h \in H : /\ v.h[h].st \in {"none", "C", "D", "gone"}
                  /\ v.h[h].com \in 0 .. MaxCommon
                  /\ v.h[h].cb \subseteq Kept
  /\ \A c \in Commons : /\ v.c[c].st \in {"none", "C", "D", "gone"}
                        /\ (v.c[c].list # <<>>) = (v.c[c].st \in {"C", "D"})
                        /\ v.c[c].req \subseteq Kept
  /\ \A x \in ToSet(Commands) : x.ttl \in 1 .. Ttl

(* widget_ref and widget_unref (widget_internal.c:661): every command and  *)
(* every job holds a reference of its handle, so that no callback and no   *)
(* timer meets a handle that was freed; and a handle is in the list of its *)
(* common handle, once, as long as it lives.                               *)
LiveHandles ==
  \A h \in H :
    LET held == Len(Of(h, Commands)) + Len(Of(h, v.jobs)) IN
    /\ held <= v.h[h].ref
    /\ v.h[h].st \in {"none", "gone"} => held = 0
    /\ v.h[h].st \in {"C", "D"} =>
         /\ v.h[h].ref >= 1
         /\ \A c \in Commons :
              Len(SelectSeq(v.c[c].list, LAMBDA x : x = h))
                = IF c = v.h[h].com THEN 1 ELSE 0

(* The callbacks given to the requests (cb_info and the cbs of a handle):  *)
(* each is kept in one place until it is called, through refusals, lost    *)
(* connections, faults, jobs and the end of the handle; none is called     *)
(* twice and none is overwritten.                                          *)
OwedIsCarried ==
  /\ \A h \in H, s \in Slots :
       v.h[h].owed[s] = Carrying(h, s) + JobCarrying(h, s)
                        + (IF s \in v.h[h].cb THEN 1 ELSE 0)
  /\ v.anon = Len(SelectSeq(Commands, LAMBDA x : x.h = NoH /\ x.carries))

(* widget_invoke_event_handler, master_deleted, lost connections: to the   *)
(* viewer that made a widget "deleted" is told once, and is the last event *)
(* it hears of it but for the update that a waiting job tells.             *)
DeletedIsLast == \A h \in H : ~v.h[h].late

(* is_paused_updating (widget_internal.c:311, widget.c:1108): a handle     *)
(* that is shown has seen every update, or is about to be told of it.      *)
NoMissedUpdate ==
  \A h \in H :
    Usable(h) /\ v.h[h].vis /\ v.h[h].missed
      => \E x \in ToSet(v.jobs) : x.h = h /\ x.job = "refresh"

(* Handles, common handles, commands and jobs refer to what is there       *)
(* (widget_internal.c, client.c).                                          *)
HandlesAreLive == TypeOK /\ LiveHandles

(* A viewer gets each answer it is owed, once, and nothing of a widget     *)
(* after its end (widget.c, widget_invoke_event_handler).                  *)
ViewerIsTold == OwedIsCarried /\ DeletedIsLast
=============================================================================
