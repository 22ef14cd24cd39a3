------------------------- MODULE BufferHandlerProps -------------------------
(* What the memory of the widgets keeps to, whoever draws, shows, resizes, *)
(* dies and leaves.                                                        *)
EXTENDS BufferHandler

(* Types; a buffer has a pixmap exactly while it is loaded, and its locks  *)
(* likewise; nothing is mapped between two events of the main loop.        *)
TypeOK ==
  /\ \A s \in Slots :
       LET x == b.info[s] IN
       /\ x.size \in Sizes /\ x.fb \in 0..MaxPixmaps /\ x.opens \in 0..MaxHeld
       /\ x.loaded => x.made
       /\ (x.fb # 0) = (x.loaded /\ b.type = "pixmap")
       /\ x.lock = IF x.loaded /\ b.type # "pixmap" THEN 1 ELSE 0
  /\ \A f \in Fbs : b.fb[f].maps = 0 /\ ~b.fb[f].data

(* buffer_handler_pixmap_ref, buffer_handler_pixmap_unref: a pixmap counts *)
(* the buffer it is loaded for and each client that has to give it back,   *)
(* is on the list once while it counts any, and is never used after it is  *)
(* freed, through every reload, lost slave, viewer and instance.           *)
Users(w, f) == {s \in Slots : w.info[s].fb = f}
Keepers(w, f) == UNION {{c} \X (1..w.held[c][f]) : c \in Clients}

Count(f) == Cardinality(Users(b, f)) + Cardinality(Keepers(b, f))

PixmapHeldExactly ==
  /\ ~b.bad
  /\ \A f \in Fbs :
       LET x == b.fb[f] IN
       /\ x.ref = Count(f) /\ x.listed = (IF x.st = "made" THEN 1 ELSE 0)
       /\ x.st = "made" <=> x.ref > 0

(* client_widget_acquire_pixmap: a pixmap a client was given stays until   *)
(* that client gives it back or leaves, whatever the slave, the instance   *)
(* and the other clients do.                                               *)
GrantKept ==
  \A c \in b.live, f \in Fbs : b.given[c][f] > 0 => b.fb[f].st = "made"

(* slave_acquire_extra_buffer, slave_release_extra_buffer: while there is  *)
(* an instance, the extra pixmap its viewers were last told of is the one  *)
(* that is drawn into.                                                     *)
ExtraTold ==
  b.inst # "freed" => \A s \in Extra : b.told[s] = b.info[s].fb

(* Buffers, their locks and their pixmaps count one another                *)
(* (buffer_handler_load, _unload, _resize, client_release_pixmap).         *)
PixmapsCounted == TypeOK /\ PixmapHeldExactly
=============================================================================
