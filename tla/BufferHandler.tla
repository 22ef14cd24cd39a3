---------------------------- MODULE BufferHandler ----------------------------
(***************************************************************************)
(* The memory the widgets are drawn into, as the master keeps it:          *)
(* buffer_handler.c (buffers and the pixmaps beneath them), the requests   *)
(* of server.c that acquire, resize and release one, script_handler.c and  *)
(* widget-edje's script_port.c (a canvas drawn by the master itself), and  *)
(* the part of instance.c that loads and unloads what an instance has.     *)
(*                                                                         *)
(* A buffer belongs to one instance and outlives reloads; its pixmap lives *)
(* as long as somebody counts on it: the buffer while it is loaded, and    *)
(* each viewer that acquired it, until the viewer releases it or leaves.   *)
(* So a pixmap outlives the buffer, and its instance, under a viewer that  *)
(* still shows it.                                                         *)
(*                                                                         *)
(* Everything runs in the master's main loop: an action is one request or  *)
(* one event, an operator maps the master to what it is after the function *)
(* it stands for.  One instance is looked at: others share nothing with it *)
(* but the list of pixmaps.                                                *)
(***************************************************************************)
EXTENDS Integers, FiniteSets

CONSTANTS
  Clients,     (* viewers                                                   *)
  Sizes,       (* sizes of a buffer, with the one of the package            *)
  First,       (* the size of the package                                   *)
  Types,       (* WIDGET_CONF_PROVIDER_METHOD: pixmap, shm or file          *)
  Uses,        (* what a run may be made of: sets of slots                  *)
  Rare,        (* events left out unless named here                         *)
  MaxPixmaps,  (* bound: pixmaps ever made                                  *)
  MaxHeld      (* bound: pixmaps a viewer holds, times a script is loaded   *)

(* The buffers of an instance: for the widget and for its bar, one of the  *)
(* slave or one of a script, and the extra ones of the slave.              *)
Slots == {"widget", "gbar", "widget_extra", "gbar_extra"}
Extra == {"widget_extra", "gbar_extra"}
Main(s) == CASE s = "widget_extra" -> "widget" [] s = "gbar_extra" -> "gbar" [] OTHER -> s

ASSUME BufferHandlerAssumption ==
  /\ IsFiniteSet(Clients) /\ First \in Sizes
  /\ Types \subseteq {"pixmap", "shm", "file"} /\ Uses \subseteq SUBSET Slots
  /\ MaxPixmaps \in Nat \ {0} /\ MaxHeld \in Nat \ {0}

VARIABLE b

vars == b

Fbs == 1..MaxPixmaps

(* fb: the pixmap in use, 0 for none; lock: its locks for shared memory;   *)
(* opens: how often its script is loaded (script_info.loaded).             *)
NoInfo == [made |-> FALSE, loaded |-> FALSE, fb |-> 0, size |-> First, lock |-> 0, opens |-> 0]

(* listed: its places on s_info.pixmap_list; gem: it can be drawn into by  *)
(* the master; maps: the count and the mapping of the gem.                 *)
NoFb == [st |-> "none", ref |-> 0, listed |-> 0, size |-> First, gem |-> FALSE, maps |-> 0, data |-> FALSE]

(* inst: the instance; reopen: is_opened_for_reactivate; mon: the monitors *)
(* of the bar; held: the callbacks release_pixmap_cb a client has for each  *)
(* pixmap; given: how often it was given one and did not give it back; told: the extra   *)
(* buffers the viewers know of; bad: a pixmap was used that is freed.      *)
Init == \E type \in Types, use \in Uses :
  \E scripts \in SUBSET (use \cap {"widget", "gbar"}),
     gem \in {TRUE} \cup (IF "no_gem" \in Rare THEN {FALSE} ELSE {}) :
    b = [type |-> type, use |-> use, scripts |-> scripts, gem |-> gem,
         inst |-> "new", reopen |-> FALSE, mon |-> {},
         info |-> [s \in Slots |-> NoInfo], fb |-> [f \in Fbs |-> NoFb], next |-> 1,
         live |-> Clients, held |-> [c \in Clients |-> [f \in Fbs |-> 0]],
         given |-> [c \in Clients |-> [f \in Fbs |-> 0]],
         told |-> [s \in Extra |-> 0], bad |-> FALSE]

IsScript(w, s) == Main(s) \in w.scripts
-----------------------------------------------------------------------------
(* Pixmaps *)

(* Only what a script draws needs a gem; the slave maps its own.           *)
CreatePixmap(w, s) ==
  [w EXCEPT !.fb[w.next] = [NoFb EXCEPT !.st = "made", !.ref = 1, !.listed = 1,
                              !.size = w.info[s].size, !.gem = IsScript(w, s) /\ w.gem],
            !.info[s].fb = w.next, !.next = @ + 1]

CanRef(w, s) == w.info[s].loaded /\ w.type = "pixmap"

PixmapRef(w, s) ==
  LET f == w.info[s].fb IN
  IF ~CanRef(w, s) THEN w
  ELSE IF f = 0 THEN CreatePixmap(w, s)
  ELSE [w EXCEPT !.fb[f].ref = @ + 1, !.bad = @ \/ w.fb[f].st # "made"]

(* n references to the pixmap x are given back; it goes with the last.     *)
Unref(x, n) ==
  IF x.st # "made" THEN x
  ELSE IF x.ref > n THEN [x EXCEPT !.ref = @ - n] ELSE [NoFb EXCEPT !.st = "freed"]

Lacks(x, n) == x.st # "made" \/ x.ref < n

PixmapUnref(w, f) ==
  [w EXCEPT !.fb[f] = Unref(@, 1), !.bad = @ \/ Lacks(w.fb[f], 1)]

PixmapFind(w, f) == w.fb[f].listed > 0

(* The master's own access: a gem is mapped while anybody has acquired it. *)
AcquireGem(w, f) ==
  LET p == w.fb[f] IN [w EXCEPT !.fb[f] = [p EXCEPT !.maps = @ + 1, !.data = TRUE]]

ReleaseGem(w, f) ==
  LET p == w.fb[f] IN [w EXCEPT !.fb[f] = [p EXCEPT !.data = p.maps > 1, !.maps = @ - 1]]

(* Without a gem there is no canvas to release it by: the reference stays. *)
AcquireBuffer(w, s) ==
  LET u == PixmapRef(w, s) f == u.info[s].fb IN
  IF f # 0 /\ u.fb[f].gem THEN AcquireGem(u, f) ELSE u

ReleaseBuffer(w, f) ==
  IF f # 0 /\ w.fb[f].data THEN PixmapUnref(ReleaseGem(w, f), f) ELSE w

BufferFb(w, s) == LET u == AcquireBuffer(w, s) IN ReleaseBuffer(u, u.info[s].fb)
-----------------------------------------------------------------------------
(* Buffers *)

Create(w, s) ==
  IF w.info[s].made THEN w ELSE [w EXCEPT !.info[s] = [NoInfo EXCEPT !.made = TRUE]]

(* A lock is made whether there was memory to be shared or not.            *)
Load(w, s, ok) ==
  IF w.info[s].loaded THEN w
  ELSE IF w.type = "pixmap"
  THEN IF ok THEN PixmapRef([w EXCEPT !.info[s].loaded = TRUE], s) ELSE w
  ELSE [w EXCEPT !.info[s].lock = @ + 1, !.info[s].loaded = ok]

Unload(w, s) ==
  IF ~w.info[s].made \/ ~w.info[s].loaded THEN w
  ELSE [IF w.type = "pixmap" THEN PixmapUnref(w, w.info[s].fb)
        ELSE [w EXCEPT !.info[s].lock = @ - 1]
        EXCEPT !.info[s] = [@ EXCEPT !.loaded = FALSE, !.fb = 0]]

Resize(w, s, size, ok) ==
  IF w.info[s].size = size THEN w
  ELSE LET u == [w EXCEPT !.info[s].size = size] IN
       IF w.info[s].loaded THEN Load(Unload(u, s), s, ok) ELSE u

Destroy(w, s) == [Unload(w, s) EXCEPT !.info[s] = NoInfo]
-----------------------------------------------------------------------------
(* Scripts: the canvas of the port is allocated in the buffer              *)

AllocFb(w, s, ok) == BufferFb(Load(w, s, ok), s)
FreeFb(w, s) == Unload(BufferFb(w, s), s)

(* A frame, from render_pre to render_post: acquired, drawn and released.  *)
Frame(w, s) == LET u == AcquireBuffer(w, s) IN ReleaseBuffer(u, u.info[s].fb)

(* The canvas is acquired to be set up, and its first frame follows.       *)
CreateEcoreEvas(w, s, ok) == Frame(BufferFb(AllocFb(w, s, ok), s), s)

(* file: there is a layout to be loaded.                                   *)
PortLoad(w, s, file, ok) ==
  LET u == CreateEcoreEvas(w, s, ok) IN
  IF file THEN [u EXCEPT !.info[s].opens = 1] ELSE FreeFb(u, s)

ScriptLoad(w, s, file, ok) ==
  IF w.info[s].opens > 0 THEN [w EXCEPT !.info[s].opens = @ + 1]
  ELSE PortLoad(w, s, file, ok)

ScriptUnload(w, s) ==
  IF w.info[s].opens = 0 THEN w
  ELSE LET u == [w EXCEPT !.info[s].opens = @ - 1] IN
       IF u.info[s].opens > 0 THEN u ELSE FreeFb(u, s)

(* The canvas takes a new size by freeing and allocating its buffer.       *)
ScriptResize(w, s, size, ok) ==
  LET u == [w EXCEPT !.info[s].size = size] IN
  IF w.info[s].opens > 0 /\ w.info[s].size # size THEN AllocFb(FreeFb(u, s), s, ok) ELSE u

(* script_handler_destroy refuses a script that is still loaded.           *)
ScriptDestroy(w, s) == IF w.info[s].opens > 0 THEN w ELSE Destroy(w, s)
-----------------------------------------------------------------------------
(* Instances *)

Used(w) == {s \in w.use : ~(s \in Extra /\ IsScript(w, s))}

LoadMain(w, s, file, ok) ==
  IF IsScript(w, s) THEN ScriptLoad(w, s, file, ok) ELSE Load(w, s, ok)

UnloadMain(w, s) == IF IsScript(w, s) THEN ScriptUnload(w, s) ELSE Unload(w, s)

(* activate_cb: a script of the widget is loaded, everything else waits    *)
(* for somebody to ask for it.                                             *)
CreateUsed(w, s) == IF s \in w.use THEN Create(w, s) ELSE w

Activate(w, file, ok) ==
  LET a == [CreateUsed(CreateUsed(w, "widget"), "gbar") EXCEPT !.inst = "active"] IN
  IF "widget" \in w.use /\ IsScript(w, "widget") THEN ScriptLoad(a, "widget", file, ok) ELSE a

(* The slave is lost: its monitors end with it, and the main buffers are   *)
(* unloaded.  The extra ones stay.                                         *)
UnloadUsed(w, s) == IF s \in w.use THEN UnloadMain(w, s) ELSE w

StateReset(w) ==
  [UnloadUsed(UnloadUsed(w, "widget"), "gbar")
   EXCEPT !.inst = "reset", !.mon = {},
          !.reopen = IF IsScript(w, "gbar") THEN w.info["gbar"].opens > 0
                     ELSE w.info["gbar"].loaded]

(* reactivate_cb: what was loaded is loaded again; the script of a bar is  *)
(* not.                                                                    *)
Reactivate(w, file, ok) ==
  LET a == [w EXCEPT !.inst = "active"]
      u == IF w.info["widget"].made THEN LoadMain(a, "widget", file, ok) ELSE a IN
  IF w.reopen /\ ~IsScript(w, "gbar") THEN Load(u, "gbar", ok) ELSE u

DestroyUsed(w, s) ==
  IF s \notin w.use THEN w
  ELSE IF IsScript(w, s) THEN ScriptDestroy(ScriptUnload(w, s), s)
  ELSE Destroy(Unload(w, s), s)

DestroyInstance(w) ==
  LET main == DestroyUsed(DestroyUsed(w, "widget"), "gbar")
      all == DestroyUsed(DestroyUsed(main, "widget_extra"), "gbar_extra") IN
  [all EXCEPT !.inst = "freed", !.mon = {}]
-----------------------------------------------------------------------------
(* Requests of the slave *)

(* slave_acquire_buffer: the bar only if it is waited for.                 *)
SlaveAcquireBuffer(w, s, size, ok) ==
  LET open == "open" \in w.mon
      u == IF s = "gbar" THEN [w EXCEPT !.mon = @ \ {IF open THEN "open" ELSE "resize"}] ELSE w IN
  IF w.inst = "destroyed" \/ IsScript(w, s) THEN w
  ELSE IF s = "gbar" /\ ~open /\ "resize" \notin w.mon THEN w
  ELSE Load(Resize(Create(u, s), s, size, ok), s, ok)

(* The viewers are told of an extra buffer that has a pixmap.              *)
TellExtra(w, s) ==
  IF w.info[s].fb # 0 THEN [w EXCEPT !.told[s] = w.info[s].fb] ELSE w

SlaveAcquireExtraBuffer(w, s, size, ok) ==
  IF w.inst = "destroyed" \/ IsScript(w, s) THEN w
  ELSE LET u == Load(Resize(Create(w, s), s, size, ok), s, ok) IN
       IF u.info[s].loaded THEN TellExtra(u, s) ELSE u

SlaveResizeBuffer(w, s, size, ok) ==
  IF w.inst = "destroyed" \/ IsScript(w, s) \/ ~w.info[s].made THEN w
  ELSE Resize(w, s, size, ok)

(* slave_release_buffer: a bar nobody asked to close is expected back.     *)
SlaveReleaseBuffer(w, s, fault) ==
  LET u == Unload(w, s) IN
  IF IsScript(w, s) THEN w
  ELSE IF s = "widget" THEN u
  ELSE IF "close" \in w.mon THEN [u EXCEPT !.mon = @ \ {"close"}]
  ELSE IF w.info[s].loaded /\ ~fault THEN [u EXCEPT !.mon = @ \cup {"resize"}]
  ELSE u

UnloadThenTell(w, s) ==   \* seeded fault: the pixmap is gone before it is told
  LET u == IF IsScript(w, s) THEN w ELSE Unload(w, s) IN
  IF u.info[s].fb # 0 THEN [u EXCEPT !.told[s] = 0] ELSE u

SlaveReleaseExtraBuffer(w, s) ==
  IF IsScript(w, s) THEN w
  ELSE Unload(IF w.info[s].fb # 0 THEN [w EXCEPT !.told[s] = 0] ELSE w, s)

(* slave_updated for a script: the canvas is resized and drawn.            *)
SlaveUpdated(w, s, size, ok) ==
  IF w.inst = "destroyed" THEN w
  ELSE LET u == ScriptResize(w, s, size, ok) IN
       IF u.info[s].opens > 0 THEN Frame(u, s) ELSE u
-----------------------------------------------------------------------------
(* Requests of the viewers *)

(* client_widget_acquire_pixmap and the three like it: the reference goes  *)
(* with the client.  A bar that is being resized has no pixmap to show.    *)
ClientAcquirePixmap(w, c, s) ==
  IF ~CanRef(w, s) \/ (s = "gbar" /\ "resize" \in w.mon) THEN w
  ELSE LET u == PixmapRef(w, s) f == u.info[s].fb IN
       [u EXCEPT !.held[c][f] = @ + 1, !.given[c][f] = @ + 1]

EventCallbackDel(w, c, f) == [w EXCEPT !.held[c][f] = @ - 1]

GivenBack(w, c, f) ==
  [w EXCEPT !.given[c][f] = IF @ > 0 THEN @ - 1 ELSE 0]

ReleaseAnyones(w, c, f) ==   \* seeded fault: the callback is not required
  LET u == GivenBack(w, c, f) IN
  IF ~PixmapFind(w, f) THEN u
  ELSE PixmapUnref(IF w.held[c][f] > 0 THEN EventCallbackDel(u, c, f) ELSE u, f)

(* client_widget_release_pixmap, client_gbar_release_pixmap: only what the *)
(* client itself has acquired, once for each time, and also when the       *)
(* instance is gone.                                                       *)
ClientReleasePixmap(w, c, f) ==
  LET u == GivenBack(w, c, f) IN
  IF PixmapFind(w, f) /\ w.held[c][f] > 0
  THEN PixmapUnref(EventCallbackDel(u, c, f), f) ELSE u

None == [f \in Fbs |-> 0]

LeaveHeld(w, c) ==   \* seeded fault: the client goes without its callbacks
  [w EXCEPT !.live = @ \ {c}, !.held[c] = None, !.given[c] = None]

(* invoke_deactivated_cb: release_pixmap_cb for each, and each is removed. *)
ClientDeactivated(w, c) ==
  LET n == w.held[c] IN
  [w EXCEPT !.fb = [f \in Fbs |-> IF n[f] > 0 THEN Unref(w.fb[f], n[f]) ELSE w.fb[f]],
            !.bad = @ \/ \E f \in Fbs : n[f] > 0 /\ Lacks(w.fb[f], n[f]),
            !.live = @ \ {c}, !.held[c] = None, !.given[c] = None]
-----------------------------------------------------------------------------
(* The main loop.  MaxPixmaps bounds what makes one, MaxHeld what holds.   *)
Room == b.next < MaxPixmaps
Fails == {TRUE} \cup (IF "no_room" \in Rare THEN {FALSE} ELSE {})
(* What a client holds, each time it does.                                 *)
Holds(w, c) == UNION {{f} \X (1..w.held[c][f]) : f \in Fbs}
Alive == b.inst \in {"new", "active", "renewing", "destroyed"}

(* A slave may draw before it has answered that the instance is there.     *)
Activated == \E file \in BOOLEAN, ok \in Fails :
  b.inst = "new" /\ Room /\ b' = Activate(b, file, ok)
SlaveLost == b.inst \in {"active", "renewing"} /\ b' = StateReset(b)
Renew == b.inst = "reset" /\ b' = [b EXCEPT !.inst = "renewing"]
Reactivated == \E file \in BOOLEAN, ok \in Fails :
  b.inst = "renewing" /\ b.next + 1 < MaxPixmaps /\ b' = Reactivate(b, file, ok)
DestroyRequested == b.inst = "active" /\ b' = [b EXCEPT !.inst = "destroyed"]
Destroyed == b.inst \notin {"freed"} /\ b' = DestroyInstance(b)

CreateGbar == \E file \in BOOLEAN, ok \in Fails :
  /\ b.inst = "active" /\ "gbar" \in b.use /\ Room
  /\ IF IsScript(b, "gbar")
     THEN b.info["gbar"].opens < MaxHeld /\ b' = ScriptLoad(b, "gbar", file, ok)
     ELSE b.mon = {} /\ b' = [b EXCEPT !.mon = {"open"}]

DestroyGbar ==
  /\ b.inst = "active" /\ "gbar" \in b.use
  /\ IF IsScript(b, "gbar") THEN b' = ScriptUnload(b, "gbar")
     ELSE /\ "close" \notin b.mon
          /\ b' = [b EXCEPT !.mon = IF @ = {} THEN {"close"}
                                    ELSE IF "open" \in @ THEN @ \ {"open"} ELSE @ \ {"resize"}]

MonitorExpires == \E m \in b.mon : b' = [b EXCEPT !.mon = @ \ {m}]

Slave == \E s \in Used(b), size \in Sizes, ok \in Fails :
  /\ Alive /\ Room
  /\ \/ s \notin Extra /\ b' = SlaveAcquireBuffer(b, s, size, ok)
     \/ s \in Extra /\ b' = SlaveAcquireExtraBuffer(b, s, size, ok)
     \/ s \notin Extra /\ b' = SlaveResizeBuffer(b, s, size, ok)
     \/ s = "widget" /\ IsScript(b, s) /\ b.info[s].made /\ b' = SlaveUpdated(b, s, size, ok)

SlaveReleases == \E s \in Used(b), fault \in BOOLEAN :
  /\ Alive
  /\ \/ s \notin Extra /\ b' = SlaveReleaseBuffer(b, s, fault)
     \/ s \in Extra /\ b' = SlaveReleaseExtraBuffer(b, s)

(* A client may release what it does not hold, or twice.                   *)
Client == \E c \in b.live :
  \/ \E s \in Used(b) : /\ b.inst # "freed" /\ Cardinality(Holds(b, c)) < MaxHeld
                        /\ b' = ClientAcquirePixmap(b, c, s)
  \/ \E f \in 1..(b.next - 1) : b' = ClientReleasePixmap(b, c, f)
  \/ b' = ClientDeactivated(b, c)

ClientConnects == \E c \in Clients \ b.live : b' = [b EXCEPT !.live = @ \cup {c}]

Next ==
  \/ Activated \/ SlaveLost \/ Renew \/ Reactivated \/ DestroyRequested \/ Destroyed
  \/ CreateGbar \/ DestroyGbar \/ MonitorExpires
  \/ Slave \/ SlaveReleases
  \/ Client \/ ClientConnects

Spec == Init /\ [][Next]_vars
=============================================================================
