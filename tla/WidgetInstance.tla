--------------------------- MODULE WidgetInstance ---------------------------
(***************************************************************************)
(* One widget instance of the data-provider-master between the client that *)
(* owns it, the viewers that watch it and the slave that draws it:         *)
(* instance.c (life cycle, reference count, GBAR), the handlers of server.c *)
(* that open, close, resize and delete, the disconnection of a client      *)
(* (client_life.c) and what package.c does when the slave comes and goes.  *)
(*                                                                         *)
(* As in SlaveLife, an operator maps the master's state to the state after *)
(* the C function it is named for, and an action is one run of a main-loop *)
(* callback.  Here the slave is environment: it is up or not, it answers   *)
(* requests in any order, well, badly or (when it goes) not at all.        *)
(***************************************************************************)
EXTENDS Integers, Sequences, FiniteSets, SequencesExt

CONSTANTS
  Clients,   (* client nodes                                                *)
  NoClient,  (* no client: inst->client or gbar.owner is NULL               *)
  MaxOut,    (* bound: requests of one kind the slave has not answered      *)
  Rare       (* the rarer things the environment does, see RareEvents       *)

RareEvents ==
  {"owner leaves",   \* the client whose GBAR is open disconnects
   "cancel",         \* a GBAR is closed before it was reported open
   "late release",   \* a slow slave releases the buffer of an earlier GBAR
   "early viewer",   \* a client subscribes before the widget is created
   "lost delete",    \* the slave goes while it is asked to delete
   "early open",     \* a GBAR is opened while the instance is being renewed
   "cold reload"}    \* an upgrade reloads an instance whose slave is off

ASSUME WidgetAssumption ==
  /\ NoClient \notin Clients /\ IsFiniteSet(Clients)
  /\ MaxOut \in Nat \ {0}
  /\ Rare \subseteq RareEvents

VARIABLE m

vars == m

Requesting == {"TO_ACTIVATE", "TO_REACTIVATE", "TO_DESTROY"}
States == {"INIT", "ACTIVATED", "DESTROYED"} \cup Requesting

(* Requests with a callback; "param" stands for those that change a value  *)
(* (size, period, group, pin, update mode).                                *)
StateRequests == {"new", "renew", "delete"}
Requests == StateRequests \cup {"param"}

(* The timers an instance carries by tag.                                  *)
Tags == {"lazyOpen", "lazyClose", "open", "close", "resize"}

NoRequests == [r \in Requests |-> 0]
NoTimers == [t \in Tags |-> 0]

(* Nothing can be followed past the use of a freed instance or client.     *)
Sound == ~m.uaf

Ups(s) == {c \in Clients : s.cl[c] = "up"}

\* Whom client_send_event reaches
Hears(s) == Ups(s) \cap (s.viewers \cup {s.owner})

OpenTag(s)  == IF s.gtype = "buffer" THEN "open" ELSE "lazyOpen"
OpenFault(s)  == IF s.gtype = "buffer" THEN "openBuffer" ELSE "openScript"
CloseFault(s) == IF s.gtype = "buffer" THEN "closeBuffer" ELSE "closeScript"
-----------------------------------------------------------------------------
(* What clients are told *)

Created(s, who) == [s EXCEPT !.knows = @ \cup (who \cap Ups(s))]

Deleted(s, who) ==
  [s EXCEPT !.knows = @ \ who,
            !.gview = [c \in Clients |-> IF c \in who THEN "closed" ELSE @[c]]]

GbarCreated(s, ok) ==
  IF s.gopen THEN s
  ELSE [s EXCEPT !.gopen = ok,
                 !.gview = [c \in Clients |->
                   IF c \in Hears(s) /\ @[c] = "opening"
                   THEN IF ok THEN "open" ELSE "closed" ELSE @[c]]]

\* Seeded fault: reports a GBAR gone that was never reported
GbarDestroyedNever(s, fault) == [s EXCEPT !.gopen = FALSE]

GbarDestroyed(s, fault) ==
  IF ~s.gopen /\ ~fault THEN s
  ELSE [s EXCEPT !.gopen = FALSE,
                 !.gview = [c \in Clients |->
                   IF c \in Hears(s) /\ @[c] \in {"open", "closing"}
                   THEN "closed" ELSE @[c]]]
-----------------------------------------------------------------------------
(* Client nodes and their callbacks.  A client keeps what it has to call   *)
(* when it is deactivated, the latest first: the "owner" and "viewer"      *)
(* callbacks of an instance and the one that closes its "gbar".            *)

\* Nodes nobody refers to any more are freed with their callbacks.
Forget(s) ==
  LET free == {c \in Clients : s.cl[c] = "faulted" /\ c \notin s.lazy
                               /\ ~(s.alive /\ s.owner = c)}
  IN  [s EXCEPT !.cl = [c \in Clients |-> IF c \in free THEN "gone" ELSE @[c]],
                !.oncl = [c \in Clients |-> IF c \in free THEN <<>> ELSE @[c]]]

HasCallback(s, c, cb) == \E k \in DOMAIN s.oncl[c] : s.oncl[c][k] = cb

AddCallback(s, c, cb) == [s EXCEPT !.oncl[c] = <<cb>> \o @]

(* While the list is walked an item is only marked.                        *)
DelCallback(s, c, cb) ==
  IF s.firing = c THEN [s EXCEPT !.marked = @ \cup {cb}]
  ELSE [s EXCEPT !.oncl[c] = RemoveFirst(@, cb)]

AddFault(s, cb) == [s EXCEPT !.ondown = <<cb>> \o @]
DelFault(s, cb) == [s EXCEPT !.ondown = RemoveFirst(@, cb)]
-----------------------------------------------------------------------------
(* The instance's reference count *)

Ref(s) == [s EXCEPT !.refcnt = @ + 1]

(* destroy_instance: what is left refers to freed memory.                  *)
Free(s) ==
  LET t == GbarDestroyed(s, FALSE)
      u == IF t.owner = NoClient THEN t ELSE DelCallback(t, t.owner, "owner")
  IN  Forget([u EXCEPT !.alive = FALSE, !.refcnt = 0, !.tag = {},
                       !.state = "DESTROYED", !.req = "DESTROYED",
                       !.changing = 0, !.unicast = TRUE, !.gload = 0,
                       !.greact = FALSE, !.gowner = NoClient,
                       !.owner = NoClient])

Unref(s) ==
  IF ~s.alive THEN [s EXCEPT !.uaf = TRUE]
  ELSE IF s.refcnt = 1 THEN Free(s) ELSE [s EXCEPT !.refcnt = @ - 1]

Unrefs(s, n) ==
  IF n > 0 /\ (~s.alive \/ s.refcnt < n) THEN [s EXCEPT !.uaf = TRUE]
  ELSE IF n > 0 /\ s.refcnt = n THEN Free(s)
  ELSE [s EXCEPT !.refcnt = @ - n]

SetTimer(s, t) == Ref([s EXCEPT !.tag = @ \cup {t}, !.timer[t] = @ + 1])

(* A timer that ended, or was deleted, with its tag.                       *)
DropTimer(s, t) == [s EXCEPT !.tag = @ \ {t}, !.timer[t] = @ - 1]

Ask(s, r) ==
  Ref([s EXCEPT !.out[r] = @ + 1,
                !.changing = IF r \in StateRequests THEN @ + 1 ELSE @])
-----------------------------------------------------------------------------
(* Closing and opening the GBAR *)

ReleaseResource(s, c) ==
  LET o == IF c = NoClient THEN s.gowner ELSE c
  IN  IF o = NoClient THEN s
      ELSE IF s.cl[o] = "gone" THEN [s EXCEPT !.uaf = TRUE]
      ELSE IF HasCallback(s, o, "gbar") THEN Unref(DelCallback(s, o, "gbar"))
      ELSE s

SlaveCloseGbar(s, c) ==
  IF s.gowner # c THEN s
  ELSE LET t == ReleaseResource(s, c)
       IN  IF t.alive THEN [t EXCEPT !.gowner = NoClient]
           ELSE [t EXCEPT !.uaf = TRUE]

SlaveOpenGbar(s, c) ==
  LET o == IF c = NoClient THEN s.gowner ELSE c
  IN  IF o = NoClient THEN s
      ELSE IF s.cl[o] = "gone" THEN [s EXCEPT !.uaf = TRUE]
      ELSE Ref(AddCallback([s EXCEPT !.gowner = o], o, "gbar"))

LoadGbar(s) ==
  [s EXCEPT !.gload = IF s.gtype = "script" THEN @ + 1 ELSE 1]

UnloadGbar(s) ==
  [s EXCEPT !.gload = IF s.gtype = "script" /\ @ > 0 THEN @ - 1 ELSE 0]

StateReset(s) ==
  IF s.state = "DESTROYED" THEN [s EXCEPT !.state = "INIT", !.req = "INIT"]
  ELSE [UnloadGbar(ReleaseResource(s, NoClient)) EXCEPT
          !.greact = s.gload > 0, !.state = "INIT", !.req = "INIT"]
-----------------------------------------------------------------------------
(* Destroying the instance *)

Destroy(s) ==
  CASE s.state \in Requesting \cup {"DESTROYED"} ->
         [s EXCEPT !.req = "DESTROYED"]
    [] s.state = "INIT" ->
         Unref([s EXCEPT !.state = "DESTROYED", !.req = "DESTROYED"])
    [] OTHER ->
         Ask([s EXCEPT !.state = "TO_DESTROY", !.req = "DESTROYED"], "delete")

(* viewer_deactivated_cb; the last viewer of a widget nobody owns ends it. *)
\* Seeded fault: leaves the viewer's reference behind
ViewerLeak(s, c) == [s EXCEPT !.viewers = @ \ {c}]

ViewerDeactivated(s, c) ==
  LET t == [s EXCEPT !.viewers = @ \ {c}]
  IN  IF c \notin s.viewers THEN s
      ELSE Unref(IF t.viewers = {} /\ t.owner = NoClient THEN Destroy(t) ELSE t)

DelClient(s, c) == ViewerDeactivated(DelCallback(s, c, "viewer"), c)

AddClient(s, c) ==
  IF s.owner = c THEN s
  ELSE Ref(AddCallback([s EXCEPT !.viewers = @ \cup {c}], c, "viewer"))

UnicastDeleted(s) == Deleted(s, {s.owner})

BroadcastDeleted(s) ==
  FoldLeft(DelClient, Deleted(s, Hears(s)), SetToSeq(s.viewers))

TellDeleted(s) == IF s.unicast THEN UnicastDeleted(s) ELSE BroadcastDeleted(s)

(* instance_destroy for a package that is uninstalled or upgraded.         *)
DestroyUninstalled(s) ==
  IF s.state = "ACTIVATED" /\ s.slave = "off"
  THEN Unref([TellDeleted(s) EXCEPT !.state = "DESTROYED",
                                    !.req = "DESTROYED"])
  ELSE Destroy(s)

(* instance_destroyed: the slave, or a fault of it, ended the instance.    *)
Destroyed(s) ==
  IF s.state = "DESTROYED" THEN s
  ELSE LET t == IF s.state \in {"INIT", "TO_ACTIVATE"} THEN TellDeleted(s)
                ELSE BroadcastDeleted(s)
       IN  Destroy(StateReset(t))
-----------------------------------------------------------------------------
(* Activating the instance *)

(* The slave is launched, or that fails.                                   *)
Launchable(s, launch) == s.slave # "off" \/ launch

SlaveActivate(s) == [s EXCEPT !.slave = IF @ = "off" THEN "starting" ELSE @]

CanActivate(s, launch) ==
  ~s.fault /\ (s.state = "INIT" => Launchable(s, launch))

Activate(s, launch, r) ==
  IF s.fault THEN s
  ELSE IF s.state \in Requesting THEN [s EXCEPT !.req = "ACTIVATED"]
  ELSE IF s.state = "INIT" /\ Launchable(s, launch) THEN
         Ask([SlaveActivate(s) EXCEPT !.req = "ACTIVATED",
                !.state = IF r = "new" THEN "TO_ACTIVATE" ELSE "TO_REACTIVATE"], r)
  ELSE s

Subscribers(s) == {c \in Ups(s) : s.sub[c]} \ (s.viewers \cup {s.owner})

BroadcastCreated(s) ==
  LET t == [FoldLeft(AddClient, s, SetToSeq(Subscribers(s)))
              EXCEPT !.unicast = FALSE]
  IN  Created(t, Hears(t))

(* instance_recover_state: the slave is activated.                         *)
\* Seeded fault: does not look for a request that is still outstanding
RecoverTwice(s, launch) ==
  IF s.state \in {"ACTIVATED", "TO_REACTIVATE"} /\ s.req = "ACTIVATED"
  THEN Activate(StateReset(s), launch, "renew")
  ELSE IF s.state \in {"INIT", "TO_ACTIVATE"} /\ s.req \in {"ACTIVATED", "INIT"}
  THEN Activate(StateReset(s), launch, "new") ELSE s

RecoverState(s, launch) ==
  LET t == IF s.fault THEN [s EXCEPT !.req = "DESTROYED"] ELSE s
      u == StateReset(t)
  IN  IF s.changing > 0 \/ s.state = "DESTROYED" THEN s
      ELSE IF t.req = "DESTROYED" THEN Destroy(u)
      ELSE IF t.req = "ACTIVATED"
           /\ t.state \in {"ACTIVATED", "TO_REACTIVATE", "TO_DESTROY"} THEN
             Activate(u, launch, "renew")
      ELSE IF t.req \in {"ACTIVATED", "INIT"} /\ t.state \in {"INIT", "TO_ACTIVATE"} THEN
             IF CanActivate(u, launch) THEN Activate(u, launch, "new")
             ELSE Destroy(StateReset(BroadcastDeleted(u)))
      ELSE s

(* instance_need_slave: the slave is deactivated.                          *)
Faulted(s) == s.owner # NoClient /\ s.cl[s.owner] # "up"

NeedsSlave(s) ==
  ~Faulted(s) /\ s.state # "DESTROYED" /\ s.req \in {"INIT", "ACTIVATED"}

NeedSlave(s) ==
  IF s.state # "DESTROYED" /\ (Faulted(s) \/ s.req = "DESTROYED")
  THEN Destroy(StateReset(s)) ELSE s
-----------------------------------------------------------------------------
(* Answers of the slave: "ok", "bad" (it refuses) and, for a slave that is *)
(* gone, none at all.                                                      *)

\* out: every callback of a state request ends here
Settle(s) == Unref([s EXCEPT !.changing = @ - 1])

Unload(s) == Destroy(StateReset(s))

DeactivateCb(s, a, launch) ==
  Settle(
    IF s.state = "DESTROYED" THEN s
    ELSE IF a = "ok" /\ s.req = "ACTIVATED" THEN
           Activate(StateReset(s), launch, "renew")
    ELSE IF a = "ok" /\ s.req = "DESTROYED" THEN Unload(TellDeleted(s))
    ELSE IF a = "bad" THEN Unload(BroadcastDeleted(s))
    ELSE s)

(* The GBAR that was open when the slave went is opened again.             *)
Reopen(s) ==
  IF ~s.greact THEN s
  ELSE SlaveOpenGbar(IF s.gtype = "buffer" THEN LoadGbar(s) ELSE s, NoClient)

ReactivateCb(s, a) ==
  LET t == [s EXCEPT !.state = "ACTIVATED"]
  IN  Settle(
        IF s.state = "DESTROYED" THEN s
        ELSE IF a = "bad" THEN Unload(BroadcastDeleted(s))
        ELSE IF s.req = "DESTROYED" THEN Destroy(t)
        ELSE IF s.req = "ACTIVATED" THEN Reopen(t)
        ELSE t)

ActivateCb(s, a) ==
  LET t == [s EXCEPT !.state = "ACTIVATED"]
  IN  Settle(
        IF s.state = "DESTROYED" THEN s
        ELSE IF a = "bad" THEN Unload(UnicastDeleted(s))
        ELSE IF s.req = "DESTROYED" THEN Destroy(t)
        ELSE BroadcastCreated(t))

Outstanding(s) == s.out["new"] + s.out["renew"] + s.out["delete"] + s.out["param"]

(* Every request of a slave that is gone is answered by NULL: its callback *)
(* counts it and lets go of the instance.                                  *)
NullAnswers(s) ==
  Unrefs([s EXCEPT !.out = NoRequests,
                   !.changing = @ - (Outstanding(s) - s.out["param"])],
         Outstanding(s))
-----------------------------------------------------------------------------
(* Callbacks on the deactivation of the slave, and the GBAR's timers       *)

FaultOpenScript(s) ==
  LET t == GbarCreated(SlaveCloseGbar(UnloadGbar(s), s.gowner), FALSE)
  IN  Unref(IF "lazyOpen" \in t.tag THEN DropTimer(t, "lazyOpen") ELSE t)

FaultOpenBuffer(s) ==
  LET t == GbarCreated(SlaveCloseGbar(s, s.gowner), FALSE)
  IN  Unref(IF "open" \in t.tag THEN DropTimer(t, "open") ELSE t)

FaultCloseScript(s) ==
  LET t == GbarDestroyed(s, TRUE)
  IN  Unref(IF "lazyClose" \in t.tag THEN DropTimer(t, "lazyClose") ELSE t)

FaultCloseBuffer(s) ==
  LET t == GbarDestroyed(s, TRUE)
  IN  Unref(IF "lazyClose" \in t.tag THEN DropTimer(t, "lazyClose")
            ELSE IF "close" \in t.tag THEN DropTimer(t, "close")
            ELSE t)

FaultResizeBuffer(s) ==
  LET t == GbarDestroyed(SlaveCloseGbar(s, s.gowner), TRUE)
  IN  Unref(IF "resize" \in t.tag THEN DropTimer(t, "resize") ELSE t)

OnDown(s, cb) ==
  CASE cb = "openScript"  -> FaultOpenScript(s)
    [] cb = "openBuffer"  -> FaultOpenBuffer(s)
    [] cb = "closeScript" -> FaultCloseScript(s)
    [] cb = "closeBuffer" -> FaultCloseBuffer(s)
    [] OTHER              -> FaultResizeBuffer(s)

LazyCreated(s) ==
  LET t == Unref(DelFault(DropTimer(s, "lazyOpen"), "openScript"))
  IN  IF t.alive THEN GbarCreated(t, TRUE) ELSE t

LazyDestroyed(s) ==
  LET t == Unref(DelFault(DropTimer(s, "lazyClose"), CloseFault(s)))
  IN  IF t.alive THEN GbarDestroyed(t, FALSE) ELSE t

OpenMonitor(s) ==
  LET t == SlaveCloseGbar(DelFault(s, "openBuffer"), s.gowner)
  IN  Unref(DropTimer(GbarCreated(t, FALSE), "open"))

CloseMonitor(s) ==
  LET t == GbarDestroyed(DelFault(s, "closeBuffer"), FALSE)
  IN  Unref(DropTimer(t, "close"))

ResizeMonitor(s) ==
  LET t == SlaveCloseGbar(DelFault(s, "resizeBuffer"), s.gowner)
  IN  Unref(DropTimer(GbarDestroyed(t, FALSE), "resize"))
-----------------------------------------------------------------------------
(* The clients *)

NoInstance(g) ==
  [alive |-> FALSE, uaf |-> FALSE, refcnt |-> 0, state |-> "DESTROYED",
   req |-> "DESTROYED", changing |-> 0, unicast |-> TRUE, owner |-> NoClient,
   viewers |-> {}, gtype |-> g, gowner |-> NoClient, gopen |-> FALSE,
   greact |-> FALSE, gload |-> 0, tag |-> {}, timer |-> NoTimers,
   out |-> NoRequests, ondown |-> <<>>, oncl |-> [c \in Clients |-> <<>>],
   firing |-> NoClient, marked |-> {}, lazy |-> {}, slave |-> "off",
   fault |-> FALSE, cl |-> [c \in Clients |-> "gone"],
   sub |-> [c \in Clients |-> FALSE], knows |-> {},
   gview |-> [c \in Clients |-> "closed"]]

Init == m \in {NoInstance("buffer"), NoInstance("script")}

Connect(c) ==
  /\ m.cl[c] = "gone" /\ m.gowner # c
  /\ m' = [m EXCEPT !.cl[c] = "up", !.sub[c] = FALSE, !.knows = @ \ {c},
                    !.gview[c] = "closed"]

OnDeactivated(s, c, cb) ==
  IF cb \in s.marked THEN s
  ELSE IF cb = "viewer" THEN ViewerDeactivated(s, c)
       ELSE IF cb = "owner" THEN Destroy(s)
       ELSE IF s.gtype = "script" THEN Unref(SlaveCloseGbar(UnloadGbar(s), c))
       ELSE Unref(SlaveCloseGbar(s, c))

(* client_deactivated_by_fault: the client's connection is gone.           *)
Disconnect(c) ==
  LET s == [m EXCEPT !.cl[c] = "faulted", !.firing = c, !.knows = @ \ {c},
                     !.gview[c] = "closed", !.sub[c] = FALSE]
      t == FoldLeft(LAMBDA a, cb : OnDeactivated(a, c, cb), s, s.oncl[c])
      \* the owner's callback asks to be kept
      u == [t EXCEPT !.firing = NoClient, !.marked = {},
                     !.oncl[c] = IF "owner" \in t.marked THEN <<>>
                                 ELSE SelectSeq(@, LAMBDA cb : cb = "owner")]
  IN  /\ m.cl[c] = "up"
      /\ m.gowner = c => "owner leaves" \in Rare
      /\ m' = Forget(u)

(* client_new, or a package that creates its widget itself (c = NoClient). *)
ClientNew(c, launch) ==
  LET s == [NoInstance(m.gtype) EXCEPT
              !.alive = TRUE, !.refcnt = 1, !.state = "INIT", !.req = "INIT",
              !.owner = c, !.cl = m.cl, !.sub = m.sub, !.oncl = m.oncl,
              !.slave = m.slave, !.fault = m.fault, !.knows = m.knows,
              !.gview = m.gview, !.lazy = m.lazy, !.timer = m.timer,
              !.ondown = m.ondown, !.out = m.out, !.tag = m.tag]
      t == IF c = NoClient THEN s ELSE AddCallback(s, c, "owner")
  IN  /\ ~m.alive /\ ~m.fault
      /\ c # NoClient => m.cl[c] = "up"
      /\ m' = IF CanActivate(t, launch) THEN Activate(t, launch, "new")
              ELSE Destroy(StateReset(t))

(* client_delete: the owner ends the instance, a viewer leaves it, once    *)
(* the reply is out.                                                       *)
ClientDelete(c) ==
  /\ m.alive /\ ~m.fault /\ m.cl[c] = "up" /\ c \in m.knows
  /\ c \notin m.lazy
  /\ m' = IF m.owner = c THEN Destroy(m)
          ELSE IF c \in m.viewers THEN Ref([m EXCEPT !.lazy = @ \cup {c}])
          ELSE m

LazyDelete(c) ==
  LET t == IF c \in m.viewers THEN DelClient(Deleted(m, {c}), c) ELSE m
  IN  /\ c \in m.lazy
      /\ m' = Unref(Forget([t EXCEPT !.lazy = @ \ {c}]))

(* package_alter_instances_to_client                                       *)
SubscribedGroup(c) ==
  LET s == [m EXCEPT !.sub[c] = TRUE]
      known == /\ m.alive /\ m.owner # c /\ c \notin m.viewers
               /\ m.state # "DESTROYED"
  IN  /\ m.cl[c] = "up" /\ ~m.sub[c]
      /\ known /\ m.unicast => "early viewer" \in Rare
      /\ m' = IF ~known THEN s
              ELSE AddClient(IF m.state \in {"INIT", "TO_ACTIVATE"} THEN s
                             ELSE Created(s, {c}), c)

UnsubscribedGroup(c) ==
  LET s == [m EXCEPT !.sub[c] = FALSE]
  IN  /\ m.cl[c] = "up" /\ m.sub[c]
      /\ m' = IF ~m.alive \/ c \notin m.viewers \/ m.state = "DESTROYED" THEN s
              ELSE DelClient(IF m.state \in {"INIT", "TO_ACTIVATE"} THEN s
                             ELSE Deleted(s, {c}), c)

(* client_resize, client_set_period, client_change_group, ...: a request   *)
(* whose callback reports to the clients.                                  *)
ClientResize(c) ==
  /\ m.alive /\ ~m.fault /\ m.cl[c] = "up" /\ m.owner = c /\ c \in m.knows
  /\ m.out["param"] < MaxOut
  /\ m' = Ask(m, "param")

ActivatePackage == m.fault /\ m' = [m EXCEPT !.fault = FALSE]
-----------------------------------------------------------------------------
(* GBAR requests of a client that sees no GBAR, or its own *)

MayAsk(c) == m.alive /\ ~m.fault /\ m.cl[c] = "up" /\ c \in m.knows \cap Hears(m)

\* A close that waits for its report is reported first.
Reported(s) == IF "lazyClose" \in s.tag THEN LazyDestroyed(s) ELSE s

ShowGbar(s, c) ==
  AddFault(SetTimer([s EXCEPT !.gview[c] = "opening"], OpenTag(s)), OpenFault(s))

\* Seeded fault: opens while an earlier GBAR is being closed or resized
CreateGbarAnyway(c) ==
  /\ MayAsk(c) /\ m.gview[c] = "closed" /\ m.gowner = NoClient
  /\ m' = ShowGbar(SlaveOpenGbar(Reported(m), c), c)

CreateGbar(c) ==
  LET s    == Reported(m)
      busy == s.gtype = "buffer" /\ s.tag \cap {"open", "close", "resize"} # {}
      t    == SlaveOpenGbar(s, c)
  IN  /\ MayAsk(c) /\ m.gview[c] = "closed" /\ m.gowner = NoClient
      /\ m.state = "ACTIVATED" \/ "early open" \in Rare
      /\ m' = IF ~s.alive THEN [s EXCEPT !.uaf = TRUE]
              ELSE IF busy THEN s
              ELSE IF s.gtype = "script" THEN ShowGbar(LoadGbar(t), c)
              ELSE ShowGbar(t, c)

(* The owner closes before the provider drew anything.                     *)
CancelGbar(s, c) ==
  LET t == GbarDestroyed(GbarCreated(DelFault(s, "openBuffer"), FALSE), FALSE)
      u == SlaveCloseGbar([t EXCEPT !.gview[c] = "closing"], c)
  IN  Unref(DropTimer(u, "open"))

HideGbar(s, c, t) ==
  AddFault(SetTimer(SlaveCloseGbar([s EXCEPT !.gview[c] = "closing"], c), t),
           CloseFault(s))

DestroyBuffer(s, c) ==
  IF "open" \in s.tag THEN CancelGbar(s, c)
  ELSE IF s.tag \cap {"lazyClose", "close"} # {} THEN s
  ELSE IF "resize" \in s.tag THEN
         LET t == Unref(DropTimer(DelFault(s, "resizeBuffer"), "resize"))
         IN  IF t.alive THEN HideGbar(t, c, "lazyClose") ELSE t
  ELSE HideGbar(s, c, "close")

DestroyScript(s, c) ==
  LET t == IF "lazyOpen" \in s.tag THEN LazyCreated(s) ELSE s
  IN  IF t.alive THEN HideGbar(UnloadGbar(t), c, "lazyClose")
      ELSE [t EXCEPT !.uaf = TRUE]

DestroyGbar(c) ==
  /\ MayAsk(c) /\ m.gowner = c
  /\ m.gview[c] \in {"open"} \cup IF "cancel" \in Rare \/ m.gtype = "script"
                                  THEN {"opening"} ELSE {}
  /\ m' = IF m.gtype = "script" THEN DestroyScript(m, c) ELSE DestroyBuffer(m, c)

Expire(t) ==
  /\ m.timer[t] > 0
  /\ m' = IF ~m.alive THEN [m EXCEPT !.uaf = TRUE]
          ELSE IF t = "lazyOpen" THEN LazyCreated(m)
          ELSE IF t = "lazyClose" THEN LazyDestroyed(m)
          ELSE IF t = "open" THEN OpenMonitor(m)
          ELSE IF t = "close" THEN CloseMonitor(m)
          ELSE ResizeMonitor(m)
-----------------------------------------------------------------------------
(* The slave *)

(* It draws the GBAR of an instance it was asked to create, afterwards.    *)
FromSlave == m.alive /\ ~m.fault /\ m.slave = "up"
             /\ m.out["new"] = 0 /\ m.out["renew"] = 0

(* slave_acquire_buffer: the slave asks for the GBAR's frame buffer.       *)
AcquireBuffer ==
  LET t == IF "open" \in m.tag
           THEN Unref(DropTimer(DelFault(m, "openBuffer"), "open"))
           ELSE Unref(DropTimer(DelFault(m, "resizeBuffer"), "resize"))
  IN  /\ FromSlave /\ m.gtype = "buffer" /\ m.state # "DESTROYED"
      /\ m.tag \cap {"open", "resize"} # {}
      /\ m' = IF ~t.alive THEN t
              ELSE IF "open" \in m.tag THEN GbarCreated(LoadGbar(t), TRUE)
              ELSE LoadGbar(t)

(* slave_release_buffer: after a close of the client it is gone, without   *)
(* one the slave is expected to come back with another size.               *)
ReleaseBuffer ==
  LET t == Unref(DropTimer(DelFault(m, "closeBuffer"), "close"))
  IN  /\ FromSlave /\ m.gtype = "buffer"
      /\ "open" \in m.tag => "late release" \in Rare
      /\ m' = IF "close" \in m.tag
              THEN IF t.alive THEN GbarDestroyed(UnloadGbar(t), FALSE) ELSE t
              ELSE IF m.gload = 0 THEN m
              ELSE AddFault(SetTimer(UnloadGbar(m), "resize"), "resizeBuffer")

(* slave_deleted                                                           *)
SlaveDeleted ==
  /\ FromSlave
  /\ m' = Destroyed(m)

Answer(r, a, launch) ==
  LET s == [m EXCEPT !.out[r] = @ - 1]
  IN  /\ m.slave = "up" /\ m.out[r] > 0
      /\ m' = CASE r = "new"    -> ActivateCb(s, a)
                [] r = "renew"  -> ReactivateCb(s, a)
                [] r = "delete" -> DeactivateCb(s, a, launch)
                [] OTHER        -> Unref(s)

Leaving(s) == s.alive /\ s.req = "DESTROYED" /\ s.state # "DESTROYED"

SlaveUp(launch) ==
  LET s == [m EXCEPT !.slave = "up"]
  IN  /\ m.slave = "starting"
      /\ Leaving(m) /\ m.changing = 0 => "lost delete" \in Rare
      /\ m' = IF m.alive THEN RecoverState(s, launch) ELSE s

\* Somebody else (another instance, another package) starts the slave.
SlaveStart == m.slave = "off" /\ m' = [m EXCEPT !.slave = "starting"]

(* slave_deactivated, with the callbacks registered on it: the latest      *)
(* first, so those of the GBARs, then package.c's, then slave_rpc.c's.     *)
Down(s) ==
  LET a == FoldLeft(OnDown, [s EXCEPT !.slave = "off", !.ondown = <<>>], s.ondown)
      b == IF ~a.alive THEN a
           ELSE IF a.fault THEN Destroyed(a) ELSE NeedSlave(a)
  IN  NullAnswers(b)

(* The slave ends; it is started again when an instance wants it.          *)
SlaveDown(again) ==
  LET t == Down(m)
  IN  /\ m.slave # "off"
      /\ Leaving(m) => "lost delete" \in Rare
      /\ m' = IF again /\ m.alive /\ NeedsSlave(m) THEN SlaveActivate(t) ELSE t

(* The slave is given up: its package is faulty from now on.               *)
SlaveFault ==
  LET s == [m EXCEPT !.fault = TRUE]
  IN  /\ m.slave # "off" /\ ~m.fault
      /\ m' = Down(IF s.alive THEN Destroyed(s) ELSE s)

(* uninstall_cb, and instance_reload by an upgrade.                        *)
Uninstall == m.alive /\ m' = DestroyUninstalled(m)

Reload(launch) ==
  /\ m.alive /\ m.state \in {"INIT", "ACTIVATED"}
  /\ m.slave = "off" => "cold reload" \in Rare
  /\ m' = IF m.state = "INIT" \/ m.slave = "off"
          THEN Activate([m EXCEPT !.state = "INIT"], launch, "new")
          ELSE Ask([m EXCEPT !.state = "TO_DESTROY", !.req = "ACTIVATED"], "delete")
-----------------------------------------------------------------------------
Room == \A r \in Requests : m.out[r] < MaxOut

Next ==
  /\ Sound
  /\ \/ \E c \in Clients : \/ Connect(c) \/ Disconnect(c) \/ ClientDelete(c)
                           \/ LazyDelete(c) \/ SubscribedGroup(c)
                           \/ UnsubscribedGroup(c) \/ ClientResize(c)
                           \/ CreateGbar(c) \/ DestroyGbar(c)
     \/ \E launch \in BOOLEAN :
          \/ \E c \in Clients \cup {NoClient} : ClientNew(c, launch)
          \/ \E r \in Requests, a \in {"ok", "bad"} : Answer(r, a, launch)
          \/ SlaveUp(launch) \/ SlaveDown(launch)
          \/ Room /\ Reload(launch)
     \/ \E t \in Tags : Expire(t)
     \/ ActivatePackage \/ AcquireBuffer \/ ReleaseBuffer \/ SlaveDeleted
     \/ SlaveStart \/ SlaveFault
     \/ Room /\ Uninstall

Spec == Init /\ [][Next]_vars
=============================================================================
