---------------------------- MODULE ProviderApp ----------------------------
(***************************************************************************)
(* The library a widget's own process is built with, widget_provider_app:  *)
(* client.c (instances and the requests of the master), connection.c (the  *)
(* direct connections to viewers) and, of widget_provider.c beneath it,    *)
(* the connection to the master.                                           *)
(*                                                                         *)
(* The process says hello to the master and pings it; the master makes,    *)
(* pauses and deletes instances in it.  An instance is updated by its own  *)
(* timer, unless the provider is secured and the master asks for each      *)
(* update.  What the app draws is announced to its viewers directly, or,   *)
(* when that fails, through the master.                                    *)
(*                                                                         *)
(* Everything runs in the main loop of the app: an action is one entry     *)
(* from it, an operator maps the process to what it is after the function  *)
(* it stands for.  Memory and timers never run out.                        *)
(***************************************************************************)
EXTENDS Integers, FiniteSets

CONSTANTS
  Items,     (* instances of widgets                                        *)
  Addrs,     (* addresses of viewers                                        *)
  NoAddr,    (* a viewer without an address: reached through the master     *)
  Uses,      (* what a run may be made of: sets of requests                 *)
  MaxPaths   (* bound: paths of one instance                                *)

ASSUME ProviderAppAssumption ==
  /\ IsFiniteSet(Items) /\ IsFiniteSet(Addrs) /\ NoAddr \notin Addrs
  /\ MaxPaths \in Nat

VARIABLE p

vars == p

(* timer: off, on or frozen; told: the last of pause and resume the app was*)
(* told of; twice: it was told the same again; paths: the entries of the   *)
(* list of connections, all of them the owner's, as the master names no    *)
(* other address for an instance; missed: the viewers an update was        *)
(* announced to neither directly nor through the master.                   *)
NoItem == [st |-> "none", state |-> "unknown", timer |-> "off", told |-> "none", twice |-> FALSE,
           owner |-> NoAddr, joined |-> {}, paths |-> 0, missed |-> {}]

(* conn: the reference counts of the connections; down: those that broke;  *)
(* events: breaks com-core did not report yet; watch: the handler for      *)
(* breaks, bad when its flag "deleted", never set, happens to be true;     *)
(* link: what the app was told of the connection to the master.            *)
Init == \E use \in Uses :
  p = [it |-> [i \in Items |-> NoItem], conn |-> [a \in Addrs |-> 0],
       down |-> {}, events |-> {}, watch |-> "none", init |-> FALSE,
       name |-> FALSE, fd |-> FALSE, state |-> "unknown", ping |-> "off",
       secured |-> FALSE, link |-> "off", uses |-> use]

InstanceFind(w, i) == w.it[i].st = "live"
Instances(w) == {i \in Items : InstanceFind(w, i)}
-----------------------------------------------------------------------------
(* Connections to viewers *)

ConnectionRef(w, a) == [w EXCEPT !.conn[a] = @ + 1]

(* connection.c hands a break, its own closing of a connection included,   *)
(* to the handler; one marked deleted is dropped instead of called.        *)
EventCb(w) == [w EXCEPT !.watch = IF @ = "bad" THEN "none" ELSE @]

(* n[a] references to the connection of each address a are given back; it  *)
(* is closed with the last one.                                            *)
UnrefAll(w, n) ==
  LET closed == {a \in Addrs : n[a] > 0 /\ w.conn[a] <= n[a]}
      u == [w EXCEPT !.conn = [a \in Addrs |-> IF w.conn[a] > n[a] THEN w.conn[a] - n[a] ELSE 0],
                     !.down = @ \ closed, !.events = @ \ closed]
  IN IF closed = {} THEN u ELSE EventCb(u)

Only(a, n) == [b \in Addrs |-> IF b = a THEN n ELSE 0]

ConnectionUnref(w, a) == UnrefAll(w, Only(a, 1))

ConnectionFind(w, a) == a \in Addrs /\ w.conn[a] > 0

ConnectionCreate(w, a, ok) == IF ok THEN [w EXCEPT !.conn[a] = 1] ELSE w

(* The connection to an address is found or made and put on the instance's *)
(* list; the instance goes without when it cannot be made.                 *)
AddPath(w, i, a, ok) ==
  IF a = NoAddr \/ (~ConnectionFind(w, a) /\ ~ok) THEN w
  ELSE [IF ConnectionFind(w, a) THEN ConnectionRef(w, a) ELSE ConnectionCreate(w, a, ok)
        EXCEPT !.it[i].paths = @ + 1]

(* The entries for an address on the lists of some instances               *)
Entries(w, S, a) ==
  UNION {{i} \X (1..w.it[i].paths) : i \in {j \in S : w.it[j].owner = a}}

(* connection_disconnected_cb: every instance lets go of the connection.   *)
Without(w, a) ==
  [w EXCEPT !.it = [i \in Items |->
     IF w.it[i].owner = a THEN [w.it[i] EXCEPT !.paths = 0] ELSE w.it[i]]]

LoseOnce(w, a) ==   \* seeded fault: one reference an instance, not one an entry
  UnrefAll(Without(w, a),
           Only(a, Cardinality({i \in Items : Entries(w, {i}, a) # {}})))

ConnectionDisconnectedCb(w, a) ==
  UnrefAll(Without(w, a), Only(a, Cardinality(Entries(w, Items, a))))

DisconnectedEvent(w, a) ==
  IF w.watch = "on" /\ ConnectionFind(w, a)
  THEN ConnectionDisconnectedCb(w, a) ELSE EventCb(w)
-----------------------------------------------------------------------------
(* Instances *)

InstanceCreate(w, i, a, period, ok) ==
  LET timer == IF ~w.secured /\ period THEN "on" ELSE "off" IN
  AddPath([w EXCEPT !.it[i] = [NoItem EXCEPT !.st = "live", !.timer = timer,
                                             !.owner = a]], i, a, ok)

Destroy(w, S) ==
  [UnrefAll(w, [a \in Addrs |-> Cardinality(Entries(w, S, a))])
     EXCEPT !.it = [i \in Items |-> IF i \in S THEN NoItem ELSE w.it[i]]]

InstanceDestroy(w, i) == Destroy(w, {i})

DestroyAll(w) == Destroy(w, Instances(w))

(* created: what the app answers to its create callback.                   *)
MethodNew(w, i, a, period, ok, created) ==
  LET u == InstanceCreate(w, i, a, period, ok) IN
  IF created THEN u ELSE InstanceDestroy(u, i)

MethodRenew(w, i, a, period, ok, created) ==
  LET u == InstanceCreate(w, i, a, period, ok) IN
  IF created THEN u ELSE InstanceDestroy(u, i)

MethodDelete(w, i) == IF InstanceFind(w, i) THEN InstanceDestroy(w, i) ELSE w

(* The app is called, and the timer follows.                               *)
Call(x, what) == [x EXCEPT !.told = what, !.twice = @ \/ x.told = what]
Freeze(x) == [Call(x, "paused") EXCEPT !.timer = IF @ = "off" THEN @ ELSE "frozen"]
Thaw(x)   == [Call(x, "resumed") EXCEPT !.timer = IF @ = "off" THEN @ ELSE "on"]

MethodPause(w) ==
  IF w.state = "paused" THEN w
  ELSE [w EXCEPT !.state = "paused", !.ping = IF @ = "off" THEN @ ELSE "frozen",
          !.it = [i \in Items |-> IF w.it[i].state = "resumed"
                                  THEN Freeze(w.it[i]) ELSE w.it[i]]]

ResumeAll(w) ==   \* seeded fault: also the instances paused by themselves
  IF w.state = "resumed" THEN w
  ELSE [w EXCEPT !.state = "resumed", !.ping = IF @ = "off" THEN @ ELSE "on",
          !.it = [i \in Items |-> IF w.it[i].state # "unknown"
                                  THEN Thaw(w.it[i]) ELSE w.it[i]]]

MethodResume(w) ==
  IF w.state = "resumed" THEN w
  ELSE [w EXCEPT !.state = "resumed", !.ping = IF @ = "off" THEN @ ELSE "on",
          !.it = [i \in Items |-> IF w.it[i].state = "resumed"
                                  THEN Thaw(w.it[i]) ELSE w.it[i]]]

MethodWidgetPause(w, i) ==
  IF ~InstanceFind(w, i) \/ w.it[i].state = "paused" THEN w
  ELSE LET u == [w EXCEPT !.it[i].state = "paused"] IN
       IF w.state = "resumed" THEN [u EXCEPT !.it[i] = Freeze(@)] ELSE u

MethodWidgetResume(w, i) ==
  IF ~InstanceFind(w, i) \/ w.it[i].state = "resumed" THEN w
  ELSE LET u == [w EXCEPT !.it[i].state = "resumed"] IN
       IF w.state = "resumed" THEN [u EXCEPT !.it[i] = Thaw(@)] ELSE u

MethodViewerConnected(w, i, a, ok) ==
  IF InstanceFind(w, i) THEN AddPath(w, i, a, ok) ELSE w

MethodViewerDisconnected(w, i, a) ==
  IF InstanceFind(w, i) /\ ConnectionFind(w, a) /\ Entries(w, {i}, a) # {}
  THEN ConnectionUnref([w EXCEPT !.it[i].paths = @ - 1], a) ELSE w
-----------------------------------------------------------------------------
(* The connection to the master *)

WidgetProviderFini(w) == [w EXCEPT !.name = FALSE, !.fd = FALSE]

ClientFini(w) ==
  IF ~w.init THEN w
  ELSE [WidgetProviderFini([w EXCEPT !.init = FALSE]) EXCEPT !.watch = "none"]

MethodDisconnected(w) ==
  ClientFini([DestroyAll([w EXCEPT !.ping = "off"]) EXCEPT !.link = "off"])

(* com-core tells connection.c of the break as well, before it.            *)
DisconnectedCb(w) == [MethodDisconnected(EventCb(w)) EXCEPT !.fd = FALSE]

InitializeProvider(w) == [w EXCEPT !.name = TRUE, !.fd = TRUE]

MethodConnected(w) == [w EXCEPT !.ping = "on", !.link = "on"]

(* hello_sync waits for the master's answer, an instance to make.          *)
SendHelloSync(w, i, a, period, ok, created) ==
  MethodNew(w, i, a, period, ok, created)

MethodConnectedSync(w, answer, i, a, period, ok) ==
  LET u == [w EXCEPT !.link = "on"] IN
  IF answer = "refused" THEN u
  ELSE [SendHelloSync(u, i, a, period, ok, answer = "created") EXCEPT !.ping = "on"]

(* A process that is initialized, or whose name was never freed, stays.    *)
ClientInit(w, secured, watch) ==
  IF w.init \/ w.name THEN w
  ELSE [MethodConnected(InitializeProvider(w))
          EXCEPT !.init = TRUE, !.secured = secured, !.watch = watch]

ClientInitSync(w, answer, i, a, period, ok, watch) ==
  IF w.init \/ w.name THEN w
  ELSE LET u == MethodConnectedSync(InitializeProvider(w), answer, i, a, period, ok) IN
       IF answer = "refused" THEN u
       ELSE [u EXCEPT !.init = TRUE, !.secured = TRUE, !.watch = watch]
-----------------------------------------------------------------------------
(* What is drawn is announced on each path, and through the master unless  *)
(* the last announcement arrived.                                          *)

Arrives(w, a) == a \notin w.down

Told(w, i, master) ==
  LET x      == w.it[i]
      direct == {a \in {x.owner} : x.paths > 0 /\ Arrives(w, a)}
  IN [w EXCEPT !.it[i].missed = IF master THEN @
                                ELSE @ \cup ((x.joined \cup {x.owner}) \ direct)]

SendOnce(w, i) ==   \* seeded fault: an instance with a path is never announced
  Told(w, i, w.it[i].paths = 0)   \* through the master

SendUpdatedEvent(w, i) ==
  Told(w, i, w.it[i].paths = 0 \/ ~Arrives(w, w.it[i].owner))

SendBufferUpdatedEvent(w, i) == SendUpdatedEvent(w, i)

TerminateApp(w) == DestroyAll(w)
-----------------------------------------------------------------------------
(* The main loop *)

May(use) == use \in p.uses
Viewers == Addrs \cup {NoAddr}
Linked == p.fd /\ p.init

AppInit == ~p.init /\ \E secured \in BOOLEAN, watch \in {"on", "bad"} :
  p' = ClientInit(p, secured, watch)

AppInitSync == May("sync") /\ ~p.init
  /\ \E answer \in {"created", "failed", "refused"}, i \in Items, a \in Viewers,
        period, ok \in BOOLEAN, watch \in {"on", "bad"} :
       p' = ClientInitSync(p, answer, i, a, period, ok, watch)

AppFini == May("fini") /\ p.init /\ p' = ClientFini(DisconnectedCb(p))

AppTerminate == May("terminate") /\ p.name /\ p' = TerminateApp(p)

AppUpdates == May("update") /\ \E i \in Instances(p) :
  \/ p' = SendUpdatedEvent(p, i)
  \/ p' = SendBufferUpdatedEvent(p, i)

MasterNew == Linked /\ \E i \in Items \ Instances(p), a \in Viewers, period, ok, created \in BOOLEAN :
  \/ p' = MethodNew(p, i, a, period, ok, created)
  \/ p' = MethodRenew(p, i, a, period, ok, created)

MasterDelete == Linked /\ \E i \in Items : p' = MethodDelete(p, i)

MasterPause == May("pause") /\ Linked /\ p' = MethodPause(p)

MasterResume == May("pause") /\ Linked /\ p' = MethodResume(p)

MasterWidgetPause == May("pause") /\ Linked /\ \E i \in Items : p' = MethodWidgetPause(p, i)

MasterWidgetResume == May("pause") /\ Linked /\ \E i \in Items : p' = MethodWidgetResume(p, i)

(* The master names the owner's address for the viewer that comes or goes. *)
MasterViewerConnected == May("path") /\ Linked
  /\ \E i \in Instances(p), ok \in BOOLEAN : \E v \in Addrs \ {p.it[i].owner} :
       /\ p.it[i].paths < MaxPaths
       /\ p' = MethodViewerConnected([p EXCEPT !.it[i].joined = @ \cup {v}],
                                     i, p.it[i].owner, ok)

MasterViewerDisconnected == May("path") /\ Linked
  /\ \E i \in Instances(p) : \E v \in p.it[i].joined :
       p' = MethodViewerDisconnected([p EXCEPT !.it[i].joined = @ \ {v}],
                                     i, p.it[i].owner)

MasterDisconnect == p.fd /\ p' = DisconnectedCb(p)

PathBreaks == May("break") /\ \E a \in Addrs \ p.down :
  /\ ConnectionFind(p, a)
  /\ p' = [p EXCEPT !.down = @ \cup {a}, !.events = @ \cup {a}]

PathBroken == \E a \in p.events :
  p' = DisconnectedEvent([p EXCEPT !.events = @ \ {a}], a)

Next ==
  \/ AppInit \/ AppInitSync \/ AppFini \/ AppTerminate \/ AppUpdates
  \/ MasterNew \/ MasterDelete \/ MasterPause \/ MasterResume
  \/ MasterWidgetPause \/ MasterWidgetResume
  \/ MasterViewerConnected \/ MasterViewerDisconnected
  \/ MasterDisconnect \/ PathBreaks \/ PathBroken

Spec == Init /\ [][Next]_vars
=============================================================================
