---------------------------- MODULE SlaveWidget ----------------------------
(***************************************************************************)
(* The process that runs widgets, data-provider-slave: widget.c (updates   *)
(* and their lists), client.c (the requests of the master), so_handler.c   *)
(* (a widget's library), update_monitor.c (a widget has written its file), *)
(* connection.c (paths to viewers) and fault.c (the note of a call the     *)
(* master keeps in case of a crash).                                       *)
(*                                                                         *)
(* An update of a widget is asked for by its timer, by the master or by    *)
(* the widget itself.  It waits in one of four lists, which a timer each   *)
(* (none for the hidden ones) takes up; it is under way from so_update to  *)
(* the event of the file the widget wrote, and a monitor ends the process  *)
(* when that never comes.  Pausing and an open glance bar freeze timers.   *)
(*                                                                         *)
(* All of it runs in one main loop: an action is one entry from that loop, *)
(* and an operator maps the process to what it is after the C function it  *)
(* stands for.  What a widget returns is the action's choice.  Memory and  *)
(* timers never run out, and sending never fails.                          *)
(***************************************************************************)
EXTENDS Integers, Sequences, FiniteSets, SequencesExt

CONSTANTS
  Widgets,     (* instances of widgets                                      *)
  Addrs,       (* addresses of viewers                                      *)
  NoAddr,      (* no address                                                *)
  Packagings,  (* the packages the instances may be of: functions on Widgets*)
  Uses,        (* what a run may be made of: pairs of a set of requests and *)
               (* a set of things a widget returns from a call              *)
  MaxCount,    (* bound: written files announced and not yet seen           *)
  MaxPaths,    (* bound: connections one instance holds to an address       *)
  Rare         (* the rarer orders, see RareEvents                          *)

RareEvents ==
  {"thaw while updating", \* a timer overslept while its widget is updated
   "two bars",            \* two glance bars of one package are open
   "late open"}           \* a glance bar opens for a widget that is leaving

(* WIDGET_NEED_TO_SCHEDULE, WIDGET_FORCE_TO_SCHEDULE, WIDGET_OUTPUT_UPDATED*)
(* in good time or within MINIMUM_UPDATE_INTERVAL, and a negative return.  *)
Flags == {"schedule", "force", "output", "quick", "error"}

ASSUME SlaveWidgetAssumption ==
  /\ IsFiniteSet(Widgets) /\ IsFiniteSet(Addrs) /\ NoAddr \notin Addrs
  /\ Packagings \subseteq [Widgets -> Widgets]
  /\ \A use \in Uses : use[2] \subseteq SUBSET Flags
  /\ {MaxCount, MaxPaths} \subseteq Nat /\ Rare \subseteq RareEvents

VARIABLE p

vars == p

NoPaths == [a \in Addrs |-> 0]

(* timer: off, on or frozen; cnt: monitor_cnt; missed: updated_in_pause;   *)
(* dirty: is_widget_updated.  marked: the master has a note of the update; *)
(* owed: somebody asked for an update and the widget was not asked yet.    *)
NoItem == [st |-> "none", state |-> "unknown", timer |-> "off",
           monitor |-> FALSE, cnt |-> 0, heavy |-> FALSE, missed |-> FALSE,
           shown |-> FALSE, dirty |-> FALSE, paths |-> NoPaths,
           marked |-> FALSE, owed |-> FALSE]

Init == \E use \in Uses, of \in Packagings, script \in BOOLEAN :
  p = [it |-> [i \in Widgets |-> NoItem], pending |-> <<>>, force |-> <<>>,
       opened |-> <<>>, hidden |-> <<>>, updating |-> <<>>, bars |-> <<>>,
       pt |-> "off", pf |-> 0, ft |-> "off", ff |-> 0, gt |-> "off",
       state |-> "unknown", conn |-> NoPaths, ping |-> "off",
       ready |-> FALSE, secured |-> FALSE, lib |-> {},
       uses |-> use[1], returns |-> use[2], of |-> of, script |-> script, dead |-> FALSE]

Live(w, i) == w.it[i].st = "live"
Fellows(w, k) == {i \in Widgets : w.of[i] = k}
Shown(w, i) == ~w.script \/ w.it[i].shown
-----------------------------------------------------------------------------
(* The timers of the lists.  A freeze without a timer is not counted.      *)

PendingTimerFreeze(w) ==
  IF w.pt = "off" THEN w ELSE [w EXCEPT !.pt = "frozen", !.pf = @ + 1]

ThawForgetful(w) ==   \* seeded fault: the last thaw is only counted
  IF w.pt = "off" \/ w.pf = 0 THEN [w EXCEPT !.pf = 0] ELSE [w EXCEPT !.pf = @ - 1]

PendingTimerThaw(w) ==
  IF w.pf = 0 THEN w
  ELSE IF w.pt = "off" THEN [w EXCEPT !.pf = 0]
  ELSE [w EXCEPT !.pf = @ - 1, !.pt = IF w.pf = 1 THEN "on" ELSE @]

ForceTimerFreeze(w) ==
  IF w.ft = "off" THEN w
  ELSE [w EXCEPT !.ff = @ + 1, !.ft = IF w.ff = 0 THEN "frozen" ELSE @]

ForceTimerThaw(w) ==
  IF w.ff = 0 THEN w
  ELSE IF w.ft = "off" THEN [w EXCEPT !.ff = 0]
  ELSE [w EXCEPT !.ff = @ - 1, !.ft = IF w.ff = 1 THEN "on" ELSE @]

ActivatePending(w) ==
  IF w.pt # "off" THEN w
  ELSE [w EXCEPT !.pt = IF w.pf > 0 THEN "frozen" ELSE "on"]

DeactivatePending(w) ==
  IF w.pt = "off" THEN w ELSE [w EXCEPT !.pt = "off", !.pf = 0]

ActivateForce(w) == IF w.ft = "off" THEN [w EXCEPT !.ft = "on"] ELSE w
DeactivateForce(w) == [w EXCEPT !.ft = "off"]
ActivateOpened(w) == [w EXCEPT !.gt = "on"]
DeactivateOpened(w) == [w EXCEPT !.gt = "off"]
-----------------------------------------------------------------------------
(* The lists *)

GbarIsOpened(w, k) ==
  LET of == {w.of[i] : i \in ToSet(w.bars)} IN
  IF k \in of THEN "mine" ELSE IF of = {} THEN "none" ELSE "other"

OfPackage(w, list, k) == SelectSeq(list, LAMBDA i : w.of[i] = k)
Others(w, list, k)    == SelectSeq(list, LAMBDA i : w.of[i] # k)

MigrateToOpened(w, k) ==
  LET moved == OfPackage(w, w.pending \o w.force, k)
      u == [w EXCEPT !.opened = @ \o moved, !.pending = Others(w, @, k),
                     !.force = Others(w, @, k)]
      a == IF u.opened # <<>> THEN ActivateOpened(u) ELSE u
      b == IF u.pending = <<>> THEN DeactivatePending(a) ELSE a
  IN IF u.force = <<>> THEN DeactivateForce(b) ELSE b

MigrateToPending(w, k) ==
  LET u == [w EXCEPT !.pending = @ \o OfPackage(w, w.opened, k),
                     !.opened = Others(w, @, k)]
      a == IF u.pending # <<>> THEN ActivatePending(u) ELSE u
  IN IF u.opened = <<>> THEN DeactivateOpened(a) ELSE a

IsPended(w, i) ==
  IF GbarIsOpened(w, w.of[i]) = "mine" THEN Contains(w.opened, i)
  ELSE Contains(w.pending, i)

Hide(w, i) ==
  IF Contains(w.hidden, i) THEN w ELSE [w EXCEPT !.hidden = Append(@, i)]

Open(w, i) ==
  IF Contains(w.opened, i) THEN w
  ELSE [ActivateOpened(w) EXCEPT !.opened = Append(@, i)]

AppendPending(w, i) ==
  LET u == [w EXCEPT !.it[i].owed = TRUE] IN
  IF w.it[i].st = "leaving" \/ Contains(w.force, i) THEN w
  ELSE IF GbarIsOpened(w, w.of[i]) = "mine" THEN Open(u, i)
  ELSE IF Contains(w.pending, i) THEN u
  ELSE IF Shown(w, i) THEN [ActivatePending(u) EXCEPT !.pending = Append(@, i)]
  ELSE Hide(u, i)

ClearFromPending(w, i) ==
  LET u == [w EXCEPT !.pending = Remove(@, i)] IN
  IF ~Contains(w.pending, i) THEN w
  ELSE IF u.pending = <<>> THEN DeactivatePending(u) ELSE u

AppendForceUncleared(w, i) ==   \* seeded fault: stays in the pending list too
  IF w.it[i].st = "leaving" \/ Contains(w.force, i) THEN w
  ELSE [ActivateForce(w) EXCEPT !.force = Append(@, i)]

AppendForce(w, i) ==
  LET u == [ClearFromPending(w, i) EXCEPT !.it[i].owed = TRUE] IN
  IF w.it[i].st = "leaving" THEN w
  ELSE IF GbarIsOpened(w, w.of[i]) = "mine" THEN Open(u, i)
  ELSE IF Contains(w.force, i) THEN u
  ELSE IF Shown(w, i) THEN [ActivateForce(u) EXCEPT !.force = Append(@, i)]
  ELSE Hide(u, i)

ClearFromForce(w, i) ==
  LET u == [w EXCEPT !.force = Remove(@, i)] IN
  IF Contains(w.force, i) /\ u.force = <<>> THEN DeactivateForce(u) ELSE u

ClearFromOpened(w, i) ==
  LET u == [w EXCEPT !.opened = Remove(@, i)] IN
  IF Contains(w.opened, i) /\ u.opened = <<>> THEN DeactivateOpened(u) ELSE u

MigrateFromHidden(w, i) ==
  IF Contains(w.hidden, i)
  THEN AppendPending([w EXCEPT !.hidden = Remove(@, i)], i) ELSE w
-----------------------------------------------------------------------------
(* Connections to viewers *)

ConnectionRef(w, a)   == [w EXCEPT !.conn[a] = @ + 1]
ConnectionUnref(w, a) == [w EXCEPT !.conn[a] = @ - 1]

\* Made at the first reference; a viewer that cannot be reached is let be.
ConnectTo(w, i, a) ==
  IF a = NoAddr THEN w ELSE [ConnectionRef(w, a) EXCEPT !.it[i].paths[a] = @ + 1]

DropPaths(w, i) ==
  [w EXCEPT !.conn = [a \in Addrs |-> @[a] - w.it[i].paths[a]],
            !.it[i].paths = NoPaths]
-----------------------------------------------------------------------------
(* An update *)

FaultMarkCall(w, i)   == [w EXCEPT !.it[i].marked = TRUE]
FaultUnmarkCall(w, i) == [w EXCEPT !.it[i].marked = FALSE]

UpdateMonitorCnt(w, i, quick) ==
  IF quick THEN [w EXCEPT !.it[i].heavy = TRUE]
  ELSE [w EXCEPT !.it[i].cnt = IF Contains(w.updating, i) THEN 1 ELSE @ + 1]

Rescheduled(w, i, r) ==
  LET u == IF "schedule" \in r THEN AppendPending(w, i) ELSE w
      a == IF "force" \in r THEN AppendForce(u, i) ELSE u
  IN IF r \cap {"output", "quick"} # {}
     THEN UpdateMonitorCnt(a, i, "quick" \in r) ELSE a

\* What every call of a widget ends with.
Answered(w, i, r) == IF "error" \in r THEN w ELSE Rescheduled(w, i, r)

ResetUpdatedFlag(w, i) == [w EXCEPT !.it[i].dirty = FALSE]

\* The library stays loaded: nothing passes a type that would unload it.
SoDestroy(w, i) == [w EXCEPT !.it[i] = [NoItem EXCEPT !.st = "gone"]]

LeaveBars(w, i) ==
  LET u == [w EXCEPT !.bars = Remove(@, i)]
      a == IF u.bars = <<>> THEN ForceTimerThaw(PendingTimerThaw(u)) ELSE u
  IN IF Contains(w.bars, i) THEN MigrateToPending(a, w.of[i]) ELSE w

WidgetDestroy(w, i) ==
  LET u == LeaveBars(w, i)
      a == [u EXCEPT !.updating = Remove(@, i), !.hidden = Remove(@, i)]
      b == ClearFromForce(ClearFromPending(ClearFromOpened(a, i), i), i)
      c == [DropPaths(b, i) EXCEPT !.it[i].timer = "off"]
  IN IF ~Live(w, i) THEN u
     ELSE IF w.it[i].monitor
     THEN [c EXCEPT !.it[i].st = "leaving", !.it[i].owed = FALSE]
     ELSE SoDestroy(c, i)

\* so_update accepted: the update is under way.
Started(w, i, r) ==
  LET u == FaultMarkCall([w EXCEPT !.it[i].monitor = TRUE, !.it[i].cnt = 1], i)
  IN [Rescheduled(u, i, r) EXCEPT !.updating = Append(@, i)]

\* ask: so_is_updated and so_need_to_destroy; r: so_update.
Update(w, i, ask, r) ==
  LET u == [w EXCEPT !.it[i].missed = FALSE, !.it[i].owed = FALSE] IN
  IF ask = "end" THEN WidgetDestroy(u, i)
  ELSE IF ask = "same" THEN ResetUpdatedFlag(u, i)
  ELSE IF GbarIsOpened(w, w.of[i]) = "other" THEN AppendPending(u, i)
  ELSE IF "error" \in r THEN ResetUpdatedFlag(u, i)
  ELSE Started(u, i, r)

\* The update under way stands for a forced one.
DoForceUpdate(w, i, ask, r) ==
  IF w.it[i].monitor THEN [w EXCEPT !.it[i].owed = Contains(w.pending \o w.opened \o w.hidden, i)]
  ELSE IF ~Shown(w, i) THEN AppendForce(w, i)
  ELSE Update(w, i, ask, r)

UpdatorForgetful(w, i, ask, r) ==   \* seeded fault: a paused update is not noted
  IF w.it[i].monitor THEN w
  ELSE IF ~Shown(w, i) THEN AppendPending(w, i)
  ELSE IF w.it[i].state # "resumed" THEN w
  ELSE Update(w, i, ask, r)

UpdatorCb(w, i, ask, r) ==
  IF w.it[i].monitor THEN w
  ELSE IF ~Shown(w, i) THEN AppendPending(w, i)
  ELSE IF w.it[i].state # "resumed" THEN [w EXCEPT !.it[i].missed = TRUE]
  ELSE Update(w, i, ask, r)

OutputHandlerQuietly(w, i) ==   \* seeded fault: the note of the call stays
  [w EXCEPT !.it[i].cnt = 0, !.it[i].heavy = FALSE, !.it[i].monitor = FALSE,
            !.updating = Remove(@, i)]

OutputHandler(w, i) ==
  LET left == w.it[i].cnt - 1
      u == [w EXCEPT !.it[i].cnt = 0, !.it[i].heavy = FALSE, !.it[i].monitor = FALSE,
                     !.updating = Remove(@, i)]
      a == IF left < 0 /\ ~w.it[i].heavy THEN u ELSE FaultUnmarkCall(u, i)
  IN IF left > 0 /\ ~w.it[i].heavy THEN [w EXCEPT !.it[i].cnt = left]
     ELSE IF w.it[i].st = "leaving" THEN SoDestroy(a, i) ELSE a

FileUpdatedCb(w, i) ==
  OutputHandler([w EXCEPT !.it[i].dirty = @ \/ (Live(w, i) /\ ~Shown(w, i))], i)
-----------------------------------------------------------------------------
(* The timers that take up the lists *)

Asks == {"new", "same", "end"}

\* While the first of the list is being updated the timer only waits.
OpenedConsumer == \E ask \in Asks, r \in p.returns :
  LET i == Head(p.opened)
      u == UpdatorCb([p EXCEPT !.opened = Tail(@)], i, ask, r)
  IN /\ ~p.dead /\ p.gt = "on" /\ p.opened # <<>> /\ ~Contains(p.updating, i)
     /\ p' = IF u.opened = <<>> THEN DeactivateOpened(u) ELSE u

PendedConsumer == \E ask \in Asks, r \in p.returns :
  LET i == Head(p.pending)
      u == UpdatorCb([p EXCEPT !.pending = Tail(@)], i, ask, r)
  IN /\ ~p.dead /\ p.pt = "on" /\ p.pending # <<>> /\ ~Contains(p.updating, i)
     /\ GbarIsOpened(p, p.of[i]) # "other"
     /\ p' = IF u.pending = <<>> THEN [u EXCEPT !.pt = "off", !.pf = 0] ELSE u

ForceUpdateCb == \E ask \in Asks, r \in p.returns :
  LET u == DoForceUpdate([p EXCEPT !.force = Tail(@)], Head(p.force), ask, r) IN
  /\ ~p.dead /\ p.ft = "on" /\ p.force # <<>>
  /\ p' = IF u.force = <<>> THEN [u EXCEPT !.ft = "off"] ELSE u

TimerTick(i) == \E ask \in Asks, r \in p.returns :
  ~p.dead /\ Live(p, i) /\ p.it[i].timer = "on" /\ p' = UpdatorCb(p, i, ask, r)

UpdateTimeoutCb(i) ==
  ~p.dead /\ p.it[i].monitor /\ p' = [p EXCEPT !.it[i].marked = FALSE, !.dead = TRUE]

\* The widget wrote its file, or says so by widget_trigger_update_monitor.
FileUpdated(i) ==
  ~p.dead /\ p.it[i].st \in {"live", "leaving"} /\ p' = FileUpdatedCb(p, i)
-----------------------------------------------------------------------------
(* Pause and resume *)

TimerFreeze(w, i) ==
  IF w.it[i].timer = "on" THEN [w EXCEPT !.it[i].timer = "frozen"] ELSE w

Wasted(w, i) == w.it[i].monitor /\ Contains(w.pending, i)

\* over: the timer slept through its time.
TimerThaw(w, i, over, ask, r) ==
  LET u == [w EXCEPT !.it[i].timer = "on"] IN
  IF w.it[i].timer # "frozen" THEN w
  ELSE IF over /\ ("thaw while updating" \in Rare \/ ~Wasted(w, i))
  THEN UpdatorCb(ClearFromPending(u, i), i, ask, r)
  ELSE u

AppendMissed(w, i) ==
  IF w.it[i].missed
  THEN [AppendPending(w, i) EXCEPT !.it[i].missed = FALSE] ELSE w

Resumed(w) == {i \in Widgets : Live(w, i) /\ w.it[i].state = "resumed"}

WidgetPauseAll(w, r) ==
  IF w.state = "paused" THEN w
  ELSE FoldSet(LAMBDA i, u : Answered(TimerFreeze(u, i), i, r),
               PendingTimerFreeze([w EXCEPT !.state = "paused"]), Resumed(w))

WidgetResumeAll(w, over, ask, r) ==
  IF w.state = "resumed" THEN w
  ELSE FoldSet(LAMBDA i, u :
                 TimerThaw(AppendMissed(Answered(u, i, r), i), i, over, ask, r),
               PendingTimerThaw([w EXCEPT !.state = "resumed"]), Resumed(w))

WidgetPause(w, i, r) ==
  LET u == [w EXCEPT !.it[i].state = "paused"] IN
  IF w.it[i].state = "paused" \/ w.state # "resumed" THEN u
  ELSE Answered(TimerFreeze(u, i), i, r)

WidgetResumeHalf(w, i, over, ask, r) ==   \* seeded fault: the timer stays
  LET u == [w EXCEPT !.it[i].state = "resumed"] IN
  IF w.it[i].state = "resumed" \/ w.state # "resumed" THEN u
  ELSE AppendMissed(Answered(u, i, r), i)

\* A widget that wants to go when its timer is thawed is gone.
WidgetResume(w, i, over, ask, r) ==
  LET u == [w EXCEPT !.it[i].state = "resumed"]
      a == TimerThaw(Answered(u, i, r), i, over, ask, r)
  IN IF w.it[i].state = "resumed" \/ w.state # "resumed" THEN u
     ELSE IF Live(a, i) THEN AppendMissed(a, i) ELSE a
-----------------------------------------------------------------------------
(* The requests of the master, and what the widgets do unasked *)

May(use) == ~p.dead /\ p.ready /\ use \in p.uses

Counted(w) == \A i \in Widgets : w.it[i].cnt <= MaxCount

Call(use, i) == May(use) /\ Live(p, i)

\* A library that cannot be loaded or initialized leaves nothing behind.
NewWidget(w, k) == [w EXCEPT !.lib = @ \cup {k}]

\* finalize may answer that the library is busy: it stays.
DeleteWidget(w, k, busy) == IF busy THEN w ELSE [w EXCEPT !.lib = @ \ {k}]

Instances(w, k) == {i \in Fellows(w, k) : w.it[i].st \in {"live", "leaving"}}

SoCreate(w, i, busy, r) ==
  LET u == NewWidget(w, w.of[i]) IN
  IF "error" \in r /\ Instances(w, w.of[i]) = {}
  THEN DeleteWidget(u, w.of[i], busy) ELSE u

\* A secured process has no timers of its own.
NewTimer(w, period) ==
  IF ~period \/ w.secured THEN "off"
  ELSE IF w.state = "paused" THEN "frozen" ELSE "on"

WidgetCreate(w, i, a, period, busy, r) ==
  LET u == [SoCreate(w, i, busy, r) EXCEPT
              !.it[i] = [NoItem EXCEPT !.st = "live", !.timer = NewTimer(w, period)]]
  IN IF "error" \in r THEN SoCreate(w, i, busy, r)
     ELSE Rescheduled(ConnectTo(u, i, a), i, r)

SetOrientation(w, i, r) == Answered(w, i, r)
Resize(w, i, r)         == Answered(w, i, r)

TellPaused(w, i, r) ==
  IF Live(w, i) /\ w.state # "resumed" THEN Answered(w, i, r) ELSE w

Paths   == IF "path" \in p.uses THEN Addrs \cup {NoAddr} ELSE {NoAddr}
Periods == IF "period" \in p.uses THEN BOOLEAN ELSE {FALSE}

\* A widget that was asked whether it is needed is neither turned nor resized.
MethodNew(i) == May("create") /\ p.it[i].st = "none" /\
  \E a \in Paths, period \in Periods, skip, busy \in BOOLEAN, r \in p.returns :
    LET u == WidgetCreate(p, i, a, period, busy, r)
        b == IF skip /\ Live(u, i) THEN Resize(SetOrientation(u, i, r), i, r) ELSE u
    IN p' = TellPaused(b, i, r) /\ Counted(p')

MethodRenew(i) == May("renew") /\ p.it[i].st = "none" /\
  \E a \in Paths, period \in Periods, busy \in BOOLEAN, r \in p.returns :
    LET u == WidgetCreate(p, i, a, period, busy, r)
        b == IF Live(u, i) THEN Resize(SetOrientation(u, i, r), i, r) ELSE u
    IN p' = TellPaused(b, i, r) /\ Counted(p')

MethodDelete(i) == \E r \in p.returns :
  Call("delete", i) /\ p' = WidgetDestroy(Answered(p, i, r), i)

WidgetScriptEvent(w, i, event, r) ==
  LET shown == MigrateFromHidden([w EXCEPT !.it[i].shown = TRUE], i)
      u == CASE w.script /\ event = "widget,show" ->
                  IF IsPended(shown, i) THEN shown ELSE ResetUpdatedFlag(shown, i)
             [] w.script /\ event = "widget,hide" -> [w EXCEPT !.it[i].shown = FALSE]
             [] OTHER -> w
  IN Answered(u, i, r)

MethodContentEvent(i) == \E r \in p.returns, event \in {"widget,show", "widget,hide"} :
  /\ Call("show", i)
  /\ p' = WidgetScriptEvent(p, i, event, r) /\ Counted(p')

WidgetClicked(w, i, r)     == Answered(w, i, r)
WidgetChangeGroup(w, i, r) == Answered(w, i, r)
WidgetSetContent(w, i, r)  == Answered(w, i, r)

MethodClicked(i) == \E r \in p.returns :
  Call("event", i) /\ p' = WidgetClicked(p, i, r) /\ Counted(p')

MethodTextSignal(i) == \E r \in p.returns :
  Call("event", i) /\ p' = WidgetScriptEvent(p, i, "text", r) /\ Counted(p')

MethodGbarMoved(i) == \E r \in p.returns :
  Call("event", i) /\ p' = WidgetScriptEvent(p, i, "gbar,move", r) /\ Counted(p')

MethodResize(i) == \E r \in p.returns :
  Call("event", i) /\ p' = Resize(p, i, r) /\ Counted(p')

MethodChangeGroup(i) == \E r \in p.returns :
  Call("event", i) /\ p' = WidgetChangeGroup(p, i, r) /\ Counted(p')

MethodOrientation(i) == \E r \in p.returns :
  Call("event", i) /\ p' = SetOrientation(p, i, r) /\ Counted(p')

\* A new timer is frozen with the process, not with its widget.
WidgetSetPeriod(w, i, period) ==
  IF ~period THEN [w EXCEPT !.it[i].timer = "off"]
  ELSE IF w.it[i].timer # "off" THEN w
  ELSE [w EXCEPT !.it[i].timer = NewTimer(w, TRUE)]

MethodSetPeriod(i) == \E period \in BOOLEAN :
  Call("period", i) /\ p' = WidgetSetPeriod(p, i, period)

WidgetUpdate(w, i, force) ==
  IF force /\ GbarIsOpened(w, w.of[i]) # "mine"
  THEN AppendForce(w, i) ELSE AppendPending(w, i)

WidgetUpdateAll(w, k, force) ==
  FoldSet(LAMBDA i, u : WidgetUpdate(u, i, force), w,
          {i \in Fellows(w, k) : Live(w, i)})

WidgetSetContentAll(w, k, r) ==
  FoldSet(LAMBDA i, u : WidgetSetContent(u, i, r), w,
          {i \in Fellows(w, k) : Live(w, i)})

\* For one widget or for a package, with a new content or without.
MethodUpdateContent(i) ==
  /\ Call("update", i)
  /\ \/ \E force \in BOOLEAN : \/ p' = WidgetUpdate(p, i, force)
                              \/ p' = WidgetUpdateAll(p, p.of[i], force)
     \/ \E r \in p.returns : \/ p' = WidgetSetContent(p, i, r)
                           \/ p' = WidgetSetContentAll(p, p.of[i], r)
  /\ Counted(p')

MethodPause == \E r \in p.returns :
  /\ May("pause all")
  /\ p' = [WidgetPauseAll(p, r) EXCEPT !.ping = IF @ = "off" THEN @ ELSE "frozen"]
  /\ Counted(p')

MethodResume == \E over \in BOOLEAN, ask \in Asks, r \in p.returns :
  /\ May("pause all")
  /\ p' = [WidgetResumeAll(p, over, ask, r) EXCEPT
             !.ping = IF @ = "off" THEN @ ELSE "on"]
  /\ Counted(p')

MethodWidgetPause(i) == \E r \in p.returns :
  Call("pause", i) /\ p' = WidgetPause(p, i, r) /\ Counted(p')

MethodWidgetResume(i) == \E over \in BOOLEAN, ask \in Asks, r \in p.returns :
  Call("pause", i) /\ p' = WidgetResume(p, i, over, ask, r) /\ Counted(p')

WidgetOpenGbar(w, i) ==
  LET u == IF w.bars = <<>> THEN ForceTimerFreeze(PendingTimerFreeze(w)) ELSE w IN
  IF Contains(w.bars, i) THEN w
  ELSE MigrateToOpened([u EXCEPT !.bars = Append(@, i)], w.of[i])

MethodGbarCreated(i) ==
  /\ May("bar") /\ (Live(p, i) \/ (p.it[i].st = "leaving" /\ "late open" \in Rare))
  /\ "two bars" \in Rare \/ GbarIsOpened(p, p.of[i]) # "mine"
  /\ p' = WidgetOpenGbar(p, i)

MethodGbarDestroyed(i) == Call("bar", i) /\ p' = LeaveBars(p, i)

WidgetViewerDisconnected(w, i, a) ==
  IF w.it[i].paths[a] = 0 THEN w
  ELSE [ConnectionUnref(w, a) EXCEPT !.it[i].paths[a] = @ - 1]

MethodViewerConnected(i, a) ==
  /\ Call("path", i) /\ p.it[i].paths[a] < MaxPaths
  /\ p' = ConnectTo(p, i, a)

MethodViewerDisconnected(i, a) ==
  Call("path", i) /\ p' = WidgetViewerDisconnected(p, i, a)

\* Only for the widgets that are not leaving.
DisconnectedCb(a) ==
  /\ ~p.dead /\ p.conn[a] > 0
  /\ p' = FoldSet(LAMBDA i, u : [u EXCEPT !.conn[a] = @ - u.it[i].paths[a],
                                          !.it[i].paths[a] = 0],
                  p, {i \in Widgets : Live(p, i)})

SystemEventAll == \E r \in p.returns :
  /\ May("system")
  /\ p' = FoldSet(LAMBDA i, u : Answered(u, i, r), p, {i \in Widgets : Live(p, i)})
  /\ Counted(p')

RequestUpdateById(i) == Call("ask", i) /\ p' = AppendPending(p, i)

MethodConnected == May("connect") /\ p.ping = "off" /\ p' = [p EXCEPT !.ping = "on"]

\* A widget that is leaving is in no list its library would be told from.
WidgetDeleteAll(w) ==
  FoldSet(LAMBDA i, u : SoDestroy(u, i), w, {i \in Widgets : Live(w, i)})

WidgetViewerFini(w) ==
  [WidgetDeleteAll(w) EXCEPT !.pt = "off", !.pf = 0, !.gt = "off", !.opened = <<>>,
                             !.pending = <<>>, !.dead = TRUE]

AppTerminate(w) == WidgetViewerFini(w)

MethodDisconnected == May("exit") /\ p' = [AppTerminate(p) EXCEPT !.ping = "off"]

\* A crash, or the alarm of a call that takes too long.
SignalHandler == May("exit") /\ p' = [p EXCEPT !.dead = TRUE]

AppControl == \E secured \in (IF "period" \in p.uses THEN BOOLEAN ELSE {FALSE}) :
  ~p.ready /\ p' = [p EXCEPT !.ready = TRUE, !.secured = secured]
-----------------------------------------------------------------------------
Requests(i) ==
  \/ MethodNew(i) \/ MethodRenew(i) \/ MethodDelete(i)
  \/ MethodContentEvent(i) \/ MethodClicked(i) \/ MethodTextSignal(i)
  \/ MethodGbarMoved(i) \/ MethodResize(i) \/ MethodChangeGroup(i)
  \/ MethodOrientation(i) \/ MethodSetPeriod(i) \/ MethodUpdateContent(i)
  \/ MethodWidgetPause(i) \/ MethodWidgetResume(i)
  \/ MethodGbarCreated(i) \/ MethodGbarDestroyed(i)
  \/ \E a \in Addrs : MethodViewerConnected(i, a) \/ MethodViewerDisconnected(i, a)
  \/ RequestUpdateById(i)

Next ==
  \/ \E i \in Widgets : Requests(i) \/ TimerTick(i) \/ FileUpdated(i)
                       \/ UpdateTimeoutCb(i)
  \/ MethodPause \/ MethodResume \/ SystemEventAll
  \/ AppControl \/ MethodConnected \/ MethodDisconnected \/ SignalHandler
  \/ OpenedConsumer \/ PendedConsumer \/ ForceUpdateCb
  \/ \E a \in Addrs : DisconnectedCb(a)

Spec == Init /\ [][Next]_vars

(* An update that does not end is ended by its monitor.  The timers of the *)
(* lists run every microsecond: whenever one of them could take up a       *)
(* widget again and again it does, between the other timers.               *)
Fairness ==
  /\ \A i \in Widgets : WF_vars(UpdateTimeoutCb(i))
  /\ SF_vars(PendedConsumer) /\ SF_vars(OpenedConsumer) /\ SF_vars(ForceUpdateCb)

FairSpec == Spec /\ Fairness
=============================================================================
