---------------------------- MODULE ViewerWidget ----------------------------
(***************************************************************************)
(* The viewer library: widget.c (the functions a viewer calls and the      *)
(* answers to its requests), client.c (what the master sends),             *)
(* widget_internal.c (handles, and the "common" handle of one instance,    *)
(* which several handles may share) and master_rpc.c (the queue of         *)
(* requests), over one connection that may be lost and made again.         *)
(*                                                                         *)
(* All of it runs in one main loop, so an action is one entry from that    *)
(* loop: a call of the viewer, a timer, an answer, a message of the        *)
(* master, or the end of the connection.  An operator maps the state to    *)
(* the state after the C function it stands for.  What the viewer does     *)
(* inside one of its callbacks is taken as done right after it.  Every     *)
(* widget is of one package, content and group, so that handles of one     *)
(* size may share an instance; memory never runs out.                      *)
(***************************************************************************)
EXTENDS Integers, Sequences, FiniteSets, SequencesExt

CONSTANTS
  H,            (* handles                                                  *)
  NoH,          (* no handle                                                *)
  MaxCommon,    (* bound: common handles ever made                          *)
  Shared,       (* WIDGET_OPTION_SHARED_CONTENT                             *)
  Viewers,      (* what a viewer may do: a set of functions, a number of    *)
                (* calls (a bound)                                          *)
  Ttl,          (* how often a request is sent (DEFAULT_TTL)                *)
  MaxFaults,    (* bound: lost connections and faulted packages             *)
  MaxEvents,    (* bound: things the master does unasked                    *)
  Rare          (* the rarer things, see RareEvents                         *)

RareEvents ==
  {"early delete",       \* a handle is deleted before it has an id
   "resize while asked", \* a handle leaves its instance with a request on it
   "released twice"}     \* an instance ends under a handle given up before

(* A slot of "cbs" of a handle and, where it has one, of "request" of its  *)
(* common handle.  The last two slots are kept in the request only.        *)
Kept  == {"created", "deleted", "pinup", "group", "period", "size", "gbar",
          "ungbar", "mode", "access", "key"}
Slots == Kept \cup {"text", "pixmap"}

Commons == 1 .. MaxCommon
Sizes == 1 .. 2

ASSUME ViewerAssumption ==
  /\ IsFiniteSet(H) /\ NoH \notin H /\ MaxCommon \in Nat /\ Shared \in BOOLEAN
  /\ Ttl \in Nat \ {0} /\ {MaxFaults, MaxEvents} \subseteq Nat
  /\ Rare \subseteq RareEvents

VARIABLE v

vars == v

(* owed: callbacks promised and not yet called; cb: slots that are set;    *)
(* missed: the viewer was not told of an update; told: it was told that    *)
(* the widget is deleted; late: it was told more than an update after that.*)
NoHandle == [st |-> "none", ref |-> 0, com |-> 0, cb |-> {}, vis |-> FALSE,
             owed |-> [s \in Slots |-> 0], paused |-> FALSE, missed |-> FALSE,
             told |-> FALSE, late |-> FALSE, listed |-> FALSE]

(* drawn: last_extra_buffer_idx is known; user: is_user.                   *)
NoCommon == [st |-> "none", list |-> <<>>, id |-> FALSE, fb |-> FALSE,
             req |-> {}, gbar |-> FALSE, vis |-> FALSE, size |-> 1,
             drawn |-> FALSE, user |-> TRUE]

(* m: what the master has of the instance; due: events it will send.       *)
Init == \E viewer \in Viewers :
  v = [h |-> [x \in H |-> NoHandle], c |-> [x \in Commons |-> NoCommon],
       q |-> <<>>, sent |-> <<>>, jobs |-> <<>>, timer |-> FALSE, up |-> TRUE,
       m |-> [x \in Commons |-> "none"], due |-> {}, anon |-> 0,
       uses |-> viewer[1], calls |-> viewer[2], faults |-> 0, events |-> 0,
       crashed |-> FALSE]

Com(w, h) == w.c[w.h[h].com]

(* A common handle that find_common_handle finds by its id.                *)
Named(w, c) == w.c[c].st \in {"C", "D"} /\ w.c[c].id
Stamped(w, c) == w.c[c].st \in {"C", "D"}
-----------------------------------------------------------------------------
(* Handles.                                                                *)

WidgetRef(w, h) == IF h = NoH THEN w ELSE [w EXCEPT !.h[h].ref = @ + 1]

CommonRef(w, c, h) ==
  [w EXCEPT !.c[c].list = Append(@, h), !.h[h].com = c]

DestroyCommon(w, c) == [w EXCEPT !.c[c] = [NoCommon EXCEPT !.st = "gone"]]

CommonUnref(w, c, h) == [w EXCEPT !.c[c].list = SelectSeq(@, LAMBDA x : x # h)]

\* The viewer's callback of slot s is called.
Fire(w, h, s) ==
  IF h = NoH THEN [w EXCEPT !.anon = @ - 1]
  ELSE [w EXCEPT !.h[h].owed[s] = @ - 1]

Owe(w, h, s) ==
  IF h = NoH THEN [w EXCEPT !.anon = @ + 1]
  ELSE [w EXCEPT !.h[h].owed[s] = @ + 1]

\* Seeded fault: the callback is called and stays in its slot.
TakeNot(w, h, s) == Fire(w, h, s)

\* The slot is emptied, and what it held is called.
Take(w, h, s) == Fire([w EXCEPT !.h[h].cb = @ \ {s}], h, s)

Put(w, h, s) == [w EXCEPT !.h[h].cb = @ \cup {s}]

\* At the last reference every callback still in a slot is called once.
Free(w, h) ==
  LET c == w.h[h].com
      u == CommonUnref(
             [w EXCEPT !.h[h] =
                [NoHandle EXCEPT
                   !.st = "gone", !.late = w.h[h].late,
                   !.owed = [s \in Slots |-> w.h[h].owed[s]
                                             - IF s \in w.h[h].cb THEN 1 ELSE 0]]],
             c, h)
  IN IF u.c[c].list = <<>> THEN DestroyCommon(u, c) ELSE u

WidgetUnref(w, h) ==
  IF h = NoH THEN w
  ELSE IF w.h[h].ref > 1 THEN [w EXCEPT !.h[h].ref = @ - 1] ELSE Free(w, h)

(* widget_invoke_event_handler: an update of a widget that is shared and   *)
(* not in show is only noted.                                              *)
InvokeEventHandler(w, h, event) ==
  LET many == Len(Com(w, h).list) > 1 IN
  IF event = "updated" /\ many /\ ~w.h[h].vis
  THEN [w EXCEPT !.h[h].paused = TRUE, !.h[h].missed = TRUE]
  ELSE [w EXCEPT !.h[h].paused = @ /\ ~(event = "updated" /\ many),
                 !.h[h].missed = @ /\ event # "updated",
                 !.h[h].late = @ \/ (w.h[h].told /\ ~w.h[h].listed /\ event # "updated"),
                 !.h[h].told = @ \/ event = "deleted"]

TellAll(w, c, event) ==
  FoldLeft(LAMBDA u, h : InvokeEventHandler(u, h, event), w, w.c[c].list)

\* Only the handles the master made the library make are in widget_list.
DeleteAll(w) ==
  FoldSet(LAMBDA h, u : WidgetUnref(InvokeEventHandler(u, h, "deleted"), h),
          w, {h \in H : w.h[h].listed})

CreateCommon(w, c, size) ==
  [w EXCEPT !.c[c] = [NoCommon EXCEPT !.st = "C", !.size = size]]

NewCommon(w) ==
  {c \in Commons : w.c[c].st = "none" /\ \A d \in 1 .. c - 1 : w.c[d].st # "none"}

FindSharable(w, size) ==
  LET fit == {c \in Commons : /\ Shared /\ w.c[c].st = "C"
                              /\ "size" \notin w.c[c].req /\ w.c[c].size = size}
  IN {c \in fit : \A d \in fit : c <= d}
-----------------------------------------------------------------------------
(* The queue of requests.  A request without an answer is a "post".        *)

CheckAndFireConsumer(w) ==
  [w EXCEPT !.timer = @ \/ (w.q # <<>> /\ w.up)]

PushCommand(w, x)    == CheckAndFireConsumer([w EXCEPT !.q = Append(@, x)])
PrependCommand(w, x) == CheckAndFireConsumer([w EXCEPT !.q = <<x>> \o @])

\* carries: the viewer's callback travels with the command (cb_info).
Command(w, h, op, slot, carries) ==
  [op |-> op, h |-> h, c |-> IF h = NoH THEN 0 ELSE w.h[h].com,
   slot |-> slot, carries |-> carries, ttl |-> Ttl]

AsyncRequest(w, h, op, slot, carries) ==
  PushCommand(WidgetRef(w, h), Command(w, h, op, slot, carries))

RequestOnly(w, h) ==
  PushCommand(WidgetRef(w, h), Command(w, h, "post", "", FALSE))

DestroyCommand(w, x) == WidgetUnref(w, x.h)

\* Seeded fault: a job without a reference of its handle.
JobUnheld(w, h, job, carries) ==
  [w EXCEPT !.jobs = Append(@, [h |-> h, job |-> job, carries |-> carries])]

JobAdd(w, h, job, carries) ==
  [WidgetRef(w, h) EXCEPT
     !.jobs = Append(@, [h |-> h, job |-> job, carries |-> carries])]

CreateRealInstance(w, h) ==
  [AsyncRequest(w, h, "new", "created", TRUE) EXCEPT
     !.c[w.h[h].com].req = @ \cup {"created"}]

CreateFakeInstance(w, h) == JobAdd(w, h, "create", TRUE)

SendDelete(w, h) ==
  IF "deleted" \in Com(w, h).req THEN Fire(w, h, "deleted")
  ELSE [AsyncRequest(w, h, "delete", "deleted", TRUE) EXCEPT
          !.c[w.h[h].com].req = @ \cup {"deleted"}]
-----------------------------------------------------------------------------
(* Visibility: the common handle is in show when one of its handles is.    *)

InShow(w, c) == {h \in ToSet(w.c[c].list) : w.h[h].vis}

\* Seeded fault: what was missed is looked at for the first handle only.
SetVisibleFirst(w, h, show) ==
  LET c == w.h[h].com
      post == [RequestOnly(w, h) EXCEPT !.c[c].vis = show]
  IN IF show = w.c[c].vis \/ (~show /\ InShow(w, c) # {}) THEN w
     ELSE IF show /\ w.h[h].paused THEN JobAdd(post, h, "refresh", FALSE) ELSE post

SetCommonVisible(w, h, show) ==
  LET c == w.h[h].com
      post == [RequestOnly(w, h) EXCEPT !.c[c].vis = show]
  IN CASE ~w.c[c].vis /\ show ->
            IF w.h[h].paused THEN JobAdd(post, h, "refresh", FALSE) ELSE post
       [] w.c[c].vis /\ ~show ->
            IF InShow(w, c) # {} THEN w ELSE post
       [] w.c[c].vis /\ show /\ w.h[h].paused ->
            JobAdd(w, h, "refresh", FALSE)
       [] OTHER -> w

UpdateVisibility(w, c) ==
  LET shown == SelectSeq(w.c[c].list, LAMBDA h : w.h[h].vis)
  IN IF shown # <<>> THEN SetCommonVisible(w, shown[1], TRUE)
     ELSE IF w.c[c].list = <<>> THEN w
     ELSE SetCommonVisible(w, w.c[c].list[1], FALSE)
-----------------------------------------------------------------------------
(* Answers to requests: "ok", "fail", "gone" (NOT_EXIST), "busy", and      *)
(* "null" when there is no answer.                                         *)

\* Somebody deleted the instance, and nobody else holds this handle.
Vanished(w, h, ret) ==
  IF ret = "gone" /\ Com(w, h).st # "D" /\ w.h[h].ref = 2
  THEN WidgetUnref(InvokeEventHandler(w, h, "deleted"), h) ELSE w

\* The end of the callbacks that only care for a refusal.
Refused(w, h, s, ret) ==
  IF ret = "ok" THEN w
  ELSE IF s \notin w.h[h].cb THEN [w EXCEPT !.crashed = TRUE]
  ELSE Vanished([Take(w, h, s) EXCEPT !.c[w.h[h].com].req = @ \ {s}], h, ret)

UpdateModeCb(w, h, ret) == Refused(w, h, "mode", ret)
ResizeCb(w, h, ret)     == Refused(w, h, "size", ret)
SetGroupRetCb(w, h, ret) == Refused(w, h, "group", ret)
PeriodRetCb(w, h, ret)  == Refused(w, h, "period", ret)
GbarCreateCb(w, h, ret) == Refused(w, h, "gbar", ret)
PinupDoneCb(w, h, ret)  == Refused(w, h, "pinup", ret)
KeyRetCb(w, h, ret) == IF ret = "null" THEN w ELSE Refused(w, h, "key", ret)
AccessRetCb(w, h, ret) ==
  IF ret = "null" THEN w ELSE Refused(w, h, "access", ret)

TextSignalCb(w, h) == Fire(w, h, "text")

\* activated_cb, _delete_cluster_cb, _delete_category_cb: no handle.
ActivatedCb(w)      == Fire(w, NoH, "")
DeleteClusterCb(w)  == Fire(w, NoH, "")
DeleteCategoryCb(w) == Fire(w, NoH, "")

GbarDestroyCb(w, h, ret) ==
  IF ret = "ok" THEN Put(w, h, "ungbar")
  ELSE Fire([w EXCEPT !.c[w.h[h].com].gbar = FALSE,
                      !.c[w.h[h].com].req = @ \ {"ungbar"}], h, "ungbar")

\* A busy pixmap is asked for again; an extra one is not.
WidgetPixmapAcquiredCb(w, h, ret) ==
  IF ret = "busy" THEN AsyncRequest(w, h, "pixmap", "pixmap", TRUE)
  ELSE Vanished(Fire(w, h, "pixmap"), h, ret)
GbarPixmapAcquiredCb(w, h, ret) ==
  IF ret = "busy" THEN AsyncRequest(w, h, "gbar pixmap", "pixmap", TRUE)
  ELSE Vanished(Fire(w, h, "pixmap"), h, ret)
WidgetXpixmapAcquiredCb(w, h, ret) == Vanished(Fire(w, h, "pixmap"), h, ret)
GbarXpixmapAcquiredCb(w, h, ret)   == Vanished(Fire(w, h, "pixmap"), h, ret)

NewRetCb(w, h, ret) ==
  IF ret = "ok" THEN Put(w, h, "created")
  ELSE WidgetUnref(Fire(w, h, "created"), h)

DelRetCb(w, h, ret) ==
  IF ret = "ok" THEN Put(w, h, "deleted") ELSE Fire(w, h, "deleted")

RetCb(w, x, ret) ==
  CASE x.op = "new"     -> NewRetCb(w, x.h, ret)
    [] x.op = "delete"  -> DelRetCb(w, x.h, ret)
    [] x.op = "mode"    -> UpdateModeCb(w, x.h, ret)
    [] x.op = "size"    -> ResizeCb(w, x.h, ret)
    [] x.op = "group"   -> SetGroupRetCb(w, x.h, ret)
    [] x.op = "period"  -> PeriodRetCb(w, x.h, ret)
    [] x.op = "gbar"    -> GbarCreateCb(w, x.h, ret)
    [] x.op = "pinup"   -> PinupDoneCb(w, x.h, ret)
    [] x.op = "key"     -> KeyRetCb(w, x.h, ret)
    [] x.op = "access"  -> AccessRetCb(w, x.h, ret)
    [] x.op = "ungbar"  -> GbarDestroyCb(w, x.h, ret)
    [] x.op = "text"    -> TextSignalCb(w, x.h)
    [] x.op = "pixmap"  -> WidgetPixmapAcquiredCb(w, x.h, ret)
    [] x.op = "gbar pixmap"  -> GbarPixmapAcquiredCb(w, x.h, ret)
    [] x.op = "xpixmap"      -> WidgetXpixmapAcquiredCb(w, x.h, ret)
    [] x.op = "gbar xpixmap" -> GbarXpixmapAcquiredCb(w, x.h, ret)
    [] x.op = "activate" -> ActivatedCb(w)
    [] x.op = "cluster"  -> DeleteClusterCb(w)
    [] x.op = "category" -> DeleteCategoryCb(w)
    [] OTHER -> w          \* acquire_cb, and a post

Answered(w, x, ret) == DestroyCommand(RetCb(w, x, ret), x)

\* done_cb without a packet: the request is sent again while it may be.
Unanswered(w, x) ==
  IF x.ttl > 1 THEN PrependCommand(w, [x EXCEPT !.ttl = @ - 1])
  ELSE Answered(w, x, "null")

CmdConsumer ==
  /\ v.timer
  /\ IF v.q = <<>> THEN v' = [v EXCEPT !.timer = FALSE]
     ELSE LET x == Head(v.q)
              w == [v EXCEPT !.q = Tail(@)]
          IN v' = IF x.op = "post" THEN DestroyCommand(w, x)
                  ELSE IF v.up THEN [w EXCEPT !.sent = Append(@, x)]
                  ELSE Answered(w, x, "null")

\* Every request of the package, which is the package of all of them.
ClearFaultPackage(w) ==
  FoldLeft(LAMBDA u, x : Answered(u, x, "null"),
           [w EXCEPT !.q = SelectSeq(@, LAMBDA x : x.h = NoH)],
           SelectSeq(w.q, LAMBDA x : x.h # NoH))

ClearAllRequest(w) ==
  FoldLeft(LAMBDA u, x : Answered(u, x, "null"), [w EXCEPT !.q = <<>>], w.q)
-----------------------------------------------------------------------------
(* Jobs run one by one from a timer of their own.                          *)

CreateCb(w, h) == InvokeEventHandler(Fire(w, h, "created"), h, "updated")
ResizeJobCb(w, h) == InvokeEventHandler(Fire(w, h, "size"), h, "updated")

RefreshForPausedUpdatingCb(w, h) ==
  IF w.h[h].paused THEN InvokeEventHandler(w, h, "updated") ELSE w

JobDelCb(w, h) ==
  LET c == w.h[h].com
      seen == IF w.h[h].vis THEN UpdateVisibility(w, c) ELSE w
      gone == [seen EXCEPT !.c[c].st = "D"]
      told == IF seen.c[c].id THEN gone ELSE Fire(gone, h, "deleted")
  IN CASE seen.c[c].st # "C" -> Fire(seen, h, "deleted")
       [] seen.c[c].st = "C" /\ Len(seen.c[c].list) = 1 -> SendDelete(told, h)
       [] OTHER -> WidgetUnref(Fire(seen, h, "deleted"), h)

\* A slot that an answer has not filled yet, or has emptied, is skipped.
TurnOff(w, h, s) ==
  IF s \notin Com(w, h).req THEN w
  ELSE LET u == [w EXCEPT !.c[w.h[h].com].req = @ \ {s}]
       IN IF s \in w.h[h].cb THEN Take(u, h, s) ELSE u

TurnOffGbarDestroyedFlagCb(w, h) == TurnOff(w, h, "ungbar")
TurnOffGbarCreatedFlagCb(w, h)   == TurnOff(w, h, "gbar")

RunJob(w, x) ==
  CASE x.job = "create"  -> CreateCb(w, x.h)
    [] x.job = "size"    -> ResizeJobCb(w, x.h)
    [] x.job = "refresh" -> RefreshForPausedUpdatingCb(w, x.h)
    [] x.job = "delete"  -> JobDelCb(w, x.h)
    [] x.job = "ungbar"  -> TurnOffGbarDestroyedFlagCb(w, x.h)
    [] x.job = "gbar"    -> TurnOffGbarCreatedFlagCb(w, x.h)

JobExecute ==
  /\ v.jobs # <<>>
  /\ LET x == Head(v.jobs)
     IN v' = WidgetUnref(RunJob([v EXCEPT !.jobs = Tail(@)], x), x.h)
-----------------------------------------------------------------------------
(* Calls of the viewer.                                                    *)

Calls(f) == f \in v.uses /\ v.calls > 0

Called(w) == [w EXCEPT !.calls = @ - 1]

Usable(h) == v.h[h].st = "C" /\ Com(v, h).st = "C" /\ Com(v, h).id

AddWidget(h, size) ==
  /\ Calls("add") /\ v.h[h].st = "none"
  /\ LET new(c) == [CommonRef(v, c, h) EXCEPT !.h[h].st = "C"]
         fit == FindSharable(v, size)
     IN \/ \E c \in NewCommon(v) :
             /\ fit = {}
             /\ v' = Called(WidgetRef(Owe(CreateRealInstance(
                       CommonRef([CreateCommon(v, c, size) EXCEPT !.h[h].st = "C"],
                                 c, h), h), h, "created"), h))
        \/ \E c \in fit :
             v' = Called(WidgetRef(Owe(
                    IF "created" \in v.c[c].req THEN Put(new(c), h, "created")
                    ELSE CreateFakeInstance(new(c), h), h, "created"), h))

DeleteWidget(h) ==
  /\ Calls("delete") /\ v.h[h].st = "C"
  /\ "early delete" \in Rare \/ Com(v, h).id
  /\ v' = Called(Owe(JobAdd([v EXCEPT !.h[h].st = "D"], h, "delete", TRUE),
                     h, "deleted"))

\* A request whose callback waits in slot s, one at a time per instance.
Ask(w, h, s) ==
  Owe(Put([AsyncRequest(w, h, s, s, FALSE) EXCEPT
             !.c[w.h[h].com].req = @ \cup {s}], h, s), h, s)

Request(f, h, s) ==
  /\ Calls(f) /\ Usable(h) /\ s \notin Com(v, h).req
  /\ v' = Called(Ask(v, h, s))

\* An instance of the system may not be changed by the user.
SetPeriod(h)     == Request("period", h, "period") /\ Com(v, h).user
SetUpdateMode(h) == Request("mode", h, "mode") /\ Com(v, h).user
SetGroup(h)      == Request("group", h, "group") /\ Com(v, h).user
SetPinup(h)      == Request("pinup", h, "pinup")

FeedAccessEvent(h) == Request("access", h, "access")
FeedKeyEvent(h)    == Request("key", h, "key")

Asking(w, h) ==
  \/ w.h[h].cb # {}
  \/ \E x \in ToSet(w.q \o w.sent) : x.h = h /\ x.op # "post"

\* A handle that shares its instance leaves it for one of the new size.
ResizeWidget(h, size) ==
  /\ Calls("size") /\ Usable(h)
  /\ "size" \notin v.h[h].cb /\ Com(v, h).size # size /\ Com(v, h).user
  /\ "resize while asked" \in Rare \/ ~Asking(v, h)
  /\ LET old == v.h[h].com
         move(w, c) == CommonRef(CommonUnref(w, old, h), c, h)
         look(w, c) == IF v.h[h].vis THEN UpdateVisibility(w, c) ELSE w
         fit == FindSharable(v, size)
     IN \/ Len(v.c[old].list) = 1 /\ v' = Called(Ask(v, h, "size"))
        \/ /\ Len(v.c[old].list) > 1 /\ fit = {}
           /\ \E c \in NewCommon(v) :
                v' = Called(look(Owe(CreateRealInstance(
                       move(CreateCommon(v, c, size), c), h), h, "created"), old))
        \/ /\ Len(v.c[old].list) > 1
           /\ \E c \in fit :
                v' = Called(look(look(
                       move(Owe(JobAdd(v, h, "size", TRUE), h, "size"), c), old), c))

CreateGlanceBar(h) ==
  /\ Calls("gbar") /\ Usable(h) /\ Com(v, h).fb
  /\ ~Com(v, h).gbar /\ "gbar" \notin Com(v, h).req
  /\ LET w == IF "ungbar" \in Com(v, h).req THEN JobAdd(v, h, "ungbar", FALSE) ELSE v
     IN v' = Called(Ask(w, h, "gbar"))

DestroyGlanceBar(h) ==
  /\ Calls("ungbar") /\ Usable(h) /\ Com(v, h).fb
  /\ Com(v, h).gbar \/ "gbar" \in Com(v, h).req
  /\ "ungbar" \notin Com(v, h).req
  /\ LET w == IF "gbar" \in Com(v, h).req THEN JobAdd(v, h, "gbar", FALSE) ELSE v
     IN v' = Called([Owe(AsyncRequest(w, h, "ungbar", "ungbar", TRUE), h, "ungbar")
                     EXCEPT !.c[w.h[h].com].req = @ \cup {"ungbar"}])

SetVisibility(h, show) ==
  /\ Calls("show") /\ Usable(h) /\ v.h[h].vis # show
  /\ v' = Called(SetCommonVisible([v EXCEPT !.h[h].vis = show], h, show))

\* Requests whose callback travels with them.
Carried(f, h, op, slot) ==
  /\ Calls(f) /\ Usable(h)
  /\ v' = Called(Owe(AsyncRequest(v, h, op, slot, TRUE), h, slot))

EmitTextSignal(h)       == Carried("text", h, "text", "text")
AcquireWidgetPixmap(h)  == Carried("pixmap", h, "pixmap", "pixmap") /\ Com(v, h).fb
AcquireGbarPixmap(h)    == Carried("pixmap", h, "gbar pixmap", "pixmap") /\ Com(v, h).fb
AcquireWidgetXpixmap(h) == Carried("xpixmap", h, "xpixmap", "pixmap")
AcquireGbarXpixmap(h)   == Carried("xpixmap", h, "gbar xpixmap", "pixmap")

\* Requests without an answer.
Posts(f, h) == Calls(f) /\ Usable(h) /\ v' = Called(RequestOnly(v, h))

SendClickEvent(h)   == Posts("post", h)
FeedMouseEvent(h)   == Posts("post", h) /\ Com(v, h).fb
RefreshWidget(h)    == Posts("post", h)
MoveGlanceBar(h)    == Posts("post", h) /\ Com(v, h).gbar

\* A deleted widget may still hold a pixmap.
ReleaseResourceId(h) ==
  /\ Calls("post") /\ v.h[h].st \in {"C", "D"} /\ Com(v, h).id
  /\ v' = Called(RequestOnly(v, h))

\* Requests about no handle.
Tells(f) == Calls(f) /\ v' = Called(RequestOnly(v, NoH))

SubscribeGroup    == Tells("tell")
SubscribeCategory == Tells("tell")
RefreshGroup      == Tells("tell")
NotifyStatusOfViewer      == Tells("tell")
NotifyOrientationOfViewer == Tells("tell")

Asks(op) ==
  /\ Calls("ask")
  /\ v' = Called(Owe(AsyncRequest(v, NoH, op, "", TRUE), NoH, ""))

ActivateFaultedWidget == Asks("activate")
DeleteCluster         == Asks("cluster")
DeleteCategory        == Asks("category")
-----------------------------------------------------------------------------
(* Answers of the master.  It answers in the order of the requests.        *)

Alive(w, c) == w.m[c] \in {"asked", "made"}

Answers(x) ==
  IF x.h = NoH THEN {"ok"}
  ELSE IF x.op = "new" \/ Alive(v, x.c)
  THEN {"ok", "fail"} \cup (IF x.slot = "pixmap" /\ v.events < MaxEvents
                            THEN {"busy"} ELSE {})
  ELSE {"gone"}

\* What the master does with a request it grants.
Granted(w, x, ret) ==
  IF ret = "busy" THEN [w EXCEPT !.events = @ + 1]
  ELSE IF ret # "ok" \/ x.slot \notin Kept THEN w
  ELSE IF x.op = "new"
  THEN [w EXCEPT !.m[x.c] = "asked",
                 !.due = @ \cup {<<"created", x.c>>, <<"id", x.c>>}]
  ELSE [w EXCEPT !.due = @ \cup {<<x.slot, x.c>>}]

DoneCb ==
  /\ v.up /\ v.sent # <<>>
  /\ LET x == Head(v.sent) IN
     \E ret \in Answers(x) :
       v' = Answered(Granted([v EXCEPT !.sent = Tail(@)], x, ret), x, ret)
-----------------------------------------------------------------------------
(* Messages of the master: those it owes, and those it sends unasked.      *)

Owed(event, c) == v.up /\ <<event, c>> \in v.due
Paid(event, c) == [v EXCEPT !.due = @ \ {<<event, c>>}]

Unasked(c) == v.up /\ v.events < MaxEvents /\ Alive(v, c)
Spent == [v EXCEPT !.events = @ + 1]

\* Everyone whose callback waits is called; the others hear of a success.
EndRequest(w, c, s, ok) ==
  FoldLeft(LAMBDA u, h : IF s \in u.h[h].cb THEN Take(u, h, s)
                         ELSE IF ok THEN InvokeEventHandler(u, h, s) ELSE u,
           [w EXCEPT !.c[c].req = @ \ {s}], w.c[c].list)

Reached(w, c) == Named(w, c) /\ w.c[c].st = "C"

Result(c, s) ==
  /\ Owed(s, c)
  /\ \E ok \in BOOLEAN :
       v' = IF Reached(v, c) THEN EndRequest(Paid(s, c), c, s, ok) ELSE Paid(s, c)

MasterUpdateMode(c)    == Result(c, "mode")
MasterPeriodChanged(c) == Result(c, "period")
MasterGroupChanged(c)  == Result(c, "group")

\* The state of the common handle is not asked for.
MasterPinup(c) ==
  /\ Owed("pinup", c)
  /\ \E ok \in BOOLEAN :
       v' = IF Named(v, c) THEN EndRequest(Paid("pinup", c), c, "pinup", ok)
            ELSE Paid("pinup", c)

\* Nobody hears of a status that did not ask for it.
MasterStatus(c, s) ==
  /\ Owed(s, c)
  /\ v' = IF Reached(v, c) THEN EndRequest(Paid(s, c), c, s, FALSE) ELSE Paid(s, c)

MasterAccessStatus(c) == MasterStatus(c, "access")
MasterKeyStatus(c)    == MasterStatus(c, "key")

MasterSizeChanged(c) ==
  \/ /\ Owed("size", c)
     /\ \E ok \in BOOLEAN :
          LET w == [Paid("size", c) EXCEPT !.c[c].size = IF ok THEN 3 - @ ELSE @]
          IN v' = IF Reached(v, c) THEN EndRequest(w, c, "size", ok) ELSE Paid("size", c)
  \/ /\ Unasked(c) /\ Reached(v, c)        \* the GBAR
     /\ v' = TellAll([Spent EXCEPT !.c[c].req = @ \ {"size"}], c, "gbar size")

MasterGbarCreated(c) ==
  /\ Owed("gbar", c)
  /\ \E ok \in BOOLEAN :
       v' = IF Reached(v, c) /\ "gbar" \in v.c[c].req
            THEN EndRequest([Paid("gbar", c) EXCEPT !.c[c].gbar = ok], c, "gbar", ok)
            ELSE Paid("gbar", c)

GbarDestroyed(w, c) ==
  IF Reached(w, c) /\ w.c[c].gbar
  THEN EndRequest([w EXCEPT !.c[c].gbar = FALSE], c, "ungbar", TRUE) ELSE w

MasterGbarDestroyed(c) ==
  \/ Owed("ungbar", c) /\ v' = GbarDestroyed(Paid("ungbar", c), c)
  \/ Unasked(c) /\ v.c[c].gbar /\ v' = GbarDestroyed(Spent, c)

MasterUpdateId(c) ==
  /\ Owed("id", c)
  /\ v' = IF Stamped(v, c) THEN [Paid("id", c) EXCEPT !.c[c].id = TRUE]
          ELSE Paid("id", c)

\* An instance the viewer did not ask for.
NewWidget(h, c) ==
  [WidgetRef(WidgetRef(CommonRef([CreateCommon(Spent, c, 1) EXCEPT !.h[h].st = "C"],
                                 c, h), h), h)
   EXCEPT !.h[h].listed = TRUE, !.m[c] = "made",
          !.c[c].id = TRUE, !.c[c].fb = TRUE, !.c[c].user = FALSE]

Announce(w, h) ==
  LET u == IF "created" \in w.h[h].cb THEN Take(w, h, "created")
           ELSE InvokeEventHandler(w, h, "created")
  IN IF Com(u, h).drawn THEN InvokeEventHandler(u, h, "updated") ELSE u

\* The instance comes after the viewer deleted it.
AnnounceDeleted(w, h) ==
  IF "created" \notin w.h[h].cb
  THEN WidgetUnref(InvokeEventHandler(w, h, "deleted"), h)
  ELSE IF "deleted" \notin Com(w, h).req THEN SendDelete(w, h)
  ELSE IF w.h[h].st # "D" THEN WidgetUnref(Fire(w, h, "created"), h)
  ELSE w

MasterCreated(c) ==
  LET w == [Paid("created", c) EXCEPT
              !.m[c] = "made", !.c[c].id = TRUE, !.c[c].fb = TRUE,
              !.c[c].req = @ \ {"created"}]
  IN /\ Owed("created", c) /\ Stamped(v, c)
     /\ v' = IF v.c[c].id /\ "created" \notin v.c[c].req
             THEN Paid("created", c)
             ELSE IF w.c[c].st = "C" THEN FoldLeft(Announce, w, w.c[c].list)
             ELSE FoldLeft(AnnounceDeleted, w, w.c[c].list)

MasterCreatedUnasked(h) ==
  /\ v.up /\ v.events < MaxEvents /\ v.h[h].st = "none" /\ "adopt" \in v.uses
  /\ \E c \in NewCommon(v) :
       v' = InvokeEventHandler(NewWidget(h, c), h, "created")

\* One callback hears of the end, and the handle loses a reference.
DeletedOne(w, h) ==
  LET u == CASE "created" \in w.h[h].cb -> Take(w, h, "created")
             [] Com(w, h).id /\ "created" \notin w.h[h].cb ->
                  IF "deleted" \in w.h[h].cb THEN Take(w, h, "deleted")
                  ELSE InvokeEventHandler(w, h, "deleted")
             [] OTHER -> w
  IN WidgetUnref(u, h)

Deleted(w, c) ==
  LET u == [w EXCEPT !.m[c] = "gone", !.due = {d \in @ : d[2] # c}]
  IN IF ~Stamped(u, c) THEN u
     ELSE FoldLeft(DeletedOne, [u EXCEPT !.c[c].req = @ \ {"deleted"}, !.c[c].st = "D"],
                   u.c[c].list)

\* What keeps a handle the viewer has given up.
Held(w, h) ==
  Len(SelectSeq(w.q \o w.sent, LAMBDA x : x.h = h))
    + Len(SelectSeq(w.jobs, LAMBDA x : x.h = h))

MasterDeleted(c) ==
  /\ "released twice" \in Rare \/ \A h \in ToSet(v.c[c].list) : Held(v, h) < v.h[h].ref
  /\ \/ Owed("deleted", c) /\ v' = Deleted(v, c)
     \/ Unasked(c) /\ v' = Deleted(Spent, c)

\* An update is not told while the widget is created, or may be dropped
\* while its size changes.
Updated(c, event) ==
  /\ Unasked(c) /\ Reached(v, c)
  /\ LET w == [Spent EXCEPT !.c[c].drawn = TRUE] IN
     \/ v' = IF "created" \in v.c[c].req THEN w ELSE TellAll(w, c, event)
     \/ "size" \in v.c[c].req /\ v' = w

MasterWidgetUpdated(c) == Updated(c, "updated")
MasterExtraUpdated(c)  == Updated(c, "extra updated")

Notice(c, event) ==
  Unasked(c) /\ Reached(v, c) /\ v' = TellAll(Spent, c, event)

MasterWidgetUpdateBegin(c) == v.c[c].fb /\ Notice(c, "update begin")
MasterWidgetUpdateEnd(c)   == v.c[c].fb /\ Notice(c, "update end")
MasterGbarUpdateEnd(c)     == v.c[c].fb /\ Notice(c, "gbar update end")
MasterGbarUpdated(c)       == Notice(c, "gbar updated")
MasterExtraInfo(c)         == Notice(c, "extra info")
MasterRequestCloseGbar(c)  == v.c[c].gbar /\ Notice(c, "close gbar")
MasterXbufCreated(c)       == Notice(c, "xbuf created")
MasterGbarXbufCreated(c)   == Notice(c, "gbar xbuf created")
MasterXbufDestroyed(c)     == Notice(c, "xbuf destroyed")
MasterGbarXbufDestroyed(c) == Notice(c, "gbar xbuf destroyed")

\* Told whatever the state of the common handle.
MasterHoldScroll(c) ==
  Unasked(c) /\ Named(v, c) /\ v' = TellAll(Spent, c, "scroll")

MasterFaultPackage ==
  /\ v.up /\ v.faults < MaxFaults
  /\ v' = [ClearFaultPackage(v) EXCEPT !.faults = @ + 1]
-----------------------------------------------------------------------------
(* The connection.  The library is told of its end before com-core gives   *)
(* up the requests in flight: those go back to a queue just cleared.       *)

MakeConnection(w) ==
  PrependCommand([w EXCEPT !.up = TRUE], Command(w, NoH, "acquire", "", FALSE))

DisconnectedCb ==
  /\ v.up /\ v.faults < MaxFaults
  /\ LET lost == [v EXCEPT !.up = FALSE, !.faults = @ + 1, !.due = {}, !.sent = <<>>,
                           !.m = [c \in Commons |-> IF Alive(v, c) THEN "gone" ELSE @[c]]]
     IN v' = FoldLeft(Unanswered, DeleteAll(ClearAllRequest(lost)), v.sent)

\* The timer of the lost connection, or the master that has started.
MasterStartedCb == ~v.up /\ v' = MakeConnection(v)
-----------------------------------------------------------------------------
Viewer ==
  \/ \E h \in H :
       \/ \E size \in Sizes : AddWidget(h, size) \/ ResizeWidget(h, size)
       \/ DeleteWidget(h)
       \/ \E show \in BOOLEAN : SetVisibility(h, show)
       \/ SetPeriod(h) \/ SetUpdateMode(h) \/ SetGroup(h) \/ SetPinup(h)
       \/ FeedAccessEvent(h) \/ FeedKeyEvent(h)
       \/ CreateGlanceBar(h) \/ DestroyGlanceBar(h)
       \/ EmitTextSignal(h)
       \/ AcquireWidgetPixmap(h) \/ AcquireGbarPixmap(h)
       \/ AcquireWidgetXpixmap(h) \/ AcquireGbarXpixmap(h)
       \/ SendClickEvent(h) \/ FeedMouseEvent(h) \/ RefreshWidget(h)
       \/ MoveGlanceBar(h) \/ ReleaseResourceId(h)
  \/ SubscribeGroup \/ SubscribeCategory \/ RefreshGroup
  \/ NotifyStatusOfViewer \/ NotifyOrientationOfViewer
  \/ ActivateFaultedWidget \/ DeleteCluster \/ DeleteCategory

Master ==
  \/ \E c \in Commons :
       \/ MasterUpdateMode(c) \/ MasterPeriodChanged(c) \/ MasterGroupChanged(c)
       \/ MasterPinup(c) \/ MasterAccessStatus(c) \/ MasterKeyStatus(c)
       \/ MasterSizeChanged(c) \/ MasterGbarCreated(c) \/ MasterGbarDestroyed(c)
       \/ MasterUpdateId(c) \/ MasterCreated(c) \/ MasterDeleted(c)
       \/ MasterWidgetUpdated(c) \/ MasterExtraUpdated(c)
       \/ MasterWidgetUpdateBegin(c) \/ MasterWidgetUpdateEnd(c)
       \/ MasterGbarUpdateEnd(c) \/ MasterGbarUpdated(c) \/ MasterExtraInfo(c)
       \/ MasterRequestCloseGbar(c) \/ MasterHoldScroll(c)
       \/ MasterXbufCreated(c) \/ MasterGbarXbufCreated(c)
       \/ MasterXbufDestroyed(c) \/ MasterGbarXbufDestroyed(c)
  \/ \E h \in H : MasterCreatedUnasked(h)
  \/ MasterFaultPackage

Next ==
  /\ ~v.crashed
  /\ \/ Viewer \/ Master
     \/ CmdConsumer \/ JobExecute \/ DoneCb
     \/ DisconnectedCb \/ MasterStartedCb

Spec == Init /\ [][Next]_vars
=============================================================================
