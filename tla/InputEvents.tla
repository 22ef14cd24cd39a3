---------------------------- MODULE InputEvents ----------------------------
(***************************************************************************)
(* How touches, keys and accessibility events of a viewer reach one widget *)
(* instance.  There are two ways, and a viewer uses one of them:           *)
(*   "device"  the viewer asks (mouse set, key set) and the master reads   *)
(*             the input device itself: event.c, a thread that collects    *)
(*             events, a list of items behind a lock, a pipe that tells    *)
(*             the main loop of them and a list of listeners;              *)
(*   "viewer"  the viewer sends every event: the handlers of server.c feed *)
(*             it to the script, or forward it to the slave, and the       *)
(*             status of a key or access event comes back later.           *)
(* An operator maps the state to the state after the C function it stands  *)
(* for.  A package with direct input, whose slave reads the device, keeps  *)
(* no state here; a device that cannot be opened or read is left out.      *)
(***************************************************************************)
EXTENDS Integers, Sequences, FiniteSets, SequencesExt

CONSTANTS
  WidgetType, GbarType,  (* "buffer" (the slave draws) or "script"          *)
  Slots,                 (* fingers of the device                           *)
  Uses,                  (* the sets of listeners (callback and finger) a   *)
                         (* viewer may work with                            *)
  MaxItems,              (* bound: items the main loop has not taken        *)
  MaxTime,               (* bound: the clock                                *)
  Rare                   (* the rarer things a viewer does, see RareEvents  *)

RareEvents ==
  {"script deleted",     \* a script instance goes while it has a listener
   "tap while delayed"}  \* a finger goes, or comes again, while its listener
                         \* waits for the end of the last thread

Types == {"buffer", "script"}
Canvases == {"widget", "gbar"}
Callbacks == Canvases \X {"mouse", "key"}

ASSUME InputAssumption ==
  /\ WidgetType \in Types /\ GbarType \in Types
  /\ IsFiniteSet(Slots) /\ Slots \subseteq Nat /\ MaxItems \in Nat \ {0} /\ MaxTime \in Nat
  /\ \A use \in Uses : use \subseteq Callbacks \X Slots
  /\ Rare \subseteq RareEvents

VARIABLE e

vars == e

AnySlot == -1

TypeOf(c) == IF c = "widget" THEN WidgetType ELSE GbarType

(* Route and consume callbacks.  Both key handlers of the GBAR choose by   *)
(* the type of the widget.                                                 *)
Consumes(cb) ==
  IF cb = <<"gbar", "mouse">> THEN GbarType = "script" ELSE WidgetType = "script"

NoData == [slot |-> 0, tv |-> 0, full |-> FALSE]

(* ACTIVATE is "down", ACTIVATED "move", DEACTIVATE "unset" and, told to a *)
(* callback, "up".                                                         *)
Active == {"down", "move"}
-----------------------------------------------------------------------------
(* Telling a listener *)

RouteFails(l)   == ~Consumes(l.cb) /\ ~l.inst
ConsumeFails(l) == Consumes(l.cb) /\ l.inst /\ TypeOf(l.cb[1]) # "script"

(* A callback that fails loses its listener.                               *)
Refuses(l) == RouteFails(l) \/ ConsumeFails(l)

Follows(told) == IF told = "up" THEN {"down"} ELSE {"move", "up"}

(* script_handler_update_pointer: -1 leaves the button alone.              *)
UpdatePointer(s, c, down) ==
  IF down \in {0, 1} THEN [s EXCEPT !.down[c] = down = 1] ELSE s

Button(cb, what) ==
  IF cb[2] # "mouse" THEN -1
  ELSE CASE what = "down" -> 1 [] what = "up" -> 0 [] OTHER -> -1

Consume(s, cb, what) ==
  IF Consumes(cb) THEN UpdatePointer(s, cb[1], Button(cb, what)) ELSE s

\* The consume callbacks do not look whether there is an instance.
Tell(s, l, what) ==
  LET k == <<l.cb, l.slot>>
  IN  IF Consumes(l.cb) /\ ~l.inst THEN [s EXCEPT !.null = TRUE]
      ELSE IF Refuses(l) THEN s
      ELSE [Consume(s, l.cb, what) EXCEPT
              !.told[k] = what, !.orderly = @ /\ what \in Follows(s.told[k])]

\* Seeded fault: does not make up the events nobody was told
FreshOnly(l) == l.state = "down"

\* Whether nobody was told anything for the listener yet
Fresh(l) == l.state = "down" \/ (l.state = "unset" /\ l.prev = "down")

(* Its last events: DOWN and MOVE are made up where they are missing.      *)
ClearListener(s, l) ==
  LET down == IF Fresh(l) THEN Tell(s, l, "down") ELSE s
      move == IF Fresh(l) \/ l.state = "move" THEN Tell(down, l, "move") ELSE down
  IN  Tell(move, l, "up")
-----------------------------------------------------------------------------
(* The thread's life *)

CanStart(s) == ~s.handler

ActivateThread(s) ==
  [s EXCEPT !.handler = TRUE, !.thread = "start", !.active = TRUE]

DeactivateThread(s) == [s EXCEPT !.quit = TRUE, !.joining = TRUE]

\* The item and the character are written by whoever calls.
PushItem(s) ==
  IF s.data.full
  THEN [s EXCEPT !.items = Append(@, [slot |-> s.data.slot, tv |-> s.data.tv])]
  ELSE s

NewListener(s, cb, slot) ==
  [cb |-> cb, slot |-> slot, state |-> "down", prev |-> "none",
   tv |-> s.now - 1, done |-> FALSE, inst |-> TRUE]

Registered(s, cb, slot) ==
  \E k \in DOMAIN s.listeners :
    LET l == s.listeners[k] IN l.cb = cb /\ l.slot = slot /\ l.inst

\* Whether event_activate takes the listener
Accepts(s, cb, slot) ==
  ~Registered(s, cb, slot) /\ (s.active \/ s.items # <<>> \/ CanStart(s))

EventActivate(s, cb, slot) ==
  LET l == NewListener(s, cb, slot)
      t == [s EXCEPT !.listeners = Append(@, l)]
  IN  IF s.active THEN t
      ELSE IF s.items # <<>> THEN [s EXCEPT !.react = Append(@, l)]
      ELSE ActivateThread(t)

\* Seeded fault: writes the item without its character
PushQuietly(s) == PushItem(s)

Push(s) ==
  IF s.data.full THEN [PushItem(s) EXCEPT !.pipe = Append(@, "event")] ELSE s

Mark(l) == [l EXCEPT !.prev = l.state, !.state = "unset"]

EventDeactivate(s, cb, slot) ==
  LET Hit(l)  == /\ l.cb = cb /\ l.inst /\ l.state \in Active
                 /\ slot \in {AnySlot, l.slot}
      hits    == {k \in DOMAIN s.listeners : Hit(s.listeners[k])}
      last    == CHOOSE k \in hits : \A j \in hits : j <= k
      marked  == [k \in DOMAIN s.listeners |->
                    IF k \in hits THEN Mark(s.listeners[k]) ELSE s.listeners[k]]
      keep    == \E k \in DOMAIN marked : marked[k].state \in Active
  IN  IF hits = {} THEN s
      ELSE IF ~s.active THEN [s EXCEPT !.listeners = RemoveAt(marked, last)]
      ELSE IF keep
      THEN Push([s EXCEPT !.listeners = [marked EXCEPT ![last].done = TRUE]])
      ELSE DeactivateThread([s EXCEPT !.listeners = marked])

ResetData(s, cb) ==
  LET Reset(list) == [k \in DOMAIN list |->
                        IF list[k].cb = cb THEN [list[k] EXCEPT !.inst = FALSE]
                        ELSE list[k]]
  IN  [s EXCEPT !.listeners = Reset(@), !.react = Reset(@)]

SetMouseXY(s, slot) ==
  [s EXCEPT !.data = [slot |-> slot, tv |-> s.now, full |-> TRUE]]
-----------------------------------------------------------------------------
Init ==
  \E how \in {"device", "viewer"}, use \in Uses :
  e = [how |-> how, uses |-> IF how = "device" THEN use ELSE {}, now |-> 1, alive |-> TRUE, null |-> FALSE,
       listeners |-> <<>>, react |-> <<>>, items |-> <<>>, pipe |-> <<>>,
       thread |-> "off", quit |-> FALSE, fresh |-> FALSE, data |-> NoData,
       handler |-> FALSE, active |-> FALSE, joining |-> FALSE,
       delcb |-> <<>>, calls |-> <<>>,
       told |-> [k \in Callbacks \X Slots |-> "up"], orderly |-> TRUE,
       down |-> [c \in Canvases |-> FALSE],
       lazy |-> [k \in {"key", "access"} |-> 0],
       sent |-> [k \in {"key", "access"} |-> 0],
       waits |-> [k \in {"key", "access"} |-> FALSE]]

(* The main thread waits for the collector's end, or is deleting.          *)
Idle == ~e.joining /\ e.calls = <<>>

Tick == e.now < MaxTime /\ e' = [e EXCEPT !.now = @ + 1]
-----------------------------------------------------------------------------
(* The collector's thread.  The device gives the events of one report one  *)
(* by one: first whatever it is, its time; then the finger and the place.  *)

ThreadStart ==
  /\ e.thread = "start"
  /\ e' = [e EXCEPT !.thread = "run", !.data.full = FALSE, !.data.slot = 0]

UpdateTimestamp ==
  /\ e.thread = "run" /\ ~e.fresh
  /\ e' = [e EXCEPT !.fresh = TRUE, !.data.tv = e.now]

ProcessingEvAbs(slot) ==
  /\ e.thread = "run" /\ e.fresh
  /\ e' = [e EXCEPT !.data.slot = slot, !.data.full = TRUE]

ProcessingReport ==
  /\ e.thread = "run" /\ e.fresh /\ Len(e.items) < MaxItems
  /\ e' = [PushItem(e) EXCEPT !.fresh = FALSE,
             !.thread = IF e.data.full THEN "push" ELSE "run"]

ThreadWrites ==
  /\ e.thread = "push"
  /\ e' = [e EXCEPT !.pipe = Append(@, "event"), !.thread = "run"]

ThreadQuits ==
  /\ e.thread = "run" /\ e.quit /\ ~e.fresh
  /\ e' = [e EXCEPT !.quit = FALSE, !.thread = "ended", !.pipe = Append(@, "exit")]

Thread ==
  \/ ThreadStart \/ UpdateTimestamp \/ ProcessingReport \/ ThreadWrites
  \/ ThreadQuits
  \/ \E slot \in Slots : ProcessingEvAbs(slot)

(* pthread_join returns to event_deactivate, and perhaps to inst_del_cb.   *)
Join ==
  /\ e.joining /\ e.thread = "ended"
  /\ LET t == [e EXCEPT !.joining = FALSE, !.active = FALSE, !.thread = "off"]
     IN  e' = IF t.calls = <<>> THEN t
              ELSE [ResetData(t, Head(t.calls)) EXCEPT !.calls = Tail(@)]
-----------------------------------------------------------------------------
(* event_read_cb *)

(* What one listener makes of an item: whether it is told, what it is      *)
(* then, and whether it goes.  What is offered to all at the thread's end  *)
(* has AnySlot.                                                            *)
Over == [slot |-> AnySlot, tv |-> 0]

OfferOver(s, l) == [s |-> ClearListener(s, l), keep |-> <<>>]

OfferActive(s, l) ==
  [s |-> Tell(s, l, l.state),
   keep |-> IF Refuses(l) THEN <<>>
            ELSE <<[l EXCEPT !.prev = l.state, !.state = "move"]>>]

OfferUnset(s, l) ==
  IF l.done THEN OfferOver(s, l)
  ELSE [s |-> Tell(s, l, IF l.prev = "down" THEN "down" ELSE "move"),
        keep |-> IF Refuses(l) THEN <<>> ELSE <<[l EXCEPT !.prev = "move"]>>]

Offer(s, l, item) ==
  IF item.slot = AnySlot THEN OfferOver(s, l)
  ELSE IF l.slot = item.slot /\ l.state \in Active /\ l.tv <= item.tv THEN OfferActive(s, l)
  ELSE IF l.slot = item.slot /\ l.state = "unset" /\ l.tv < item.tv THEN OfferUnset(s, l)
  ELSE [s |-> s, keep |-> <<l>>]

(* One listener after the other: the first k of them                       *)
Dispatch(s, item) ==
  LET first[k \in 0..Len(s.listeners)] ==
        IF k = 0 THEN [s |-> s, keep |-> <<>>]
        ELSE LET r == first[k - 1]
                 o == Offer(r.s, s.listeners[k], item)
             IN  [s |-> o.s, keep |-> r.keep \o o.keep]
      all == first[Len(s.listeners)]
  IN  [all.s EXCEPT !.listeners = all.keep]

ClearAll(s) == Dispatch(s, Over)

(* The thread's last word: what is left is told to the end, and those that *)
(* asked meanwhile get a thread of their own.                              *)
\* Seeded fault: forgets those that asked meanwhile
ThreadGoneOnly(s) == ClearAll([s EXCEPT !.handler = FALSE])

ThreadGone(s) ==
  LET t == ClearAll([s EXCEPT !.handler = FALSE])
  IN  IF s.react = <<>> THEN t
      ELSE ActivateThread([t EXCEPT !.listeners = s.react, !.react = <<>>])

EventRead ==
  /\ Idle /\ e.handler /\ e.pipe # <<>>
  /\ LET t == [e EXCEPT !.pipe = Tail(@)]
     IN  e' = IF t.items = <<>>
              THEN IF Head(e.pipe) = "exit" THEN ThreadGone(t) ELSE t
              ELSE Dispatch([t EXCEPT !.items = Tail(@)], Head(t.items))
-----------------------------------------------------------------------------
(* The viewer asks the master to read the device *)

Delayed(cb, slot) ==
  \E l \in Range(e.react) : l.cb = cb /\ l.slot = slot

Asks(cb, slot) ==
  /\ Idle /\ e.alive /\ <<cb, slot>> \in e.uses
  /\ Delayed(cb, slot) => "tap while delayed" \in Rare

\* Once it is taken, the listener has to be ended with the instance.
Set(cb, slot) ==
  /\ Asks(cb, slot)
  /\ Accepts(e, cb, slot)
  /\ LET t == EventActivate(e, cb, slot)
     IN  e' = IF cb \in Range(t.delcb) THEN t
              ELSE [t EXCEPT !.delcb = Append(@, cb)]

Unset(s, cb, slot) ==
  /\ Asks(cb, slot)
  /\ e' = EventDeactivate(s, cb, slot)

WidgetMouseSet(slot) == Set(<<"widget", "mouse">>, slot)
GbarMouseSet(slot)   == Set(<<"gbar", "mouse">>, slot)
WidgetKeySet(slot)   == Set(<<"widget", "key">>, slot)
GbarKeySet(slot)     == Set(<<"gbar", "key">>, slot)

WidgetMouseUnset(slot) == Unset(SetMouseXY(e, slot), <<"widget", "mouse">>, slot)
GbarMouseUnset(slot)   == Unset(SetMouseXY(e, slot), <<"gbar", "mouse">>, slot)
WidgetKeyUnset(slot)   == Unset(e, <<"widget", "key">>, slot)
GbarKeyUnset(slot)     == Unset(e, <<"gbar", "key">>, slot)

(* The instance is destroyed: inst_del_cb is called for each callback.     *)
Spared ==
  \/ "script deleted" \in Rare
  \/ \A l \in Range(e.listeners) \cup Range(e.react) : ~Consumes(l.cb)

DestroyInstance ==
  /\ Idle /\ e.alive /\ Spared
  /\ e' = [e EXCEPT !.alive = FALSE, !.calls = e.delcb, !.delcb = <<>>,
                    !.waits = [k \in DOMAIN @ |-> FALSE],
                    !.sent = [k \in DOMAIN @ |-> 0]]

InstDelCb ==
  /\ e.calls # <<>> /\ ~e.joining
  /\ LET t == EventDeactivate(e, Head(e.calls), AnySlot)
     IN  e' = IF t.joining THEN t
              ELSE [ResetData(t, Head(t.calls)) EXCEPT !.calls = Tail(@)]

Collector ==
  \/ Tick \/ Thread \/ Join \/ EventRead \/ InstDelCb
  \/ \E slot \in Slots :
       \/ WidgetMouseSet(slot) \/ GbarMouseSet(slot)
       \/ WidgetKeySet(slot) \/ GbarKeySet(slot)
       \/ WidgetMouseUnset(slot) \/ GbarMouseUnset(slot)
       \/ WidgetKeyUnset(slot) \/ GbarKeyUnset(slot)
-----------------------------------------------------------------------------
(* The viewer feeds the events itself *)

Feeds == Idle /\ e.alive /\ e.how = "viewer"

(* To a slave the packet goes as it is.                                    *)
Pointer(c, down) ==
  /\ Feeds
  /\ e' = IF TypeOf(c) = "script" THEN UpdatePointer(e, c, down) ELSE e

WidgetMouseEnter == Pointer("widget", -1)
WidgetMouseLeave == Pointer("widget", -1)
WidgetMouseDown  == Pointer("widget", 1)
WidgetMouseMove  == Pointer("widget", -1)
WidgetMouseUp    == Pointer("widget", 0)
WidgetOnScroll   == Pointer("widget", -1)
WidgetOffScroll  == Pointer("widget", -1)
WidgetOnHold     == Pointer("widget", -1)
WidgetOffHold    == Pointer("widget", -1)
GbarMouseEnter   == Pointer("gbar", -1)
GbarMouseLeave   == Pointer("gbar", -1)
GbarMouseDown    == Pointer("gbar", 1)
GbarMouseMove    == Pointer("gbar", -1)
GbarMouseUp      == Pointer("gbar", 0)
GbarOnScroll     == Pointer("gbar", -1)
GbarOffScroll    == Pointer("gbar", -1)
GbarOnHold       == Pointer("gbar", -1)
GbarOffHold      == Pointer("gbar", -1)

(* A key or access event is answered by "taken" and, later, by its status: *)
(* of a script after a delay, so that the answer comes first, of a slave   *)
(* when it says so.  A viewer asks one at a time.                          *)
SendDelayed(s, kind) == [s EXCEPT !.lazy[kind] = @ + 1]

Forward(s, kind) == [s EXCEPT !.sent[kind] = @ + 1]

Taken(s, kind) == [s EXCEPT !.waits[kind] = TRUE]

(* Access: the script sees the type of the event where the button goes.    *)
Access(c, type) ==
  /\ Feeds /\ ~e.waits["access"]
  /\ \/ TypeOf(c) = "buffer"
        /\ e' = Taken(Forward(e, "access"), "access")
     \/ /\ TypeOf(c) = "script"
        /\ \E fed \in BOOLEAN :
             LET t == UpdatePointer(e, c, type)
             IN  e' = IF fed THEN Taken(SendDelayed(t, "access"), "access") ELSE t

AnyType == 0..3

WidgetAccessHl(type)      == Access("widget", type)
WidgetAccessAction(type)  == Access("widget", type)
WidgetAccessScroll(type)  == Access("widget", type)
WidgetAccessValue(type)   == Access("widget", type)
WidgetAccessMouse(type)   == Access("widget", type)
WidgetAccessBack(type)    == Access("widget", type)
WidgetAccessOver(type)    == Access("widget", type)
WidgetAccessRead(type)    == Access("widget", type)
WidgetAccessEnable(type)  == Access("widget", type)
WidgetAccessActivate(type) == Access("widget", type)
GbarAccessHl(type)        == Access("gbar", type)
GbarAccessAction(type)    == Access("gbar", type)
GbarAccessScroll(type)    == Access("gbar", type)
GbarAccessValue(type)     == Access("gbar", type)
GbarAccessMouse(type)     == Access("gbar", type)
GbarAccessBack(type)      == Access("gbar", type)
GbarAccessOver(type)      == Access("gbar", type)
GbarAccessRead(type)      == Access("gbar", type)
GbarAccessEnable(type)    == Access("gbar", type)
GbarAccessActivate(type)  == Access("gbar", type)

(* Keys: what is forwarded for either canvas needs the widget's buffer.    *)
Key(c) ==
  /\ Feeds /\ ~e.waits["key"]
  /\ \/ /\ TypeOf(c) = "buffer" /\ WidgetType = "buffer"
        /\ e' = Taken(Forward(e, "key"), "key")
     \/ /\ TypeOf(c) = "script"
        /\ \E fed \in BOOLEAN :
             e' = IF fed THEN Taken(SendDelayed(e, "key"), "key") ELSE e

WidgetKeyDown     == Key("widget")
WidgetKeyUp       == Key("widget")
WidgetKeyFocusIn  == Key("widget")
WidgetKeyFocusOut == Key("widget")
GbarKeyDown       == Key("gbar")
GbarKeyUp         == Key("gbar")
GbarKeyFocusIn    == Key("gbar")
GbarKeyFocusOut   == Key("gbar")

\* The timer's reference keeps the instance, unless it is the last one.
LazyStatus(kind) ==
  /\ Idle /\ e.lazy[kind] > 0
  /\ e' = [e EXCEPT !.lazy[kind] = @ - 1, !.waits[kind] = FALSE]

LazyKeyStatus    == LazyStatus("key")
LazyAccessStatus == LazyStatus("access")

SlaveStatus(kind) ==
  /\ Idle /\ e.alive /\ e.sent[kind] > 0
  /\ e' = [e EXCEPT !.sent[kind] = @ - 1, !.waits[kind] = FALSE]

SlaveKeyStatus    == SlaveStatus("key")
SlaveAccessStatus == SlaveStatus("access")

Mouse ==
  \/ WidgetMouseEnter \/ WidgetMouseLeave \/ WidgetMouseDown \/ WidgetMouseMove
  \/ WidgetMouseUp \/ WidgetOnScroll \/ WidgetOffScroll \/ WidgetOnHold
  \/ WidgetOffHold
  \/ GbarMouseEnter \/ GbarMouseLeave \/ GbarMouseDown \/ GbarMouseMove
  \/ GbarMouseUp \/ GbarOnScroll \/ GbarOffScroll \/ GbarOnHold \/ GbarOffHold

Accessibility ==
  \E type \in AnyType :
    \/ WidgetAccessHl(type) \/ WidgetAccessAction(type) \/ WidgetAccessScroll(type)
    \/ WidgetAccessValue(type) \/ WidgetAccessMouse(type) \/ WidgetAccessBack(type)
    \/ WidgetAccessOver(type) \/ WidgetAccessRead(type) \/ WidgetAccessEnable(type)
    \/ WidgetAccessActivate(type)
    \/ GbarAccessHl(type) \/ GbarAccessAction(type) \/ GbarAccessScroll(type)
    \/ GbarAccessValue(type) \/ GbarAccessMouse(type) \/ GbarAccessBack(type)
    \/ GbarAccessOver(type) \/ GbarAccessRead(type) \/ GbarAccessEnable(type)
    \/ GbarAccessActivate(type)

Keys ==
  \/ WidgetKeyDown \/ WidgetKeyUp \/ WidgetKeyFocusIn \/ WidgetKeyFocusOut
  \/ GbarKeyDown \/ GbarKeyUp \/ GbarKeyFocusIn \/ GbarKeyFocusOut

Statuses ==
  LazyKeyStatus \/ LazyAccessStatus \/ SlaveKeyStatus \/ SlaveAccessStatus

Next == ~e.null /\ (\/ Collector \/ DestroyInstance
                    \/ Mouse \/ Accessibility \/ Keys \/ Statuses)

Spec == Init /\ [][Next]_vars
=============================================================================
