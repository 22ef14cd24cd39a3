------------------------- MODULE InputEventsProofs -------------------------
(***************************************************************************)
(* What event.c keeps between its thread and the main loop, and the order  *)
(* in which a listener is told, for any fingers, items and uses.           *)
(***************************************************************************)
EXTENDS InputEventsProps, TLAPS, FiniteSetTheorems, WellFoundedInduction

Targets == Callbacks \X Slots
Kinds == {"key", "access"}
Threads == {"off", "start", "run", "push", "ended"}
Tellings == {"down", "move", "up"}
Chars == {"event", "exit"}
EventItem == [slot : Int, tv : Nat]

Collected ==
  [how : {"device", "viewer"}, uses : SUBSET Targets, now : 1..(MaxTime + 1),
   alive : BOOLEAN, null : BOOLEAN,
   listeners : Seq(ListenerState), react : Seq(ListenerState),
   items : Seq(EventItem), pipe : Seq(Chars),
   thread : Threads, quit : BOOLEAN, fresh : BOOLEAN,
   data : [slot : Int, tv : Nat, full : BOOLEAN],
   handler : BOOLEAN, active : BOOLEAN, joining : BOOLEAN,
   delcb : Seq(Callbacks), calls : Seq(Callbacks),
   told : [Targets -> Tellings], orderly : BOOLEAN,
   down : [Canvases -> BOOLEAN], lazy : [Kinds -> 0..1], sent : [Kinds -> 0..1],
   waits : [Kinds -> BOOLEAN]]

Sane(list) == \A k \in DOMAIN list : list[k].prev = "none" <=> list[k].state = "down"

\* Whether EXIT is in the pipe, and that nothing comes after it
Exits(p) == \E k \in DOMAIN p : p[k] = "exit"
LastOnly(p) == \A k \in DOMAIN p : p[k] = "exit" => k = Len(p)

(* The thread runs while it is active, has a handler as long as its EXIT   *)
(* is not read, and ends only when it is waited for.                       *)
Life(s) ==
  /\ s.thread = "off" <=> ~s.active
  /\ s.active => s.handler
  /\ s.joining <=> s.quit \/ s.thread = "ended"
  /\ (s.joining => s.active) /\ (s.thread = "ended" => ~s.quit)
  /\ ~s.handler => s.pipe = <<>>
  /\ LastOnly(s.pipe) /\ (Exits(s.pipe) => s.thread \in {"off", "ended"})
  /\ s.react # <<>> => s.handler /\ ~s.active

\* Every item has its character, but the one that is being pushed.
Paired(s) == Len(s.items) = Events(s) + (IF s.thread = "push" THEN 1 ELSE 0)

Listened(s) ==
  \A k \in DOMAIN s.listeners :
    s.listeners[k].state \in Active => s.active /\ ~s.joining

Counted(s) ==
  \A k \in Kinds : s.alive => s.lazy[k] + s.sent[k] = (IF s.waits[k] THEN 1 ELSE 0)

Base(s) ==
  /\ s \in Collected /\ Sane(s.listeners) /\ Sane(s.react)
  /\ Life(s) /\ Paired(s) /\ Listened(s) /\ Counted(s)

KeyOf(l) == <<l.cb, l.slot>>

\* What a callback was told last fits to where its listener is.
Fits(l, told) ==
  IF Fresh(l) THEN told = "up" ELSE told \in {"down", "move"} /\ ~ConsumeFails(l)

Apart(list) == \A j, k \in DOMAIN list : KeyOf(list[j]) = KeyOf(list[k]) => j = k

\* One listener for a callback and a finger, listening or waiting
Single(s) ==
  /\ Apart(s.listeners) /\ Apart(s.react)
  /\ \A j \in DOMAIN s.listeners, k \in DOMAIN s.react :
       KeyOf(s.listeners[j]) # KeyOf(s.react[k])

Told(s, list) ==
  \A k \in DOMAIN list : list[k].inst => Fits(list[k], s.told[KeyOf(list[k])])

\* Nobody else was told but "up"; a dead instance asks no more.
Rest(s) ==
  s.alive =>
    /\ s.calls = <<>>
    /\ \A k \in DOMAIN s.listeners : s.listeners[k].inst
    /\ \A k \in DOMAIN s.react : s.react[k].inst
    /\ \A c \in Targets :
         \/ s.told[c] = "up"
         \/ \E k \in DOMAIN s.listeners : KeyOf(s.listeners[k]) = c

Order(s) ==
  /\ s.orderly /\ Single(s) /\ Told(s, s.listeners) /\ Told(s, s.react) /\ Rest(s)

BaseInv == Base(e)
OrderInv == Order(e)
-----------------------------------------------------------------------------
(* Telling a listener changes nothing but what is told.                    *)
Steady(s, t) ==
  /\ t.how = s.how /\ t.uses = s.uses /\ t.now = s.now /\ t.alive = s.alive
  /\ t.react = s.react /\ t.items = s.items /\ t.pipe = s.pipe
  /\ t.thread = s.thread /\ t.quit = s.quit /\ t.fresh = s.fresh /\ t.data = s.data
  /\ t.handler = s.handler /\ t.active = s.active /\ t.joining = s.joining
  /\ t.delcb = s.delcb /\ t.calls = s.calls
  /\ t.lazy = s.lazy /\ t.sent = s.sent /\ t.waits = s.waits

Apartly(s, t) == t \in Collected /\ Steady(s, t)

Only(s, t) == Apartly(s, t) /\ t.listeners = s.listeners

\* What a callback of l makes of being told
Hears(s, t, l, what) ==
  /\ \A c \in Targets : c # KeyOf(l) => t.told[c] = s.told[c]
  /\ ~(l.inst /\ ~Refuses(l)) => t.told = s.told /\ t.orderly = s.orderly
  /\ l.inst /\ ~Refuses(l) =>
       /\ t.told[KeyOf(l)] = what
       /\ t.orderly = (s.orderly /\ what \in Follows(s.told[KeyOf(l)]))

LEMMA OnlySelf ==
  ASSUME NEW s \in Collected
  PROVE  Only(s, s)
BY DEF Only, Apartly, Steady

LEMMA OnlyTrans ==
  ASSUME NEW s, NEW t, NEW u, Only(s, t), Only(t, u)
  PROVE  Only(s, u)
BY DEF Only, Apartly, Steady

LEMMA ListenerFacts ==
  ASSUME NEW l \in ListenerState
  PROVE  /\ l.cb \in Callbacks /\ l.cb[1] \in Canvases /\ l.slot \in Slots
         /\ KeyOf(l) \in Targets
         /\ l.state \in {"down", "move", "unset"} /\ l.prev \in {"down", "move", "none"}
         /\ l.tv \in 0..MaxTime /\ l.done \in BOOLEAN /\ l.inst \in BOOLEAN
<1>1. l.cb \in Callbacks /\ l.slot \in Slots
  BY DEF ListenerState
<1>2. l.cb[1] \in Canvases
  BY <1>1 DEF Callbacks
<1> QED
  BY <1>1, <1>2 DEF ListenerState, Targets, KeyOf, Active

LEMMA PointerOnly ==
  ASSUME NEW s \in Collected, NEW c \in Canvases, NEW down \in Int
  PROVE  /\ Only(s, UpdatePointer(s, c, down))
         /\ UpdatePointer(s, c, down).told = s.told
         /\ UpdatePointer(s, c, down).orderly = s.orderly
         /\ UpdatePointer(s, c, down).null = s.null
<1>1. CASE down \in {0, 1}
  <2> DEFINE t == [s EXCEPT !.down[c] = down = 1]
  <2>1. t \in Collected
    BY DEF Collected
  <2>2. /\ Steady(s, t) /\ t.listeners = s.listeners
        /\ t.told = s.told /\ t.orderly = s.orderly /\ t.null = s.null
    BY DEF Steady, Collected
  <2>3. UpdatePointer(s, c, down) = t
    BY <1>1 DEF UpdatePointer
  <2> HIDE DEF t
  <2> QED
    BY <2>1, <2>2, <2>3 DEF Only, Apartly
<1>2. CASE down \notin {0, 1}
  BY <1>2, OnlySelf DEF UpdatePointer
<1> QED
  BY <1>1, <1>2

LEMMA TellContract ==
  ASSUME NEW s \in Collected, NEW l \in ListenerState, NEW what \in Tellings
  PROVE  /\ Only(s, Tell(s, l, what))
         /\ Hears(s, Tell(s, l, what), l, what)
<1> DEFINE k == KeyOf(l)
<1>1. k \in Targets /\ l.cb[1] \in Canvases /\ l.inst \in BOOLEAN
  BY ListenerFacts
<1>2. CASE Consumes(l.cb) /\ ~l.inst
  <2> DEFINE t == [s EXCEPT !.null = TRUE]
  <2>1. t \in Collected
    BY DEF Collected
  <2>2. /\ Steady(s, t) /\ t.listeners = s.listeners
        /\ t.told = s.told /\ t.orderly = s.orderly
    BY DEF Steady, Collected
  <2>3. Tell(s, l, what) = t
    BY <1>2 DEF Tell
  <2> HIDE DEF t
  <2> QED
    BY <1>2, <2>1, <2>2, <2>3 DEF Hears, Only, Apartly
<1>3. CASE ~(Consumes(l.cb) /\ ~l.inst) /\ Refuses(l)
  <2>1. Tell(s, l, what) = s
    BY <1>3 DEF Tell
  <2> QED
    BY <1>3, <2>1, OnlySelf DEF Hears
<1>4. CASE ~(Consumes(l.cb) /\ ~l.inst) /\ ~Refuses(l)
  <2> DEFINE c == Consume(s, l.cb, what)
             t == [c EXCEPT !.told[k] = what, !.orderly = @ /\ what \in Follows(s.told[k])]
  <2>1. Only(s, c) /\ c.told = s.told /\ c.orderly = s.orderly
    <3>1. Button(l.cb, what) \in Int
      BY DEF Button
    <3>2. /\ Only(s, UpdatePointer(s, l.cb[1], Button(l.cb, what)))
          /\ UpdatePointer(s, l.cb[1], Button(l.cb, what)).told = s.told
          /\ UpdatePointer(s, l.cb[1], Button(l.cb, what)).orderly = s.orderly
      BY <1>1, <3>1, PointerOnly
    <3> QED
      BY <3>2, OnlySelf DEF Consume
  <2>2. Tell(s, l, what) = t
    BY <1>4, Zenon DEF Tell, KeyOf
  <2> HIDE DEF c
  <2>3. c \in Collected
    BY <2>1 DEF Only, Apartly
  <2>4. t \in Collected
    BY <1>1, <2>3, ZenonT(60) DEF Collected
  <2>5. /\ Steady(c, t) /\ t.listeners = c.listeners /\ t.told[k] = what
        /\ \A x \in Targets : x # k => t.told[x] = c.told[x]
        /\ t.orderly = (c.orderly /\ what \in Follows(s.told[k]))
    BY <1>1, <2>3 DEF Steady, Collected
  <2>6. Only(s, t)
    <3> HIDE DEF t
    <3>1. Only(c, t)
      BY <2>4, <2>5 DEF Only, Apartly
    <3> QED
      BY <2>1, <3>1, OnlyTrans
  <2>7. l.inst
    BY <1>1, <1>4 DEF Refuses, RouteFails
  <2> HIDE DEF t
  <2> QED
    BY <1>4, <2>1, <2>2, <2>5, <2>6, <2>7 DEF Hears
<1> QED
  BY <1>2, <1>3, <1>4

\* Whoever is told its end in order was told "up" last.
LEMMA ClearContract ==
  ASSUME NEW s \in Collected, NEW l \in ListenerState
  PROVE  /\ Only(s, ClearListener(s, l))
         /\ \A c \in Targets : c # KeyOf(l) => ClearListener(s, l).told[c] = s.told[c]
         /\ ~l.inst => ClearListener(s, l).orderly = s.orderly
         /\ s.orderly /\ l.inst /\ Fits(l, s.told[KeyOf(l)]) =>
              /\ ClearListener(s, l).orderly
              /\ ClearListener(s, l).told[KeyOf(l)] = "up"
<1> DEFINE k == KeyOf(l)
           a == IF Fresh(l) THEN Tell(s, l, "down") ELSE s
           b == IF Fresh(l) \/ l.state = "move" THEN Tell(a, l, "move") ELSE a
           c == Tell(b, l, "up")
<1>1. ClearListener(s, l) = c
  BY Zenon DEF ClearListener
<1>2. k \in Targets /\ l.state \in {"down", "move", "unset"} /\ l.inst \in BOOLEAN
  BY ListenerFacts
<1>3. Only(s, a) /\ (IF Fresh(l) THEN Hears(s, a, l, "down") ELSE a = s)
  BY TellContract, OnlySelf DEF Tellings
<1> HIDE DEF a
<1>4. a \in Collected
  BY <1>3 DEF Only, Apartly
<1>5. /\ Only(a, b)
      /\ IF Fresh(l) \/ l.state = "move" THEN Hears(a, b, l, "move") ELSE b = a
  BY <1>4, TellContract, OnlySelf DEF Tellings
<1> HIDE DEF b
<1>6. b \in Collected
  BY <1>5 DEF Only, Apartly
<1>7. Only(b, c) /\ Hears(b, c, l, "up")
  BY <1>6, TellContract DEF Tellings
<1> HIDE DEF c
<1>8. Only(s, c)
  BY <1>3, <1>5, <1>7, OnlyTrans
<1>9. \A x \in Targets : x # k => c.told[x] = s.told[x]
  BY <1>3, <1>5, <1>7 DEF Hears
<1>10. ~l.inst => c.orderly = s.orderly
  BY <1>3, <1>5, <1>7 DEF Hears
<1>11. ASSUME s.orderly, l.inst, Fits(l, s.told[k])
       PROVE  c.orderly /\ c.told[k] = "up"
  <2>1. CASE Refuses(l)
    <3>1. Fresh(l) /\ s.told[k] = "up"
      BY <1>11, <2>1 DEF Fits, Refuses, RouteFails
    <3>2. c.told = s.told /\ c.orderly = s.orderly
      BY <1>3, <1>5, <1>7, <2>1, <3>1 DEF Hears
    <3> QED
      BY <1>11, <3>1, <3>2
  <2>2. CASE ~Refuses(l)
    <3>1. CASE Fresh(l)
      <4>1. s.told[k] = "up"
        BY <1>11, <3>1 DEF Fits
      <4>2. a.told[k] = "down" /\ a.orderly
        BY <1>3, <1>11, <2>2, <3>1, <4>1 DEF Hears, Follows
      <4>3. b.told[k] = "move" /\ b.orderly
        BY <1>5, <1>11, <2>2, <3>1, <4>2 DEF Hears, Follows
      <4> QED
        BY <1>7, <1>11, <2>2, <4>3 DEF Hears, Follows
    <3>2. CASE ~Fresh(l)
      <4>1. s.told[k] \in {"down", "move"} /\ a = s
        BY <1>3, <1>11, <3>2 DEF Fits
      <4>2. b.told[k] \in {"down", "move"} /\ b.orderly
        BY <1>5, <1>11, <2>2, <3>2, <4>1 DEF Hears, Follows
      <4> QED
        BY <1>7, <1>11, <2>2, <4>2 DEF Hears, Follows
    <3> QED
      BY <3>1, <3>2
  <2> QED
    BY <2>1, <2>2
<1> QED
  BY <1>1, <1>8, <1>9, <1>10, <1>11

\* x is what became of the listener l.
Stems(x, l) ==
  /\ KeyOf(x) = KeyOf(l) /\ x.inst = l.inst
  /\ x.state \in Active => l.state \in Active
  /\ (l.prev = "none" <=> l.state = "down") => (x.prev = "none" <=> x.state = "down")

\* What one listener makes of an item
Offered(s, l, o) ==
  /\ Only(s, o.s)
  /\ \A c \in Targets : c # KeyOf(l) => o.s.told[c] = s.told[c]
  /\ \/ o.keep = <<>>
     \/ \E x \in ListenerState :
          o.keep = <<x>> /\ Stems(x, l)
  /\ s.orderly /\ ~l.inst => o.s.orderly
  /\ s.orderly /\ l.inst /\ Fits(l, s.told[KeyOf(l)]) =>
       /\ o.s.orderly
       /\ IF o.keep = <<>> THEN o.s.told[KeyOf(l)] = "up"
          ELSE Fits(o.keep[1], o.s.told[KeyOf(l)])

LEMMA OfferOverContract ==
  ASSUME NEW s \in Collected, NEW l \in ListenerState
  PROVE  Offered(s, l, OfferOver(s, l))
BY ClearContract DEF Offered, OfferOver

LEMMA OfferActiveContract ==
  ASSUME NEW s \in Collected, NEW l \in ListenerState, l.state \in Active
  PROVE  Offered(s, l, OfferActive(s, l))
<1> DEFINE k == KeyOf(l)
           t == Tell(s, l, l.state)
           x == [l EXCEPT !.prev = l.state, !.state = "move"]
           o == OfferActive(s, l)
<1>1. /\ k \in Targets /\ l.state \in {"down", "move"} /\ l.inst \in BOOLEAN
  BY ListenerFacts DEF Active
<1>2. Only(s, t) /\ Hears(s, t, l, l.state)
  BY <1>1, TellContract DEF Tellings
<1>3. /\ x \in ListenerState /\ x.cb = l.cb /\ x.slot = l.slot /\ x.inst = l.inst
      /\ x.state = "move" /\ x.prev = l.state
  BY <1>1 DEF ListenerState, Active
<1>4. o.s = t /\ o.keep = IF Refuses(l) THEN <<>> ELSE <<x>>
  BY DEF OfferActive
<1> HIDE DEF o, t, x
<1>5. KeyOf(x) = k /\ ConsumeFails(x) = ConsumeFails(l) /\ ~Fresh(x)
  BY <1>3 DEF KeyOf, ConsumeFails, Fresh
<1>6. \A y \in Targets : y # k => o.s.told[y] = s.told[y]
  BY <1>2, <1>4 DEF Hears
<1>7. s.orderly /\ ~l.inst => o.s.orderly
  BY <1>2, <1>4 DEF Hears
<1>8. ASSUME s.orderly, l.inst, Fits(l, s.told[k])
      PROVE  /\ o.s.orderly
             /\ IF o.keep = <<>> THEN o.s.told[k] = "up" ELSE Fits(o.keep[1], o.s.told[k])
  <2>1. CASE Refuses(l)
    <3>1. s.told[k] = "up"
      BY <1>8, <2>1 DEF Fits, Refuses, RouteFails
    <3> QED
      BY <1>2, <1>4, <1>8, <2>1, <3>1 DEF Hears
  <2>2. CASE ~Refuses(l)
    <3>1. l.state \in Follows(s.told[k])
      BY <1>1, <1>8 DEF Fits, Fresh, Follows
    <3>2. t.orderly /\ t.told[k] = l.state
      BY <1>2, <1>8, <2>2, <3>1 DEF Hears
    <3>3. o.keep = <<x>> /\ o.keep[1] = x /\ o.keep # <<>>
      BY <1>4, <2>2
    <3>4. ~ConsumeFails(l)
      BY <2>2 DEF Refuses
    <3> QED
      BY <1>1, <1>4, <1>5, <3>2, <3>3, <3>4 DEF Fits
  <2> QED
    BY <2>1, <2>2
<1>9. x.prev # "none" /\ x.state # "down" /\ x.state \in Active
  BY <1>1, <1>3 DEF Active
<1>10. Only(s, o.s)
  BY <1>2, <1>4
<1> QED
  BY <1>3, <1>4, <1>5, <1>6, <1>7, <1>8, <1>9, <1>10 DEF Offered, Stems, o

LEMMA OfferUnsetContract ==
  ASSUME NEW s \in Collected, NEW l \in ListenerState, l.state = "unset"
  PROVE  Offered(s, l, OfferUnset(s, l))
<1> DEFINE k == KeyOf(l)
           what == IF l.prev = "down" THEN "down" ELSE "move"
           t == Tell(s, l, what)
           x == [l EXCEPT !.prev = "move"]
           o == OfferUnset(s, l)
<1>0. CASE l.done
  BY <1>0, OfferOverContract DEF OfferUnset
<1>a. CASE ~l.done
  <2> USE <1>a
  <2>1. k \in Targets /\ l.inst \in BOOLEAN
    BY ListenerFacts
  <2>2. Only(s, t) /\ Hears(s, t, l, what)
    BY TellContract DEF Tellings
  <2>3. /\ x \in ListenerState /\ x.cb = l.cb /\ x.slot = l.slot /\ x.inst = l.inst
        /\ x.state = "unset" /\ x.prev = "move"
    BY DEF ListenerState, Active
  <2>4. o.s = t /\ o.keep = IF Refuses(l) THEN <<>> ELSE <<x>>
    BY DEF OfferUnset
  <2> HIDE DEF o, t, x
  <2>5. KeyOf(x) = k /\ ConsumeFails(x) = ConsumeFails(l) /\ ~Fresh(x)
    BY <2>3 DEF KeyOf, ConsumeFails, Fresh
  <2>6. \A y \in Targets : y # k => o.s.told[y] = s.told[y]
    BY <2>2, <2>4 DEF Hears
  <2>7. s.orderly /\ ~l.inst => o.s.orderly
    BY <2>2, <2>4 DEF Hears
  <2>8. ASSUME s.orderly, l.inst, Fits(l, s.told[k])
        PROVE  /\ o.s.orderly
               /\ IF o.keep = <<>> THEN o.s.told[k] = "up" ELSE Fits(o.keep[1], o.s.told[k])
    <3>1. CASE Refuses(l)
      <4>1. s.told[k] = "up"
        BY <2>8, <3>1 DEF Fits, Refuses, RouteFails
      <4> QED
        BY <2>2, <2>4, <2>8, <3>1, <4>1 DEF Hears
    <3>2. CASE ~Refuses(l)
      <4>1. what \in Follows(s.told[k]) /\ what \in {"down", "move"}
        BY <2>8 DEF Fits, Fresh, Follows
      <4> HIDE DEF what
      <4>2. t.orderly /\ t.told[k] = what
        BY <2>2, <2>8, <3>2, <4>1 DEF Hears
      <4>3. o.keep = <<x>> /\ o.keep[1] = x /\ o.keep # <<>>
        BY <2>4, <3>2
      <4>4. ~ConsumeFails(l)
        BY <3>2 DEF Refuses
      <4> QED
        BY <2>4, <2>5, <4>1, <4>2, <4>3, <4>4 DEF Fits
    <3> QED
      BY <3>1, <3>2
  <2>9. x.prev # "none" /\ x.state # "down" /\ x.state \notin Active
    BY <2>3 DEF Active
  <2>10. Only(s, o.s)
    BY <2>2, <2>4
  <2> QED
    BY <2>3, <2>4, <2>5, <2>6, <2>7, <2>8, <2>9, <2>10 DEF Offered, Stems, o
<1> QED
  BY <1>0, <1>a

LEMMA OfferContract ==
  ASSUME NEW s \in Collected, NEW l \in ListenerState, NEW item
  PROVE  Offered(s, l, Offer(s, l, item))
<1> DEFINE same == [s |-> s, keep |-> <<l>>]
<1>1. Offered(s, l, same)
  BY OnlySelf, ListenerFacts DEF Offered, Stems
<1>2. \/ Offer(s, l, item) = OfferOver(s, l)
      \/ l.state \in Active /\ Offer(s, l, item) = OfferActive(s, l)
      \/ l.state = "unset" /\ Offer(s, l, item) = OfferUnset(s, l)
      \/ Offer(s, l, item) = same
  BY Zenon DEF Offer
<1> HIDE DEF same
<1> QED
  BY <1>1, <1>2, OfferOverContract, OfferActiveContract, OfferUnsetContract
-----------------------------------------------------------------------------
(* One listener after the other *)

Visited(r, l, item) ==
  LET o == Offer(r.s, l, item) IN [s |-> o.s, keep |-> r.keep \o o.keep]

Begun(s) == [s |-> s, keep |-> <<>>]

\* f[k] is where the loop over the listeners is after k of them.
Walk(s, item, f, n) ==
  f = [k \in 0..n |-> IF k = 0 THEN Begun(s) ELSE Visited(f[k - 1], s.listeners[k], item)]

LEMMA LeastOf ==
  ASSUME NEW T, T \subseteq Nat, T # {}
  PROVE  \E x \in T : \A y \in T : ~(y < x)
<1>1. PICK x \in T : \A y \in T : ~(<<y, x>> \in OpToRel(<, Nat))
  BY NatLessThanWellFounded, WFMin, Zenon
<1>2. \A y \in T : y < x => <<y, x>> \in OpToRel(<, Nat)
  BY DEF OpToRel
<1> QED
  BY <1>1, <1>2

LEMMA WalkExists ==
  ASSUME NEW s, NEW item, NEW n \in Nat
  PROVE  \E f : Walk(s, item, f, n)
<1> DEFINE T == {m \in Nat : ~\E f : Walk(s, item, f, m)}
<1>1. ASSUME T # {} PROVE FALSE
  <2>1. PICK x \in T : \A y \in T : ~(y < x)
    BY <1>1, LeastOf
  <2>2. x \in Nat /\ ~\E f : Walk(s, item, f, x)
    OBVIOUS
  <2>3. CASE x = 0
    <3> DEFINE f == [k \in 0..0 |-> Begun(s)]
    <3>1. Walk(s, item, f, x)
      BY <2>3 DEF Walk
    <3> QED
      BY <2>2, <3>1
  <2>4. CASE x # 0
    <3>1. x - 1 \in Nat /\ x - 1 < x
      BY <2>2, <2>4
    <3>2. PICK g : Walk(s, item, g, x - 1)
      BY <2>1, <3>1
    <3> DEFINE f == [k \in 0..x |-> IF k = x THEN Visited(g[x - 1], s.listeners[x], item)
                                    ELSE g[k]]
               h == [k \in 0..x |-> IF k = 0 THEN Begun(s)
                                    ELSE Visited(f[k - 1], s.listeners[k], item)]
    <3>3. \A k \in 0..(x - 1) :
            g[k] = IF k = 0 THEN Begun(s) ELSE Visited(g[k - 1], s.listeners[k], item)
      BY <3>2 DEF Walk
    <3>4. \A k \in 0..x : f[k] = h[k]
      <4> TAKE k \in 0..x
      <4>1. CASE k = 0
        BY <2>2, <2>4, <3>3, <4>1
      <4>2. CASE k # 0
        <5>1. k - 1 \in 0..x /\ k - 1 # x /\ k \in Nat
          BY <2>2, <4>2
        <5>2. f[k - 1] = g[k - 1]
          BY <5>1
        <5>3. CASE k = x
          BY <4>2, <5>2, <5>3
        <5>4. CASE k # x
          <6>1. k \in 0..(x - 1)
            BY <2>2, <5>1, <5>4
          <6>2. f[k] = g[k]
            BY <5>4
          <6>3. g[k] = Visited(g[k - 1], s.listeners[k], item)
            BY <3>3, <4>2, <6>1
          <6>4. h[k] = Visited(f[k - 1], s.listeners[k], item)
            BY <4>2
          <6> QED
            BY <5>2, <6>2, <6>3, <6>4, Zenon
        <5> QED
          BY <5>3, <5>4
      <4> QED
        BY <4>1, <4>2
    <3>5. f = h
      BY <3>4, Zenon
    <3>6. Walk(s, item, f, x)
      BY <3>5, Zenon DEF Walk
    <3> QED
      BY <2>2, <3>6
  <2> QED
    BY <2>3, <2>4
<1> QED
  BY <1>1

LEMMA DispatchWalk ==
  ASSUME NEW s, NEW item, Len(s.listeners) \in Nat
  PROVE  \E f : /\ Walk(s, item, f, Len(s.listeners))
                /\ Dispatch(s, item) =
                     [f[Len(s.listeners)].s EXCEPT !.listeners = f[Len(s.listeners)].keep]
<1> DEFINE n == Len(s.listeners)
           f == CHOOSE f : Walk(s, item, f, n)
<1>1. Walk(s, item, f, n)
  BY WalkExists, Zenon
<1>2. Dispatch(s, item) = [f[n].s EXCEPT !.listeners = f[n].keep]
  BY Zenon DEF Dispatch, Walk, Begun, Visited
<1> QED
  BY <1>1, <1>2

\* After k listeners: who is kept, and that nobody else was told
Passed(s, r, k) ==
  /\ Only(s, r.s)
  /\ r.keep \in Seq(ListenerState)
  /\ \A p \in DOMAIN r.keep : \E j \in 1..k : Stems(r.keep[p], s.listeners[j])
  /\ \A c \in Targets :
       (\A j \in 1..k : KeyOf(s.listeners[j]) # c) => r.s.told[c] = s.told[c]

\* What those that are kept or gone were told
Ordered(s, r, k) ==
  /\ r.s.orderly /\ Apart(r.keep)
  /\ \A p \in DOMAIN r.keep :
       r.keep[p].inst => Fits(r.keep[p], r.s.told[KeyOf(r.keep[p])])
  /\ \A j \in 1..k :
       \/ ~s.listeners[j].inst
       \/ r.s.told[KeyOf(s.listeners[j])] = "up"
       \/ \E p \in DOMAIN r.keep : KeyOf(r.keep[p]) = KeyOf(s.listeners[j])

InOrder(s) == s.orderly /\ Apart(s.listeners) /\ Told(s, s.listeners)

LEMMA SeqFacts ==
  ASSUME NEW S, NEW q \in Seq(S)
  PROVE  /\ Len(q) \in Nat /\ DOMAIN q = 1..Len(q)
         /\ \A k \in DOMAIN q : q[k] \in S
         /\ q # <<>> <=> Len(q) # 0
OBVIOUS

LEMMA AppendFacts ==
  ASSUME NEW S, NEW q \in Seq(S), NEW x \in S
  PROVE  /\ Append(q, x) \in Seq(S) /\ Len(Append(q, x)) = Len(q) + 1
         /\ DOMAIN Append(q, x) = 1..(Len(q) + 1) /\ Append(q, x) # <<>>
         /\ \A k \in 1..Len(q) : Append(q, x)[k] = q[k]
         /\ Append(q, x)[Len(q) + 1] = x
OBVIOUS

LEMMA TailFacts ==
  ASSUME NEW S, NEW q \in Seq(S), q # <<>>
  PROVE  /\ Tail(q) \in Seq(S) /\ Len(Tail(q)) = Len(q) - 1
         /\ DOMAIN Tail(q) = 1..(Len(q) - 1)
         /\ \A k \in 1..(Len(q) - 1) : Tail(q)[k] = q[k + 1]
         /\ Head(q) = q[1] /\ Head(q) \in S
OBVIOUS

LEMMA ConcatFacts ==
  ASSUME NEW S, NEW q \in Seq(S)
  PROVE  /\ q \o <<>> = q
         /\ \A x \in S :
              /\ q \o <<x>> \in Seq(S) /\ DOMAIN (q \o <<x>>) = 1..(Len(q) + 1)
              /\ \A k \in DOMAIN q : (q \o <<x>>)[k] = q[k]
              /\ (q \o <<x>>)[Len(q) + 1] = x
OBVIOUS

LEMMA SeqMade ==
  ASSUME NEW S, NEW n \in Nat, NEW q, q = [k \in 1..n |-> q[k]],
         \A k \in 1..n : q[k] \in S
  PROVE  q \in Seq(S) /\ Len(q) = n /\ DOMAIN q = 1..n
OBVIOUS

\* The sequence p with x at the end of it
Grown(p, q, x) ==
  /\ q \in Seq(ListenerState)
  /\ Len(p) \in Nat /\ DOMAIN p = 1..Len(p) /\ DOMAIN q = 1..(Len(p) + 1)
  /\ \A i \in DOMAIN p : q[i] = p[i]
  /\ q[Len(p) + 1] = x

LEMMA KeepFacts ==
  ASSUME NEW l, NEW s, NEW o, Offered(s, l, o), NEW keep \in Seq(ListenerState),
         o.keep # <<>>
  PROVE  \E x \in ListenerState :
           o.keep[1] = x /\ Stems(x, l) /\ Grown(keep, keep \o o.keep, x)
<1>1. PICK x \in ListenerState : o.keep = <<x>> /\ Stems(x, l)
  BY DEF Offered
<1>2. o.keep[1] = x
  BY <1>1
<1>3. Len(keep) \in Nat /\ DOMAIN keep = 1..Len(keep)
  BY SeqFacts
<1>4. /\ keep \o <<x>> \in Seq(ListenerState)
      /\ DOMAIN (keep \o <<x>>) = 1..(Len(keep) + 1)
      /\ \A p \in DOMAIN keep : (keep \o <<x>>)[p] = keep[p]
      /\ (keep \o <<x>>)[Len(keep) + 1] = x
  BY ConcatFacts
<1>5. Grown(keep, keep \o o.keep, x)
  BY <1>1, <1>3, <1>4, Zenon DEF Grown
<1> QED
  BY <1>1, <1>2, <1>5

LEMMA PassedStep ==
  ASSUME NEW s \in Collected, NEW k \in 1..Len(s.listeners), NEW r, Passed(s, r, k - 1),
         NEW item
  PROVE  Passed(s, Visited(r, s.listeners[k], item), k)
<1> DEFINE l == s.listeners[k]
           o == Offer(r.s, l, item)
           v == Visited(r, l, item)
<1>1. v.s = o.s /\ v.keep = r.keep \o o.keep
  BY DEF Visited
<1>2. s.listeners \in Seq(ListenerState)
  BY DEF Collected
<1>3. Len(s.listeners) \in Nat /\ l \in ListenerState /\ k \in Nat
  BY <1>2, SeqFacts
<1>4. r.s \in Collected /\ Only(s, r.s) /\ r.keep \in Seq(ListenerState)
  BY DEF Passed, Only, Apartly
<1>5. Offered(r.s, l, o)
  BY <1>3, <1>4, OfferContract
<1> HIDE DEF l, o, v
<1>6. Only(s, v.s)
  BY <1>1, <1>4, <1>5, OnlyTrans DEF Offered
<1>7. \A c \in Targets :
        (\A j \in 1..k : KeyOf(s.listeners[j]) # c) => v.s.told[c] = s.told[c]
  <2> TAKE c \in Targets
  <2> HAVE \A j \in 1..k : KeyOf(s.listeners[j]) # c
  <2>1. KeyOf(l) # c /\ \A j \in 1..(k - 1) : KeyOf(s.listeners[j]) # c
    BY <1>3 DEF l
  <2>2. o.s.told[c] = r.s.told[c]
    BY <1>5, <2>1 DEF Offered
  <2>3. r.s.told[c] = s.told[c]
    BY <2>1 DEF Passed
  <2> QED
    BY <1>1, <2>2, <2>3
<1>8. \A p \in DOMAIN r.keep : \E j \in 1..k : Stems(r.keep[p], s.listeners[j])
  <2> TAKE p \in DOMAIN r.keep
  <2>1. PICK j \in 1..(k - 1) : Stems(r.keep[p], s.listeners[j])
    BY DEF Passed
  <2>2. j \in 1..k
    BY <1>3
  <2> QED
    BY <2>1, <2>2
<1>9. v.keep \in Seq(ListenerState) /\ \A p \in DOMAIN v.keep : \E j \in 1..k : Stems(v.keep[p], s.listeners[j])
  <2>1. CASE o.keep = <<>>
    <3>1. v.keep = r.keep
      BY <1>1, <1>4, <2>1, ConcatFacts
    <3> QED
      BY <1>4, <1>8, <3>1
  <2>2. CASE o.keep # <<>>
    <3>0. PICK x \in ListenerState : Stems(x, l) /\ Grown(r.keep, r.keep \o o.keep, x)
      BY <1>4, <1>5, <2>2, KeepFacts
    <3>1. Stems(x, l) /\ Grown(r.keep, v.keep, x)
      BY <1>1, <3>0
    <3>2. ASSUME NEW p \in DOMAIN v.keep PROVE \E j \in 1..k : Stems(v.keep[p], s.listeners[j])
      <4>1. CASE p \in DOMAIN r.keep
        BY <1>8, <3>1, <4>1 DEF Grown
      <4>2. CASE p \notin DOMAIN r.keep
        <5>1. p = Len(r.keep) + 1
          BY <3>1, <4>2 DEF Grown
        <5>2. k \in 1..k
          BY <1>3
        <5> QED
          BY <3>1, <5>1, <5>2 DEF l, Grown
      <4> QED
        BY <4>1, <4>2
    <3> QED
      BY <3>1, <3>2 DEF Grown
  <2> QED
    BY <2>1, <2>2
<1>10. Passed(s, v, k)
  BY <1>6, <1>7, <1>9, Zenon DEF Passed
<1> QED
  BY <1>10 DEF v, l

LEMMA OrderedStep ==
  ASSUME NEW s \in Collected, NEW k \in 1..Len(s.listeners), NEW r, NEW item,
         Passed(s, r, k - 1), InOrder(s), Ordered(s, r, k - 1)
  PROVE  Ordered(s, Visited(r, s.listeners[k], item), k)
<1> DEFINE l == s.listeners[k]
           o == Offer(r.s, l, item)
           v == Visited(r, l, item)
<1>1. v.s = o.s /\ v.keep = r.keep \o o.keep
  BY DEF Visited
<1>2. s.listeners \in Seq(ListenerState)
  BY DEF Collected
<1>3. /\ Len(s.listeners) \in Nat /\ l \in ListenerState /\ k \in Nat
      /\ DOMAIN s.listeners = 1..Len(s.listeners)
      /\ \A j \in 1..Len(s.listeners) : s.listeners[j] \in ListenerState
  BY <1>2, SeqFacts
<1>4. r.s \in Collected /\ r.keep \in Seq(ListenerState)
  BY DEF Passed, Only, Apartly
<1>5. Offered(r.s, l, o)
  BY <1>3, <1>4, OfferContract
<1>6. \A j \in 1..(k - 1) : j \in DOMAIN s.listeners /\ KeyOf(s.listeners[j]) # KeyOf(l)
  BY <1>3 DEF InOrder, Apart
<1>7. l.inst \in BOOLEAN /\ KeyOf(l) \in Targets
  BY <1>3, ListenerFacts
<1>8. r.s.told[KeyOf(l)] = s.told[KeyOf(l)]
  BY <1>6, <1>7 DEF Passed
<1>9. l.inst => Fits(l, r.s.told[KeyOf(l)])
  BY <1>3, <1>8 DEF InOrder, Told
<1> HIDE DEF l, o, v
<1>10. v.s.orderly
  BY <1>1, <1>5, <1>7, <1>9 DEF Offered, Ordered
<1>11. \A c \in Targets : c # KeyOf(l) => v.s.told[c] = r.s.told[c]
  BY <1>1, <1>5 DEF Offered
<1>12. \A p \in DOMAIN r.keep :
         /\ KeyOf(r.keep[p]) # KeyOf(l) /\ KeyOf(r.keep[p]) \in Targets
         /\ \E j \in 1..(k - 1) : KeyOf(r.keep[p]) = KeyOf(s.listeners[j])
  <2> TAKE p \in DOMAIN r.keep
  <2>1. PICK j \in 1..(k - 1) : Stems(r.keep[p], s.listeners[j])
    BY DEF Passed
  <2>2. r.keep[p] \in ListenerState
    BY <1>4, SeqFacts
  <2> QED
    BY <1>6, <2>1, <2>2, ListenerFacts DEF Stems
<1>13. \A p \in DOMAIN r.keep :
         r.keep[p].inst => Fits(r.keep[p], v.s.told[KeyOf(r.keep[p])])
  BY <1>11, <1>12 DEF Ordered
<1>14. \A j \in 1..(k - 1) :
         \/ ~s.listeners[j].inst
         \/ v.s.told[KeyOf(s.listeners[j])] = "up"
         \/ \E p \in DOMAIN r.keep : KeyOf(r.keep[p]) = KeyOf(s.listeners[j])
  <2> TAKE j \in 1..(k - 1)
  <2>1. s.listeners[j] \in ListenerState
    BY <1>3
  <2>2. KeyOf(s.listeners[j]) \in Targets /\ KeyOf(s.listeners[j]) # KeyOf(l)
    BY <1>6, <2>1, ListenerFacts
  <2> QED
    BY <1>11, <2>2 DEF Ordered
<1>15. CASE o.keep = <<>>
  <2>1. v.keep = r.keep
    BY <1>1, <1>4, <1>15, ConcatFacts
  <2>2. ~l.inst \/ v.s.told[KeyOf(l)] = "up"
    BY <1>1, <1>5, <1>9, <1>15 DEF Offered, Ordered
  <2>3. ASSUME NEW j \in 1..k
        PROVE  \/ ~s.listeners[j].inst
               \/ v.s.told[KeyOf(s.listeners[j])] = "up"
               \/ \E p \in DOMAIN v.keep : KeyOf(v.keep[p]) = KeyOf(s.listeners[j])
    <3>1. CASE j = k
      BY <2>2, <3>1 DEF l
    <3>2. CASE j # k
      <4>1. j \in 1..(k - 1)
        BY <1>3, <3>2
      <4> QED
        BY <1>14, <2>1, <4>1
    <3> QED
      BY <3>1, <3>2
  <2> QED
    BY <1>10, <1>13, <2>1, <2>3 DEF Ordered, v, l
<1>16. CASE o.keep # <<>>
  <2>0. PICK x \in ListenerState :
          o.keep[1] = x /\ Stems(x, l) /\ Grown(r.keep, r.keep \o o.keep, x)
    BY <1>4, <1>5, <1>16, KeepFacts
  <2>1. /\ o.keep[1] = x /\ Stems(x, l) /\ v.keep \in Seq(ListenerState)
        /\ Len(r.keep) \in Nat /\ DOMAIN r.keep = 1..Len(r.keep)
        /\ DOMAIN v.keep = 1..(Len(r.keep) + 1)
        /\ \A p \in DOMAIN r.keep : v.keep[p] = r.keep[p]
        /\ v.keep[Len(r.keep) + 1] = x
    BY <1>1, <2>0 DEF Grown
  <2>2. KeyOf(x) = KeyOf(l) /\ x.inst = l.inst
    BY <2>1 DEF Stems
  <2>3. x.inst => Fits(x, v.s.told[KeyOf(x)])
    BY <1>1, <1>5, <1>9, <1>16, <2>1, <2>2 DEF Offered, Ordered
  <2>4. \A p \in DOMAIN v.keep : p \in DOMAIN r.keep \/ (v.keep[p] = x /\ p = Len(r.keep) + 1)
    BY <2>1
  <2>5. Apart(v.keep)
    <3> SUFFICES ASSUME NEW p \in DOMAIN v.keep, NEW q \in DOMAIN v.keep,
                        KeyOf(v.keep[p]) = KeyOf(v.keep[q])
                 PROVE  p = q
      BY DEF Apart
    <3>1. CASE p \in DOMAIN r.keep /\ q \in DOMAIN r.keep
      BY <2>1, <3>1 DEF Ordered, Apart
    <3>2. CASE p \in DOMAIN r.keep /\ q \notin DOMAIN r.keep
      BY <1>12, <2>1, <2>2, <2>4, <3>2
    <3>3. CASE p \notin DOMAIN r.keep /\ q \in DOMAIN r.keep
      BY <1>12, <2>1, <2>2, <2>4, <3>3
    <3>4. CASE p \notin DOMAIN r.keep /\ q \notin DOMAIN r.keep
      BY <2>4, <3>4
    <3> QED
      BY <3>1, <3>2, <3>3, <3>4
  <2>6. \A p \in DOMAIN v.keep : v.keep[p].inst => Fits(v.keep[p], v.s.told[KeyOf(v.keep[p])])
    BY <1>13, <2>1, <2>3, <2>4
  <2>7. Len(r.keep) + 1 \in DOMAIN v.keep
    BY <2>1
  <2>8. \A p \in DOMAIN r.keep : p \in DOMAIN v.keep
    BY <2>1
  <2>9. ASSUME NEW j \in 1..k
        PROVE  \/ ~s.listeners[j].inst
               \/ v.s.told[KeyOf(s.listeners[j])] = "up"
               \/ \E p \in DOMAIN v.keep : KeyOf(v.keep[p]) = KeyOf(s.listeners[j])
    <3>1. CASE j = k
      BY <2>1, <2>2, <2>7, <3>1 DEF l
    <3>2. CASE j # k
      <4>1. j \in 1..(k - 1)
        BY <1>3, <3>2
      <4> QED
        BY <1>14, <2>1, <2>8, <4>1
    <3> QED
      BY <3>1, <3>2
  <2> QED
    BY <1>10, <2>5, <2>6, <2>9 DEF Ordered, v, l
<1> QED
  BY <1>15, <1>16

LEMMA WalkInvariant ==
  ASSUME NEW s \in Collected, NEW item, NEW f, Walk(s, item, f, Len(s.listeners)),
         NEW k \in 0..Len(s.listeners)
  PROVE  /\ Passed(s, f[k], k) /\ (InOrder(s) => Ordered(s, f[k], k))
         /\ item.slot = AnySlot => f[k].keep = <<>>
<1> DEFINE n == Len(s.listeners)
           Good(i) == /\ Passed(s, f[i], i) /\ (InOrder(s) => Ordered(s, f[i], i))
                      /\ item.slot = AnySlot => f[i].keep = <<>>
           T == {i \in 0..n : ~Good(i)}
<1>1. n \in Nat
  BY SeqFacts DEF Collected
<1>2. Good(0)
  <2>1. f[0] = Begun(s) /\ f[0].s = s /\ f[0].keep = <<>>
    BY <1>1 DEF Walk, Begun
  <2>2. Passed(s, f[0], 0)
    BY <2>1, OnlySelf DEF Passed
  <2>3. InOrder(s) => Ordered(s, f[0], 0)
    BY <2>1 DEF InOrder, Ordered, Apart
  <2> QED
    BY <2>1, <2>2, <2>3
<1>3. ASSUME NEW i \in 1..n, Good(i - 1) PROVE Good(i)
  <2>1. f[i] = Visited(f[i - 1], s.listeners[i], item)
    <3>1. i \in 0..n /\ i # 0
      BY <1>1
    <3>2. f[i] = IF i = 0 THEN Begun(s) ELSE Visited(f[i - 1], s.listeners[i], item)
      BY <3>1, Zenon DEF Walk
    <3> QED
      BY <3>1, <3>2, Zenon
  <2>2. Passed(s, f[i], i)
    BY <1>3, <2>1, PassedStep
  <2>3. InOrder(s) => Ordered(s, f[i], i)
    BY <1>3, <2>1, OrderedStep
  <2>4. item.slot = AnySlot => f[i].keep = <<>>
    BY <1>3, <2>1 DEF Visited, Offer, OfferOver
  <2> QED
    BY <2>2, <2>3, <2>4
<1> HIDE DEF Good
<1>4. T = {}
  <2> SUFFICES ASSUME T # {} PROVE FALSE
    OBVIOUS
  <2>1. T \subseteq Nat
    BY <1>1
  <2>2. PICK x \in T : \A y \in T : ~(y < x)
    BY <2>1, LeastOf
  <2>3. x \in 0..n /\ ~Good(x)
    OBVIOUS
  <2>4. x \in 1..n /\ x - 1 \in 0..n /\ x - 1 < x
    BY <1>1, <1>2, <2>3
  <2>5. Good(x - 1)
    BY <2>2, <2>4
  <2> QED
    BY <1>3, <2>3, <2>4, <2>5
<1>5. Good(k)
  BY <1>4
<1> QED
  BY <1>5, Zenon DEF Good

\* A loop over all listeners
LEMMA DispatchContract ==
  ASSUME NEW s \in Collected, NEW item
  PROVE  LET d == Dispatch(s, item) n == Len(s.listeners) IN
         /\ Apartly(s, d)
         /\ \E r : /\ d.listeners = r.keep /\ d.told = r.s.told /\ d.orderly = r.s.orderly
                   /\ Passed(s, r, n) /\ (InOrder(s) => Ordered(s, r, n))
                   /\ item.slot = AnySlot => r.keep = <<>>
<1> DEFINE d == Dispatch(s, item)
           n == Len(s.listeners)
<1>1. n \in Nat /\ n \in 0..n
  BY SeqFacts DEF Collected
<1>2. PICK f : Walk(s, item, f, n) /\ d = [f[n].s EXCEPT !.listeners = f[n].keep]
  BY <1>1, DispatchWalk
<1>3. /\ Passed(s, f[n], n) /\ (InOrder(s) => Ordered(s, f[n], n))
      /\ item.slot = AnySlot => f[n].keep = <<>>
  BY <1>1, <1>2, WalkInvariant
<1> DEFINE u == f[n].s
           keep == f[n].keep
<1>4. Only(s, u) /\ u \in Collected /\ keep \in Seq(ListenerState)
  BY <1>3 DEF Passed, Only, Apartly
<1> HIDE DEF u, keep
<1>5. d = [u EXCEPT !.listeners = keep]
  BY <1>2 DEF u, keep
<1> HIDE DEF d
<1>6. /\ d.listeners = keep /\ d.told = u.told /\ d.orderly = u.orderly
      /\ Steady(u, d)
  BY <1>4, <1>5 DEF Steady, Collected
<1>7. d \in Collected
  BY <1>4, <1>5 DEF Collected
<1>8. Apartly(s, d)
  BY <1>4, <1>6, <1>7 DEF Apartly, Only, Steady
<1> QED
  BY <1>3, <1>6, <1>8 DEF u, keep, d
-----------------------------------------------------------------------------
(* The pipe *)

LEMMA EventsAre ==
  ASSUME NEW s, s.pipe \in Seq(Chars), LastOnly(s.pipe)
  PROVE  Events(s) = Len(s.pipe) - (IF Exits(s.pipe) THEN 1 ELSE 0)
<1> DEFINE n == Len(s.pipe)
           D == {k \in DOMAIN s.pipe : s.pipe[k] = "event"}
<1>1. n \in Nat /\ DOMAIN s.pipe = 1..n /\ \A k \in 1..n : s.pipe[k] \in Chars
  BY SeqFacts
<1>2. CASE Exits(s.pipe)
  <2>1. n \in 1..n /\ s.pipe[n] = "exit"
    BY <1>1, <1>2 DEF Exits, LastOnly
  <2>2. D = 1..(n - 1)
    BY <1>1, <2>1 DEF LastOnly, Chars
  <2>3. 1 \in Int /\ n - 1 \in Int
    BY <1>1
  <2>4. Cardinality(1..(n - 1)) = IF 1 > n - 1 THEN 0 ELSE n - 1 - 1 + 1
    BY <2>3, FS_Interval, Zenon
  <2>5. Events(s) = Cardinality(1..(n - 1))
    BY <2>2 DEF Events
  <2> QED
    BY <1>1, <1>2, <2>1, <2>4, <2>5
<1>3. CASE ~Exits(s.pipe)
  <2>1. D = 1..n
    BY <1>1, <1>3 DEF Exits, Chars
  <2>2. 1 \in Int /\ n \in Int
    BY <1>1
  <2>3. Cardinality(1..n) = IF 1 > n THEN 0 ELSE n - 1 + 1
    BY <2>2, FS_Interval, Zenon
  <2>4. Events(s) = Cardinality(1..n)
    BY <2>1 DEF Events
  <2> QED
    BY <1>1, <1>3, <2>3, <2>4
<1> QED
  BY <1>2, <1>3

LEMMA AppendChar ==
  ASSUME NEW p \in Seq(Chars), ~Exits(p), NEW c \in Chars
  PROVE  /\ Append(p, c) \in Seq(Chars) /\ Len(Append(p, c)) = Len(p) + 1
         /\ LastOnly(Append(p, c)) /\ (Exits(Append(p, c)) <=> c = "exit")
<1>1. /\ Append(p, c) \in Seq(Chars) /\ Len(Append(p, c)) = Len(p) + 1
      /\ DOMAIN Append(p, c) = 1..(Len(p) + 1) /\ Len(p) \in Nat /\ DOMAIN p = 1..Len(p)
      /\ \A k \in 1..Len(p) : Append(p, c)[k] = p[k]
      /\ Append(p, c)[Len(p) + 1] = c
  BY AppendFacts, SeqFacts
<1>2. \A k \in 1..Len(p) : p[k] # "exit"
  BY <1>1 DEF Exits
<1> HIDE DEF Exits
<1>3. LastOnly(Append(p, c))
  BY <1>1, <1>2 DEF LastOnly
<1>4. Exits(Append(p, c)) <=> c = "exit"
  BY <1>1, <1>2 DEF Exits
<1> QED
  BY <1>1, <1>3, <1>4

LEMMA TailChar ==
  ASSUME NEW p \in Seq(Chars), p # <<>>, LastOnly(p)
  PROVE  /\ Tail(p) \in Seq(Chars) /\ Len(Tail(p)) = Len(p) - 1
         /\ LastOnly(Tail(p)) /\ Head(p) \in Chars
         /\ Head(p) = "event" => (Exits(Tail(p)) <=> Exits(p))
         /\ Head(p) = "exit" => Len(p) = 1 /\ Tail(p) = <<>> /\ Exits(p)
<1>1. /\ Tail(p) \in Seq(Chars) /\ Len(Tail(p)) = Len(p) - 1
      /\ DOMAIN Tail(p) = 1..(Len(p) - 1) /\ Len(p) \in Nat /\ DOMAIN p = 1..Len(p)
      /\ \A k \in 1..(Len(p) - 1) : Tail(p)[k] = p[k + 1]
      /\ Head(p) = p[1] /\ Head(p) \in Chars /\ Len(p) # 0
  BY TailFacts, SeqFacts
<1>2. LastOnly(Tail(p))
  BY <1>1 DEF LastOnly
<1>3. ASSUME Head(p) = "event" PROVE Exits(Tail(p)) <=> Exits(p)
  <2>1. ASSUME Exits(Tail(p)) PROVE Exits(p)
    <3>1. PICK k \in 1..(Len(p) - 1) : p[k + 1] = "exit"
      BY <1>1, <2>1 DEF Exits
    <3> QED
      BY <1>1, <3>1 DEF Exits
  <2>2. ASSUME Exits(p) PROVE Exits(Tail(p))
    <3>1. PICK k \in 1..Len(p) : p[k] = "exit"
      BY <1>1, <2>2 DEF Exits
    <3>2. k # 1 /\ k - 1 \in 1..(Len(p) - 1)
      BY <1>1, <1>3, <3>1
    <3>3. Tail(p)[k - 1] = p[(k - 1) + 1] /\ (k - 1) + 1 = k
      BY <1>1, <3>2
    <3> QED
      BY <1>1, <3>1, <3>2, <3>3 DEF Exits
  <2> QED
    BY <2>1, <2>2
<1>4. ASSUME Head(p) = "exit" PROVE Len(p) = 1 /\ Tail(p) = <<>> /\ Exits(p)
  <2>1. 1 \in DOMAIN p /\ p[1] = "exit" /\ Len(p) = 1
    BY <1>1, <1>4 DEF LastOnly
  <2>2. Tail(p) = <<>>
    BY <1>1, <2>1, SeqFacts
  <2> QED
    BY <2>1, <2>2 DEF Exits
<1> QED
  BY <1>1, <1>2, <1>3, <1>4

Ended(p) == IF Exits(p) THEN 1 ELSE 0
Owed(s) == IF s.thread = "push" THEN 1 ELSE 0

\* The length of the list of items is that of the pipe, without EXIT.
LEMMA PairedIs ==
  ASSUME NEW s \in Collected, LastOnly(s.pipe)
  PROVE  /\ Len(s.items) \in Nat /\ Len(s.pipe) \in Nat
         /\ Ended(s.pipe) \in 0..1 /\ Owed(s) \in 0..1
         /\ Paired(s) <=> Len(s.items) = Len(s.pipe) - Ended(s.pipe) + Owed(s)
<1>1. s.pipe \in Seq(Chars) /\ s.items \in Seq(EventItem)
  BY DEF Collected
<1>2. Len(s.items) \in Nat /\ Len(s.pipe) \in Nat
  BY <1>1, SeqFacts
<1>3. Ended(s.pipe) \in 0..1 /\ Owed(s) \in 0..1
  BY DEF Ended, Owed
<1>4. Paired(s) <=> Len(s.items) = Len(s.pipe) - Ended(s.pipe) + Owed(s)
  BY <1>1, <1>2, EventsAre DEF Paired, Ended, Owed
<1> QED
  BY <1>2, <1>3, <1>4
-----------------------------------------------------------------------------
(* What collects, and what counts: the parts of the state without listeners *)

LEMMA SteadyParts ==
  ASSUME NEW s, NEW t, Steady(s, t)
  PROVE  (Life(s) => Life(t)) /\ (Paired(s) => Paired(t)) /\ (Counted(s) => Counted(t))
BY DEF Steady, Life, Paired, Counted, Events

LEMMA DispatchBase ==
  ASSUME NEW s, Base(s), NEW item
  PROVE  Base(Dispatch(s, item)) /\ Steady(s, Dispatch(s, item))
<1> DEFINE d == Dispatch(s, item)
           n == Len(s.listeners)
<1>1. /\ s \in Collected /\ Sane(s.listeners) /\ Sane(s.react) /\ Life(s)
      /\ Paired(s) /\ Listened(s) /\ Counted(s)
  BY DEF Base
<1>2. PICK r : /\ Apartly(s, d) /\ d.listeners = r.keep
               /\ Passed(s, r, n)
  BY <1>1, DispatchContract
<1> HIDE DEF d
<1>3. d \in Collected /\ Steady(s, d)
  BY <1>2 DEF Apartly
<1>4. DOMAIN s.listeners = 1..n
  BY <1>1, SeqFacts DEF Collected
<1>5. \A p \in DOMAIN d.listeners : \E j \in DOMAIN s.listeners :
        Stems(d.listeners[p], s.listeners[j])
  BY <1>2, <1>4 DEF Passed
<1>6. Sane(d.listeners)
  BY <1>1, <1>5 DEF Sane, Stems
<1>7. Listened(d)
  BY <1>1, <1>3, <1>5 DEF Listened, Stems, Steady
<1>8. Sane(d.react)
  BY <1>1, <1>3 DEF Steady
<1>9. Life(d) /\ Paired(d) /\ Counted(d)
  BY <1>1, <1>3, SteadyParts
<1> QED
  BY <1>3, <1>6, <1>7, <1>8, <1>9 DEF Base, d

\* A new list of listeners in which each is like before or unset
Marking(list, new) ==
  /\ new \in Seq(ListenerState) /\ DOMAIN new = DOMAIN list
  /\ \A k \in DOMAIN list :
       /\ Stems(new[k], list[k]) /\ (Fresh(new[k]) <=> Fresh(list[k]))
       /\ new[k].cb = list[k].cb

\* What asking to unset comes to: nothing, or some are marked.
Unsetting(s, t) ==
  \/ t = s
  \/ \E new :
       /\ Marking(s.listeners, new) /\ s.active /\ ~s.joining
       /\ \/ t = Push([s EXCEPT !.listeners = new])
          \/ /\ t = DeactivateThread([s EXCEPT !.listeners = new])
             /\ \A k \in DOMAIN new : new[k].state \notin Active

LEMMA DeactivateContract ==
  ASSUME NEW s, Base(s), NEW cb, NEW slot
  PROVE  Unsetting(s, EventDeactivate(s, cb, slot))
<1> DEFINE list == s.listeners
           Hit(l) == /\ l.cb = cb /\ l.inst /\ l.state \in Active
                     /\ slot \in {AnySlot, l.slot}
           hits == {k \in DOMAIN list : Hit(list[k])}
           last == CHOOSE k \in hits : \A j \in hits : j <= k
           marked == [k \in DOMAIN list |-> IF k \in hits THEN Mark(list[k]) ELSE list[k]]
           keep == \E k \in DOMAIN marked : marked[k].state \in Active
           done == [marked EXCEPT ![last].done = TRUE]
           t == EventDeactivate(s, cb, slot)
<1>1. list \in Seq(ListenerState) /\ Listened(s)
  BY DEF Base, Collected
<1>2. DOMAIN list = 1..Len(list) /\ Len(list) \in Nat /\ \A k \in DOMAIN list : list[k] \in ListenerState
  BY <1>1, SeqFacts
<1>3. \A l \in ListenerState : l.state \in Active =>
        /\ Mark(l) \in ListenerState /\ Stems(Mark(l), l) /\ (Fresh(Mark(l)) <=> Fresh(l))
        /\ Mark(l).cb = l.cb /\ Mark(l).state \notin Active
  BY DEF Mark, ListenerState, Active, Stems, Fresh, KeyOf
<1>4. \A l \in ListenerState :
        /\ Stems(l, l)
        /\ [l EXCEPT !.done = TRUE] \in ListenerState
        /\ Stems([l EXCEPT !.done = TRUE], l)
        /\ (Fresh([l EXCEPT !.done = TRUE]) <=> Fresh(l))
        /\ [l EXCEPT !.done = TRUE].cb = l.cb
  BY DEF ListenerState, Stems, Fresh, KeyOf
<1>5. t = IF hits = {} THEN s
          ELSE IF ~s.active THEN [s EXCEPT !.listeners = RemoveAt(marked, last)]
          ELSE IF keep THEN Push([s EXCEPT !.listeners = done])
          ELSE DeactivateThread([s EXCEPT !.listeners = marked])
  BY Zenon DEF EventDeactivate
<1>6. \A k \in hits : k \in DOMAIN list /\ list[k].state \in Active
  OBVIOUS
<1> HIDE DEF hits, last, t
<1>7. hits = {} => t = s
  BY <1>5
<1>8. ASSUME hits # {} PROVE Unsetting(s, t)
  <2>1. s.active /\ ~s.joining
    BY <1>1, <1>6, <1>8 DEF Listened
  <2>2. Marking(list, marked)
    <3>1. \A k \in DOMAIN list :
            /\ marked[k] \in ListenerState
            /\ Stems(marked[k], list[k]) /\ (Fresh(marked[k]) <=> Fresh(list[k]))
            /\ marked[k].cb = list[k].cb
      BY <1>2, <1>3, <1>4, <1>6
    <3>2. marked = [k \in 1..Len(list) |-> marked[k]] /\ DOMAIN marked = 1..Len(list)
      BY <1>2
    <3> HIDE DEF marked
    <3>3. marked \in Seq(ListenerState)
      BY <1>2, <3>1, <3>2, SeqMade
    <3> QED
      BY <1>2, <3>1, <3>2, <3>3 DEF Marking
  <2> HIDE DEF marked
  <2>3. Marking(list, done)
    <3>1. /\ DOMAIN marked = DOMAIN list
          /\ \A k \in DOMAIN list : marked[k] \in ListenerState
          /\ \A k \in DOMAIN list :
               /\ Stems(marked[k], list[k]) /\ (Fresh(marked[k]) <=> Fresh(list[k]))
               /\ marked[k].cb = list[k].cb
      BY <2>2, SeqFacts DEF Marking
    <3>2. \A k \in DOMAIN list :
            done[k] = IF k = last THEN [marked[k] EXCEPT !.done = TRUE] ELSE marked[k]
      BY <3>1
    <3>3. DOMAIN done = 1..Len(list) /\ done = [k \in 1..Len(list) |-> done[k]]
      BY <1>2, <3>1
    <3>4. \A k \in DOMAIN list : done[k] \in ListenerState
      BY <1>4, <3>1, <3>2
    <3>5. done \in Seq(ListenerState)
      <4> HIDE DEF done
      <4>1. Len(list) \in Nat /\ \A k \in 1..Len(list) : done[k] \in ListenerState
        BY <1>2, <3>4
      <4> QED
        BY <3>3, <4>1, SeqMade
    <3>6. \A k \in DOMAIN list :
            /\ Stems(done[k], marked[k]) /\ (Fresh(done[k]) <=> Fresh(marked[k]))
            /\ done[k].cb = marked[k].cb
      BY <1>4, <3>1, <3>2
    <3> HIDE DEF done
    <3>7. \A k \in DOMAIN list : Stems(done[k], list[k])
      BY <3>1, <3>6 DEF Stems
    <3> QED
      BY <1>2, <3>1, <3>3, <3>5, <3>6, <3>7 DEF Marking
  <2> QED
    BY <1>5, <1>8, <2>1, <2>2, <2>3 DEF Unsetting, list
<1>9. Unsetting(s, t)
  BY <1>7, <1>8 DEF Unsetting
<1> QED
  BY <1>9 DEF t

LEMMA RelistBase ==
  ASSUME NEW s, Base(s), NEW new \in Seq(ListenerState), Sane(new),
         \A k \in DOMAIN new : new[k].state \in Active => s.active /\ ~s.joining
  PROVE  LET t == [s EXCEPT !.listeners = new] IN
         Base(t) /\ Steady(s, t) /\ t.listeners = new /\ t.told = s.told /\ t.orderly = s.orderly
<1> DEFINE t == [s EXCEPT !.listeners = new]
<1>1. /\ s \in Collected /\ Sane(s.listeners) /\ Sane(s.react) /\ Life(s)
      /\ Paired(s) /\ Listened(s) /\ Counted(s)
  BY DEF Base
<1>2. t \in Collected
  BY <1>1 DEF Collected
<1>3. Steady(s, t) /\ t.listeners = new /\ t.told = s.told /\ t.orderly = s.orderly
  BY <1>1 DEF Collected, Steady
<1> HIDE DEF t
<1>4. Life(t) /\ Paired(t) /\ Counted(t)
  BY <1>1, <1>3, SteadyParts
<1>5. Listened(t) /\ Sane(t.listeners) /\ Sane(t.react)
  BY <1>1, <1>3 DEF Listened, Steady
<1> QED
  BY <1>2, <1>3, <1>4, <1>5 DEF Base, t

\* What an event adds to the list it adds to the pipe.
LEMMA PushBase ==
  ASSUME NEW s, Base(s), s.active, ~s.joining
  PROVE  /\ Base(Push(s))
         /\ Push(s).listeners = s.listeners /\ Push(s).react = s.react
         /\ Push(s).told = s.told /\ Push(s).orderly = s.orderly
         /\ Push(s).alive = s.alive /\ Push(s).calls = s.calls
         /\ Push(s).joining = s.joining /\ Push(s).uses = s.uses
<1>0. /\ s \in Collected /\ Sane(s.listeners) /\ Sane(s.react) /\ Life(s)
      /\ Paired(s) /\ Listened(s) /\ Counted(s)
  BY DEF Base
<1>1. CASE ~s.data.full
  BY <1>1 DEF Push
<1>2. CASE s.data.full
  <2> DEFINE item == [slot |-> s.data.slot, tv |-> s.data.tv]
             t == [s EXCEPT !.items = Append(@, item), !.pipe = Append(@, "event")]
  <2>1. Push(s) = t
    <3>1. s = [s EXCEPT !.items = s.items]
      BY <1>0 DEF Collected
    <3> QED
      BY <1>0, <1>2 DEF Push, PushItem, Collected
  <2>2. item \in EventItem /\ s.items \in Seq(EventItem) /\ s.pipe \in Seq(Chars)
    BY <1>0 DEF Collected, EventItem
  <2> HIDE DEF item
  <2>3. /\ Append(s.items, item) \in Seq(EventItem)
        /\ Len(Append(s.items, item)) = Len(s.items) + 1
    BY <2>2, AppendFacts
  <2>4. ~Exits(s.pipe) /\ LastOnly(s.pipe)
    BY <1>0 DEF Life
  <2>5. /\ Append(s.pipe, "event") \in Seq(Chars)
        /\ Len(Append(s.pipe, "event")) = Len(s.pipe) + 1
        /\ LastOnly(Append(s.pipe, "event")) /\ ~Exits(Append(s.pipe, "event"))
    BY <2>2, <2>4, AppendChar DEF Chars
  <2>6. t \in Collected
    BY <1>0, <2>3, <2>5 DEF Collected
  <2>7. /\ t.items = Append(s.items, item) /\ t.pipe = Append(s.pipe, "event")
        /\ t.listeners = s.listeners /\ t.react = s.react
        /\ t.told = s.told /\ t.orderly = s.orderly /\ t.alive = s.alive /\ t.calls = s.calls
        /\ t.thread = s.thread /\ t.quit = s.quit /\ t.joining = s.joining
        /\ t.active = s.active /\ t.handler = s.handler /\ t.uses = s.uses
        /\ t.lazy = s.lazy /\ t.sent = s.sent /\ t.waits = s.waits
    BY <1>0 DEF Collected
  <2> HIDE DEF t
  <2>8. Paired(t)
    <3>1. /\ Len(s.items) \in Nat /\ Len(s.pipe) \in Nat /\ Owed(s) \in 0..1
          /\ Len(s.items) = Len(s.pipe) - Ended(s.pipe) + Owed(s)
      BY <1>0, <2>4, PairedIs
    <3>2. LastOnly(t.pipe) /\ Ended(t.pipe) = 0 /\ Ended(s.pipe) = 0 /\ Owed(t) = Owed(s)
      BY <2>4, <2>5, <2>7 DEF Ended, Owed
    <3>3. Len(t.items) = Len(s.items) + 1 /\ Len(t.pipe) = Len(s.pipe) + 1
      BY <2>3, <2>5, <2>7
    <3>4. Len(t.items) = Len(t.pipe) - Ended(t.pipe) + Owed(t)
      BY <3>1, <3>2, <3>3
    <3> QED
      BY <2>6, <3>2, <3>4, PairedIs
  <2>9. Life(t)
    BY <1>0, <2>5, <2>7 DEF Life
  <2>10. Listened(t) /\ Counted(t)
    BY <1>0, <2>7 DEF Listened, Counted
  <2>11. Base(t)
    BY <1>0, <2>6, <2>7, <2>8, <2>9, <2>10 DEF Base
  <2> QED
    BY <2>1, <2>7, <2>11
<1> QED
  BY <1>1, <1>2

LEMMA StopBase ==
  ASSUME NEW s, Base(s), s.active, ~s.joining,
         \A k \in DOMAIN s.listeners : s.listeners[k].state \notin Active
  PROVE  LET t == DeactivateThread(s) IN
         /\ Base(t) /\ t.listeners = s.listeners /\ t.react = s.react
         /\ t.told = s.told /\ t.orderly = s.orderly /\ t.alive = s.alive /\ t.calls = s.calls
         /\ t.joining /\ t.uses = s.uses
<1> DEFINE t == DeactivateThread(s)
<1>0. /\ s \in Collected /\ Sane(s.listeners) /\ Sane(s.react) /\ Life(s)
      /\ Paired(s) /\ Listened(s) /\ Counted(s)
  BY DEF Base
<1>1. t \in Collected
  BY <1>0 DEF DeactivateThread, Collected
<1>2. /\ t.quit /\ t.joining
      /\ t.items = s.items /\ t.pipe = s.pipe /\ t.thread = s.thread
      /\ t.listeners = s.listeners /\ t.react = s.react
      /\ t.told = s.told /\ t.orderly = s.orderly /\ t.alive = s.alive /\ t.calls = s.calls
      /\ t.active = s.active /\ t.handler = s.handler /\ t.uses = s.uses
      /\ t.lazy = s.lazy /\ t.sent = s.sent /\ t.waits = s.waits
  BY <1>0 DEF DeactivateThread, Collected
<1> HIDE DEF t
<1>3. Life(t) /\ Paired(t) /\ Counted(t)
  BY <1>0, <1>2 DEF Life, Paired, Events, Counted
<1>4. Listened(t)
  BY <1>2 DEF Listened
<1> QED
  BY <1>0, <1>1, <1>2, <1>3, <1>4 DEF Base, t

\* A list that was marked, and nothing else that anybody was told of
Marked(s, t) ==
  /\ Marking(s.listeners, t.listeners) /\ t.react = s.react
  /\ t.told = s.told /\ t.orderly = s.orderly /\ t.alive = s.alive /\ t.calls = s.calls
  /\ t.uses = s.uses

LEMMA MarkingSelf ==
  ASSUME NEW list \in Seq(ListenerState)
  PROVE  Marking(list, list)
BY DEF Marking, Stems

LEMMA DeactivateBase ==
  ASSUME NEW s, Base(s), NEW cb, NEW slot
  PROVE  /\ Base(EventDeactivate(s, cb, slot))
         /\ Marked(s, EventDeactivate(s, cb, slot))
<1> DEFINE t == EventDeactivate(s, cb, slot)
<1>1. Unsetting(s, t)
  BY DeactivateContract
<1> HIDE DEF t
<1>2. s.listeners \in Seq(ListenerState) /\ Sane(s.listeners) /\ Listened(s)
  BY DEF Base, Collected
<1>3. ASSUME t = s PROVE Base(t) /\ Marked(s, t)
  BY <1>2, <1>3, MarkingSelf DEF Marked
<1>4. ASSUME t # s PROVE Base(t) /\ Marked(s, t)
  <2>1. PICK new :
       /\ Marking(s.listeners, new) /\ s.active /\ ~s.joining
       /\ \/ t = Push([s EXCEPT !.listeners = new])
          \/ /\ t = DeactivateThread([s EXCEPT !.listeners = new])
             /\ \A k \in DOMAIN new : new[k].state \notin Active
    BY <1>1, <1>4 DEF Unsetting
  <2> DEFINE u == [s EXCEPT !.listeners = new]
  <2>2. new \in Seq(ListenerState) /\ Sane(new)
    BY <1>2, <2>1 DEF Marking, Sane, Stems
  <2>3. Base(u) /\ Steady(s, u) /\ u.listeners = new /\ u.told = s.told /\ u.orderly = s.orderly
    BY <2>1, <2>2, RelistBase
  <2>4. t = Push(u) \/ (t = DeactivateThread(u) /\ \A k \in DOMAIN new : new[k].state \notin Active)
    BY <2>1
  <2> HIDE DEF u
  <2>5. /\ u.active /\ ~u.joining /\ u.react = s.react /\ u.alive = s.alive
        /\ u.calls = s.calls /\ u.uses = s.uses
    BY <2>1, <2>3 DEF Steady
  <2>6. CASE t = Push(u)
    BY <2>1, <2>3, <2>5, <2>6, PushBase DEF Marked
  <2>7. CASE t = DeactivateThread(u) /\ \A k \in DOMAIN new : new[k].state \notin Active
    BY <2>1, <2>3, <2>5, <2>7, StopBase DEF Marked
  <2> QED
    BY <2>4, <2>6, <2>7
<1>5. Base(t) /\ Marked(s, t)
  BY <1>3, <1>4
<1> QED
  BY <1>5 DEF t
-----------------------------------------------------------------------------
(* What touches neither the listeners nor the thread                       *)

Core(s, t) ==
  /\ t.listeners = s.listeners /\ t.react = s.react
  /\ t.items = s.items /\ t.pipe = s.pipe /\ t.thread = s.thread /\ t.quit = s.quit
  /\ t.handler = s.handler /\ t.active = s.active /\ t.joining = s.joining

LEMMA BaseParts ==
  ASSUME NEW s, Base(s)
  PROVE  /\ s \in Collected /\ Sane(s.listeners) /\ Sane(s.react) /\ Life(s)
         /\ Paired(s) /\ Listened(s) /\ Counted(s)
BY DEF Base

LEMMA CoreBase ==
  ASSUME NEW s, Base(s), NEW t \in Collected, Core(s, t), Counted(t)
  PROVE  Base(t)
<1>1. Life(t) /\ Paired(t) /\ Listened(t)
  BY BaseParts DEF Core, Life, Paired, Listened, Events
<1>2. Sane(t.listeners) /\ Sane(t.react)
  BY BaseParts DEF Core
<1> QED
  BY <1>1, <1>2 DEF Base

LEMMA TickBase ==
  ASSUME InputAssumption, BaseInv, Tick
  PROVE  BaseInv'
<1> DEFINE t == [e EXCEPT !.now = @ + 1]
<1>0. e \in Collected /\ Counted(e) /\ e.now < MaxTime /\ e' = t
  BY BaseParts DEF BaseInv, Tick
<1>1. t \in Collected
  <2>1. e.now + 1 \in 1..(MaxTime + 1)
    BY <1>0 DEF Collected, InputAssumption
  <2> QED
    BY <1>0, <2>1 DEF Collected
<1>2. Core(e, t) /\ Counted(t)
  BY <1>0 DEF Collected, Core, Counted
<1> HIDE DEF t
<1>3. Base(t)
  BY <1>1, <1>2, CoreBase DEF BaseInv
<1> QED
  BY <1>0, <1>3 DEF BaseInv

LEMMA ThreadStartBase ==
  ASSUME BaseInv, ThreadStart
  PROVE  BaseInv'
<1> DEFINE t == [e EXCEPT !.thread = "run", !.data.full = FALSE, !.data.slot = 0]
<1>0. /\ e \in Collected /\ Sane(e.listeners) /\ Sane(e.react) /\ Life(e)
      /\ Paired(e) /\ Listened(e) /\ Counted(e) /\ e.thread = "start" /\ e' = t
  BY BaseParts DEF BaseInv, ThreadStart
<1>1. t \in Collected
  <2> DEFINE c == [e.data EXCEPT !.full = FALSE]
             d == [c EXCEPT !.slot = 0]
  <2>1. t = [e EXCEPT !.thread = "run", !.data = d]
    BY <1>0 DEF Collected
  <2>0. e.data \in [slot : Int, tv : Nat, full : BOOLEAN]
    BY <1>0 DEF Collected
  <2>2. d \in [slot : Int, tv : Nat, full : BOOLEAN]
    <3>1. c \in [slot : Int, tv : Nat, full : BOOLEAN]
      BY <2>0
    <3> HIDE DEF c
    <3> QED
      BY <3>1
  <2>3. "run" \in Threads
    BY DEF Threads
  <2> HIDE DEF d
  <2> QED
    BY <1>0, <2>1, <2>2, <2>3 DEF Collected
<1>2. /\ t.thread = "run" /\ t.quit = e.quit /\ t.joining = e.joining /\ t.active = e.active
      /\ t.handler = e.handler /\ t.pipe = e.pipe /\ t.items = e.items
      /\ t.listeners = e.listeners /\ t.react = e.react
      /\ t.alive = e.alive /\ t.lazy = e.lazy /\ t.sent = e.sent /\ t.waits = e.waits
  BY <1>0 DEF Collected
<1> HIDE DEF t
<1>3. Life(t) /\ Paired(t) /\ Listened(t) /\ Counted(t)
  BY <1>0, <1>2 DEF Life, Paired, Events, Listened, Counted
<1>4. Base(t)
  BY <1>0, <1>1, <1>2, <1>3 DEF Base
<1> QED
  BY <1>0, <1>4 DEF BaseInv

LEMMA UpdateTimestampBase ==
  ASSUME BaseInv, UpdateTimestamp
  PROVE  BaseInv'
<1> DEFINE t == [e EXCEPT !.fresh = TRUE, !.data.tv = e.now]
<1>0. e \in Collected /\ Counted(e) /\ e' = t
  BY BaseParts DEF BaseInv, UpdateTimestamp
<1>1. t \in Collected
  <2> DEFINE d == [e.data EXCEPT !.tv = e.now]
  <2>1. t = [e EXCEPT !.fresh = TRUE, !.data = d]
    BY <1>0 DEF Collected
  <2>0. e.data \in [slot : Int, tv : Nat, full : BOOLEAN] /\ e.now \in Nat
    BY <1>0 DEF Collected
  <2>2. d \in [slot : Int, tv : Nat, full : BOOLEAN]
    BY <2>0
  <2> HIDE DEF d
  <2> QED
    BY <1>0, <2>1, <2>2 DEF Collected
<1>2. Core(e, t) /\ Counted(t)
  BY <1>0 DEF Collected, Core, Counted
<1> HIDE DEF t
<1>3. Base(t)
  BY <1>1, <1>2, CoreBase DEF BaseInv
<1> QED
  BY <1>0, <1>3 DEF BaseInv

LEMMA ProcessingEvAbsBase ==
  ASSUME InputAssumption, BaseInv, NEW slot \in Slots, ProcessingEvAbs(slot)
  PROVE  BaseInv'
<1> DEFINE t == [e EXCEPT !.data.slot = slot, !.data.full = TRUE]
<1>0. e \in Collected /\ Counted(e) /\ e' = t
  BY BaseParts DEF BaseInv, ProcessingEvAbs
<1>1. t \in Collected
  <2> DEFINE d == [e.data EXCEPT !.slot = slot, !.full = TRUE]
  <2>1. slot \in Int
    BY DEF InputAssumption
  <2>2. t = [e EXCEPT !.data = d]
    BY <1>0 DEF Collected
  <2>0. e.data \in [slot : Int, tv : Nat, full : BOOLEAN]
    BY <1>0 DEF Collected
  <2>3. d \in [slot : Int, tv : Nat, full : BOOLEAN]
    BY <2>0, <2>1
  <2> HIDE DEF d
  <2> QED
    BY <1>0, <2>2, <2>3 DEF Collected
<1>2. Core(e, t) /\ Counted(t)
  BY <1>0 DEF Collected, Core, Counted
<1> HIDE DEF t
<1>3. Base(t)
  BY <1>1, <1>2, CoreBase DEF BaseInv
<1> QED
  BY <1>0, <1>3 DEF BaseInv

LEMMA SetMouseXYBase ==
  ASSUME InputAssumption, NEW s, Base(s), NEW slot \in Slots
  PROVE  LET t == SetMouseXY(s, slot) IN
         Base(t) /\ Core(s, t) /\ t.told = s.told /\ t.orderly = s.orderly
         /\ t.alive = s.alive /\ t.calls = s.calls
<1> DEFINE t == SetMouseXY(s, slot)
<1>0. s \in Collected /\ Counted(s)
  BY BaseParts
<1>1. t \in Collected
  <2>1. slot \in Int
    BY DEF InputAssumption
  <2>2. [slot |-> slot, tv |-> s.now, full |-> TRUE] \in [slot : Int, tv : Nat, full : BOOLEAN]
    BY <1>0, <2>1 DEF Collected
  <2> QED
    BY <1>0, <2>2 DEF Collected, SetMouseXY
<1>2. /\ Core(s, t) /\ Counted(t) /\ t.told = s.told /\ t.orderly = s.orderly
      /\ t.alive = s.alive /\ t.calls = s.calls
  BY <1>0 DEF Collected, Core, Counted, SetMouseXY
<1> HIDE DEF t
<1>3. Base(t)
  BY <1>1, <1>2, CoreBase
<1> QED
  BY <1>2, <1>3 DEF t

(* What the thread pushes                                                  *)

LEMMA ProcessingReportBase ==
  ASSUME BaseInv, ProcessingReport
  PROVE  BaseInv'
<1> DEFINE full == e.data.full
           item == [slot |-> e.data.slot, tv |-> e.data.tv]
           items == IF full THEN Append(e.items, item) ELSE e.items
           th == IF full THEN "push" ELSE "run"
           t == [e EXCEPT !.items = items, !.fresh = FALSE, !.thread = th]
<1>0. /\ e \in Collected /\ Sane(e.listeners) /\ Sane(e.react) /\ Life(e)
      /\ Paired(e) /\ Listened(e) /\ Counted(e) /\ e.thread = "run"
  BY BaseParts DEF BaseInv, ProcessingReport
<1>1. e' = t
  <2>1. e' = [PushItem(e) EXCEPT !.fresh = FALSE, !.thread = th]
    BY DEF ProcessingReport
  <2>2. e = [e EXCEPT !.items = e.items]
    BY <1>0 DEF Collected
  <2>3. CASE full
    BY <1>0, <2>1, <2>3 DEF PushItem, Collected
  <2>4. CASE ~full
    BY <1>0, <2>1, <2>2, <2>4 DEF PushItem, Collected
  <2> QED
    BY <2>3, <2>4
<1>2. /\ item \in EventItem /\ e.items \in Seq(EventItem) /\ full \in BOOLEAN
      /\ Len(e.items) \in Nat
  <2>1. item \in EventItem /\ e.items \in Seq(EventItem) /\ full \in BOOLEAN
    BY <1>0 DEF Collected, EventItem
  <2> QED
    BY <2>1, SeqFacts
<1> HIDE DEF item, full
<1>3. /\ items \in Seq(EventItem) /\ th \in Threads
      /\ Len(items) = Len(e.items) + (IF full THEN 1 ELSE 0)
  <2>1. Append(e.items, item) \in Seq(EventItem) /\ Len(Append(e.items, item)) = Len(e.items) + 1
    BY <1>2, AppendFacts
  <2>2. CASE full
    BY <1>2, <2>1, <2>2 DEF Threads
  <2>3. CASE ~full
    BY <1>2, <2>3 DEF Threads
  <2> QED
    BY <1>2, <2>2, <2>3
<1>4. th = (IF full THEN "push" ELSE "run")
  OBVIOUS
<1> HIDE DEF items, th
<1>5. t \in Collected
  BY <1>0, <1>3 DEF Collected
<1>6. /\ t.items = items /\ t.thread = th
      /\ t.quit = e.quit /\ t.joining = e.joining /\ t.active = e.active
      /\ t.handler = e.handler /\ t.pipe = e.pipe
      /\ t.listeners = e.listeners /\ t.react = e.react
      /\ t.alive = e.alive /\ t.lazy = e.lazy /\ t.sent = e.sent /\ t.waits = e.waits
  BY <1>0 DEF Collected
<1> HIDE DEF t
<1>7. th # "off" /\ th # "ended"
  BY <1>4
<1>8. Life(t) /\ Listened(t) /\ Counted(t)
  BY <1>0, <1>6, <1>7 DEF Life, Listened, Counted
<1>9. Paired(t)
  <2>1. Owed(t) = (IF full THEN 1 ELSE 0) /\ Owed(e) = 0
    BY <1>0, <1>2, <1>4, <1>6 DEF Owed
  <2>2. LastOnly(e.pipe)
    BY <1>0 DEF Life
  <2>3. /\ Len(e.items) \in Nat /\ Len(e.pipe) \in Nat /\ Ended(e.pipe) \in 0..1
        /\ Len(e.items) = Len(e.pipe) - Ended(e.pipe) + Owed(e)
    BY <1>0, <2>2, PairedIs
  <2>4. Owed(t) \in 0..1
    BY DEF Owed
  <2>5. Len(items) = Len(e.items) + Owed(t)
    BY <1>3, <2>1
  <2>6. Len(t.items) = Len(t.pipe) - Ended(t.pipe) + Owed(t)
    BY <1>6, <2>1, <2>3, <2>4, <2>5
  <2> QED
    BY <1>5, <1>6, <2>2, <2>6, PairedIs
<1>10. Base(t)
  BY <1>0, <1>5, <1>6, <1>8, <1>9 DEF Base
<1> QED
  BY <1>1, <1>10 DEF BaseInv

LEMMA ThreadWritesBase ==
  ASSUME BaseInv, ThreadWrites
  PROVE  BaseInv'
<1> DEFINE pipe == Append(e.pipe, "event")
           t == [e EXCEPT !.pipe = pipe, !.thread = "run"]
<1>0. /\ e \in Collected /\ Sane(e.listeners) /\ Sane(e.react) /\ Life(e)
      /\ Paired(e) /\ Listened(e) /\ Counted(e) /\ e.thread = "push" /\ e' = t
  BY BaseParts DEF BaseInv, ThreadWrites
<1>1. e.pipe \in Seq(Chars) /\ ~Exits(e.pipe) /\ "event" \in Chars /\ "run" \in Threads
  BY <1>0 DEF Collected, Life, Chars, Threads
<1>2. /\ pipe \in Seq(Chars) /\ Len(pipe) = Len(e.pipe) + 1
      /\ LastOnly(pipe) /\ ~Exits(pipe)
  BY <1>1, AppendChar DEF Chars
<1> HIDE DEF pipe
<1>3. t \in Collected
  BY <1>0, <1>1, <1>2 DEF Collected
<1>4. /\ t.pipe = pipe /\ t.thread = "run" /\ t.items = e.items
      /\ t.quit = e.quit /\ t.joining = e.joining /\ t.active = e.active
      /\ t.handler = e.handler
      /\ t.listeners = e.listeners /\ t.react = e.react
      /\ t.alive = e.alive /\ t.lazy = e.lazy /\ t.sent = e.sent /\ t.waits = e.waits
  BY <1>0 DEF Collected
<1> HIDE DEF t
<1>5. Life(t) /\ Listened(t) /\ Counted(t)
  BY <1>0, <1>2, <1>4 DEF Life, Listened, Counted
<1>6. Paired(t)
  <2>1. Owed(t) = 0 /\ Owed(e) = 1 /\ Ended(e.pipe) = 0 /\ Ended(t.pipe) = 0
    BY <1>0, <1>1, <1>2, <1>4 DEF Owed, Ended
  <2>2. LastOnly(e.pipe)
    BY <1>0 DEF Life
  <2>3. /\ Len(e.items) \in Nat /\ Len(e.pipe) \in Nat
        /\ Len(e.items) = Len(e.pipe) - Ended(e.pipe) + Owed(e)
    BY <1>0, <2>2, PairedIs
  <2>4. Len(t.items) = Len(t.pipe) - Ended(t.pipe) + Owed(t)
    BY <1>2, <1>4, <2>1, <2>3
  <2> QED
    BY <1>2, <1>3, <1>4, <2>4, PairedIs
<1>7. Base(t)
  BY <1>0, <1>3, <1>4, <1>5, <1>6 DEF Base
<1> QED
  BY <1>0, <1>7 DEF BaseInv

LEMMA ThreadQuitsBase ==
  ASSUME BaseInv, ThreadQuits
  PROVE  BaseInv'
<1> DEFINE pipe == Append(e.pipe, "exit")
           t == [e EXCEPT !.quit = FALSE, !.thread = "ended", !.pipe = pipe]
<1>0. /\ e \in Collected /\ Sane(e.listeners) /\ Sane(e.react) /\ Life(e)
      /\ Paired(e) /\ Listened(e) /\ Counted(e) /\ e.thread = "run" /\ e.quit /\ e' = t
  BY BaseParts DEF BaseInv, ThreadQuits
<1>1. e.pipe \in Seq(Chars) /\ ~Exits(e.pipe) /\ "exit" \in Chars /\ "ended" \in Threads
  BY <1>0 DEF Collected, Life, Chars, Threads
<1>2. /\ pipe \in Seq(Chars) /\ Len(pipe) = Len(e.pipe) + 1
      /\ LastOnly(pipe) /\ Exits(pipe) /\ pipe # <<>>
  BY <1>1, AppendChar, AppendFacts DEF Chars
<1> HIDE DEF pipe
<1>3. t \in Collected
  BY <1>0, <1>1, <1>2 DEF Collected
<1>4. /\ t.pipe = pipe /\ t.thread = "ended" /\ t.items = e.items
      /\ ~t.quit /\ t.joining = e.joining /\ t.active = e.active
      /\ t.handler = e.handler
      /\ t.listeners = e.listeners /\ t.react = e.react
      /\ t.alive = e.alive /\ t.lazy = e.lazy /\ t.sent = e.sent /\ t.waits = e.waits
  BY <1>0 DEF Collected
<1> HIDE DEF t
<1>5. Life(t) /\ Listened(t) /\ Counted(t)
  BY <1>0, <1>2, <1>4 DEF Life, Listened, Counted
<1>6. Paired(t)
  <2>1. Owed(t) = 0 /\ Owed(e) = 0 /\ Ended(e.pipe) = 0 /\ Ended(t.pipe) = 1
    BY <1>0, <1>1, <1>2, <1>4 DEF Owed, Ended
  <2>2. LastOnly(e.pipe)
    BY <1>0 DEF Life
  <2>3. /\ Len(e.items) \in Nat /\ Len(e.pipe) \in Nat
        /\ Len(e.items) = Len(e.pipe) - Ended(e.pipe) + Owed(e)
    BY <1>0, <2>2, PairedIs
  <2>4. Len(t.items) = Len(t.pipe) - Ended(t.pipe) + Owed(t)
    BY <1>2, <1>4, <2>1, <2>3
  <2> QED
    BY <1>2, <1>3, <1>4, <2>4, PairedIs
<1>7. Base(t)
  BY <1>0, <1>3, <1>4, <1>5, <1>6 DEF Base
<1> QED
  BY <1>0, <1>7 DEF BaseInv
-----------------------------------------------------------------------------
(* A callback of the destroyed instance is done                            *)

\* The same listeners, some of them without their instance
Orphaned(list, new) ==
  /\ new \in Seq(ListenerState) /\ DOMAIN new = DOMAIN list
  /\ new # <<>> <=> list # <<>>
  /\ \A k \in DOMAIN list :
       /\ KeyOf(new[k]) = KeyOf(list[k]) /\ new[k].cb = list[k].cb
       /\ new[k].state = list[k].state /\ new[k].prev = list[k].prev
       /\ new[k].inst => list[k].inst

ResetList(list, cb) ==
  [k \in DOMAIN list |->
     IF list[k].cb = cb THEN [list[k] EXCEPT !.inst = FALSE] ELSE list[k]]

LEMMA ResetListContract ==
  ASSUME NEW list \in Seq(ListenerState), NEW cb
  PROVE  Orphaned(list, ResetList(list, cb))
<1> DEFINE new == ResetList(list, cb)
<1>1. /\ Len(list) \in Nat /\ DOMAIN list = 1..Len(list)
      /\ \A k \in DOMAIN list : list[k] \in ListenerState
      /\ list # <<>> <=> Len(list) # 0
  BY SeqFacts
<1>2. \A l \in ListenerState :
        /\ [l EXCEPT !.inst = FALSE] \in ListenerState
        /\ [l EXCEPT !.inst = FALSE].cb = l.cb /\ [l EXCEPT !.inst = FALSE].slot = l.slot
        /\ [l EXCEPT !.inst = FALSE].state = l.state /\ [l EXCEPT !.inst = FALSE].prev = l.prev
        /\ ~[l EXCEPT !.inst = FALSE].inst
  BY DEF ListenerState
<1>3. \A k \in DOMAIN list :
        new[k] = IF list[k].cb = cb THEN [list[k] EXCEPT !.inst = FALSE] ELSE list[k]
  BY DEF ResetList
<1>4. DOMAIN new = 1..Len(list) /\ new = [k \in 1..Len(list) |-> new[k]]
  BY <1>1 DEF ResetList
<1> HIDE DEF new
<1>5. \A k \in DOMAIN list :
       /\ new[k] \in ListenerState
       /\ new[k].cb = list[k].cb /\ new[k].slot = list[k].slot
       /\ new[k].state = list[k].state /\ new[k].prev = list[k].prev
       /\ new[k].inst => list[k].inst
  BY <1>1, <1>2, <1>3
<1>6. new \in Seq(ListenerState) /\ Len(new) = Len(list)
  BY <1>1, <1>4, <1>5, SeqMade
<1>7. new # <<>> <=> Len(new) # 0
  BY <1>6, SeqFacts
<1>8. \A k \in DOMAIN list : KeyOf(new[k]) = KeyOf(list[k])
  BY <1>5 DEF KeyOf
<1>9. Orphaned(list, new)
  BY <1>1, <1>4, <1>5, <1>6, <1>7, <1>8 DEF Orphaned
<1> QED
  BY <1>9 DEF new

NextCall(s) == [ResetData(s, Head(s.calls)) EXCEPT !.calls = Tail(@)]

\* The callback of the first call is reset, and the call done.
Called(s, t) ==
  /\ Orphaned(s.listeners, t.listeners) /\ Orphaned(s.react, t.react)
  /\ t.told = s.told /\ t.orderly = s.orderly /\ t.alive = s.alive

LEMMA NextCallBase ==
  ASSUME NEW s, Base(s), s.calls # <<>>
  PROVE  Base(NextCall(s)) /\ Called(s, NextCall(s))
<1> DEFINE cb == Head(s.calls)
           list == ResetList(s.listeners, cb)
           react == ResetList(s.react, cb)
           t == [s EXCEPT !.listeners = list, !.react = react, !.calls = Tail(s.calls)]
<1>0. /\ s \in Collected /\ Sane(s.listeners) /\ Sane(s.react) /\ Life(s)
      /\ Paired(s) /\ Listened(s) /\ Counted(s)
  BY BaseParts
<1>1. NextCall(s) = t
  BY <1>0 DEF NextCall, ResetData, ResetList, Collected
<1>2. s.listeners \in Seq(ListenerState) /\ s.react \in Seq(ListenerState) /\ s.calls \in Seq(Callbacks)
  BY <1>0 DEF Collected
<1>3. Orphaned(s.listeners, list) /\ Orphaned(s.react, react)
  BY <1>2, ResetListContract
<1>4. Tail(s.calls) \in Seq(Callbacks)
  BY <1>2, TailFacts
<1> HIDE DEF cb, list, react
<1>5. list \in Seq(ListenerState) /\ react \in Seq(ListenerState)
  BY <1>3 DEF Orphaned
<1>6. t \in Collected
  BY <1>0, <1>4, <1>5 DEF Collected
<1>7. /\ t.listeners = list /\ t.react = react
      /\ t.items = s.items /\ t.pipe = s.pipe /\ t.thread = s.thread
      /\ t.quit = s.quit /\ t.handler = s.handler /\ t.active = s.active
      /\ t.joining = s.joining
      /\ t.told = s.told /\ t.orderly = s.orderly /\ t.alive = s.alive
      /\ t.lazy = s.lazy /\ t.sent = s.sent /\ t.waits = s.waits
  BY <1>0 DEF Collected
<1> HIDE DEF t
<1>8. Life(t)
  BY <1>0, <1>3, <1>7 DEF Life, Orphaned
<1>9. Paired(t) /\ Counted(t)
  BY <1>0, <1>7 DEF Paired, Events, Counted
<1>10. Listened(t)
  BY <1>0, <1>3, <1>7 DEF Listened, Orphaned
<1>11. Sane(t.listeners) /\ Sane(t.react)
  BY <1>0, <1>3, <1>7 DEF Sane, Orphaned
<1>12. Base(t)
  BY <1>6, <1>8, <1>9, <1>10, <1>11 DEF Base
<1> QED
  BY <1>1, <1>3, <1>7, <1>12 DEF Called

Joined(s) == [s EXCEPT !.joining = FALSE, !.active = FALSE, !.thread = "off"]

LEMMA JoinedBase ==
  ASSUME NEW s, Base(s), s.joining, s.thread = "ended"
  PROVE  /\ Base(Joined(s)) /\ Marked(s, Joined(s)) /\ Joined(s).listeners = s.listeners
<1> DEFINE t == Joined(s)
<1>0. /\ s \in Collected /\ Sane(s.listeners) /\ Sane(s.react) /\ Life(s)
      /\ Paired(s) /\ Listened(s) /\ Counted(s)
  BY BaseParts
<1>1. t \in Collected
  <2>1. "off" \in Threads
    BY DEF Threads
  <2> QED
    BY <1>0, <2>1 DEF Collected, Joined
<1>2. /\ t.thread = "off" /\ ~t.active /\ ~t.joining /\ t.quit = s.quit
      /\ t.listeners = s.listeners /\ t.react = s.react /\ t.uses = s.uses
      /\ t.items = s.items /\ t.pipe = s.pipe /\ t.handler = s.handler
      /\ t.told = s.told /\ t.orderly = s.orderly /\ t.alive = s.alive /\ t.calls = s.calls
      /\ t.lazy = s.lazy /\ t.sent = s.sent /\ t.waits = s.waits
  BY <1>0 DEF Collected, Joined
<1> HIDE DEF t
<1>3. Life(t) /\ Counted(t)
  BY <1>0, <1>2 DEF Life, Counted
<1>4. Listened(t)
  BY <1>0, <1>2 DEF Listened
<1>5. Paired(t)
  BY <1>0, <1>2 DEF Paired, Events
<1>6. Base(t)
  BY <1>0, <1>1, <1>2, <1>3, <1>4, <1>5 DEF Base
<1>7. s.listeners \in Seq(ListenerState)
  BY <1>0 DEF Collected
<1>8. Marked(s, t)
  BY <1>2, <1>7, MarkingSelf DEF Marked
<1> QED
  BY <1>2, <1>6, <1>8 DEF t

LEMMA JoinBase ==
  ASSUME BaseInv, Join
  PROVE  BaseInv'
<1> DEFINE t == Joined(e)
<1>1. /\ Base(t) /\ e' = IF t.calls = <<>> THEN t ELSE NextCall(t)
  BY JoinedBase DEF BaseInv, Join, Joined, NextCall
<1> HIDE DEF t
<1> QED
  BY <1>1, NextCallBase DEF BaseInv

LEMMA InstDelCbBase ==
  ASSUME BaseInv, InstDelCb
  PROVE  BaseInv'
<1> DEFINE t == EventDeactivate(e, Head(e.calls), AnySlot)
<1>1. Base(t) /\ Marked(e, t) /\ e.calls # <<>>
  BY DeactivateBase DEF BaseInv, InstDelCb
<1>2. e' = IF t.joining THEN t ELSE NextCall(t)
  BY DEF InstDelCb, NextCall
<1> HIDE DEF t
<1>3. t.calls # <<>>
  BY <1>1 DEF Marked
<1> QED
  BY <1>1, <1>2, <1>3, NextCallBase DEF BaseInv

LEMMA UnsetBase ==
  ASSUME NEW s, Base(s), NEW cb, NEW slot, Unset(s, cb, slot)
  PROVE  BaseInv'
BY DeactivateBase DEF BaseInv, Unset
-----------------------------------------------------------------------------
(* The thread starts                                                       *)

\* Nobody collects and nothing is collected.
Quiet(s) ==
  /\ s.thread = "off" /\ ~s.active /\ ~s.joining /\ ~s.quit
  /\ s.pipe = <<>> /\ s.items = <<>>

LEMMA QuietEvents ==
  ASSUME NEW s, s.pipe = <<>>
  PROVE  Events(s) = 0 /\ LastOnly(s.pipe) /\ ~Exits(s.pipe)
<1>1. DOMAIN s.pipe = {}
  OBVIOUS
<1>2. {k \in DOMAIN s.pipe : s.pipe[k] = "event"} = {}
  BY <1>1
<1>3. Events(s) = 0
  BY <1>2, FS_EmptySet, Zenon DEF Events
<1> QED
  BY <1>1, <1>3 DEF LastOnly, Exits

LEMMA ActivateBase ==
  ASSUME NEW s \in Collected, Quiet(s), Counted(s), s.react = <<>>, Sane(s.listeners)
  PROVE  LET t == ActivateThread(s) IN
         /\ Base(t) /\ t.listeners = s.listeners /\ t.react = s.react
         /\ t.told = s.told /\ t.orderly = s.orderly
         /\ t.alive = s.alive /\ t.calls = s.calls /\ t.delcb = s.delcb
<1> DEFINE t == ActivateThread(s)
<1>1. t \in Collected
  <2>1. "start" \in Threads
    BY DEF Threads
  <2> QED
    BY <2>1 DEF Collected, ActivateThread
<1>2. /\ t.thread = "start" /\ t.active /\ t.handler /\ ~t.joining /\ ~t.quit
      /\ t.pipe = <<>> /\ t.items = <<>> /\ t.listeners = s.listeners /\ t.react = s.react
      /\ t.told = s.told /\ t.orderly = s.orderly
      /\ t.alive = s.alive /\ t.calls = s.calls /\ t.delcb = s.delcb
      /\ t.lazy = s.lazy /\ t.sent = s.sent /\ t.waits = s.waits
  BY DEF Quiet, Collected, ActivateThread
<1> HIDE DEF t
<1>3. Events(t) = 0 /\ LastOnly(t.pipe) /\ ~Exits(t.pipe) /\ Len(t.items) = 0
  BY <1>2, QuietEvents
<1>4. Life(t) /\ Paired(t) /\ Listened(t) /\ Counted(t)
  BY <1>2, <1>3 DEF Life, Paired, Listened, Counted
<1>5. Sane(t.listeners) /\ Sane(t.react)
  BY <1>2 DEF Sane
<1>6. Base(t)
  BY <1>1, <1>4, <1>5 DEF Base
<1> QED
  BY <1>2, <1>6 DEF t

\* Without a handler nobody collects.
LEMMA WithoutHandler ==
  ASSUME NEW s, Base(s), ~s.handler
  PROVE  Quiet(s) /\ s.react = <<>>
<1>0. s \in Collected /\ Life(s) /\ Paired(s)
  BY BaseParts
<1>1. /\ s.pipe = <<>> /\ s.thread = "off" /\ ~s.active /\ ~s.joining /\ ~s.quit
      /\ s.react = <<>>
  BY <1>0 DEF Life, Collected
<1>2. Len(s.items) = 0
  BY <1>0, <1>1, QuietEvents DEF Paired
<1>3. s.items = <<>>
  BY <1>0, <1>2, SeqFacts DEF Collected
<1> QED
  BY <1>1, <1>3 DEF Quiet

\* Items that are left when nobody collects have their characters.
LEMMA LeftItems ==
  ASSUME NEW s, Base(s), ~s.active, s.items # <<>>
  PROVE  s.handler
<1>0. s \in Collected /\ Life(s) /\ Paired(s)
  BY BaseParts
<1>1. CASE ~s.handler
  BY <1>1, WithoutHandler DEF Quiet
<1> QED
  BY <1>0, <1>1 DEF Collected

\* A listener is added to those that listen, or to those that wait.
Added(s, t, l) ==
  /\ \/ t.listeners = Append(s.listeners, l) /\ t.react = s.react
     \/ t.react = Append(s.react, l) /\ t.listeners = s.listeners
  /\ t.told = s.told /\ t.orderly = s.orderly /\ t.alive = s.alive /\ t.calls = s.calls

LEMMA SaneAppend ==
  ASSUME NEW list \in Seq(ListenerState), Sane(list), NEW l \in ListenerState,
         l.prev = "none" /\ l.state = "down"
  PROVE  /\ Append(list, l) \in Seq(ListenerState) /\ Sane(Append(list, l))
         /\ Append(list, l) # <<>>
<1>1. /\ Append(list, l) \in Seq(ListenerState) /\ Append(list, l) # <<>>
      /\ DOMAIN Append(list, l) = 1..(Len(list) + 1) /\ Len(list) \in Nat
      /\ DOMAIN list = 1..Len(list)
      /\ \A k \in 1..Len(list) : Append(list, l)[k] = list[k]
      /\ Append(list, l)[Len(list) + 1] = l
  BY SeqFacts, AppendFacts
<1>2. \A k \in DOMAIN Append(list, l) : k \in 1..Len(list) \/ k = Len(list) + 1
  BY <1>1
<1>3. Sane(Append(list, l))
  BY <1>1, <1>2 DEF Sane
<1> QED
  BY <1>1, <1>3

LEMMA ActivateContract ==
  ASSUME NEW s, Base(s), NEW cb \in Callbacks, NEW slot \in Slots, Accepts(s, cb, slot),
         ~s.joining, MaxTime \in Nat
  PROVE  LET t == EventActivate(s, cb, slot) IN
         Base(t) /\ Added(s, t, NewListener(s, cb, slot)) /\ t.delcb = s.delcb
<1> DEFINE l == NewListener(s, cb, slot)
           t == EventActivate(s, cb, slot)
           new == Append(s.listeners, l)
           new2 == Append(s.react, l)
           u == [s EXCEPT !.listeners = new]
           v == [s EXCEPT !.react = new2]
<1>0. /\ s \in Collected /\ Sane(s.listeners) /\ Sane(s.react) /\ Life(s)
      /\ Paired(s) /\ Listened(s) /\ Counted(s)
      /\ s.listeners \in Seq(ListenerState) /\ s.react \in Seq(ListenerState)
  BY BaseParts DEF Collected
<1>1. l \in ListenerState /\ l.prev = "none" /\ l.state = "down"
  <2>1. s.now - 1 \in 0..MaxTime
    BY <1>0 DEF Collected
  <2> QED
    BY <2>1 DEF NewListener, ListenerState, Active
<1>2. t = IF s.active THEN u ELSE IF s.items # <<>> THEN v ELSE ActivateThread(u)
  BY Zenon DEF EventActivate
<1> HIDE DEF t, l
<1>3. /\ new \in Seq(ListenerState) /\ Sane(new)
      /\ new2 \in Seq(ListenerState) /\ Sane(new2) /\ new2 # <<>>
  BY <1>0, <1>1, SaneAppend
<1> HIDE DEF new, new2
<1>4. CASE s.active
  <2>1. Base(u) /\ Steady(s, u) /\ u.listeners = new /\ u.told = s.told /\ u.orderly = s.orderly
    BY <1>3, <1>4, RelistBase
  <2> HIDE DEF u
  <2>2. u.react = s.react /\ u.alive = s.alive /\ u.calls = s.calls /\ u.delcb = s.delcb
    BY <2>1 DEF Steady
  <2> QED
    BY <1>2, <1>4, <2>1, <2>2 DEF Added, t, new, l
<1>5. CASE ~s.active /\ s.items # <<>>
  <2>1. s.handler
    BY <1>5, LeftItems
  <2>2. v \in Collected
    BY <1>0, <1>3 DEF Collected
  <2>3. /\ v.react = new2 /\ v.listeners = s.listeners
        /\ v.items = s.items /\ v.pipe = s.pipe /\ v.thread = s.thread
        /\ v.quit = s.quit /\ v.handler = s.handler /\ v.active = s.active
        /\ v.joining = s.joining
        /\ v.told = s.told /\ v.orderly = s.orderly /\ v.alive = s.alive
        /\ v.calls = s.calls /\ v.delcb = s.delcb
        /\ v.lazy = s.lazy /\ v.sent = s.sent /\ v.waits = s.waits
    BY <1>0 DEF Collected
  <2> HIDE DEF v
  <2>4. Life(v) /\ Paired(v) /\ Listened(v) /\ Counted(v)
    BY <1>0, <1>5, <2>1, <2>3 DEF Life, Paired, Events, Listened, Counted
  <2>5. Base(v)
    BY <1>0, <1>3, <2>2, <2>3, <2>4 DEF Base
  <2> QED
    BY <1>2, <1>5, <2>3, <2>5 DEF Added, t, new2, l
<1>6. CASE ~s.active /\ ~(s.items # <<>>)
  <2>1. ~s.handler
    BY <1>6 DEF Accepts, CanStart
  <2>2. Quiet(s) /\ s.react = <<>>
    BY <2>1, WithoutHandler
  <2>3. u \in Collected
    BY <1>0, <1>3 DEF Collected
  <2>4. /\ Quiet(u) /\ Counted(u) /\ u.react = s.react /\ u.listeners = new
        /\ u.told = s.told /\ u.orderly = s.orderly /\ u.alive = s.alive
        /\ u.calls = s.calls /\ u.delcb = s.delcb
    BY <1>0, <2>2 DEF Collected, Quiet, Counted
  <2> HIDE DEF u
  <2> DEFINE w == ActivateThread(u)
  <2>5. /\ Base(w) /\ w.listeners = u.listeners /\ w.react = u.react
        /\ w.told = u.told /\ w.orderly = u.orderly
        /\ w.alive = u.alive /\ w.calls = u.calls /\ w.delcb = u.delcb
    BY <1>3, <2>2, <2>3, <2>4, ActivateBase
  <2> HIDE DEF w
  <2>6. t = w
    BY <1>2, <1>6 DEF w
  <2> QED
    BY <2>4, <2>5, <2>6 DEF Added, t, new, l
<1> QED
  BY <1>4, <1>5, <1>6

LEMMA SetContract ==
  ASSUME InputAssumption, BaseInv, NEW cb \in Callbacks, NEW slot \in Slots, Set(cb, slot)
  PROVE  BaseInv' /\ Added(e, e', NewListener(e, cb, slot))
<1> DEFINE t == EventActivate(e, cb, slot)
           u == [t EXCEPT !.delcb = Append(@, cb)]
<1>1. e' = t \/ e' = u
  BY DEF Set
<1>2. ~e.joining /\ Accepts(e, cb, slot) /\ MaxTime \in Nat
  BY DEF Set, Asks, Idle, InputAssumption
<1>3. Base(t) /\ Added(e, t, NewListener(e, cb, slot))
  BY <1>2, ActivateContract DEF BaseInv
<1> HIDE DEF t
<1>4. t \in Collected /\ Counted(t)
  BY <1>3, BaseParts
<1>5. u \in Collected
  <2>1. Append(t.delcb, cb) \in Seq(Callbacks)
    BY <1>4, AppendFacts DEF Collected
  <2> QED
    BY <1>4, <2>1 DEF Collected
<1>6. /\ Core(t, u) /\ Counted(u) /\ u.listeners = t.listeners /\ u.react = t.react
      /\ u.told = t.told /\ u.orderly = t.orderly /\ u.alive = t.alive /\ u.calls = t.calls
  BY <1>4 DEF Collected, Core, Counted
<1> HIDE DEF u
<1>7. Base(u) /\ Added(e, u, NewListener(e, cb, slot))
  BY <1>3, <1>5, <1>6, CoreBase DEF Added
<1> QED
  BY <1>1, <1>3, <1>7 DEF BaseInv
-----------------------------------------------------------------------------
(* event_read_cb                                                           *)

Popped(s) == [s EXCEPT !.pipe = Tail(@), !.items = Tail(@)]

LEMMA PoppedBase ==
  ASSUME NEW s, Base(s), s.pipe # <<>>, s.items # <<>>
  PROVE  LET t == Popped(s) IN
         /\ Base(t) /\ t.listeners = s.listeners /\ t.react = s.react
         /\ t.told = s.told /\ t.orderly = s.orderly
         /\ t.alive = s.alive /\ t.calls = s.calls
<1> DEFINE pipe == Tail(s.pipe)
           items == Tail(s.items)
           t == [s EXCEPT !.pipe = pipe, !.items = items]
<1>0. /\ s \in Collected /\ Sane(s.listeners) /\ Sane(s.react) /\ Life(s)
      /\ Paired(s) /\ Listened(s) /\ Counted(s)
  BY BaseParts
<1>1. /\ s.pipe \in Seq(Chars) /\ s.items \in Seq(EventItem) /\ LastOnly(s.pipe)
  BY <1>0 DEF Collected, Life
<1>2. /\ pipe \in Seq(Chars) /\ Len(pipe) = Len(s.pipe) - 1
      /\ LastOnly(pipe) /\ Head(s.pipe) \in Chars
      /\ Head(s.pipe) = "event" => (Exits(pipe) <=> Exits(s.pipe))
      /\ Head(s.pipe) = "exit" => Len(s.pipe) = 1 /\ Exits(s.pipe)
  BY <1>1, TailChar
<1>3. /\ items \in Seq(EventItem) /\ Len(items) = Len(s.items) - 1 /\ Len(s.items) # 0
  BY <1>1, TailFacts, SeqFacts
<1>4. /\ Len(s.items) \in Nat /\ Len(s.pipe) \in Nat
      /\ Ended(s.pipe) \in 0..1 /\ Owed(s) \in 0..1
      /\ Len(s.items) = Len(s.pipe) - Ended(s.pipe) + Owed(s)
  BY <1>0, <1>1, PairedIs
<1>5. Exits(s.pipe) => Ended(s.pipe) = 1 /\ Owed(s) = 0
  BY <1>0 DEF Life, Ended, Owed
<1>6. Head(s.pipe) = "event"
  BY <1>2, <1>3, <1>4, <1>5 DEF Chars
<1>7. t = Popped(s)
  BY DEF Popped
<1> HIDE DEF pipe, items
<1>8. t \in Collected
  BY <1>0, <1>2, <1>3 DEF Collected
<1>9. /\ t.pipe = pipe /\ t.items = items /\ t.listeners = s.listeners /\ t.react = s.react
      /\ t.thread = s.thread /\ t.quit = s.quit /\ t.handler = s.handler
      /\ t.active = s.active /\ t.joining = s.joining
      /\ t.told = s.told /\ t.orderly = s.orderly /\ t.alive = s.alive /\ t.calls = s.calls
      /\ t.lazy = s.lazy /\ t.sent = s.sent /\ t.waits = s.waits
  BY <1>0 DEF Collected
<1> HIDE DEF t
<1>10. s.handler
  BY <1>0 DEF Life, Collected
<1>11. Life(t) /\ Listened(t) /\ Counted(t)
  BY <1>0, <1>2, <1>6, <1>9, <1>10 DEF Life, Listened, Counted
<1>12. Paired(t)
  <2>1. Ended(t.pipe) = Ended(s.pipe) /\ Owed(t) = Owed(s) /\ LastOnly(t.pipe)
    BY <1>2, <1>6, <1>9 DEF Ended, Owed
  <2>2. Len(t.items) = Len(t.pipe) - Ended(t.pipe) + Owed(t)
    BY <1>2, <1>3, <1>4, <1>9, <2>1
  <2> QED
    BY <1>8, <2>1, <2>2, PairedIs
<1>13. Base(t)
  BY <1>0, <1>8, <1>9, <1>11, <1>12 DEF Base
<1> QED
  BY <1>7, <1>9, <1>13

\* EXIT is read when nothing is left to be read.
LEMMA ExitIsLast ==
  ASSUME NEW s, Base(s), s.pipe # <<>>, ~s.joining, s.items = <<>>
  PROVE  /\ Head(s.pipe) = "exit" /\ Tail(s.pipe) = <<>>
         /\ s.thread = "off" /\ ~s.active /\ ~s.quit
<1>0. s \in Collected /\ Life(s) /\ Paired(s)
  BY BaseParts
<1>1. /\ s.pipe \in Seq(Chars) /\ s.items \in Seq(EventItem) /\ LastOnly(s.pipe)
  BY <1>0 DEF Collected, Life
<1>2. /\ Head(s.pipe) \in Chars /\ Len(Tail(s.pipe)) = Len(s.pipe) - 1
      /\ Head(s.pipe) = "event" => (Exits(Tail(s.pipe)) <=> Exits(s.pipe))
      /\ Head(s.pipe) = "exit" =>
           Len(s.pipe) = 1 /\ Tail(s.pipe) = <<>> /\ Exits(s.pipe)
      /\ Tail(s.pipe) \in Seq(Chars)
  BY <1>1, TailChar
<1>3. /\ Len(s.items) = 0 /\ Len(s.pipe) \in Nat /\ Len(s.pipe) # 0
      /\ Ended(s.pipe) \in 0..1 /\ Owed(s) \in 0..1
      /\ Len(s.items) = Len(s.pipe) - Ended(s.pipe) + Owed(s)
  BY <1>0, <1>1, PairedIs, SeqFacts
<1>4. Exits(s.pipe) /\ Len(s.pipe) = 1
  <2>0. ASSUME NEW n \in Nat, NEW x \in 0..1, NEW y \in 0..1, n # 0, 0 = n - x + y
        PROVE  x = 1 /\ n = 1
    BY <2>0
  <2>1. Ended(s.pipe) = 1 /\ Len(s.pipe) = 1
    BY <1>3, <2>0, Zenon
  <2> QED
    BY <2>1 DEF Ended
<1>5. Head(s.pipe) = "exit"
  <2>1. ASSUME Head(s.pipe) = "event" PROVE FALSE
    <3>1. Exits(Tail(s.pipe)) /\ Len(Tail(s.pipe)) = 0
      BY <1>2, <1>4, <2>1
    <3>2. Tail(s.pipe) = <<>>
      BY <1>2, <3>1, SeqFacts
    <3> QED
      BY <3>1, <3>2, QuietEvents DEF Exits
  <2> QED
    BY <1>2, <2>1 DEF Chars
<1>6. s.thread = "off" /\ ~s.active /\ ~s.quit
  BY <1>0, <1>4 DEF Life, Collected
<1> QED
  BY <1>2, <1>5, <1>6

\* Who listened is told the end; who waited listens.
Ceded(s, t) ==
  /\ t.listeners = s.react /\ t.react = <<>>
  /\ t.alive = s.alive /\ t.calls = s.calls
  /\ \E u, r :
       /\ u.listeners = s.listeners /\ u.told = s.told /\ u.orderly = s.orderly
       /\ Passed(u, r, Len(u.listeners)) /\ (InOrder(u) => Ordered(u, r, Len(u.listeners)))
       /\ r.keep = <<>> /\ t.told = r.s.told /\ t.orderly = r.s.orderly

LEMMA ThreadGoneBase ==
  ASSUME NEW s, Base(s), s.pipe # <<>>, ~s.joining, s.items = <<>>
  PROVE  LET t == ThreadGone([s EXCEPT !.pipe = Tail(@)]) IN Base(t) /\ Ceded(s, t)
<1> DEFINE p == [s EXCEPT !.pipe = Tail(@)]
           t == ThreadGone(p)
           u == [s EXCEPT !.pipe = <<>>, !.handler = FALSE]
           d == Dispatch(u, Over)
           w == [d EXCEPT !.listeners = s.react, !.react = <<>>]
<1>0. /\ s \in Collected /\ Sane(s.react) /\ Counted(s) /\ s.react \in Seq(ListenerState)
  BY BaseParts DEF Collected
<1>1. /\ Tail(s.pipe) = <<>> /\ s.thread = "off" /\ ~s.active /\ ~s.quit
  BY ExitIsLast
<1>2. p.react = s.react /\ [p EXCEPT !.handler = FALSE] = u
  BY <1>0, <1>1 DEF Collected
<1>3. t = IF s.react = <<>> THEN d ELSE ActivateThread(w)
  <2>1. t = IF p.react = <<>> THEN ClearAll([p EXCEPT !.handler = FALSE])
            ELSE ActivateThread([ClearAll([p EXCEPT !.handler = FALSE])
                                   EXCEPT !.listeners = p.react, !.react = <<>>])
    BY Zenon DEF ThreadGone
  <2>2. ClearAll([p EXCEPT !.handler = FALSE]) = d
    BY <1>2, Zenon DEF ClearAll
  <2> HIDE DEF t, p, d
  <2> QED
    BY <1>2, <2>1, <2>2
<1> HIDE DEF t, p
<1>4. u \in Collected
  <2>1. <<>> \in Seq(Chars)
    OBVIOUS
  <2> QED
    BY <1>0, <2>1 DEF Collected
<1>5. /\ Quiet(u) /\ u.react = s.react /\ u.listeners = s.listeners
      /\ u.told = s.told /\ u.orderly = s.orderly /\ u.alive = s.alive /\ u.calls = s.calls
      /\ ~u.handler /\ Counted(u)
  BY <1>0, <1>1 DEF Quiet, Collected, Counted
<1> HIDE DEF u
<1>6. Over.slot = AnySlot
  BY DEF Over
<1>7. PICK r : /\ Apartly(u, d) /\ d.listeners = r.keep /\ d.told = r.s.told
               /\ d.orderly = r.s.orderly /\ Passed(u, r, Len(u.listeners))
               /\ (InOrder(u) => Ordered(u, r, Len(u.listeners))) /\ r.keep = <<>>
  BY <1>4, <1>6, DispatchContract
<1> HIDE DEF d
<1>8. /\ d \in Collected /\ Quiet(d) /\ Counted(d) /\ d.react = s.react /\ ~d.handler
      /\ d.alive = s.alive /\ d.calls = s.calls /\ d.listeners = <<>>
  BY <1>5, <1>7 DEF Apartly, Steady, Quiet, Counted
<1>9. CASE s.react = <<>>
  <2>1. Events(d) = 0 /\ LastOnly(d.pipe) /\ ~Exits(d.pipe) /\ Len(d.items) = 0
    BY <1>8, QuietEvents DEF Quiet
  <2>2. Life(d) /\ Paired(d) /\ Listened(d)
    BY <1>8, <1>9, <2>1 DEF Quiet, Life, Paired, Listened
  <2>3. Base(d)
    BY <1>8, <1>9, <2>2 DEF Base, Sane
  <2>4. Ceded(s, d)
    BY <1>5, <1>7, <1>8, <1>9 DEF Ceded
  <2> QED
    BY <1>3, <1>9, <2>3, <2>4 DEF t, p
<1>10. CASE s.react # <<>>
  <2>1. w \in Collected
    <3>1. <<>> \in Seq(ListenerState)
      OBVIOUS
    <3> QED
      BY <1>0, <1>8, <3>1 DEF Collected
  <2>2. /\ Quiet(w) /\ Counted(w) /\ w.react = <<>> /\ w.listeners = s.react
        /\ w.told = d.told /\ w.orderly = d.orderly /\ w.alive = d.alive /\ w.calls = d.calls
    BY <1>8 DEF Collected, Quiet, Counted
  <2> HIDE DEF w
  <2>3. Base(t) /\ t.listeners = w.listeners /\ t.react = w.react /\ t.told = w.told
        /\ t.orderly = w.orderly /\ t.alive = w.alive /\ t.calls = w.calls
    BY <1>0, <1>3, <1>10, <2>1, <2>2, ActivateBase
  <2>4. Ceded(s, t)
    BY <1>5, <1>7, <1>8, <2>2, <2>3 DEF Ceded
  <2> QED
    BY <2>3, <2>4 DEF t, p
<1> QED
  BY <1>9, <1>10

\* What reading one character comes to
Reading(s, t) ==
  \/ s.items = <<>> /\ t = ThreadGone([s EXCEPT !.pipe = Tail(@)])
  \/ s.items # <<>> /\ t = Dispatch(Popped(s), Head(s.items))

LEMMA EventReadContract ==
  ASSUME BaseInv, EventRead
  PROVE  Reading(e, e') /\ e.pipe # <<>> /\ ~e.joining
<1> DEFINE p == [e EXCEPT !.pipe = Tail(@)]
<1>1. /\ e.pipe # <<>> /\ ~e.joining
      /\ e' = IF p.items = <<>>
              THEN IF Head(e.pipe) = "exit" THEN ThreadGone(p) ELSE p
              ELSE Dispatch([p EXCEPT !.items = Tail(@)], Head(p.items))
  BY DEF EventRead, Idle
<1>2. e \in Collected
  BY BaseParts DEF BaseInv
<1>3. p.items = e.items /\ [p EXCEPT !.items = Tail(@)] = Popped(e)
  BY <1>2 DEF Collected, Popped
<1>4. e.items = <<>> => Head(e.pipe) = "exit"
  BY <1>1, ExitIsLast DEF BaseInv
<1>5. e.items = <<>> => e' = ThreadGone(p)
  BY <1>1, <1>3, <1>4, Zenon
<1>6. e.items # <<>> => e' = Dispatch(Popped(e), Head(e.items))
  BY <1>1, <1>3, Zenon
<1> QED
  BY <1>1, <1>5, <1>6 DEF Reading

LEMMA EventReadBase ==
  ASSUME BaseInv, EventRead
  PROVE  BaseInv'
<1>1. Reading(e, e') /\ e.pipe # <<>> /\ ~e.joining /\ Base(e)
  BY EventReadContract DEF BaseInv
<1>2. CASE e.items = <<>>
  BY <1>1, <1>2, ThreadGoneBase DEF Reading, BaseInv
<1>3. CASE e.items # <<>>
  <2>1. Base(Popped(e)) /\ e' = Dispatch(Popped(e), Head(e.items))
    BY <1>1, <1>3, PoppedBase DEF Reading
  <2> QED
    BY <2>1, DispatchBase DEF BaseInv
<1> QED
  BY <1>2, <1>3
-----------------------------------------------------------------------------
(* The instance goes; the viewer feeds events                              *)

LEMMA DestroyBase ==
  ASSUME BaseInv, DestroyInstance
  PROVE  BaseInv'
<1> DEFINE waits == [k \in DOMAIN e.waits |-> FALSE]
           sent == [k \in DOMAIN e.sent |-> 0]
           t == [e EXCEPT !.alive = FALSE, !.calls = e.delcb, !.delcb = <<>>,
                          !.waits = waits, !.sent = sent]
<1>0. e \in Collected /\ e' = t
  BY BaseParts DEF BaseInv, DestroyInstance
<1>1. /\ waits \in [Kinds -> BOOLEAN] /\ sent \in [Kinds -> 0..1]
      /\ <<>> \in Seq(Callbacks) /\ e.delcb \in Seq(Callbacks)
  BY <1>0 DEF Collected
<1> HIDE DEF waits, sent
<1>2. t \in Collected
  BY <1>0, <1>1 DEF Collected
<1>3. Core(e, t) /\ Counted(t)
  BY <1>0 DEF Collected, Core, Counted
<1> HIDE DEF t
<1>4. Base(t)
  BY <1>2, <1>3, CoreBase DEF BaseInv
<1> QED
  BY <1>0, <1>4 DEF BaseInv

\* Nothing is changed that concerns a listener.
Feeding(s, t) ==
  /\ Core(s, t) /\ t.told = s.told /\ t.orderly = s.orderly
  /\ t.alive = s.alive /\ t.calls = s.calls

\* One event of a kind is taken, and its status on its way.
LEMMA TakenBase ==
  ASSUME NEW s, Base(s), s.alive, NEW kind \in Kinds, ~s.waits[kind],
         NEW t, t = Taken(Forward(s, kind), kind) \/ t = Taken(SendDelayed(s, kind), kind)
  PROVE  Base(t) /\ Feeding(s, t)
<1>0. s \in Collected /\ Counted(s)
  BY BaseParts
<1>1. s.lazy[kind] = 0 /\ s.sent[kind] = 0
  BY <1>0 DEF Counted, Collected
<1> DEFINE waits == [s.waits EXCEPT ![kind] = TRUE]
           one(f) == [f EXCEPT ![kind] = 1]
<1>2. waits \in [Kinds -> BOOLEAN] /\ waits[kind] /\ \A k \in Kinds : k # kind => waits[k] = s.waits[k]
  BY <1>0 DEF Collected
<1>3. CASE t = Taken(Forward(s, kind), kind)
  <2> DEFINE sent == [s.sent EXCEPT ![kind] = 1]
             u == [s EXCEPT !.sent = sent, !.waits = waits]
  <2>1. t = u
    BY <1>0, <1>1, <1>3 DEF Taken, Forward, Collected
  <2>2. /\ sent \in [Kinds -> 0..1] /\ sent[kind] = 1
        /\ \A k \in Kinds : k # kind => sent[k] = s.sent[k]
    BY <1>0 DEF Collected
  <2> HIDE DEF waits, sent
  <2>3. u \in Collected
    BY <1>0, <1>2, <2>2 DEF Collected
  <2>4. /\ Feeding(s, u) /\ u.sent = sent /\ u.waits = waits /\ u.lazy = s.lazy
    BY <1>0 DEF Collected, Core, Feeding
  <2> HIDE DEF u
  <2>5. Counted(u)
    <3>1. ASSUME NEW k \in Kinds PROVE u.lazy[k] + u.sent[k] = (IF u.waits[k] THEN 1 ELSE 0)
      <4>1. CASE k = kind
        BY <1>1, <1>2, <2>2, <2>4, <4>1
      <4>2. CASE k # kind
        BY <1>0, <1>2, <2>2, <2>4, <4>2 DEF Counted
      <4> QED
        BY <4>1, <4>2
    <3> QED
      BY <3>1 DEF Counted
  <2> QED
    BY <2>1, <2>3, <2>4, <2>5, CoreBase DEF Feeding
<1>4. CASE t = Taken(SendDelayed(s, kind), kind)
  <2> DEFINE lazy == [s.lazy EXCEPT ![kind] = 1]
             u == [s EXCEPT !.lazy = lazy, !.waits = waits]
  <2>1. t = u
    BY <1>0, <1>1, <1>4 DEF Taken, SendDelayed, Collected
  <2>2. /\ lazy \in [Kinds -> 0..1] /\ lazy[kind] = 1
        /\ \A k \in Kinds : k # kind => lazy[k] = s.lazy[k]
    BY <1>0 DEF Collected
  <2> HIDE DEF waits, lazy
  <2>3. u \in Collected
    BY <1>0, <1>2, <2>2 DEF Collected
  <2>4. /\ Feeding(s, u) /\ u.lazy = lazy /\ u.waits = waits /\ u.sent = s.sent
    BY <1>0 DEF Collected, Core, Feeding
  <2> HIDE DEF u
  <2>5. Counted(u)
    <3>1. ASSUME NEW k \in Kinds PROVE u.lazy[k] + u.sent[k] = (IF u.waits[k] THEN 1 ELSE 0)
      <4>1. CASE k = kind
        BY <1>1, <1>2, <2>2, <2>4, <4>1
      <4>2. CASE k # kind
        BY <1>0, <1>2, <2>2, <2>4, <4>2 DEF Counted
      <4> QED
        BY <4>1, <4>2
    <3> QED
      BY <3>1 DEF Counted
  <2> QED
    BY <2>1, <2>3, <2>4, <2>5, CoreBase DEF Feeding
<1> QED
  BY <1>3, <1>4

LEMMA PointerBase ==
  ASSUME NEW s, Base(s), NEW c \in Canvases, NEW down \in Int
  PROVE  LET t == UpdatePointer(s, c, down) IN
         Base(t) /\ Feeding(s, t) /\ t.waits = s.waits
<1> DEFINE t == UpdatePointer(s, c, down)
<1>0. s \in Collected /\ Counted(s)
  BY BaseParts
<1>1. Only(s, t) /\ t.told = s.told /\ t.orderly = s.orderly
  BY <1>0, PointerOnly
<1> HIDE DEF t
<1>2. t \in Collected /\ Feeding(s, t) /\ t.waits = s.waits
  BY <1>1 DEF Only, Apartly, Steady, Feeding, Core
<1>3. Counted(t)
  BY <1>0, <1>1, SteadyParts DEF Only, Apartly
<1>4. Base(t)
  BY <1>2, <1>3, CoreBase DEF Feeding
<1> QED
  BY <1>2, <1>4 DEF t

LEMMA FeedingSelf ==
  ASSUME NEW s
  PROVE  Feeding(s, s)
BY DEF Feeding, Core

LEMMA FeedingTrans ==
  ASSUME NEW s, NEW t, NEW u, Feeding(s, t), Feeding(t, u)
  PROVE  Feeding(s, u)
BY DEF Feeding, Core

LEMMA PointerContract ==
  ASSUME BaseInv, NEW c \in Canvases, NEW down \in Int, Pointer(c, down)
  PROVE  BaseInv' /\ Feeding(e, e')
BY PointerBase, FeedingSelf DEF Pointer, BaseInv

LEMMA AccessContract ==
  ASSUME BaseInv, NEW c \in Canvases, NEW type \in Int, Access(c, type)
  PROVE  BaseInv' /\ Feeding(e, e')
<1> DEFINE t == UpdatePointer(e, c, type)
<1>1. e.alive /\ ~e.waits["access"] /\ "access" \in Kinds
  BY DEF Access, Feeds, Kinds
<1>2. Base(t) /\ Feeding(e, t) /\ t.waits = e.waits
  BY PointerBase DEF BaseInv
<1>3. \/ e' = Taken(Forward(e, "access"), "access")
      \/ e' = Taken(SendDelayed(t, "access"), "access")
      \/ e' = t
  BY DEF Access
<1> HIDE DEF t
<1>4. CASE e' = Taken(Forward(e, "access"), "access")
  BY <1>1, <1>4, TakenBase DEF BaseInv
<1>5. CASE e' = Taken(SendDelayed(t, "access"), "access")
  <2>1. t.alive /\ ~t.waits["access"]
    BY <1>1, <1>2 DEF Feeding
  <2>2. Base(e') /\ Feeding(t, e')
    BY <1>1, <1>2, <1>5, <2>1, TakenBase
  <2> QED
    BY <1>2, <2>2, FeedingTrans DEF BaseInv
<1>6. CASE e' = t
  BY <1>2, <1>6 DEF BaseInv
<1> QED
  BY <1>3, <1>4, <1>5, <1>6

LEMMA KeyContract ==
  ASSUME BaseInv, NEW c \in Canvases, Key(c)
  PROVE  BaseInv' /\ Feeding(e, e')
<1>1. e.alive /\ ~e.waits["key"] /\ "key" \in Kinds
  BY DEF Key, Feeds, Kinds
<1>2. \/ e' = Taken(Forward(e, "key"), "key")
      \/ e' = Taken(SendDelayed(e, "key"), "key")
      \/ e' = e
  BY DEF Key
<1>3. CASE e' = e
  BY <1>3, FeedingSelf DEF BaseInv
<1> QED
  BY <1>1, <1>2, <1>3, TakenBase DEF BaseInv

LEMMA StatusContract ==
  ASSUME BaseInv, NEW kind \in Kinds, LazyStatus(kind) \/ SlaveStatus(kind)
  PROVE  BaseInv' /\ Feeding(e, e')
<1>0. e \in Collected /\ Counted(e)
  BY BaseParts DEF BaseInv
<1> DEFINE waits == [e.waits EXCEPT ![kind] = FALSE]
<1>1. /\ waits \in [Kinds -> BOOLEAN] /\ ~waits[kind]
      /\ \A k \in Kinds : k # kind => waits[k] = e.waits[k]
  BY <1>0 DEF Collected
<1>2. e.lazy[kind] \in 0..1 /\ e.sent[kind] \in 0..1 /\ e.waits[kind] \in BOOLEAN
  BY <1>0 DEF Collected
<1>3. e.alive => e.lazy[kind] + e.sent[kind] = (IF e.waits[kind] THEN 1 ELSE 0)
  BY <1>0 DEF Counted
<1>4. CASE LazyStatus(kind)
  <2> DEFINE lazy == [e.lazy EXCEPT ![kind] = 0]
             u == [e EXCEPT !.lazy = lazy, !.waits = waits]
  <2>1. e.lazy[kind] = 1 /\ e.lazy[kind] - 1 = 0
    BY <1>2, <1>4 DEF LazyStatus
  <2>2. e' = u
    BY <1>0, <1>4, <2>1 DEF LazyStatus, Collected
  <2>3. /\ lazy \in [Kinds -> 0..1] /\ lazy[kind] = 0
        /\ \A k \in Kinds : k # kind => lazy[k] = e.lazy[k]
    BY <1>0 DEF Collected
  <2>4. e.alive => e.sent[kind] = 0
    BY <1>2, <1>3, <2>1
  <2> HIDE DEF waits, lazy
  <2>5. u \in Collected
    BY <1>0, <1>1, <2>3, ZenonT(60) DEF Collected
  <2>6. Feeding(e, u) /\ u.lazy = lazy /\ u.waits = waits /\ u.sent = e.sent /\ u.alive = e.alive
    BY <1>0 DEF Collected, Core, Feeding
  <2> HIDE DEF u
  <2>7. Counted(u)
    <3>1. ASSUME NEW k \in Kinds, e.alive
          PROVE  u.lazy[k] + u.sent[k] = (IF u.waits[k] THEN 1 ELSE 0)
      <4>1. CASE k = kind
        BY <1>1, <2>3, <2>4, <2>6, <3>1, <4>1
      <4>2. CASE k # kind
        BY <1>0, <1>1, <2>3, <2>6, <3>1, <4>2 DEF Counted
      <4> QED
        BY <4>1, <4>2
    <3> QED
      BY <2>6, <3>1 DEF Counted
  <2> QED
    BY <2>2, <2>5, <2>6, <2>7, CoreBase DEF Feeding, BaseInv
<1>5. CASE SlaveStatus(kind)
  <2> DEFINE sent == [e.sent EXCEPT ![kind] = 0]
             u == [e EXCEPT !.sent = sent, !.waits = waits]
  <2>1. e.sent[kind] = 1 /\ e.sent[kind] - 1 = 0 /\ e.alive
    BY <1>2, <1>5 DEF SlaveStatus
  <2>2. e' = u
    BY <1>0, <1>5, <2>1 DEF SlaveStatus, Collected
  <2>3. /\ sent \in [Kinds -> 0..1] /\ sent[kind] = 0
        /\ \A k \in Kinds : k # kind => sent[k] = e.sent[k]
    BY <1>0 DEF Collected
  <2>4. e.lazy[kind] = 0
    BY <1>2, <1>3, <2>1
  <2> HIDE DEF waits, sent
  <2>5. u \in Collected
    BY <1>0, <1>1, <2>3, ZenonT(60) DEF Collected
  <2>6. Feeding(e, u) /\ u.sent = sent /\ u.waits = waits /\ u.lazy = e.lazy /\ u.alive = e.alive
    BY <1>0 DEF Collected, Core, Feeding
  <2> HIDE DEF u
  <2>7. Counted(u)
    <3>1. ASSUME NEW k \in Kinds, e.alive
          PROVE  u.lazy[k] + u.sent[k] = (IF u.waits[k] THEN 1 ELSE 0)
      <4>1. CASE k = kind
        BY <1>1, <2>3, <2>4, <2>6, <3>1, <4>1
      <4>2. CASE k # kind
        BY <1>0, <1>1, <2>3, <2>6, <3>1, <4>2 DEF Counted
      <4> QED
        BY <4>1, <4>2
    <3> QED
      BY <2>6, <3>1 DEF Counted
  <2> QED
    BY <2>2, <2>5, <2>6, <2>7, CoreBase DEF Feeding, BaseInv
<1> QED
  BY <1>4, <1>5

LEMMA MouseContract ==
  ASSUME BaseInv, Mouse
  PROVE  BaseInv' /\ Feeding(e, e')
<1>1. \E c \in Canvases, down \in Int : Pointer(c, down)
  <2>1. \E c \in Canvases, down \in {-1, 0, 1} : Pointer(c, down)
    BY Zenon DEF Mouse, Canvases, WidgetMouseEnter, WidgetMouseLeave, WidgetMouseDown,
       WidgetMouseMove, WidgetMouseUp, WidgetOnScroll, WidgetOffScroll, WidgetOnHold,
       WidgetOffHold, GbarMouseEnter, GbarMouseLeave, GbarMouseDown, GbarMouseMove,
       GbarMouseUp, GbarOnScroll, GbarOffScroll, GbarOnHold, GbarOffHold
  <2>2. {-1, 0, 1} \subseteq Int
    OBVIOUS
  <2> QED
    BY <2>1, <2>2
<1> QED
  BY <1>1, PointerContract

LEMMA AccessibilityContract ==
  ASSUME BaseInv, Accessibility
  PROVE  BaseInv' /\ Feeding(e, e')
<1>1. \E c \in Canvases, type \in AnyType : Access(c, type)
  BY Zenon DEF Accessibility, Canvases, WidgetAccessHl, WidgetAccessAction,
     WidgetAccessScroll, WidgetAccessValue, WidgetAccessMouse, WidgetAccessBack,
     WidgetAccessOver, WidgetAccessRead, WidgetAccessEnable, WidgetAccessActivate,
     GbarAccessHl, GbarAccessAction, GbarAccessScroll, GbarAccessValue, GbarAccessMouse,
     GbarAccessBack, GbarAccessOver, GbarAccessRead, GbarAccessEnable, GbarAccessActivate
<1>2. AnyType \subseteq Int
  BY DEF AnyType
<1> QED
  BY <1>1, <1>2, AccessContract

LEMMA KeysContract ==
  ASSUME BaseInv, Keys
  PROVE  BaseInv' /\ Feeding(e, e')
<1>1. \E c \in Canvases : Key(c)
  BY Zenon DEF Keys, Canvases, WidgetKeyDown, WidgetKeyUp, WidgetKeyFocusIn,
     WidgetKeyFocusOut, GbarKeyDown, GbarKeyUp, GbarKeyFocusIn, GbarKeyFocusOut
<1> QED
  BY <1>1, KeyContract

LEMMA StatusesContract ==
  ASSUME BaseInv, Statuses
  PROVE  BaseInv' /\ Feeding(e, e')
<1>1. \E kind \in Kinds : LazyStatus(kind) \/ SlaveStatus(kind)
  BY Zenon DEF Statuses, Kinds, LazyKeyStatus, LazyAccessStatus, SlaveKeyStatus,
     SlaveAccessStatus
<1> QED
  BY <1>1, StatusContract

\* What a viewer asks of the collector
Asked ==
  \/ \E cb \in Callbacks, slot \in Slots :
       \/ Set(cb, slot) \/ Unset(e, cb, slot) \/ Unset(SetMouseXY(e, slot), cb, slot)

LEMMA NextIs ==
  ASSUME Next
  PROVE  \/ Tick \/ ThreadStart \/ UpdateTimestamp \/ ProcessingReport \/ ThreadWrites
         \/ ThreadQuits \/ (\E slot \in Slots : ProcessingEvAbs(slot))
         \/ Join \/ EventRead \/ InstDelCb \/ Asked \/ DestroyInstance
         \/ Mouse \/ Accessibility \/ Keys \/ Statuses
<1>1. /\ <<"widget", "mouse">> \in Callbacks /\ <<"gbar", "mouse">> \in Callbacks
      /\ <<"widget", "key">> \in Callbacks /\ <<"gbar", "key">> \in Callbacks
  BY DEF Callbacks, Canvases
<1>2. ASSUME NEW slot \in Slots,
             \/ WidgetMouseSet(slot) \/ GbarMouseSet(slot)
             \/ WidgetKeySet(slot) \/ GbarKeySet(slot)
             \/ WidgetMouseUnset(slot) \/ GbarMouseUnset(slot)
             \/ WidgetKeyUnset(slot) \/ GbarKeyUnset(slot)
      PROVE  Asked
  BY <1>1, <1>2, Zenon DEF Asked, WidgetMouseSet, GbarMouseSet, WidgetKeySet, GbarKeySet,
     WidgetMouseUnset, GbarMouseUnset, WidgetKeyUnset, GbarKeyUnset
<1> QED
  BY <1>2, Zenon DEF Next, Collector, Thread

LEMMA AskedBase ==
  ASSUME InputAssumption, BaseInv, Asked
  PROVE  BaseInv'
<1>1. PICK cb \in Callbacks, slot \in Slots :
        \/ Set(cb, slot) \/ Unset(e, cb, slot) \/ Unset(SetMouseXY(e, slot), cb, slot)
  BY DEF Asked
<1>2. Base(SetMouseXY(e, slot))
  BY SetMouseXYBase DEF BaseInv
<1> QED
  BY <1>1, <1>2, SetContract, UnsetBase DEF BaseInv

LEMMA InitBase ==
  ASSUME InputAssumption, Init
  PROVE  BaseInv
<1>0. PICK how \in {"device", "viewer"}, use \in Uses :
  e = [how |-> how, uses |-> IF how = "device" THEN use ELSE {}, now |-> 1, alive |-> TRUE, null |-> FALSE,
       listeners |-> <<>>, react |-> <<>>, items |-> <<>>, pipe |-> <<>>,
       thread |-> "off", quit |-> FALSE, fresh |-> FALSE, data |-> NoData,
       handler |-> FALSE, active |-> FALSE, joining |-> FALSE,
       delcb |-> <<>>, calls |-> <<>>,
       told |-> [k \in Callbacks \X Slots |-> "up"], orderly |-> TRUE,
       down |-> [c \in Canvases |-> FALSE],
       lazy |-> [k \in {"key", "access"} |-> 0],
       sent |-> [k \in {"key", "access"} |-> 0],
       waits |-> [k \in {"key", "access"} |-> FALSE]]
  BY Zenon DEF Init
<1>1. e \in Collected
  <2>1. (IF how = "device" THEN use ELSE {}) \in SUBSET Targets
    BY DEF InputAssumption, Targets
  <2>2. 1 \in 1..(MaxTime + 1)
    BY DEF InputAssumption
  <2>3. /\ <<>> \in Seq(ListenerState) /\ <<>> \in Seq(EventItem) /\ <<>> \in Seq(Chars)
        /\ <<>> \in Seq(Callbacks)
    OBVIOUS
  <2>4. /\ "off" \in Threads /\ NoData \in [slot : Int, tv : Nat, full : BOOLEAN]
    BY DEF Threads, NoData
  <2>5. /\ [k \in Callbacks \X Slots |-> "up"] \in [Targets -> Tellings]
        /\ [c \in Canvases |-> FALSE] \in [Canvases -> BOOLEAN]
        /\ [k \in {"key", "access"} |-> 0] \in [Kinds -> 0..1]
        /\ [k \in {"key", "access"} |-> FALSE] \in [Kinds -> BOOLEAN]
    BY DEF Targets, Tellings, Kinds
  <2> QED
    BY <1>0, <2>1, <2>2, <2>3, <2>4, <2>5 DEF Collected
<1>2. /\ e.listeners = <<>> /\ e.react = <<>> /\ e.items = <<>> /\ e.pipe = <<>>
      /\ e.thread = "off" /\ ~e.quit /\ ~e.handler /\ ~e.active /\ ~e.joining
  BY <1>0
<1>3. Events(e) = 0 /\ LastOnly(e.pipe) /\ ~Exits(e.pipe) /\ Len(e.items) = 0
  BY <1>2, QuietEvents
<1>4. Life(e) /\ Paired(e) /\ Listened(e)
  BY <1>2, <1>3 DEF Life, Paired, Listened
<1>5. Counted(e)
  BY <1>0 DEF Counted, Kinds
<1>6. Sane(e.listeners) /\ Sane(e.react)
  BY <1>2 DEF Sane
<1> QED
  BY <1>1, <1>4, <1>5, <1>6 DEF BaseInv, Base

LEMMA StepBase ==
  ASSUME InputAssumption, BaseInv, [Next]_vars
  PROVE  BaseInv'
<1>1. CASE Next
  BY <1>1, NextIs, TickBase, ThreadStartBase, UpdateTimestampBase, ProcessingReportBase,
     ThreadWritesBase, ThreadQuitsBase, ProcessingEvAbsBase, JoinBase, EventReadBase,
     InstDelCbBase, AskedBase, DestroyBase, MouseContract, AccessibilityContract,
     KeysContract, StatusesContract
<1>2. CASE UNCHANGED vars
  BY <1>2 DEF vars, BaseInv
<1> QED
  BY <1>1, <1>2

LEMMA BaseIsInvariant ==
  ASSUME InputAssumption
  PROVE  Spec => []BaseInv
<1>1. Init => BaseInv
  BY InitBase
<1>2. BaseInv /\ [Next]_vars => BaseInv'
  BY StepBase
<1> QED
  BY <1>1, <1>2, PTL DEF Spec

\* A sequence's elements
LEMMA RangeIs ==
  ASSUME NEW q
  PROVE  \A x \in Range(q) : \E k \in DOMAIN q : x = q[k]
BY DEF Range

(* event.c's list of items, its pipe and the state of each listener always *)
(* tell the same events, however long the list grows and whatever a viewer *)
(* and the thread do meanwhile (push_event_item, pop_event_item).          *)
THEOREM ItemsMatched ==
  ASSUME InputAssumption
  PROVE  Spec => []ItemsMatch
<1>1. ASSUME BaseInv PROVE ItemsMatch
  <2>0. /\ e \in Collected /\ Sane(e.listeners) /\ Sane(e.react) /\ Life(e) /\ Paired(e)
    BY <1>1, BaseParts DEF BaseInv
  <2>1. e.listeners \in Seq(ListenerState) /\ e.react \in Seq(ListenerState)
    BY <2>0 DEF Collected
  <2>2. \A l \in Range(e.listeners) \cup Range(e.react) :
          l \in ListenerState /\ (l.prev = "none" <=> l.state = "down")
    BY <2>0, <2>1, RangeIs, SeqFacts DEF Sane
  <2>3. /\ e.thread \in {"off", "start", "run", "push", "ended"}
        /\ \A k \in DOMAIN e.lazy : e.lazy[k] \in 0..1 /\ e.sent[k] \in 0..1
    BY <2>0 DEF Collected, Threads
  <2> QED
    BY <2>0, <2>2, <2>3 DEF ItemsMatch, TypeOK, ItemPerEvent, Paired, Life, LastOnly
<1> QED
  BY <1>1, BaseIsInvariant, PTL

(* Whoever asked for input is served and whoever sent a key is answered,   *)
(* whatever a viewer and the thread do meanwhile (event_activate,          *)
(* event_deactivate, event_read_cb, send_delayed_key_status).              *)
THEOREM AllAnswered ==
  ASSUME InputAssumption
  PROVE  Spec => []Answered
<1>1. ASSUME BaseInv PROVE Answered
  <2>0. /\ e \in Collected /\ Life(e) /\ Listened(e) /\ Counted(e)
    BY <1>1, BaseParts DEF BaseInv
  <2>1. e.active /\ ~e.joining => e.thread \in {"start", "run", "push"}
    BY <2>0 DEF Life, Collected, Threads
  <2>2. \A l \in Range(e.listeners) :
          l.state \in Active => e.active /\ e.thread \in {"start", "run", "push"}
    BY <2>0, <2>1, RangeIs DEF Listened
  <2>3. ListenersServed
    BY <2>0, <2>2 DEF ListenersServed, Life
  <2>4. OneStatus
    BY <2>0 DEF OneStatus, Counted, Collected
  <2> QED
    BY <2>3, <2>4 DEF Answered
<1> QED
  BY <1>1, BaseIsInvariant, PTL
-----------------------------------------------------------------------------
(* The order in which a listener is told                                   *)

\* No finger comes again while its listener waits.
Patient == "tap while delayed" \notin Rare

\* What is told and to whom does not change.
Silent(s, t) ==
  /\ t.listeners = s.listeners /\ t.react = s.react
  /\ t.told = s.told /\ t.orderly = s.orderly /\ t.alive = s.alive /\ t.calls = s.calls

LEMMA SilentOrder ==
  ASSUME NEW s, NEW t, Order(s), Silent(s, t)
  PROVE  Order(t)
BY DEF Silent, Order, Single, Told, Rest

LEMMA MarkedOrder ==
  ASSUME NEW s, NEW t, Order(s), Marked(s, t)
  PROVE  Order(t)
<1>1. /\ DOMAIN t.listeners = DOMAIN s.listeners
      /\ \A k \in DOMAIN s.listeners :
           /\ KeyOf(t.listeners[k]) = KeyOf(s.listeners[k])
           /\ t.listeners[k].inst = s.listeners[k].inst
           /\ t.listeners[k].cb = s.listeners[k].cb
           /\ Fresh(t.listeners[k]) <=> Fresh(s.listeners[k])
      /\ t.react = s.react /\ t.told = s.told /\ t.orderly = s.orderly
      /\ t.alive = s.alive /\ t.calls = s.calls
  BY DEF Marked, Marking, Stems
<1>2. \A k \in DOMAIN s.listeners : \A w :
        Fits(s.listeners[k], w) => Fits(t.listeners[k], w)
  BY <1>1 DEF Fits, ConsumeFails
<1>3. Single(t)
  BY <1>1 DEF Order, Single, Apart
<1>4. Told(t, t.listeners)
  BY <1>1, <1>2 DEF Order, Told
<1>5. Told(t, t.react)
  BY <1>1 DEF Order, Told
<1>6. Rest(t)
  BY <1>1 DEF Order, Rest
<1> QED
  BY <1>1, <1>3, <1>4, <1>5, <1>6 DEF Order

LEMMA OrphanedTold ==
  ASSUME NEW s, NEW t, NEW list, NEW new, Orphaned(list, new), t.told = s.told,
         Told(s, list)
  PROVE  Told(t, new)
<1> SUFFICES ASSUME NEW k \in DOMAIN new, new[k].inst
             PROVE  Fits(new[k], t.told[KeyOf(new[k])])
  BY DEF Told
<1>1. /\ k \in DOMAIN list /\ KeyOf(new[k]) = KeyOf(list[k]) /\ new[k].cb = list[k].cb
      /\ new[k].state = list[k].state /\ new[k].prev = list[k].prev /\ list[k].inst
  BY DEF Orphaned
<1>2. Fits(list[k], s.told[KeyOf(list[k])])
  BY <1>1 DEF Told
<1> QED
  BY <1>1, <1>2 DEF Fits, Fresh, ConsumeFails

LEMMA CalledOrder ==
  ASSUME NEW s, NEW t, Order(s), Called(s, t), s.calls # <<>>
  PROVE  Order(t)
<1>1. ~s.alive
  BY DEF Order, Rest
<1>2. Told(t, t.listeners) /\ Told(t, t.react)
  BY OrphanedTold DEF Order, Called
<1>3. Single(t)
  BY DEF Order, Single, Apart, Called, Orphaned
<1> QED
  BY <1>1, <1>2, <1>3 DEF Order, Called, Rest

LEMMA AddedOrder ==
  ASSUME NEW s, NEW t, Base(s), Order(s), s.alive, NEW cb \in Callbacks,
         NEW slot \in Slots, ~Registered(s, cb, slot),
         \A k \in DOMAIN s.react : KeyOf(s.react[k]) # <<cb, slot>>,
         Added(s, t, NewListener(s, cb, slot))
  PROVE  Order(t)
<1> DEFINE l == NewListener(s, cb, slot)
           key == <<cb, slot>>
<1>1. /\ s \in Collected /\ s.listeners \in Seq(ListenerState) /\ s.react \in Seq(ListenerState)
  BY BaseParts DEF Collected
<1>2. /\ KeyOf(l) = key /\ key \in Targets /\ l.inst /\ Fresh(l)
  BY DEF KeyOf, NewListener, Targets, Fresh
<1>3. /\ \A k \in DOMAIN s.listeners : s.listeners[k].inst
      /\ \A k \in DOMAIN s.react : s.react[k].inst
      /\ s.calls = <<>>
      /\ \A c \in Targets :
           \/ s.told[c] = "up"
           \/ \E k \in DOMAIN s.listeners : KeyOf(s.listeners[k]) = c
  BY DEF Order, Rest
<1>4. \A k \in DOMAIN s.listeners : KeyOf(s.listeners[k]) # key
  BY <1>3 DEF Registered, KeyOf
<1>5. \A k \in DOMAIN s.react : KeyOf(s.react[k]) # key
  OBVIOUS
<1>6. s.told[key] = "up"
  BY <1>2, <1>3, <1>4
<1>7. Fits(l, "up")
  BY <1>2 DEF Fits
<1>8. /\ s.orderly /\ Apart(s.listeners) /\ Apart(s.react)
      /\ Told(s, s.listeners) /\ Told(s, s.react)
      /\ \A j \in DOMAIN s.listeners, k \in DOMAIN s.react :
           KeyOf(s.listeners[j]) # KeyOf(s.react[k])
  BY DEF Order, Single
<1>9. t.told = s.told /\ t.orderly = s.orderly /\ t.alive = s.alive /\ t.calls = s.calls
  BY DEF Added
<1> HIDE DEF l, key
<1>10. ASSUME NEW list \in Seq(ListenerState), Apart(list), Told(s, list),
             \A k \in DOMAIN list : KeyOf(list[k]) # key /\ list[k].inst
      PROVE  LET new == Append(list, l) IN
             /\ Apart(new) /\ Told(t, new)
             /\ \A k \in DOMAIN new : new[k].inst
             /\ \A k \in DOMAIN new : KeyOf(new[k]) = key \/ (k \in DOMAIN list /\ new[k] = list[k])
             /\ \A k \in DOMAIN list : k \in DOMAIN new /\ new[k] = list[k]
  <2> DEFINE new == Append(list, l)
  <2>1. /\ DOMAIN new = 1..(Len(list) + 1) /\ Len(list) \in Nat /\ DOMAIN list = 1..Len(list)
        /\ \A k \in DOMAIN list : new[k] = list[k]
        /\ new[Len(list) + 1] = l
    OBVIOUS
  <2> HIDE DEF new
  <2>2. \A k \in DOMAIN new :
          (k \in DOMAIN list /\ new[k] = list[k]) \/ (k = Len(list) + 1 /\ new[k] = l)
    BY <2>1
  <2>3. Apart(new)
    BY <1>2, <1>10, <2>2 DEF Apart
  <2>4. Told(t, new)
    BY <1>2, <1>6, <1>7, <1>9, <1>10, <2>2 DEF Told
  <2>5. \A k \in DOMAIN new : new[k].inst
    BY <1>2, <1>10, <2>2
  <2>6. \A k \in DOMAIN list : k \in DOMAIN new /\ new[k] = list[k]
    BY <2>1
  <2>7. \A k \in DOMAIN new : KeyOf(new[k]) = key \/ (k \in DOMAIN list /\ new[k] = list[k])
    BY <1>2, <2>2
  <2> QED
    BY <2>3, <2>4, <2>5, <2>6, <2>7 DEF new
<1>11. CASE t.listeners = Append(s.listeners, l) /\ t.react = s.react
  <2>1. /\ Apart(t.listeners) /\ Told(t, t.listeners)
        /\ \A k \in DOMAIN t.listeners : t.listeners[k].inst
        /\ \A k \in DOMAIN t.listeners :
             \/ KeyOf(t.listeners[k]) = key
             \/ k \in DOMAIN s.listeners /\ t.listeners[k] = s.listeners[k]
        /\ \A k \in DOMAIN s.listeners :
             k \in DOMAIN t.listeners /\ t.listeners[k] = s.listeners[k]
    BY <1>1, <1>3, <1>4, <1>8, <1>10, <1>11
  <2>2. Single(t)
    BY <1>8, <1>11, <1>5, <2>1 DEF Single
  <2>3. Told(t, t.react)
    BY <1>8, <1>9, <1>11 DEF Told
  <2>4. Rest(t)
    BY <1>3, <1>9, <1>11, <2>1 DEF Rest
  <2> QED
    BY <1>8, <1>9, <2>1, <2>2, <2>3, <2>4 DEF Order
<1>12. CASE t.react = Append(s.react, l) /\ t.listeners = s.listeners
  <2>1. /\ Apart(t.react) /\ Told(t, t.react)
        /\ \A k \in DOMAIN t.react : t.react[k].inst
        /\ \A k \in DOMAIN t.react :
             \/ KeyOf(t.react[k]) = key
             \/ k \in DOMAIN s.react /\ t.react[k] = s.react[k]
    BY <1>1, <1>3, <1>8, <1>10, <1>12, <1>5
  <2>2. Single(t)
    BY <1>4, <1>8, <1>12, <2>1 DEF Single
  <2>3. Told(t, t.listeners)
    BY <1>8, <1>9, <1>12 DEF Told
  <2>4. Rest(t)
    BY <1>3, <1>9, <1>12, <2>1 DEF Rest
  <2> QED
    BY <1>8, <1>9, <2>1, <2>2, <2>3, <2>4 DEF Order
<1> QED
  BY <1>11, <1>12 DEF Added, l

\* What is left after the walk over all listeners, and those that wait
LEMMA WalkedOrder ==
  ASSUME NEW s, NEW t, NEW u, NEW r, s \in Collected, Order(s),
         u.listeners = s.listeners, u.told = s.told, u.orderly = s.orderly,
         Passed(u, r, Len(u.listeners)), InOrder(u) => Ordered(u, r, Len(u.listeners)),
         t.told = r.s.told, t.orderly = r.s.orderly,
         t.alive = s.alive, t.calls = s.calls,
         \/ t.listeners = r.keep /\ t.react = s.react
         \/ r.keep = <<>> /\ t.listeners = s.react /\ t.react = <<>>
  PROVE  Order(t)
<1> DEFINE n == Len(u.listeners)
<1>1. /\ s.listeners \in Seq(ListenerState) /\ s.react \in Seq(ListenerState)
      /\ DOMAIN s.listeners = 1..n /\ n \in Nat
      /\ \A k \in DOMAIN s.react : KeyOf(s.react[k]) \in Targets
      /\ \A k \in DOMAIN s.listeners : KeyOf(s.listeners[k]) \in Targets
  BY SeqFacts, ListenerFacts DEF Collected
<1>2. /\ s.orderly /\ Apart(s.listeners) /\ Apart(s.react)
      /\ Told(s, s.listeners) /\ Told(s, s.react)
      /\ \A j \in DOMAIN s.listeners, k \in DOMAIN s.react :
           KeyOf(s.listeners[j]) # KeyOf(s.react[k])
      /\ Rest(s)
  BY DEF Order, Single
<1>3. InOrder(u)
  BY <1>2 DEF InOrder, Told
<1>4. /\ r.s.orderly /\ Apart(r.keep)
      /\ \A p \in DOMAIN r.keep :
           r.keep[p].inst => Fits(r.keep[p], t.told[KeyOf(r.keep[p])])
      /\ \A j \in DOMAIN s.listeners :
           \/ ~s.listeners[j].inst
           \/ t.told[KeyOf(s.listeners[j])] = "up"
           \/ \E p \in DOMAIN r.keep : KeyOf(r.keep[p]) = KeyOf(s.listeners[j])
  BY <1>1, <1>3 DEF Ordered
<1>5. /\ \A p \in DOMAIN r.keep : \E j \in DOMAIN s.listeners :
           Stems(r.keep[p], s.listeners[j])
      /\ \A c \in Targets :
           (\A j \in DOMAIN s.listeners : KeyOf(s.listeners[j]) # c) => t.told[c] = s.told[c]
  BY <1>1 DEF Passed
<1> HIDE DEF n
<1>6. \A k \in DOMAIN s.react : t.told[KeyOf(s.react[k])] = s.told[KeyOf(s.react[k])]
  BY <1>1, <1>2, <1>5
<1>7. Told(t, s.react)
  BY <1>2, <1>6 DEF Told
<1>8. ASSUME s.alive, NEW c \in Targets
      PROVE  \/ t.told[c] = "up"
             \/ \E p \in DOMAIN r.keep : KeyOf(r.keep[p]) = c
  <2>1. CASE \E j \in DOMAIN s.listeners : KeyOf(s.listeners[j]) = c
    BY <1>2, <1>4, <1>8, <2>1 DEF Rest
  <2>2. CASE \A j \in DOMAIN s.listeners : KeyOf(s.listeners[j]) # c
    BY <1>2, <1>5, <1>8, <2>2 DEF Rest
  <2> QED
    BY <2>1, <2>2
<1>9. CASE t.listeners = r.keep /\ t.react = s.react
  <2>1. \A p \in DOMAIN r.keep : \E j \in DOMAIN s.listeners :
          KeyOf(r.keep[p]) = KeyOf(s.listeners[j]) /\ r.keep[p].inst = s.listeners[j].inst
    BY <1>5 DEF Stems
  <2>2. Single(t)
    BY <1>2, <1>4, <1>9, <2>1 DEF Single
  <2>3. Told(t, t.listeners)
    BY <1>4, <1>9 DEF Told
  <2>4. Rest(t)
    BY <1>2, <1>8, <1>9, <2>1 DEF Rest
  <2> QED
    BY <1>4, <1>7, <1>9, <2>2, <2>3, <2>4 DEF Order
<1>10. CASE r.keep = <<>> /\ t.listeners = s.react /\ t.react = <<>>
  <2>1. DOMAIN t.react = {} /\ DOMAIN r.keep = {}
    BY <1>10
  <2>2. Single(t)
    BY <1>2, <1>10, <2>1 DEF Single, Apart
  <2>3. Told(t, t.react)
    BY <2>1 DEF Told
  <2>4. Rest(t)
    BY <1>2, <1>8, <1>10, <2>1 DEF Rest
  <2> QED
    BY <1>4, <1>7, <1>10, <2>2, <2>3, <2>4 DEF Order
<1> QED
  BY <1>9, <1>10

LEMMA EventReadOrder ==
  ASSUME BaseInv, OrderInv, EventRead
  PROVE  OrderInv'
<1>1. Reading(e, e') /\ e.pipe # <<>> /\ ~e.joining /\ Base(e) /\ Order(e) /\ e \in Collected
  BY EventReadContract, BaseParts DEF BaseInv, OrderInv
<1>2. CASE e.items = <<>>
  <2>1. Ceded(e, e')
    BY <1>1, <1>2, ThreadGoneBase DEF Reading
  <2>2. PICK u, r :
       /\ u.listeners = e.listeners /\ u.told = e.told /\ u.orderly = e.orderly
       /\ Passed(u, r, Len(u.listeners)) /\ (InOrder(u) => Ordered(u, r, Len(u.listeners)))
       /\ r.keep = <<>> /\ e'.told = r.s.told /\ e'.orderly = r.s.orderly
    BY <2>1 DEF Ceded
  <2>3. /\ e'.listeners = e.react /\ e'.react = <<>> /\ e'.alive = e.alive
        /\ e'.calls = e.calls
    BY <2>1 DEF Ceded
  <2> QED
    BY <1>1, <2>2, <2>3, WalkedOrder DEF OrderInv
<1>3. CASE e.items # <<>>
  <2> DEFINE p == Popped(e)
             d == Dispatch(p, Head(e.items))
  <2>1. /\ Base(p) /\ p.listeners = e.listeners /\ p.react = e.react
        /\ p.told = e.told /\ p.orderly = e.orderly
        /\ p.alive = e.alive /\ p.calls = e.calls
    BY <1>1, <1>3, PoppedBase
  <2>2. e' = d
    BY <1>1, <1>3 DEF Reading
  <2> HIDE DEF p
  <2>3. PICK r :
          /\ Apartly(p, d) /\ d.listeners = r.keep /\ d.told = r.s.told
          /\ d.orderly = r.s.orderly
          /\ Passed(p, r, Len(p.listeners)) /\ (InOrder(p) => Ordered(p, r, Len(p.listeners)))
    BY <2>1, BaseParts, DispatchContract
  <2> HIDE DEF d
  <2>4. d.react = e.react /\ d.alive = e.alive /\ d.calls = e.calls
    BY <2>1, <2>3 DEF Apartly, Steady
  <2>5. Order(d)
    BY <1>1, <2>1, <2>3, <2>4, WalkedOrder
  <2> QED
    BY <2>2, <2>5 DEF OrderInv
<1> QED
  BY <1>2, <1>3

LEMMA SetOrder ==
  ASSUME InputAssumption, Patient, BaseInv, OrderInv, NEW cb \in Callbacks,
         NEW slot \in Slots, Set(cb, slot)
  PROVE  OrderInv'
<1>1. Added(e, e', NewListener(e, cb, slot)) /\ Base(e) /\ Order(e)
  BY SetContract DEF BaseInv, OrderInv
<1>2. e.alive /\ ~Registered(e, cb, slot)
  BY DEF Set, Asks, Accepts
<1>3. ~Delayed(cb, slot)
  BY Zenon DEF Set, Asks, Patient
<1>4. \A k \in DOMAIN e.react : KeyOf(e.react[k]) # <<cb, slot>>
  BY <1>3 DEF Delayed, KeyOf, Range
<1> QED
  BY <1>1, <1>2, <1>4, AddedOrder DEF OrderInv

LEMMA UnsetOrder ==
  ASSUME NEW s, Base(s), Order(s), NEW cb, NEW slot, Unset(s, cb, slot)
  PROVE  OrderInv'
BY DeactivateBase, MarkedOrder DEF OrderInv, Unset

LEMMA AskedOrder ==
  ASSUME InputAssumption, Patient, BaseInv, OrderInv, Asked
  PROVE  OrderInv'
<1>1. PICK cb \in Callbacks, slot \in Slots :
        \/ Set(cb, slot) \/ Unset(e, cb, slot) \/ Unset(SetMouseXY(e, slot), cb, slot)
  BY DEF Asked
<1>2. Base(SetMouseXY(e, slot)) /\ Silent(e, SetMouseXY(e, slot))
  BY SetMouseXYBase DEF BaseInv, Core, Silent
<1>3. Order(SetMouseXY(e, slot))
  BY <1>2, SilentOrder DEF OrderInv
<1> QED
  BY <1>1, <1>2, <1>3, SetOrder, UnsetOrder DEF BaseInv, OrderInv

LEMMA JoinOrder ==
  ASSUME BaseInv, OrderInv, Join
  PROVE  OrderInv'
<1> DEFINE t == Joined(e)
<1>1. /\ Base(t) /\ Marked(e, t) /\ e' = IF t.calls = <<>> THEN t ELSE NextCall(t)
  BY JoinedBase DEF BaseInv, Join, Joined, NextCall
<1> HIDE DEF t
<1>2. Order(t)
  BY <1>1, MarkedOrder DEF OrderInv
<1> QED
  BY <1>1, <1>2, NextCallBase, CalledOrder DEF OrderInv

LEMMA InstDelCbOrder ==
  ASSUME BaseInv, OrderInv, InstDelCb
  PROVE  OrderInv'
<1> DEFINE t == EventDeactivate(e, Head(e.calls), AnySlot)
<1>1. Base(t) /\ Marked(e, t) /\ e.calls # <<>>
  BY DeactivateBase DEF BaseInv, InstDelCb
<1>2. e' = IF t.joining THEN t ELSE NextCall(t)
  BY DEF InstDelCb, NextCall
<1> HIDE DEF t
<1>3. t.calls # <<>> /\ Order(t)
  BY <1>1, MarkedOrder DEF Marked, OrderInv
<1> QED
  BY <1>1, <1>2, <1>3, NextCallBase, CalledOrder DEF OrderInv

LEMMA DestroyOrder ==
  ASSUME BaseInv, OrderInv, DestroyInstance
  PROVE  OrderInv'
<1>1. /\ e'.listeners = e.listeners /\ e'.react = e.react /\ e'.told = e.told
      /\ e'.orderly = e.orderly /\ ~e'.alive
  BY BaseParts DEF BaseInv, Collected, DestroyInstance
<1> QED
  BY <1>1 DEF OrderInv, Order, Single, Told, Rest

LEMMA ThreadSilent ==
  ASSUME BaseInv,
         \/ Tick \/ ThreadStart \/ UpdateTimestamp \/ ProcessingReport \/ ThreadWrites
         \/ ThreadQuits \/ (\E slot \in Slots : ProcessingEvAbs(slot))
  PROVE  Silent(e, e')
<1>1. e \in Collected
  BY BaseParts DEF BaseInv
<1>2. CASE Tick
  BY <1>1, <1>2 DEF Tick, Silent, Collected
<1>3. CASE ThreadWrites
  BY <1>1, <1>3 DEF ThreadWrites, Silent, Collected
<1>4. CASE ThreadQuits
  BY <1>1, <1>4 DEF ThreadQuits, Silent, Collected
<1>5. CASE ThreadStart
  BY <1>1, <1>5 DEF ThreadStart, Silent, Collected
<1>6. CASE UpdateTimestamp
  BY <1>1, <1>6 DEF UpdateTimestamp, Silent, Collected
<1>7. CASE \E slot \in Slots : ProcessingEvAbs(slot)
  BY <1>1, <1>7 DEF ProcessingEvAbs, Silent, Collected
<1>8. CASE ProcessingReport
  BY <1>1, <1>8 DEF ProcessingReport, PushItem, Silent, Collected
<1> QED
  BY <1>2, <1>3, <1>4, <1>5, <1>6, <1>7, <1>8

LEMMA InitOrder ==
  ASSUME Init
  PROVE  OrderInv
<1>1. /\ e.listeners = <<>> /\ e.react = <<>> /\ e.orderly /\ e.calls = <<>>
      /\ \A c \in Targets : e.told[c] = "up"
  BY DEF Init, Targets
<1> QED
  BY <1>1 DEF OrderInv, Order, Single, Apart, Told, Rest

LEMMA StepOrder ==
  ASSUME InputAssumption, Patient, BaseInv, OrderInv, [Next]_vars
  PROVE  OrderInv'
<1>1. CASE Next
  <2>1. CASE Silent(e, e') \/ Feeding(e, e')
    BY <2>1, SilentOrder DEF Feeding, Core, Silent, OrderInv
  <2> QED
    BY <1>1, <2>1, NextIs, ThreadSilent, JoinOrder, EventReadOrder, InstDelCbOrder,
       AskedOrder, DestroyOrder, MouseContract, AccessibilityContract, KeysContract,
       StatusesContract
<1>2. CASE UNCHANGED vars
  BY <1>2 DEF vars, OrderInv
<1> QED
  BY <1>1, <1>2

(* As long as no finger comes again while its listener waits for the end   *)
(* of the last thread, a callback is told "down" first, "up" last and      *)
(* "move" only in between, for any fingers and any number of events        *)
(* (clear_listener, event_read_cb, event_deactivate).                      *)
THEOREM ToldInOrder ==
  ASSUME InputAssumption, Patient
  PROVE  Spec => []Orderly
<1>1. Init => OrderInv
  BY InitOrder
<1>2. BaseInv /\ OrderInv /\ [Next]_vars => OrderInv'
  BY StepOrder
<1>3. OrderInv => Orderly
  BY DEF OrderInv, Order, Orderly
<1>4. Spec => []BaseInv
  BY BaseIsInvariant
<1> QED
  BY <1>1, <1>2, <1>3, <1>4, PTL DEF Spec
=============================================================================
