------------------------ MODULE BufferHandlerProofs ------------------------
(***************************************************************************)
(* That a pixmap is there exactly as long as somebody counts on it, that a *)
(* viewer keeps what it was given, and that the viewers know of the extra  *)
(* buffer that is drawn into, for every number of viewers, sizes, pixmaps  *)
(* and uses of an instance, while there is memory and a gem for each       *)
(* pixmap.                                                                 *)
(*                                                                         *)
(* Core is what every function of buffer_handler.c keeps, Living what the  *)
(* life of the instance adds.  Each operator has a lemma that says that it *)
(* keeps Core, touches one buffer only (Within) and what it does to it.    *)
(***************************************************************************)
EXTENDS BufferHandlerProps, FiniteSetTheorems, TLAPS

Insts == {"new", "active", "reset", "renewing", "destroyed", "freed"}
Monitors == {"open", "resize", "close"}
Mains == {"widget", "gbar"}

Info ==
  [made : BOOLEAN, loaded : BOOLEAN, fb : 0..MaxPixmaps, size : Sizes, lock : 0..1,
   opens : 0..MaxHeld]

Pixmap ==
  [st : {"none", "made", "freed"}, ref : Nat, listed : 0..1, size : Sizes,
   gem : BOOLEAN, maps : Nat, data : BOOLEAN]

Buffers ==
  [type : Types, use : SUBSET Slots, scripts : SUBSET Mains, gem : BOOLEAN,
   inst : Insts, reopen : BOOLEAN, mon : SUBSET Monitors,
   info : [Slots -> Info], fb : [Fbs -> Pixmap], next : 1..MaxPixmaps,
   live : SUBSET Clients, held : [Clients -> [Fbs -> Nat]],
   given : [Clients -> [Fbs -> Nat]], told : [Extra -> 0..MaxPixmaps], bad : BOOLEAN]

(* No load fails, and the master can draw into what it makes.              *)
Supplied == "no_gem" \notin Rare /\ "no_room" \notin Rare
-----------------------------------------------------------------------------
(* The inductive invariant *)

\* A buffer has memory or a lock while it is loaded; the master can draw a script.
InfoKept(w, s) ==
  LET x == w.info[s] IN
  /\ x.loaded \/ x.opens > 0 => x.made
  /\ x.fb # 0 <=> x.loaded /\ w.type = "pixmap"
  /\ x.lock = IF x.loaded /\ w.type # "pixmap" THEN 1 ELSE 0
  /\ x.fb # 0 /\ IsScript(w, s) => w.fb[x.fb].gem

InUse(w, f) == IF \E s \in Slots : w.info[s].fb = f THEN 1 ELSE 0
Kept(w, f) == Cardinality(Keepers(w, f))

\* A pixmap counts its buffer and its keepers, and is there while it counts any.
PixmapKept(w, f) ==
  LET x == w.fb[f] IN
  /\ x.ref = InUse(w, f) + Kept(w, f)
  /\ x.st = "made" <=> x.ref > 0
  /\ x.listed = IF x.st = "made" THEN 1 ELSE 0
  /\ x.maps = 0 /\ ~x.data
  /\ f >= w.next => x.ref = 0

\* No two buffers share a pixmap.
Apart(w) ==
  \A s, t \in Slots : w.info[s].fb = w.info[t].fb /\ w.info[s].fb # 0 => s = t

Core(w) ==
  /\ w \in Buffers /\ w.gem /\ ~w.bad /\ w.held = w.given
  /\ \A f \in Fbs : IsFiniteSet(Keepers(w, f))
  /\ \A s \in Slots : InfoKept(w, s)
  /\ \A f \in Fbs : PixmapKept(w, f)
  /\ Apart(w)

(* What is loaded again was made; the script of the widget is loaded once, *)
(* and by an instance that runs; the extra buffers are told.               *)
Living(w) ==
  /\ \A s \in Slots : w.info[s].made => s \in w.use
  /\ w.info["widget"].opens > 0 => IsScript(w, "widget")
  /\ w.inst \notin {"new", "freed"} => \A s \in w.use \ Extra : w.info[s].made
  /\ w.inst # "freed" /\ w.reopen => w.info["gbar"].made
  /\ w.info["widget"].opens <= 1
  /\ w.inst \in {"new", "reset", "renewing"} => w.info["widget"].opens = 0
  /\ w.inst # "freed" => \A s \in Extra : w.told[s] = w.info[s].fb

BufferInv == Core(b) /\ Living(b)
-----------------------------------------------------------------------------

(* Fields *)

LEMMA SlotFacts ==
  /\ Mains \subseteq Slots /\ Extra \subseteq Slots /\ Mains \cap Extra = {}
  /\ Slots = Mains \cup Extra /\ "widget" \in Mains /\ "gbar" \in Mains /\ "widget" # "gbar"
BY DEF Mains, Extra, Slots

LEMMA NumberFacts ==
  /\ MaxPixmaps \in Nat /\ MaxPixmaps >= 1 /\ MaxHeld \in Nat /\ MaxHeld >= 1
  /\ Fbs = 1..MaxPixmaps /\ 1 \in 1..MaxPixmaps /\ 0 \in 0..MaxPixmaps
  /\ 0 \in 0..MaxHeld /\ 1 \in 0..MaxHeld /\ 0 \in 0..1 /\ 1 \in 0..1 /\ 0 \notin Fbs
BY BufferHandlerAssumption DEF Fbs

LEMMA FieldFacts ==
  ASSUME NEW w \in Buffers
  PROVE  /\ w.type \in Types /\ w.use \subseteq Slots /\ w.scripts \subseteq Mains
         /\ w.gem \in BOOLEAN /\ w.inst \in Insts /\ w.reopen \in BOOLEAN
         /\ w.mon \subseteq Monitors /\ w.info \in [Slots -> Info] /\ w.fb \in [Fbs -> Pixmap]
         /\ w.next \in 1..MaxPixmaps /\ w.live \subseteq Clients
         /\ w.held \in [Clients -> [Fbs -> Nat]] /\ w.given \in [Clients -> [Fbs -> Nat]]
         /\ w.told \in [Extra -> 0..MaxPixmaps] /\ w.bad \in BOOLEAN
BY DEF Buffers

LEMMA InfoFacts ==
  ASSUME NEW x \in Info
  PROVE  /\ x.made \in BOOLEAN /\ x.loaded \in BOOLEAN /\ x.fb \in 0..MaxPixmaps
         /\ x.size \in Sizes /\ x.lock \in 0..1 /\ x.opens \in 0..MaxHeld
BY DEF Info

LEMMA PixmapFacts ==
  ASSUME NEW x \in Pixmap
  PROVE  /\ x.st \in {"none", "made", "freed"} /\ x.ref \in Nat /\ x.listed \in 0..1
         /\ x.size \in Sizes /\ x.gem \in BOOLEAN /\ x.maps \in Nat /\ x.data \in BOOLEAN
BY DEF Pixmap

LEMMA NoFbFacts ==
  /\ NoFb \in Pixmap /\ NoFb.st = "none" /\ NoFb.ref = 0 /\ NoFb.listed = 0
  /\ NoFb.maps = 0 /\ ~NoFb.data
BY BufferHandlerAssumption DEF NoFb, Pixmap

LEMMA NoInfoFacts ==
  /\ NoInfo \in Info /\ ~NoInfo.made /\ ~NoInfo.loaded /\ NoInfo.fb = 0
  /\ NoInfo.lock = 0 /\ NoInfo.opens = 0
BY BufferHandlerAssumption, NumberFacts DEF NoInfo, Info

\* What no operator on buffers changes
Alike(w, u) ==
  /\ u.type = w.type /\ u.use = w.use /\ u.scripts = w.scripts /\ u.gem = w.gem
  /\ u.inst = w.inst /\ u.reopen = w.reopen /\ u.mon = w.mon /\ u.live = w.live
  /\ u.held = w.held /\ u.given = w.given /\ u.told = w.told

LEMMA Rebuilt ==
  ASSUME NEW w \in Buffers, NEW I \in [Slots -> Info], NEW F \in [Fbs -> Pixmap],
         NEW n \in 1..MaxPixmaps, NEW d \in BOOLEAN
  PROVE  LET u == [w EXCEPT !.info = I, !.fb = F, !.next = n, !.bad = d] IN
         /\ u \in Buffers /\ Alike(w, u)
         /\ u.info = I /\ u.fb = F /\ u.next = n /\ u.bad = d
<1> DEFINE u == [w EXCEPT !.info = I, !.fb = F, !.next = n, !.bad = d]
<1>1. u \in Buffers
  BY ZenonT(60) DEF Buffers
<1>2. u.info = I /\ u.fb = F /\ u.next = n /\ u.bad = d
  BY DEF Buffers
<1>3. Alike(w, u)
  BY DEF Buffers, Alike
<1> QED
  BY <1>1, <1>2, <1>3

LEMMA Rewritten ==
  ASSUME NEW w \in Buffers, NEW u \in Buffers, Alike(w, u), u.info = w.info, u.fb = w.fb,
         u.next = w.next, u.bad = w.bad
  PROVE  u = w
BY DEF Buffers, Alike
-----------------------------------------------------------------------------
(* What keeps Core *)

\* Only the buffer s is touched.
Within(w, u, s) == Alike(w, u) /\ \A t \in Slots \ {s} : u.info[t] = w.info[t]

LEMMA KeepersSame ==
  ASSUME NEW w, NEW u, NEW f, u.held = w.held
  PROVE  Keepers(u, f) = Keepers(w, f) /\ Kept(u, f) = Kept(w, f)
BY DEF Keepers, Kept

\* The pieces of Core that the buffers and pixmaps of u have to have
LEMMA CoreFrom ==
  ASSUME NEW w, NEW u \in Buffers, Core(w), Alike(w, u), ~u.bad,
         \A s \in Slots : InfoKept(u, s),
         \A f \in Fbs : PixmapKept(u, f),
         Apart(u)
  PROVE  Core(u)
<1>1. u.gem /\ u.held = u.given /\ u.held = w.held
  BY DEF Core, Alike
<1>2. \A f \in Fbs : IsFiniteSet(Keepers(u, f))
  BY <1>1, KeepersSame DEF Core
<1> QED
  BY <1>1, <1>2 DEF Core

LEMMA InfoSet ==
  ASSUME NEW w \in Buffers, NEW s \in Slots, NEW x \in Info
  PROVE  LET u == [w EXCEPT !.info[s] = x] IN
         /\ u \in Buffers /\ Alike(w, u) /\ u.info = [w.info EXCEPT ![s] = x]
         /\ u.fb = w.fb /\ u.next = w.next /\ u.bad = w.bad
<1> DEFINE I == [w.info EXCEPT ![s] = x]
           u == [w EXCEPT !.info = I]
<1>1. I \in [Slots -> Info]
  BY FieldFacts
<1> HIDE DEF I
<1>2. u \in Buffers
  BY <1>1, ZenonT(60) DEF Buffers
<1>3. u.info = I /\ u.fb = w.fb /\ u.next = w.next /\ u.bad = w.bad
  BY DEF Buffers
<1>4. Alike(w, u)
  BY DEF Buffers, Alike
<1> QED
  BY <1>2, <1>3, <1>4 DEF I

LEMMA InfoChanged ==
  ASSUME NEW w, NEW s \in Slots, NEW x \in Info, Core(w),
         x.loaded = w.info[s].loaded, x.fb = w.info[s].fb, x.lock = w.info[s].lock,
         x.loaded \/ x.opens > 0 => x.made
  PROVE  LET u == [w EXCEPT !.info[s] = x] IN
         /\ Core(u) /\ Within(w, u, s)
         /\ u.info[s] = x /\ u.next = w.next /\ u.fb = w.fb
<1> DEFINE u == [w EXCEPT !.info[s] = x]
<1>1. /\ u \in Buffers /\ Alike(w, u) /\ u.info = [w.info EXCEPT ![s] = x]
      /\ u.fb = w.fb /\ u.next = w.next /\ u.bad = w.bad
  BY InfoSet DEF Core
<1> HIDE DEF u
<1>2. u.info[s] = x /\ \A t \in Slots \ {s} : u.info[t] = w.info[t]
  BY <1>1, FieldFacts DEF Core
<1>3. \A t \in Slots : u.info[t].fb = w.info[t].fb
  BY <1>2
<1>4. \A t \in Slots : InfoKept(u, t)
  <2>1. \A t \in Slots : IsScript(u, t) = IsScript(w, t)
    BY <1>1 DEF IsScript, Alike
  <2>2. \A t \in Slots : InfoKept(w, t)
    BY DEF Core
  <2> QED
    BY <1>1, <1>2, <2>1, <2>2 DEF InfoKept, Alike
<1>5. \A f \in Fbs : PixmapKept(u, f)
  <2>1. \A f \in Fbs : InUse(u, f) = InUse(w, f)
    BY <1>3 DEF InUse
  <2>2. \A f \in Fbs : Kept(u, f) = Kept(w, f)
    BY <1>1, KeepersSame DEF Alike
  <2> QED
    BY <1>1, <2>1, <2>2 DEF Core, PixmapKept
<1>6. Apart(u)
  BY <1>3 DEF Core, Apart
<1>7. Core(u)
  BY <1>1, <1>4, <1>5, <1>6, CoreFrom DEF Core
<1> QED
  BY <1>1, <1>2, <1>7 DEF u, Within
-----------------------------------------------------------------------------
(* Pixmaps are made and given back *)

NewPixmap(w, s) ==
  [NoFb EXCEPT !.st = "made", !.ref = 1, !.listed = 1,
               !.size = w.info[s].size, !.gem = IsScript(w, s) /\ w.gem]

LEMMA NewPixmapFacts ==
  ASSUME NEW w \in Buffers, NEW s \in Slots
  PROVE  LET p == NewPixmap(w, s) IN
         /\ p \in Pixmap /\ p.st = "made" /\ p.ref = 1 /\ p.listed = 1
         /\ p.gem = (IsScript(w, s) /\ w.gem) /\ p.maps = 0 /\ p.data = FALSE
<1>1. w.info[s].size \in Sizes /\ (IsScript(w, s) /\ w.gem) \in BOOLEAN
  BY FieldFacts, InfoFacts
<1> DEFINE size == w.info[s].size
           gem == IsScript(w, s) /\ w.gem
           p == [NoFb EXCEPT !.st = "made", !.ref = 1, !.listed = 1, !.size = size, !.gem = gem]
<1>2. p = NewPixmap(w, s)
  BY DEF NewPixmap
<1> HIDE DEF size, gem
<1>3. size \in Sizes /\ gem \in BOOLEAN
  BY <1>1 DEF size, gem
<1>4. NoFb \in Pixmap /\ NoFb.maps = 0 /\ ~NoFb.data
  BY NoFbFacts
<1>5. p \in Pixmap
  <2>1. "made" \in {"none", "made", "freed"} /\ 1 \in Nat /\ 1 \in 0..1
    OBVIOUS
  <2> QED
    BY <1>3, <1>4, <2>1, ZenonT(40) DEF Pixmap
<1>6. /\ p.st = "made" /\ p.ref = 1 /\ p.listed = 1 /\ p.gem = gem
      /\ p.maps = NoFb.maps /\ p.data = NoFb.data
  BY <1>4 DEF Pixmap
<1> QED
  BY <1>2, <1>4, <1>5, <1>6 DEF gem, Pixmap

\* A buffer that has none gets the pixmap n, and is loaded.
LEMMA Minted ==
  ASSUME NEW w, NEW u \in Buffers, NEW s \in Slots, NEW n \in Fbs, Core(w), Within(w, u, s),
         w.type = "pixmap", w.info[s].fb = 0, n = w.next, u.next = n + 1, ~u.bad,
         u.info[s].made, u.info[s].loaded, u.info[s].fb = n, u.info[s].lock = w.info[s].lock,
         u.fb = [w.fb EXCEPT ![n] = NewPixmap(w, s)]
  PROVE  Core(u)
<1> DEFINE p == NewPixmap(w, s)
<1>1. /\ p \in Pixmap /\ p.st = "made" /\ p.ref = 1 /\ p.listed = 1
      /\ p.gem = (IsScript(w, s) /\ w.gem) /\ p.maps = 0 /\ p.data = FALSE
  BY NewPixmapFacts DEF Core
<1> HIDE DEF p
<1>2. u.fb[n] = p /\ \A f \in Fbs \ {n} : u.fb[f] = w.fb[f]
  BY FieldFacts DEF p, Core
<1>3. Alike(w, u) /\ \A t \in Slots \ {s} : u.info[t] = w.info[t]
  BY DEF Within
<1>4. w.fb[n].ref = 0 /\ InUse(w, n) + Kept(w, n) = 0
  <2>1. PixmapKept(w, n) /\ w.next \in Int
    BY FieldFacts DEF Core
  <2>2. n >= w.next
    BY <2>1
  <2> QED
    BY <2>1, <2>2 DEF PixmapKept
<1>5. \A f \in Fbs : Kept(w, f) \in Nat /\ Kept(u, f) = Kept(w, f)
  <2>1. \A f \in Fbs : Kept(w, f) \in Nat
    BY FS_CardinalityType DEF Core, Kept
  <2> QED
    BY <1>3, <2>1, KeepersSame DEF Alike
<1>6. Kept(u, n) = 0 /\ \A t \in Slots : w.info[t].fb # n
  BY <1>4, <1>5 DEF InUse
<1>7. \A t \in Slots : InfoKept(u, t)
  <2>1. \A t \in Slots : IsScript(u, t) = IsScript(w, t)
    BY <1>3 DEF IsScript, Alike
  <2>2. InfoKept(u, s)
    <3>1. w.gem = TRUE /\ InfoKept(w, s) /\ u.type = "pixmap" /\ n # 0
      BY <1>3, NumberFacts DEF Alike, Core
    <3>2. IsScript(u, s) => u.fb[n].gem
      BY <1>1, <1>2, <2>1, <3>1
    <3>3. u.info[s].lock = 0
      BY <3>1 DEF InfoKept
    <3> QED
      BY <3>1, <3>2, <3>3 DEF InfoKept
  <2>3. ASSUME NEW t \in Slots, t # s PROVE InfoKept(u, t)
    <3>1. w.info[t].fb \in 0..MaxPixmaps
      BY FieldFacts, InfoFacts DEF Core
    <3>2. w.info[t].fb # 0 => w.info[t].fb \in Fbs \ {n}
      BY <1>6, <3>1 DEF Fbs
    <3> QED
      BY <1>2, <1>3, <2>1, <2>3, <3>2 DEF InfoKept, Alike, Core
  <2> QED
    BY <2>2, <2>3
<1>8. \A f \in Fbs : PixmapKept(u, f)
  <2>1. PixmapKept(u, n)
    <3>1. InUse(u, n) = 1
      BY DEF InUse
    <3>2. n \in Int
      BY DEF Fbs
    <3> QED
      BY <1>1, <1>2, <1>6, <3>1, <3>2 DEF PixmapKept
  <2>2. ASSUME NEW f \in Fbs, f # n PROVE PixmapKept(u, f)
    <3>1. InUse(u, f) = InUse(w, f)
      BY <1>3, <2>2, NumberFacts DEF InUse
    <3>2. f >= u.next => f >= w.next
      BY NumberFacts DEF Fbs
    <3> QED
      BY <1>2, <1>5, <2>2, <3>1, <3>2 DEF PixmapKept, Core
  <2> QED
    BY <2>1, <2>2
<1>9. Apart(u)
  BY <1>3, <1>6 DEF Apart, Core
<1> QED
  BY <1>3, <1>7, <1>8, <1>9, CoreFrom

LEMMA UnrefFacts ==
  ASSUME NEW x \in Pixmap, NEW n \in Nat, x.st = "made", n > 0, n <= x.ref,
         x.listed = 1, x.maps = 0, ~x.data
  PROVE  LET y == Unref(x, n) IN
         /\ ~Lacks(x, n) /\ y \in Pixmap /\ y.ref = x.ref - n
         /\ y.st = "made" <=> y.ref > 0
         /\ y.listed = IF y.st = "made" THEN 1 ELSE 0
         /\ y.maps = 0 /\ ~y.data /\ (y.ref > 0 => y.gem = x.gem)
<1> DEFINE y == Unref(x, n)
           less == [x EXCEPT !.ref = @ - n]
           gone == [NoFb EXCEPT !.st = "freed"]
<1>1. x.ref \in Nat /\ x.ref - n \in Nat
  BY PixmapFacts
<1>2. /\ less \in Pixmap /\ less.st = "made" /\ less.ref = x.ref - n /\ less.listed = 1
      /\ less.maps = 0 /\ ~less.data /\ less.gem = x.gem
  BY <1>1 DEF Pixmap
<1>3. /\ gone \in Pixmap /\ gone.st = "freed" /\ gone.ref = 0 /\ gone.listed = 0
      /\ gone.maps = 0 /\ ~gone.data
  BY NoFbFacts DEF Pixmap
<1>4. ~Lacks(x, n)
  BY <1>1 DEF Lacks
<1>5. CASE x.ref > n
  <2>1. y = less
    BY <1>5 DEF Unref
  <2>2. less.ref > 0
    BY <1>1, <1>2, <1>5
  <2> HIDE DEF y, less
  <2> QED
    BY <1>2, <1>4, <2>1, <2>2 DEF y
<1>6. CASE ~(x.ref > n)
  <2>1. y = gone /\ x.ref - n = 0
    BY <1>1, <1>6 DEF Unref
  <2> HIDE DEF y, gone
  <2> QED
    BY <1>3, <1>4, <2>1 DEF y
<1> QED
  BY <1>5, <1>6

\* The pixmap of a buffer that is loaded is there, and so is one that is kept.
LEMMA UsedIsMade ==
  ASSUME NEW w, NEW f \in Fbs, Core(w), InUse(w, f) = 1 \/ Kept(w, f) > 0
  PROVE  /\ w.fb[f] \in Pixmap /\ w.fb[f].st = "made" /\ w.fb[f].listed = 1
         /\ w.fb[f].maps = 0 /\ ~w.fb[f].data /\ f < w.next
         /\ w.fb[f].ref = InUse(w, f) + Kept(w, f) /\ Kept(w, f) \in Nat
<1>1. w.fb[f] \in Pixmap /\ PixmapKept(w, f) /\ w.next \in Nat /\ f \in Nat
  <2>1. w.fb \in [Fbs -> Pixmap] /\ w.next \in 1..MaxPixmaps
    BY FieldFacts DEF Core
  <2>2. f \in Nat
    BY DEF Fbs
  <2> QED
    BY <2>1, <2>2 DEF Core
<1>2. Kept(w, f) \in Nat /\ InUse(w, f) \in 0..1
  BY FS_CardinalityType DEF Core, Kept, InUse
<1>3. InUse(w, f) + Kept(w, f) > 0
  BY <1>2
<1> QED
  BY <1>1, <1>2, <1>3 DEF PixmapKept

LEMMA Dropped ==
  ASSUME NEW w, NEW u \in Buffers, NEW s \in Slots, NEW f \in Fbs, Core(w), Within(w, u, s),
         w.info[s].fb = f, u.next = w.next, ~u.bad,
         u.info[s].made, ~u.info[s].loaded, u.info[s].fb = 0, u.info[s].lock = 0,
         u.fb = [w.fb EXCEPT ![f] = Unref(@, 1)]
  PROVE  Core(u)
<1> DEFINE y == Unref(w.fb[f], 1)
<1>1. InUse(w, f) = 1
  BY DEF InUse
<1>2. /\ w.fb[f] \in Pixmap /\ w.fb[f].st = "made" /\ w.fb[f].listed = 1
      /\ w.fb[f].maps = 0 /\ ~w.fb[f].data /\ f < w.next
      /\ w.fb[f].ref = 1 + Kept(w, f) /\ Kept(w, f) \in Nat
  BY <1>1, UsedIsMade
<1>3. /\ y \in Pixmap /\ y.ref = Kept(w, f) /\ (y.st = "made" <=> y.ref > 0)
      /\ y.listed = (IF y.st = "made" THEN 1 ELSE 0) /\ y.maps = 0 /\ ~y.data
  <2>1. /\ y \in Pixmap /\ y.ref = w.fb[f].ref - 1 /\ (y.st = "made" <=> y.ref > 0)
        /\ y.listed = (IF y.st = "made" THEN 1 ELSE 0) /\ y.maps = 0 /\ ~y.data
    BY <1>2, UnrefFacts
  <2> QED
    BY <1>2, <2>1
<1> HIDE DEF y
<1>4. u.fb[f] = y /\ \A g \in Fbs \ {f} : u.fb[g] = w.fb[g]
  BY FieldFacts DEF y, Core
<1>5. Alike(w, u) /\ \A t \in Slots \ {s} : u.info[t] = w.info[t]
  BY DEF Within
<1>6. \A g \in Fbs : Kept(u, g) = Kept(w, g)
  BY <1>5, KeepersSame DEF Alike
<1>7. \A t \in Slots \ {s} : w.info[t].fb # f
  BY NumberFacts DEF Core, Apart
<1>8. \A t \in Slots : InfoKept(u, t)
  <2>1. \A t \in Slots : IsScript(u, t) = IsScript(w, t)
    BY <1>5 DEF IsScript, Alike
  <2>2. InfoKept(u, s)
    BY DEF InfoKept
  <2>3. ASSUME NEW t \in Slots, t # s PROVE InfoKept(u, t)
    <3>1. w.info[t].fb \in 0..MaxPixmaps
      BY FieldFacts, InfoFacts DEF Core
    <3>2. w.info[t].fb # 0 => w.info[t].fb \in Fbs \ {f}
      BY <1>7, <2>3, <3>1 DEF Fbs
    <3> QED
      BY <1>4, <1>5, <2>1, <2>3, <3>2 DEF InfoKept, Alike, Core
  <2> QED
    BY <2>2, <2>3
<1>9. \A g \in Fbs : PixmapKept(u, g)
  <2>1. PixmapKept(u, f)
    <3>1. InUse(u, f) = 0
      BY <1>5, <1>7, NumberFacts DEF InUse
    <3>2. ~(f >= u.next)
      BY <1>2, FieldFacts DEF Fbs, Core
    <3> QED
      BY <1>2, <1>3, <1>4, <1>6, <3>1, <3>2 DEF PixmapKept
  <2>2. ASSUME NEW g \in Fbs, g # f PROVE PixmapKept(u, g)
    <3>1. InUse(u, g) = InUse(w, g)
      BY <1>5, <2>2, NumberFacts DEF InUse
    <3> QED
      BY <1>4, <1>6, <2>2, <3>1 DEF PixmapKept, Core
  <2> QED
    BY <2>1, <2>2
<1>10. Apart(u)
  BY <1>5, NumberFacts DEF Apart, Core
<1> QED
  BY <1>5, <1>8, <1>9, <1>10, CoreFrom
-----------------------------------------------------------------------------
(* Buffers are loaded and unloaded *)

\* Where both buffers have had a script opened equally often, in the same size
Level(w, u, s) == u.info[s].opens = w.info[s].opens /\ u.info[s].size = w.info[s].size

LEMMA CreatePixmapFields ==
  ASSUME NEW w \in Buffers, NEW s \in Slots, w.next < MaxPixmaps
  PROVE  LET u == CreatePixmap(w, s) IN
         /\ u \in Buffers /\ Alike(w, u)
         /\ u.info = [w.info EXCEPT ![s] = [@ EXCEPT !.fb = w.next]]
         /\ u.fb = [w.fb EXCEPT ![w.next] = NewPixmap(w, s)]
         /\ u.next = w.next + 1 /\ u.bad = w.bad
<1> DEFINE p == NewPixmap(w, s)
           n == w.next
           F == [w.fb EXCEPT ![n] = p]
           x == [w.info[s] EXCEPT !.fb = n]
           I == [w.info EXCEPT ![s] = x]
           u == [w EXCEPT !.fb = F, !.info = I, !.next = n + 1]
<1>1. n \in Nat /\ n \in Fbs /\ n \in 0..MaxPixmaps /\ n + 1 \in 1..MaxPixmaps
  BY FieldFacts, NumberFacts
<1>2. F \in [Fbs -> Pixmap]
  BY <1>1, FieldFacts, NewPixmapFacts
<1>3. x \in Info
  <2>1. w.info[s] \in Info
    BY FieldFacts
  <2> QED
    BY <1>1, <2>1, ZenonT(40) DEF Info
<1>4. I \in [Slots -> Info]
  BY <1>3, FieldFacts
<1>5. CreatePixmap(w, s) = u
  BY Zenon DEF CreatePixmap, NewPixmap
<1> HIDE DEF F, I, n
<1>6. u \in Buffers
  BY <1>1, <1>2, <1>4, ZenonT(60) DEF Buffers
<1>7. u.info = I /\ u.fb = F /\ u.next = n + 1 /\ u.bad = w.bad
  BY DEF Buffers
<1>8. Alike(w, u)
  BY DEF Buffers, Alike
<1> QED
  BY <1>5, <1>6, <1>7, <1>8 DEF F, I, n

LEMMA LoadCore ==
  ASSUME NEW w, NEW s \in Slots, Core(w), w.info[s].made,
         w.info[s].loaded \/ w.next < MaxPixmaps
  PROVE  LET u == Load(w, s, TRUE) IN
         /\ Core(u) /\ Within(w, u, s) /\ Level(w, u, s)
         /\ u.info[s].made /\ u.info[s].loaded
         /\ u.next \in {w.next, w.next + 1} /\ (w.info[s].loaded => u = w)
<1> DEFINE u == Load(w, s, TRUE)
           x == w.info[s]
<1>1. w \in Buffers /\ x \in Info /\ InfoKept(w, s) /\ w.next \in Nat
  BY FieldFacts DEF Core
<1>2. CASE x.loaded
  <2>1. u = w
    BY <1>2 DEF Load
  <2> QED
    BY <1>2, <2>1 DEF Within, Alike, Level
<1>3. CASE ~x.loaded /\ w.type = "pixmap"
  <2> DEFINE y == [x EXCEPT !.loaded = TRUE]
             w1 == [w EXCEPT !.info[s] = y]
  <2>1. y \in Info /\ y.loaded /\ y.made = x.made /\ y.fb = x.fb /\ y.lock = x.lock
        /\ y.opens = x.opens /\ y.size = x.size
    BY <1>1 DEF Info
  <2> HIDE DEF y
  <2>2. /\ w1 \in Buffers /\ Alike(w, w1) /\ w1.info = [w.info EXCEPT ![s] = y]
        /\ w1.fb = w.fb /\ w1.next = w.next /\ w1.bad = w.bad
    BY <1>1, <2>1, InfoSet
  <2>3. x.fb = 0 /\ w1.info[s] = y /\ w1.type = "pixmap"
    BY <1>1, <1>3, <2>2, FieldFacts DEF InfoKept, Alike
  <2>4. u = PixmapRef(w1, s)
    BY <1>3, Zenon DEF Load, y
  <2> HIDE DEF w1
  <2>5. u = CreatePixmap(w1, s)
    BY <2>1, <2>3, <2>4, Zenon DEF PixmapRef, CanRef
  <2>6. /\ u \in Buffers /\ Alike(w1, u)
        /\ u.info = [w1.info EXCEPT ![s] = [@ EXCEPT !.fb = w1.next]]
        /\ u.fb = [w1.fb EXCEPT ![w1.next] = NewPixmap(w1, s)]
        /\ u.next = w1.next + 1 /\ u.bad = w1.bad
    <3>1. w1.next < MaxPixmaps
      BY <1>3, <2>2
    <3> DEFINE c == CreatePixmap(w1, s)
    <3>2. /\ c \in Buffers /\ Alike(w1, c)
          /\ c.info = [w1.info EXCEPT ![s] = [@ EXCEPT !.fb = w1.next]]
          /\ c.fb = [w1.fb EXCEPT ![w1.next] = NewPixmap(w1, s)]
          /\ c.next = w1.next + 1 /\ c.bad = w1.bad
      BY <2>2, <3>1, CreatePixmapFields
    <3>3. u = c
      BY <2>5
    <3> HIDE DEF c, u
    <3> QED
      BY <3>2, <3>3
  <2> HIDE DEF u
  <2>7. NewPixmap(w1, s) = NewPixmap(w, s)
    BY <2>1, <2>2, <2>3 DEF NewPixmap, IsScript, Alike
  <2>8. Within(w, u, s)
    BY <2>2, <2>6, FieldFacts DEF Within, Alike
  <2>9. /\ u.info[s].loaded /\ u.info[s].made /\ u.info[s].fb = w.next
        /\ u.info[s].lock = x.lock /\ Level(w, u, s)
    <3>1. u.info[s] = [y EXCEPT !.fb = w.next]
      BY <2>2, <2>3, <2>6, FieldFacts
    <3> QED
      BY <2>1, <3>1 DEF Info, Level
  <2>10. w.next \in Fbs
    BY <1>1, FieldFacts, NumberFacts
  <2>11. ~u.bad /\ u.fb = [w.fb EXCEPT ![w.next] = NewPixmap(w, s)] /\ u.next = w.next + 1
    BY <2>2, <2>6, <2>7 DEF Core
  <2>12. Core(u)
    BY <1>3, <2>3, <2>6, <2>8, <2>9, <2>10, <2>11, Minted
  <2> QED
    BY <1>3, <2>8, <2>9, <2>11, <2>12 DEF u
<1>4. CASE ~x.loaded /\ w.type # "pixmap"
  <2> DEFINE y == [x EXCEPT !.lock = @ + 1, !.loaded = TRUE]
             v == [w EXCEPT !.info[s] = y]
  <2>1. x.lock = 0 /\ x.fb = 0 /\ x.lock + 1 = 1
    BY <1>1, <1>4 DEF InfoKept
  <2>2. y \in Info /\ y.loaded /\ y.made = x.made /\ y.fb = 0 /\ y.lock = 1
        /\ y.opens = x.opens /\ y.size = x.size
    BY <1>1, <2>1, NumberFacts DEF Info
  <2> HIDE DEF y
  <2>3. /\ v \in Buffers /\ Alike(w, v) /\ v.info = [w.info EXCEPT ![s] = y]
        /\ v.fb = w.fb /\ v.next = w.next /\ v.bad = w.bad
    BY <1>1, <2>2, InfoSet
  <2>4. u = v
    <3> DEFINE z == [x EXCEPT !.lock = @ + 1]
               a == [w EXCEPT !.info[s] = z]
    <3>1. z \in Info /\ y = [z EXCEPT !.loaded = TRUE]
      BY <1>1, <2>1, NumberFacts DEF Info, y
    <3>2. a \in Buffers /\ Alike(w, a) /\ a.info = [w.info EXCEPT ![s] = z]
          /\ a.fb = w.fb /\ a.next = w.next /\ a.bad = w.bad
      BY <1>1, <3>1, InfoSet
    <3>3. u = [a EXCEPT !.info[s].loaded = TRUE]
      BY <1>4, Zenon DEF Load
    <3> HIDE DEF a, z
    <3>4. a.info[s] = z
      BY <1>1, <3>2, FieldFacts
    <3>5. u = [a EXCEPT !.info[s] = y]
      BY <3>1, <3>3, <3>4
    <3> DEFINE c == [a EXCEPT !.info[s] = y]
    <3>6. /\ c \in Buffers /\ Alike(a, c) /\ c.info = [a.info EXCEPT ![s] = y]
          /\ c.fb = a.fb /\ c.next = a.next /\ c.bad = a.bad
      BY <2>2, <3>2, InfoSet
    <3>7. u = c
      BY <3>5
    <3> HIDE DEF u, v, c
    <3>8. c.info = v.info
      BY <1>1, <2>3, <3>2, <3>6, FieldFacts
    <3>9. c = v
      BY <2>3, <3>2, <3>6, <3>8, Rewritten DEF Alike
    <3> QED
      BY <3>7, <3>9
  <2> HIDE DEF v
  <2>5. v.info[s] = y /\ \A t \in Slots \ {s} : v.info[t] = w.info[t]
    BY <1>1, <2>3, FieldFacts
  <2>6. \A t \in Slots : v.info[t].fb = w.info[t].fb
    BY <2>1, <2>2, <2>5
  <2>7. \A t \in Slots : InfoKept(v, t)
    <3>1. \A t \in Slots : IsScript(v, t) = IsScript(w, t)
      BY <2>3 DEF IsScript, Alike
    <3>2. InfoKept(v, s)
      BY <1>4, <2>2, <2>3, <2>5 DEF InfoKept, Alike
    <3> QED
      BY <2>3, <2>5, <3>1, <3>2 DEF InfoKept, Alike, Core
  <2>8. \A f \in Fbs : PixmapKept(v, f)
    <3>1. \A f \in Fbs : InUse(v, f) = InUse(w, f)
      BY <2>6 DEF InUse
    <3>2. \A f \in Fbs : Kept(v, f) = Kept(w, f)
      BY <2>3, KeepersSame DEF Alike
    <3> QED
      BY <2>3, <3>1, <3>2 DEF Core, PixmapKept
  <2>9. Apart(v)
    BY <2>6 DEF Core, Apart
  <2>10. Core(v)
    BY <2>3, <2>7, <2>8, <2>9, CoreFrom DEF Core
  <2> QED
    BY <2>2, <2>3, <2>4, <2>5, <2>10, <1>4 DEF Within, Level
<1> QED
  BY <1>1, <1>2, <1>3, <1>4

\* A change of one buffer that keeps its pixmap
LEMMA PlainCore ==
  ASSUME NEW w, NEW u \in Buffers, NEW s \in Slots, Core(w), Within(w, u, s),
         u.fb = w.fb, u.next = w.next, ~u.bad, u.info[s].fb = w.info[s].fb, InfoKept(u, s)
  PROVE  Core(u)
<1>1. Alike(w, u) /\ \A t \in Slots \ {s} : u.info[t] = w.info[t]
  BY DEF Within
<1>2. \A t \in Slots : u.info[t].fb = w.info[t].fb
  BY <1>1
<1>3. \A t \in Slots : InfoKept(u, t)
  <2>1. \A t \in Slots : IsScript(u, t) = IsScript(w, t)
    BY <1>1 DEF IsScript, Alike
  <2> QED
    BY <1>1, <2>1 DEF InfoKept, Alike, Core
<1>4. \A f \in Fbs : PixmapKept(u, f)
  <2>1. \A f \in Fbs : InUse(u, f) = InUse(w, f)
    BY <1>2 DEF InUse
  <2>2. \A f \in Fbs : Kept(u, f) = Kept(w, f)
    BY <1>1, KeepersSame DEF Alike
  <2> QED
    BY <2>1, <2>2 DEF Core, PixmapKept
<1>5. Apart(u)
  BY <1>2 DEF Core, Apart
<1> QED
  BY <1>1, <1>3, <1>4, <1>5, CoreFrom

LEMMA PixmapUnrefFields ==
  ASSUME NEW w \in Buffers, NEW f \in Fbs, Unref(w.fb[f], 1) \in Pixmap
  PROVE  LET u == PixmapUnref(w, f) IN
         /\ u \in Buffers /\ Alike(w, u) /\ u.info = w.info
         /\ u.fb = [w.fb EXCEPT ![f] = Unref(@, 1)] /\ u.next = w.next
         /\ u.bad = (w.bad \/ Lacks(w.fb[f], 1))
<1> DEFINE F == [w.fb EXCEPT ![f] = Unref(w.fb[f], 1)]
           d == w.bad \/ Lacks(w.fb[f], 1)
           u == [w EXCEPT !.fb = F, !.bad = d]
<1>1. F \in [Fbs -> Pixmap] /\ d \in BOOLEAN
  BY FieldFacts
<1>2. PixmapUnref(w, f) = u
  BY Zenon DEF PixmapUnref
<1> HIDE DEF F, d
<1>3. u \in Buffers
  BY <1>1, ZenonT(60) DEF Buffers
<1>4. u.info = w.info /\ u.fb = F /\ u.next = w.next /\ u.bad = d
  BY DEF Buffers
<1>5. Alike(w, u)
  BY DEF Buffers, Alike
<1> QED
  BY <1>2, <1>3, <1>4, <1>5 DEF F, d

LEMMA UnloadCore ==
  ASSUME NEW w, NEW s \in Slots, Core(w)
  PROVE  LET u == Unload(w, s) IN
         /\ Core(u) /\ Within(w, u, s) /\ Level(w, u, s)
         /\ u.info[s].made = w.info[s].made /\ ~u.info[s].loaded
         /\ u.info[s].fb = 0 /\ u.info[s].lock = 0 /\ u.next = w.next
<1> DEFINE u == Unload(w, s)
           x == w.info[s]
           a == IF w.type = "pixmap" THEN PixmapUnref(w, x.fb) ELSE [w EXCEPT !.info[s].lock = @ - 1]
           y == [a.info[s] EXCEPT !.loaded = FALSE, !.fb = 0]
<1>1. w \in Buffers /\ x \in Info /\ InfoKept(w, s) /\ ~w.bad
  BY FieldFacts DEF Core
<1>2. CASE ~x.loaded
  <2>1. u = w
    BY <1>2 DEF Unload
  <2> QED
    BY <1>1, <1>2, <2>1 DEF Within, Alike, Level, InfoKept
<1>3. CASE x.loaded
  <2>1. x.made /\ u = [a EXCEPT !.info[s] = y]
    BY <1>1, <1>3, Zenon DEF Unload, InfoKept
  <2>2. CASE w.type = "pixmap"
    <3> DEFINE f == x.fb
    <3>1. f \in Fbs
      BY <1>1, <1>3, <2>2, InfoFacts, NumberFacts DEF InfoKept, Fbs
    <3>2. w.fb[f] \in Pixmap /\ Unref(w.fb[f], 1) \in Pixmap /\ ~Lacks(w.fb[f], 1)
      <4>1. InUse(w, f) = 1
        BY DEF InUse
      <4>2. /\ w.fb[f] \in Pixmap /\ w.fb[f].st = "made" /\ w.fb[f].listed = 1
            /\ w.fb[f].maps = 0 /\ ~w.fb[f].data /\ w.fb[f].ref = 1 + Kept(w, f)
            /\ Kept(w, f) \in Nat
        BY <3>1, <4>1, UsedIsMade
      <4> QED
        BY <4>2, UnrefFacts
    <3>3. /\ a \in Buffers /\ Alike(w, a) /\ a.info = w.info /\ a.next = w.next /\ ~a.bad
          /\ a.fb = [w.fb EXCEPT ![f] = Unref(@, 1)]
      BY <1>1, <2>2, <3>1, <3>2, PixmapUnrefFields
    <3> HIDE DEF a
    <3>4. y \in Info /\ ~y.loaded /\ y.fb = 0 /\ y.made = x.made /\ y.opens = x.opens
          /\ y.size = x.size /\ y.lock = x.lock
      BY <1>1, <3>3, NumberFacts DEF Info
    <3>5. x.lock = 0
      BY <1>1, <2>2 DEF InfoKept
    <3> HIDE DEF y
    <3> DEFINE c == [a EXCEPT !.info[s] = y]
    <3>6. /\ c \in Buffers /\ Alike(a, c) /\ c.info = [a.info EXCEPT ![s] = y]
          /\ c.fb = a.fb /\ c.next = a.next /\ c.bad = a.bad
      BY <3>3, <3>4, InfoSet
    <3>7. u = c
      BY <2>1
    <3> HIDE DEF c, u
    <3>8. Within(w, c, s) /\ c.info[s] = y
      BY <3>3, <3>6, FieldFacts DEF Within, Alike
    <3>9. Core(c)
      <4>1. /\ c.next = w.next /\ ~c.bad /\ c.fb = [w.fb EXCEPT ![f] = Unref(@, 1)]
            /\ c.info[s].made /\ ~c.info[s].loaded /\ c.info[s].fb = 0 /\ c.info[s].lock = 0
        BY <2>1, <3>3, <3>4, <3>5, <3>6, <3>8
      <4> QED
        BY <3>1, <3>6, <3>8, <4>1, Dropped, Zenon
    <3> QED
      BY <3>3, <3>4, <3>5, <3>6, <3>7, <3>8, <3>9 DEF u, Level
  <2>3. CASE w.type # "pixmap"
    <3> DEFINE z == [x EXCEPT !.lock = @ - 1]
               e == [w EXCEPT !.info[s] = z]
    <3>1. x.lock = 1 /\ x.fb = 0 /\ x.lock - 1 = 0
      BY <1>1, <1>3, <2>3 DEF InfoKept
    <3>2. z \in Info /\ z.lock = 0 /\ z.fb = 0 /\ z.made = x.made /\ z.opens = x.opens
          /\ z.size = x.size
      BY <1>1, <3>1, NumberFacts DEF Info
    <3> HIDE DEF z
    <3>3. /\ e \in Buffers /\ Alike(w, e) /\ e.info = [w.info EXCEPT ![s] = z]
          /\ e.fb = w.fb /\ e.next = w.next /\ e.bad = w.bad
      BY <1>1, <3>2, InfoSet
    <3>4. a = e
      BY <2>3, Zenon DEF z
    <3> HIDE DEF a, e
    <3>5. e.info[s] = z
      BY <1>1, <3>3, FieldFacts
    <3>6. y \in Info /\ ~y.loaded /\ y.fb = 0 /\ y.made = x.made /\ y.opens = x.opens
          /\ y.size = x.size /\ y.lock = 0
      BY <1>1, <3>2, <3>4, <3>5, NumberFacts DEF Info
    <3> HIDE DEF y
    <3> DEFINE c == [e EXCEPT !.info[s] = y]
    <3>7. /\ c \in Buffers /\ Alike(e, c) /\ c.info = [e.info EXCEPT ![s] = y]
          /\ c.fb = e.fb /\ c.next = e.next /\ c.bad = e.bad
      BY <3>3, <3>6, InfoSet
    <3>8. u = c
      BY <2>1, <3>4
    <3> HIDE DEF c, u
    <3>9. Within(w, c, s) /\ c.info[s] = y
      BY <1>1, <3>3, <3>7, FieldFacts DEF Within, Alike
    <3>10. InfoKept(c, s)
      BY <2>1, <3>6, <3>9 DEF InfoKept
    <3>11. Core(c)
      BY <1>1, <3>1, <3>3, <3>6, <3>7, <3>9, <3>10, PlainCore
    <3> QED
      BY <3>3, <3>6, <3>7, <3>8, <3>9, <3>11 DEF u, Level
  <2> QED
    BY <2>2, <2>3
<1> QED
  BY <1>1, <1>2, <1>3 DEF Info
-----------------------------------------------------------------------------
(* Buffers are made, resized and destroyed *)

LEMMA CreateCore ==
  ASSUME NEW w, NEW s \in Slots, Core(w)
  PROVE  LET u == Create(w, s) IN
         /\ Core(u) /\ Within(w, u, s) /\ u.next = w.next
         /\ u.info[s].made /\ u.info[s].loaded = w.info[s].loaded
         /\ u.info[s].fb = w.info[s].fb /\ u.info[s].opens = w.info[s].opens
<1> DEFINE u == Create(w, s)
           x == w.info[s]
           y == [NoInfo EXCEPT !.made = TRUE]
           c == [w EXCEPT !.info[s] = y]
<1>1. w \in Buffers /\ x \in Info /\ InfoKept(w, s)
  BY FieldFacts DEF Core
<1>2. CASE x.made
  <2>1. u = w
    BY <1>2 DEF Create
  <2> QED
    BY <1>2, <2>1 DEF Within, Alike
<1>3. CASE ~x.made
  <2>1. ~x.loaded /\ x.fb = 0 /\ x.lock = 0 /\ x.opens = 0
    BY <1>1, <1>3, InfoFacts DEF InfoKept
  <2>2. y \in Info /\ y.made /\ ~y.loaded /\ y.fb = 0 /\ y.lock = 0 /\ y.opens = 0
    BY NoInfoFacts DEF Info
  <2>3. u = c
    BY <1>3 DEF Create
  <2>4. x.loaded = y.loaded
    BY <1>1, <2>1, <2>2, InfoFacts
  <2> HIDE DEF y, u
  <2>5. Core(c) /\ Within(w, c, s) /\ c.info[s] = y /\ c.next = w.next
    BY <2>1, <2>2, <2>4, InfoChanged
  <2> HIDE DEF c
  <2> QED
    BY <2>1, <2>2, <2>3, <2>4, <2>5 DEF u
<1> QED
  BY <1>2, <1>3

LEMMA SizeCore ==
  ASSUME NEW w, NEW s \in Slots, NEW size \in Sizes, Core(w)
  PROVE  LET u == [w EXCEPT !.info[s].size = size] IN
         /\ Core(u) /\ Within(w, u, s) /\ u.next = w.next
         /\ u.info[s].made = w.info[s].made /\ u.info[s].loaded = w.info[s].loaded
         /\ u.info[s].fb = w.info[s].fb /\ u.info[s].opens = w.info[s].opens
<1> DEFINE x == w.info[s]
           y == [x EXCEPT !.size = size]
           c == [w EXCEPT !.info[s] = y]
<1>1. x \in Info /\ InfoKept(w, s)
  BY FieldFacts DEF Core
<1>2. y \in Info /\ y.made = x.made /\ y.loaded = x.loaded /\ y.fb = x.fb /\ y.lock = x.lock
      /\ y.opens = x.opens
  BY <1>1 DEF Info
<1>3. y.loaded \/ y.opens > 0 => y.made
  BY <1>1, <1>2 DEF InfoKept
<1> HIDE DEF y
<1>4. Core(c) /\ Within(w, c, s) /\ c.info[s] = y /\ c.next = w.next
  BY <1>2, <1>3, InfoChanged
<1>5. [w EXCEPT !.info[s].size = size] = c
  BY Zenon DEF y
<1> HIDE DEF c
<1> QED
  BY <1>2, <1>4, <1>5

LEMMA OpensCore ==
  ASSUME NEW w, NEW s \in Slots, NEW n \in 0..MaxHeld, Core(w), w.info[s].made
  PROVE  LET u == [w EXCEPT !.info[s].opens = n] IN
         /\ Core(u) /\ Within(w, u, s) /\ u.next = w.next
         /\ u.info[s].made /\ u.info[s].loaded = w.info[s].loaded
         /\ u.info[s].fb = w.info[s].fb /\ u.info[s].opens = n
<1> DEFINE x == w.info[s]
           y == [x EXCEPT !.opens = n]
           c == [w EXCEPT !.info[s] = y]
<1>1. x \in Info
  BY FieldFacts DEF Core
<1>2. y \in Info /\ y.made /\ y.loaded = x.loaded /\ y.fb = x.fb /\ y.lock = x.lock
      /\ y.opens = n
  BY <1>1 DEF Info
<1> HIDE DEF y
<1>3. Core(c) /\ Within(w, c, s) /\ c.info[s] = y /\ c.next = w.next
  BY <1>2, InfoChanged
<1>4. [w EXCEPT !.info[s].opens = n] = c
  BY Zenon DEF y
<1> HIDE DEF c
<1> QED
  BY <1>2, <1>3, <1>4

LEMMA WithinTrans ==
  ASSUME NEW w, NEW u, NEW v, NEW s, Within(w, u, s), Within(u, v, s)
  PROVE  Within(w, v, s)
BY DEF Within, Alike

\* A buffer that is loaded is loaded anew, once.
LEMMA ResizeCore ==
  ASSUME NEW w, NEW s \in Slots, NEW size \in Sizes, Core(w),
         w.info[s].loaded => w.next < MaxPixmaps
  PROVE  LET u == Resize(w, s, size, TRUE) IN
         /\ Core(u) /\ Within(w, u, s)
         /\ u.info[s].made = w.info[s].made /\ u.info[s].loaded = w.info[s].loaded
         /\ u.info[s].opens = w.info[s].opens
         /\ u.next \in {w.next, w.next + 1} /\ (u.next # w.next => u.info[s].loaded)
<1> DEFINE u == [w EXCEPT !.info[s].size = size]
           v == Unload(u, s)
           z == Load(v, s, TRUE)
           r == Resize(w, s, size, TRUE)
<1>1. w.info[s].made \in BOOLEAN /\ w.info[s].loaded \in BOOLEAN /\ InfoKept(w, s)
  BY FieldFacts, InfoFacts DEF Core
<1>2. Core(u) /\ Within(w, u, s) /\ u.next = w.next
      /\ u.info[s].made = w.info[s].made /\ u.info[s].loaded = w.info[s].loaded
      /\ u.info[s].opens = w.info[s].opens
  BY SizeCore
<1>3. r = IF w.info[s].size = size THEN w ELSE IF w.info[s].loaded THEN z ELSE u
  BY Zenon DEF Resize
<1> HIDE DEF u, r
<1>4. CASE w.info[s].size = size \/ ~w.info[s].loaded
  <2>1. r = w \/ r = u
    BY <1>3, <1>4
  <2>2. Within(w, w, s)
    BY DEF Within, Alike
  <2> QED
    BY <1>2, <2>1, <2>2 DEF r
<1>5. CASE w.info[s].size # size /\ w.info[s].loaded
  <2>1. Core(v) /\ Within(u, v, s) /\ Level(u, v, s) /\ v.next = u.next
        /\ v.info[s].made = u.info[s].made
    BY <1>2, UnloadCore
  <2> HIDE DEF v
  <2>2. v.info[s].made /\ v.next < MaxPixmaps
    BY <1>1, <1>2, <1>5, <2>1 DEF InfoKept
  <2>3. Core(z) /\ Within(v, z, s) /\ Level(v, z, s) /\ z.info[s].made /\ z.info[s].loaded
        /\ z.next \in {v.next, v.next + 1}
    BY <2>1, <2>2, LoadCore
  <2> HIDE DEF z
  <2>4. Within(w, z, s)
    BY <1>2, <2>1, <2>3, WithinTrans
  <2> QED
    BY <1>1, <1>2, <1>3, <1>5, <2>1, <2>2, <2>3, <2>4 DEF r, Level
<1> QED
  BY <1>1, <1>4, <1>5

LEMMA DestroyCore ==
  ASSUME NEW w, NEW s \in Slots, Core(w)
  PROVE  LET u == Destroy(w, s) IN
         Core(u) /\ Within(w, u, s) /\ u.next = w.next /\ u.info[s] = NoInfo
<1> DEFINE v == Unload(w, s)
           c == [v EXCEPT !.info[s] = NoInfo]
<1>1. Core(v) /\ Within(w, v, s) /\ ~v.info[s].loaded /\ v.info[s].fb = 0
      /\ v.info[s].lock = 0 /\ v.next = w.next
  BY UnloadCore
<1>2. Destroy(w, s) = c
  BY DEF Destroy
<1> HIDE DEF v
<1>3. v.info[s].loaded = NoInfo.loaded
  BY <1>1, NoInfoFacts, FieldFacts, InfoFacts DEF Core
<1>4. Core(c) /\ Within(v, c, s) /\ c.info[s] = NoInfo /\ c.next = v.next
  BY <1>1, <1>3, NoInfoFacts, InfoChanged
<1> HIDE DEF c
<1> QED
  BY <1>1, <1>2, <1>4, WithinTrans
-----------------------------------------------------------------------------
(* Scripts: the master takes and gives back what it draws into             *)

LEMMA PixmapSet ==
  ASSUME NEW w \in Buffers, NEW f \in Fbs, NEW p \in Pixmap
  PROVE  LET u == [w EXCEPT !.fb[f] = p] IN
         /\ u \in Buffers /\ Alike(w, u) /\ u.fb = [w.fb EXCEPT ![f] = p]
         /\ u.info = w.info /\ u.next = w.next /\ u.bad = w.bad
<1> DEFINE F == [w.fb EXCEPT ![f] = p]
           u == [w EXCEPT !.fb = F]
<1>1. F \in [Fbs -> Pixmap]
  BY FieldFacts
<1> HIDE DEF F
<1>2. u \in Buffers
  BY <1>1, ZenonT(60) DEF Buffers
<1>3. u.fb = F /\ u.info = w.info /\ u.next = w.next /\ u.bad = w.bad
  BY DEF Buffers
<1>4. Alike(w, u)
  BY DEF Buffers, Alike
<1> QED
  BY <1>2, <1>3, <1>4 DEF F

LEMMA PixmapRefFields ==
  ASSUME NEW w, NEW s \in Slots, NEW f \in Fbs, Core(w), CanRef(w, s), w.info[s].fb = f
  PROVE  LET u == PixmapRef(w, s) IN
         /\ u \in Buffers /\ Alike(w, u) /\ u.fb = [w.fb EXCEPT ![f] = [w.fb[f] EXCEPT !.ref = @ + 1]]
         /\ u.info = w.info /\ u.next = w.next /\ ~u.bad
<1> DEFINE p == [w.fb[f] EXCEPT !.ref = @ + 1]
           F == [w.fb EXCEPT ![f] = p]
           d == w.bad \/ w.fb[f].st # "made"
           u == [w EXCEPT !.fb = F, !.bad = d]
<1>1. w \in Buffers /\ f # 0 /\ w.bad \in BOOLEAN
  BY NumberFacts, FieldFacts DEF Core
<1>2. w.fb[f] \in Pixmap /\ w.fb[f].st = "made"
  <2>1. InUse(w, f) = 1
    BY DEF InUse
  <2> QED
    BY <2>1, UsedIsMade
<1>3. d = FALSE
  BY <1>2 DEF Core
<1>4. p \in Pixmap
  BY <1>2, PixmapFacts DEF Pixmap
<1>5. F \in [Fbs -> Pixmap]
  BY <1>1, <1>4, FieldFacts
<1>6. PixmapRef(w, s) = u
  BY <1>1, Zenon DEF PixmapRef
<1> HIDE DEF F, d, p
<1>7. u \in Buffers
  BY <1>1, <1>3, <1>5, ZenonT(60) DEF Buffers
<1>8. u.fb = F /\ u.info = w.info /\ u.next = w.next /\ u.bad = d
  BY <1>1 DEF Buffers
<1>9. Alike(w, u)
  BY <1>1 DEF Buffers, Alike
<1> QED
  BY <1>3, <1>6, <1>7, <1>8, <1>9 DEF F, p

LEMMA BufferFbSame ==
  ASSUME NEW w, NEW s \in Slots, Core(w), IsScript(w, s)
  PROVE  BufferFb(w, s) = w /\ Frame(w, s) = w
<1> DEFINE f == w.info[s].fb
           u == AcquireBuffer(w, s)
<1>1. w \in Buffers /\ InfoKept(w, s) /\ w.info[s] \in Info
  BY FieldFacts DEF Core
<1>2. CASE ~CanRef(w, s)
  <2>1. f = 0 /\ PixmapRef(w, s) = w
    BY <1>1, <1>2 DEF InfoKept, CanRef, PixmapRef
  <2>2. u = w
    BY <2>1 DEF AcquireBuffer
  <2>3. ReleaseBuffer(w, 0) = w
    BY Zenon DEF ReleaseBuffer
  <2> QED
    BY <2>1, <2>2, <2>3, Zenon DEF BufferFb, Frame
<1>3. CASE CanRef(w, s)
  <2> DEFINE w1 == PixmapRef(w, s)
             p == w.fb[f]
             p1 == [p EXCEPT !.ref = @ + 1]
             p2 == [p1 EXCEPT !.maps = @ + 1, !.data = TRUE]
             d == p2.maps > 1
             p3 == [p2 EXCEPT !.data = d, !.maps = @ - 1]
             w2 == [w1 EXCEPT !.fb[f] = p2]
             w3 == [w2 EXCEPT !.fb[f] = p3]
             w4 == PixmapUnref(w3, f)
  <2>1. f \in Fbs /\ f # 0 /\ w.info[s].fb = f
    BY <1>1, <1>3, InfoFacts, NumberFacts DEF InfoKept, CanRef, Fbs
  <2> HIDE DEF f
  <2>2. p \in Pixmap /\ p.st = "made" /\ p.maps = 0 /\ p.data = FALSE /\ p.gem = TRUE
        /\ p.ref \in Nat /\ p.ref >= 1
    <3>1. InUse(w, f) = 1
      BY <2>1 DEF InUse
    <3>2. p \in Pixmap /\ p.st = "made" /\ p.maps = 0 /\ ~p.data
          /\ p.ref = 1 + Kept(w, f) /\ Kept(w, f) \in Nat
      BY <2>1, <3>1, UsedIsMade
    <3>3. p.gem /\ p.gem \in BOOLEAN /\ p.data \in BOOLEAN
      BY <1>1, <2>1, <3>2, PixmapFacts DEF InfoKept
    <3> QED
      BY <3>2, <3>3
  <2> HIDE DEF p
  <2>3. /\ p1 \in Pixmap /\ p1.st = "made" /\ p1.ref = p.ref + 1 /\ p1.gem = TRUE
        /\ p1.maps = 0 /\ p1.data = FALSE /\ p1.listed = p.listed /\ p1.size = p.size
    BY <2>2 DEF Pixmap
  <2> HIDE DEF p1
  <2>4. /\ p2 \in Pixmap /\ p2.st = "made" /\ p2.ref = p.ref + 1 /\ p2.gem = TRUE
        /\ p2.maps = 1 /\ p2.data = TRUE /\ p2.listed = p.listed /\ p2.size = p.size
    <3>1. p1.maps + 1 \in Nat
      BY <2>3
    <3>2. p2 \in Pixmap
      BY <2>3, <3>1, ZenonT(40) DEF Pixmap
    <3> QED
      BY <2>3, <3>2 DEF Pixmap
  <2> HIDE DEF p2
  <2>5. /\ p3 \in Pixmap /\ p3.st = "made" /\ p3.ref = p.ref + 1 /\ p3.gem = TRUE
        /\ p3.maps = 0 /\ p3.data = FALSE /\ p3.listed = p.listed /\ p3.size = p.size
    <3>1. p2.maps - 1 \in Nat /\ p2.maps - 1 = 0 /\ d = FALSE /\ d \in BOOLEAN
      BY <2>4
    <3> HIDE DEF d
    <3>2. p3 \in Pixmap
      BY <2>4, <3>1, ZenonT(40) DEF Pixmap
    <3> QED
      BY <2>4, <3>1, <3>2 DEF Pixmap
  <2> HIDE DEF p3
  <2>6. Unref(p3, 1) = p /\ Lacks(p3, 1) = FALSE
    <3> DEFINE q == [p3 EXCEPT !.ref = @ - 1]
    <3>1. Unref(p3, 1) = q /\ Lacks(p3, 1) = FALSE
      BY <2>2, <2>5 DEF Unref, Lacks
    <3>2. p3.ref - 1 = p.ref
      BY <2>2, <2>5
    <3>3. q \in Pixmap
      BY <2>2, <2>5, <3>2, ZenonT(40) DEF Pixmap
    <3>4. /\ q.st = p.st /\ q.ref = p.ref /\ q.gem = p.gem /\ q.maps = p.maps
          /\ q.data = p.data /\ q.listed = p.listed /\ q.size = p.size
      BY <2>2, <2>5, <3>2 DEF Pixmap
    <3> HIDE DEF q
    <3>5. q = p
      BY <2>2, <3>3, <3>4 DEF Pixmap
    <3> QED
      BY <3>1, <3>5
  <2>7. /\ w1 \in Buffers /\ Alike(w, w1) /\ w1.fb = [w.fb EXCEPT ![f] = p1]
        /\ w1.info = w.info /\ w1.next = w.next /\ ~w1.bad
    BY <1>3, <2>1, PixmapRefFields DEF p1, p
  <2> HIDE DEF w1
  <2>8. w1.fb[f] = p1 /\ w1.info[s].fb = f
    BY <1>1, <2>1, <2>7, FieldFacts
  <2>9. u = AcquireGem(w1, f)
    BY <2>1, <2>3, <2>8, Zenon DEF AcquireBuffer, w1
  <2>10. AcquireGem(w1, f) = w2
    BY <2>8, Zenon DEF AcquireGem, p2
  <2>11. /\ w2 \in Buffers /\ Alike(w1, w2) /\ w2.fb = [w1.fb EXCEPT ![f] = p2]
         /\ w2.info = w1.info /\ w2.next = w1.next /\ w2.bad = w1.bad
    BY <2>1, <2>4, <2>7, PixmapSet
  <2> HIDE DEF w2
  <2>12. w2.fb[f] = p2 /\ w2.info[s].fb = f
    BY <2>1, <2>7, <2>8, <2>11, FieldFacts
  <2>13. ReleaseGem(w2, f) = w3
    BY <2>12, Zenon DEF ReleaseGem, p3, d
  <2>14. /\ w3 \in Buffers /\ Alike(w2, w3) /\ w3.fb = [w2.fb EXCEPT ![f] = p3]
         /\ w3.info = w2.info /\ w3.next = w2.next /\ w3.bad = w2.bad
    BY <2>1, <2>5, <2>11, PixmapSet
  <2> HIDE DEF w3
  <2>15. w3.fb[f] = p3
    BY <2>1, <2>11, <2>14, FieldFacts
  <2>16. ReleaseBuffer(w2, f) = w4
    BY <2>1, <2>4, <2>12, <2>13, Zenon DEF ReleaseBuffer
  <2>17. /\ w4 \in Buffers /\ Alike(w3, w4) /\ w4.info = w3.info
         /\ w4.fb = [w3.fb EXCEPT ![f] = p] /\ w4.next = w3.next /\ w4.bad = w3.bad
    <3>1. Unref(w3.fb[f], 1) = p /\ Lacks(w3.fb[f], 1) = FALSE /\ w3.bad \in BOOLEAN
      BY <2>6, <2>14, <2>15, FieldFacts
    <3>2. /\ w4 \in Buffers /\ Alike(w3, w4) /\ w4.info = w3.info
          /\ w4.fb = [w3.fb EXCEPT ![f] = Unref(@, 1)] /\ w4.next = w3.next
          /\ w4.bad = (w3.bad \/ Lacks(w3.fb[f], 1))
      <4>1. Unref(w3.fb[f], 1) \in Pixmap
        BY <2>2, <3>1
      <4> QED
        BY <2>1, <2>14, <4>1, PixmapUnrefFields
    <3> HIDE DEF w4
    <3> QED
      BY <3>1, <3>2
  <2> HIDE DEF w4
  <2>18. w4.fb = w.fb
    <3>1. w.fb \in [Fbs -> Pixmap] /\ w4.fb \in [Fbs -> Pixmap]
      BY <1>1, <2>17, FieldFacts
    <3>2. w4.fb = [[[[w.fb EXCEPT ![f] = p1] EXCEPT ![f] = p2] EXCEPT ![f] = p3] EXCEPT ![f] = p]
      BY <2>7, <2>11, <2>14, <2>17
    <3>3. \A g \in Fbs : w4.fb[g] = w.fb[g]
      BY <3>1, <3>2 DEF p
    <3> QED
      BY <3>1, <3>3
  <2>19. w4 = w
    <3>1. Alike(w, w4) /\ w4.info = w.info /\ w4.next = w.next /\ w4.bad = w.bad
      BY <1>1, <2>7, <2>11, <2>14, <2>17, FieldFacts DEF Alike, Core
    <3> QED
      BY <1>1, <2>17, <2>18, <3>1, Rewritten
  <2> QED
    BY <2>9, <2>10, <2>12, <2>16, <2>19, Zenon DEF BufferFb, Frame
<1> QED
  BY <1>2, <1>3

LEMMA ScriptSame ==
  ASSUME NEW w, NEW u, NEW s, Within(w, u, s)
  PROVE  IsScript(u, s) = IsScript(w, s)
BY DEF IsScript, Within, Alike

\* What a frame draws leaves no trace: a canvas is loaded and unloaded as a buffer is.
LEMMA ScriptBuffers ==
  ASSUME NEW w, NEW s \in Slots, Core(w), IsScript(w, s)
  PROVE  /\ FreeFb(w, s) = Unload(w, s)
         /\ w.info[s].made /\ w.next < MaxPixmaps =>
              /\ AllocFb(w, s, TRUE) = Load(w, s, TRUE)
              /\ CreateEcoreEvas(w, s, TRUE) = Load(w, s, TRUE)
<1>1. FreeFb(w, s) = Unload(w, s)
  BY BufferFbSame DEF FreeFb
<1>2. ASSUME w.info[s].made, w.next < MaxPixmaps
      PROVE  /\ AllocFb(w, s, TRUE) = Load(w, s, TRUE)
             /\ CreateEcoreEvas(w, s, TRUE) = Load(w, s, TRUE)
  <2> DEFINE u == Load(w, s, TRUE)
  <2>1. Core(u) /\ Within(w, u, s)
    BY <1>2, LoadCore
  <2>2. IsScript(u, s)
    BY <2>1, ScriptSame
  <2> HIDE DEF u
  <2>3. BufferFb(u, s) = u /\ Frame(u, s) = u
    BY <2>1, <2>2, BufferFbSame
  <2> QED
    BY <2>3 DEF u, AllocFb, CreateEcoreEvas
<1> QED
  BY <1>1, <1>2

\* A script is opened once more, or not at all.
LEMMA ScriptLoadCore ==
  ASSUME NEW w, NEW s \in Slots, NEW file \in BOOLEAN, Core(w), IsScript(w, s),
         w.info[s].made, w.next < MaxPixmaps, w.info[s].opens < MaxHeld
  PROVE  LET u == ScriptLoad(w, s, file, TRUE) IN
         /\ Core(u) /\ Within(w, u, s) /\ u.info[s].made
         /\ u.next \in {w.next, w.next + 1}
         /\ u.info[s].opens \in {w.info[s].opens, w.info[s].opens + 1}
<1> DEFINE n == w.info[s].opens
           u == ScriptLoad(w, s, file, TRUE)
<1>1. n \in 0..MaxHeld /\ n + 1 \in 0..MaxHeld /\ w.next \in Nat
  <2>1. n \in 0..MaxHeld /\ w.next \in 1..MaxPixmaps
    BY FieldFacts, InfoFacts DEF Core
  <2> QED
    BY <2>1, NumberFacts
<1>2. CASE n > 0
  <2> DEFINE v == [w EXCEPT !.info[s].opens = n + 1]
  <2>1. u = v
    BY <1>2, Zenon DEF ScriptLoad
  <2>2. Core(v) /\ Within(w, v, s) /\ v.next = w.next /\ v.info[s].made
        /\ v.info[s].opens = n + 1
    BY <1>1, OpensCore
  <2> QED
    BY <2>1, <2>2
<1>3. CASE ~(n > 0)
  <2> DEFINE l == Load(w, s, TRUE)
  <2>1. n = 0
    BY <1>1, <1>3
  <2>2. Core(l) /\ Within(w, l, s) /\ Level(w, l, s) /\ l.info[s].made
        /\ l.next \in {w.next, w.next + 1}
    BY LoadCore
  <2>3. IsScript(l, s)
    BY <2>2, ScriptSame
  <2>4. u = IF file THEN [l EXCEPT !.info[s].opens = 1] ELSE FreeFb(l, s)
    BY <1>3, ScriptBuffers, Zenon DEF ScriptLoad, PortLoad
  <2> HIDE DEF l, u
  <2>5. CASE file
    <3> DEFINE v == [l EXCEPT !.info[s].opens = 1]
    <3>1. Core(v) /\ Within(l, v, s) /\ v.next = l.next /\ v.info[s].made /\ v.info[s].opens = 1
      <4> DEFINE k == 1
                 z == [l EXCEPT !.info[s].opens = k]
      <4>1. k \in 0..MaxHeld
        BY NumberFacts
      <4> HIDE DEF k
      <4>2. Core(z) /\ Within(l, z, s) /\ z.next = l.next /\ z.info[s].made /\ z.info[s].opens = k
        BY <2>2, <4>1, OpensCore
      <4> QED
        BY <4>2 DEF k
    <3>2. u = v
      BY <2>4, <2>5
    <3> HIDE DEF v
    <3>3. Within(w, v, s)
      BY <2>2, <3>1, WithinTrans
    <3>4. v.info[s].opens \in {n, n + 1} /\ v.next \in {w.next, w.next + 1}
      BY <2>1, <2>2, <3>1
    <3> QED
      BY <3>1, <3>2, <3>3, <3>4, Zenon DEF u
  <2>6. CASE ~file
    <3> DEFINE v == Unload(l, s)
    <3>1. Core(v) /\ Within(l, v, s) /\ Level(l, v, s) /\ v.next = l.next
          /\ v.info[s].made = l.info[s].made
      BY <2>2, UnloadCore
    <3>2. u = v
      BY <2>2, <2>3, <2>4, <2>6, ScriptBuffers
    <3> HIDE DEF v
    <3>3. Within(w, v, s)
      BY <2>2, <3>1, WithinTrans
    <3> QED
      BY <2>2, <3>1, <3>2, <3>3 DEF u, Level
  <2> QED
    BY <2>5, <2>6
<1> QED
  BY <1>2, <1>3

LEMMA ScriptUnloadCore ==
  ASSUME NEW w, NEW s \in Slots, Core(w), IsScript(w, s)
  PROVE  LET u == ScriptUnload(w, s) IN
         /\ Core(u) /\ Within(w, u, s) /\ u.info[s].made = w.info[s].made
         /\ u.next = w.next
         /\ u.info[s].opens = IF w.info[s].opens = 0 THEN 0 ELSE w.info[s].opens - 1
<1> DEFINE n == w.info[s].opens
           v == [w EXCEPT !.info[s].opens = n - 1]
           z == Unload(v, s)
           u == ScriptUnload(w, s)
<1>1. n \in 0..MaxHeld /\ InfoKept(w, s) /\ w.info[s].made \in BOOLEAN
  BY FieldFacts, InfoFacts DEF Core
<1>2. CASE n = 0
  <2>1. u = w
    BY <1>2 DEF ScriptUnload
  <2> QED
    BY <1>2, <2>1 DEF Within, Alike
<1>3. CASE n # 0
  <2>1. n - 1 \in 0..MaxHeld /\ w.info[s].made
    BY <1>1, <1>3, NumberFacts DEF InfoKept
  <2>2. Core(v) /\ Within(w, v, s) /\ v.next = w.next /\ v.info[s].made
        /\ v.info[s].opens = n - 1
    BY <2>1, OpensCore
  <2>3. IsScript(v, s)
    BY <2>2, ScriptSame
  <2>4. u = IF v.info[s].opens > 0 THEN v ELSE FreeFb(v, s)
    BY <1>3, Zenon DEF ScriptUnload
  <2> HIDE DEF v
  <2>5. u = v \/ u = z
    BY <2>2, <2>3, <2>4, ScriptBuffers
  <2>6. Core(z) /\ Within(v, z, s) /\ Level(v, z, s) /\ z.next = v.next
        /\ z.info[s].made = v.info[s].made
    BY <2>2, UnloadCore
  <2> HIDE DEF z, u
  <2>7. Within(w, z, s)
    BY <2>2, <2>6, WithinTrans
  <2> QED
    BY <1>3, <2>1, <2>2, <2>5, <2>6, <2>7 DEF u, Level
<1> QED
  BY <1>2, <1>3

LEMMA ScriptResizeCore ==
  ASSUME NEW w, NEW s \in Slots, NEW size \in Sizes, Core(w), IsScript(w, s),
         w.next < MaxPixmaps
  PROVE  LET u == ScriptResize(w, s, size, TRUE) IN
         /\ Core(u) /\ Within(w, u, s) /\ u.info[s].made = w.info[s].made
         /\ u.next \in {w.next, w.next + 1} /\ u.info[s].opens = w.info[s].opens
<1> DEFINE v == [w EXCEPT !.info[s].size = size]
           f == Unload(v, s)
           l == Load(f, s, TRUE)
           u == ScriptResize(w, s, size, TRUE)
<1>1. InfoKept(w, s)
  BY DEF Core
<1>2. Core(v) /\ Within(w, v, s) /\ v.next = w.next
      /\ v.info[s].made = w.info[s].made /\ v.info[s].opens = w.info[s].opens
  BY SizeCore
<1>3. u = IF w.info[s].opens > 0 /\ w.info[s].size # size THEN AllocFb(FreeFb(v, s), s, TRUE)
          ELSE v
  BY Zenon DEF ScriptResize
<1>4. IsScript(v, s)
  BY <1>2, ScriptSame
<1> HIDE DEF v, u
<1>5. CASE w.info[s].opens > 0 /\ w.info[s].size # size
  <2>1. FreeFb(v, s) = f
    BY <1>2, <1>4, ScriptBuffers
  <2>2. Core(f) /\ Within(v, f, s) /\ Level(v, f, s) /\ f.next = v.next
        /\ f.info[s].made = v.info[s].made
    BY <1>2, UnloadCore
  <2> HIDE DEF f
  <2>3. IsScript(f, s) /\ f.info[s].made /\ f.next < MaxPixmaps
    BY <1>1, <1>2, <1>4, <1>5, <2>2, ScriptSame DEF InfoKept
  <2>4. AllocFb(f, s, TRUE) = l
    BY <2>2, <2>3, ScriptBuffers
  <2>5. Core(l) /\ Within(f, l, s) /\ Level(f, l, s) /\ l.info[s].made
        /\ l.next \in {f.next, f.next + 1}
    BY <2>2, <2>3, LoadCore
  <2>6. u = l
    BY <1>3, <1>5, <2>1, <2>4
  <2> HIDE DEF l
  <2>7. Within(w, l, s)
    BY <1>2, <2>2, <2>5, WithinTrans
  <2>8. w.info[s].made /\ l.info[s].made /\ w.info[s].made = l.info[s].made
    BY <1>2, <2>2, <2>3, <2>5, FieldFacts, InfoFacts DEF Core
  <2> QED
    BY <1>2, <2>2, <2>5, <2>6, <2>7, <2>8 DEF u, Level
<1>6. CASE ~(w.info[s].opens > 0 /\ w.info[s].size # size)
  BY <1>2, <1>3, <1>6 DEF u
<1> QED
  BY <1>5, <1>6
-----------------------------------------------------------------------------
(* The instance *)

\* A change of the instance that leaves its memory alone
Elsewhere(w, u) ==
  /\ u.type = w.type /\ u.use = w.use /\ u.scripts = w.scripts /\ u.gem = w.gem
  /\ u.info = w.info /\ u.fb = w.fb /\ u.next = w.next
  /\ u.held = w.held /\ u.given = w.given /\ u.bad = w.bad

LEMMA ElsewhereCore ==
  ASSUME NEW w, NEW u \in Buffers, Core(w), Elsewhere(w, u)
  PROVE  Core(u)
<1>1. \A f \in Fbs : Keepers(u, f) = Keepers(w, f) /\ Kept(u, f) = Kept(w, f)
  BY KeepersSame DEF Elsewhere
<1>2. \A s \in Slots : InfoKept(u, s)
  <2>1. \A s \in Slots : IsScript(u, s) = IsScript(w, s)
    BY DEF IsScript, Elsewhere
  <2> QED
    BY <2>1 DEF InfoKept, Elsewhere, Core
<1>3. \A f \in Fbs : PixmapKept(u, f)
  <2>1. \A f \in Fbs : InUse(u, f) = InUse(w, f)
    BY DEF InUse, Elsewhere
  <2> QED
    BY <1>1, <2>1 DEF PixmapKept, Elsewhere, Core
<1> QED
  BY <1>1, <1>2, <1>3 DEF Core, Apart, Elsewhere

LEMMA StateSet ==
  ASSUME NEW w \in Buffers, NEW inst \in Insts
  PROVE  LET u == [w EXCEPT !.inst = inst] IN
         /\ u \in Buffers /\ Elsewhere(w, u) /\ u.told = w.told
         /\ u.inst = inst /\ u.reopen = w.reopen
<1> DEFINE u == [w EXCEPT !.inst = inst]
<1>1. u \in Buffers
  BY ZenonT(60) DEF Buffers
<1>2. u.told = w.told /\ u.inst = inst /\ u.reopen = w.reopen
  BY DEF Buffers
<1>3. Elsewhere(w, u)
  BY DEF Buffers, Elsewhere
<1> QED
  BY <1>1, <1>2, <1>3

LEMMA MonitorsSet ==
  ASSUME NEW w \in Buffers, NEW mon \in SUBSET Monitors
  PROVE  LET u == [w EXCEPT !.mon = mon] IN
         /\ u \in Buffers /\ Elsewhere(w, u) /\ u.told = w.told
         /\ u.inst = w.inst /\ u.reopen = w.reopen /\ u.mon = mon
<1> DEFINE u == [w EXCEPT !.mon = mon]
<1>1. u \in Buffers
  BY ZenonT(60) DEF Buffers
<1>2. u.told = w.told /\ u.inst = w.inst /\ u.reopen = w.reopen /\ u.mon = mon
  BY DEF Buffers
<1>3. Elsewhere(w, u)
  BY DEF Buffers, Elsewhere
<1> QED
  BY <1>1, <1>2, <1>3

LEMMA CreateUsedCore ==
  ASSUME NEW w, NEW s \in Slots, Core(w)
  PROVE  LET u == CreateUsed(w, s) IN
         /\ Core(u) /\ Within(w, u, s) /\ u.next = w.next
         /\ s \in w.use => u.info[s].made
         /\ w.info[s].made => u.info[s].made
         /\ u.info[s].made => w.info[s].made \/ s \in w.use
         /\ u.info[s].opens = w.info[s].opens
<1>1. CASE s \in w.use
  <2> DEFINE u == Create(w, s)
  <2>1. Core(u) /\ Within(w, u, s) /\ u.next = w.next /\ u.info[s].made
        /\ u.info[s].opens = w.info[s].opens
    BY CreateCore
  <2>2. CreateUsed(w, s) = u
    BY <1>1 DEF CreateUsed
  <2> HIDE DEF u
  <2> QED
    BY <1>1, <2>1, <2>2
<1>2. CASE s \notin w.use
  <2>1. CreateUsed(w, s) = w
    BY <1>2 DEF CreateUsed
  <2> QED
    BY <1>2, <2>1 DEF Within, Alike
<1> QED
  BY <1>1, <1>2

LEMMA UnloadUsedCore ==
  ASSUME NEW w, NEW s \in Slots, Core(w)
  PROVE  LET u == UnloadUsed(w, s) IN
         /\ Core(u) /\ Within(w, u, s) /\ u.next = w.next
         /\ u.info[s].made = w.info[s].made
         /\ u.info[s].opens = IF s \in w.use /\ IsScript(w, s) /\ w.info[s].opens # 0
                              THEN w.info[s].opens - 1 ELSE w.info[s].opens
<1> DEFINE u == UnloadUsed(w, s)
           a == ScriptUnload(w, s)
           c == Unload(w, s)
<1>1. CASE s \in w.use /\ IsScript(w, s)
  <2>1. u = a
    BY <1>1 DEF UnloadUsed, UnloadMain
  <2>2. Core(a) /\ Within(w, a, s) /\ a.info[s].made = w.info[s].made /\ a.next = w.next
        /\ a.info[s].opens = IF w.info[s].opens = 0 THEN 0 ELSE w.info[s].opens - 1
    BY <1>1, ScriptUnloadCore
  <2> HIDE DEF a, u
  <2> QED
    BY <1>1, <2>1, <2>2 DEF u
<1>2. CASE s \in w.use /\ ~IsScript(w, s)
  <2>1. u = c
    BY <1>2 DEF UnloadUsed, UnloadMain
  <2>2. Core(c) /\ Within(w, c, s) /\ c.info[s].made = w.info[s].made /\ c.next = w.next
        /\ c.info[s].opens = w.info[s].opens
    BY UnloadCore DEF Level
  <2> HIDE DEF c, u
  <2> QED
    BY <1>2, <2>1, <2>2 DEF u
<1>3. CASE s \notin w.use
  <2>1. u = w
    BY <1>3 DEF UnloadUsed
  <2> QED
    BY <1>3, <2>1 DEF Within, Alike
<1> QED
  BY <1>1, <1>2, <1>3

LEMMA DestroyUsedCore ==
  ASSUME NEW w, NEW s \in Slots, Core(w)
  PROVE  LET u == DestroyUsed(w, s) IN
         /\ Core(u) /\ Within(w, u, s) /\ u.next = w.next
         /\ u.info[s].made => w.info[s].made
         /\ u.info[s].opens <= w.info[s].opens
<1> DEFINE u == DestroyUsed(w, s)
           a == ScriptUnload(w, s)
           c == Unload(w, s)
<1>0. w.info[s].opens \in Nat /\ NoInfo.opens = 0 /\ ~NoInfo.made
  BY FieldFacts, InfoFacts, NoInfoFacts DEF Core
<1>1. CASE s \in w.use /\ IsScript(w, s)
  <2> DEFINE d == Destroy(a, s)
  <2>1. Core(a) /\ Within(w, a, s) /\ a.info[s].made = w.info[s].made /\ a.next = w.next
        /\ a.info[s].opens = IF w.info[s].opens = 0 THEN 0 ELSE w.info[s].opens - 1
    BY <1>1, ScriptUnloadCore
  <2>2. u = a \/ u = d
    BY <1>1, Zenon DEF DestroyUsed, ScriptDestroy
  <2> HIDE DEF a
  <2>3. Core(d) /\ Within(a, d, s) /\ d.next = a.next /\ d.info[s] = NoInfo
    BY <2>1, DestroyCore
  <2> HIDE DEF d, u
  <2>4. Within(w, d, s)
    BY <2>1, <2>3, WithinTrans
  <2> QED
    BY <1>0, <2>1, <2>2, <2>3, <2>4 DEF u
<1>2. CASE s \in w.use /\ ~IsScript(w, s)
  <2> DEFINE d == Destroy(c, s)
  <2>1. Core(c) /\ Within(w, c, s) /\ c.next = w.next
    BY UnloadCore
  <2>2. u = d
    BY <1>2, Zenon DEF DestroyUsed
  <2> HIDE DEF c
  <2>3. Core(d) /\ Within(c, d, s) /\ d.next = c.next /\ d.info[s] = NoInfo
    BY <2>1, DestroyCore
  <2> HIDE DEF d, u
  <2>4. Within(w, d, s)
    BY <2>1, <2>3, WithinTrans
  <2> QED
    BY <1>0, <2>1, <2>2, <2>3, <2>4 DEF u
<1>3. CASE s \notin w.use
  <2>1. u = w
    BY <1>3 DEF DestroyUsed
  <2> QED
    BY <1>0, <2>1 DEF Within, Alike
<1> QED
  BY <1>1, <1>2, <1>3
-----------------------------------------------------------------------------
(* What keeps Living *)

\* A request on one of the main buffers
LEMMA LivingMain ==
  ASSUME NEW w, NEW u, NEW s \in Mains, Living(w), Core(u), Within(w, u, s),
         u.info[s].made => w.info[s].made \/ s \in w.use,
         w.info[s].made => u.info[s].made,
         s = "widget" => u.info[s].opens = w.info[s].opens
  PROVE  Living(u)
<1>1. Alike(w, u) /\ \A t \in Slots \ {s} : u.info[t] = w.info[t]
  BY DEF Within
<1>2. \A t \in Slots : u.info[t].made => t \in u.use
  BY <1>1 DEF Living, Alike
<1>3. \A t \in Slots : w.info[t].made => u.info[t].made
  BY <1>1
<1>4. \A t \in Extra : u.info[t] = w.info[t]
  BY <1>1, SlotFacts
<1>5. u.info["widget"].opens = w.info["widget"].opens
  BY <1>1, SlotFacts
<1>6. IsScript(u, "widget") = IsScript(w, "widget")
  BY <1>1 DEF IsScript, Alike
<1>7. u.inst \notin {"new", "freed"} => \A t \in u.use \ Extra : u.info[t].made
  <2>1. u.use = w.use /\ u.use \subseteq Slots /\ u.inst = w.inst
    BY <1>1, FieldFacts DEF Alike, Core
  <2> QED
    BY <1>3, <2>1 DEF Living
<1>8. u.inst # "freed" /\ u.reopen => u.info["gbar"].made
  BY <1>1, <1>3, SlotFacts DEF Living, Alike
<1> QED
  BY <1>1, <1>2, <1>4, <1>5, <1>6, <1>7, <1>8 DEF Living, Alike

\* A change of the monitors or of the clients
LEMMA LivingElsewhere ==
  ASSUME NEW w, NEW u, Living(w), Elsewhere(w, u), u.inst = w.inst, u.reopen = w.reopen,
         u.told = w.told
  PROVE  Living(u)
<1>1. IsScript(u, "widget") = IsScript(w, "widget")
  BY DEF IsScript, Elsewhere
<1> QED
  BY <1>1 DEF Living, Elsewhere

\* The script of the widget is loaded by an instance that runs.
LEMMA LivingOpened ==
  ASSUME NEW w, NEW u, NEW m \in Mains, m = "widget", Living(w), Core(w), Within(w, u, m),
         w.inst = "active", w.info[m].made, u.info[m].made,
         u.info[m].opens \in {0, 1}, u.info[m].opens > 0 => IsScript(w, m)
  PROVE  Living(u)
<1>1. Alike(w, u) /\ \A t \in Slots \ {m} : u.info[t] = w.info[t]
  BY DEF Within
<1>2. u.info[m].opens > 0 => IsScript(u, m)
  BY <1>1 DEF IsScript, Alike
<1>3. \A t \in Slots : u.info[t].made <=> w.info[t].made
  BY <1>1
<1>4. u.inst = "active" /\ u.use = w.use /\ u.reopen = w.reopen /\ u.told = w.told
  BY <1>1 DEF Alike
<1>5. \A t \in Extra : u.told[t] = u.info[t].fb
  BY <1>1, <1>4, SlotFacts DEF Living
<1>6. \A t \in u.use \ Extra : u.info[t].made
  <2>1. w.use \subseteq Slots
    BY FieldFacts DEF Core
  <2> QED
    BY <1>3, <1>4, <2>1 DEF Living
<1>7. u.reopen => u.info["gbar"].made
  BY <1>3, <1>4, SlotFacts DEF Living
<1>8. \A t \in Slots : u.info[t].made => t \in u.use
  BY <1>3, <1>4 DEF Living
<1> QED
  BY <1>2, <1>4, <1>5, <1>6, <1>7, <1>8 DEF Living

\* A request on an extra buffer, of which the viewers are told
LEMMA LivingExtra ==
  ASSUME NEW w, NEW u, NEW s \in Extra, Living(w), Core(u),
         u.use = w.use, u.scripts = w.scripts, u.inst = w.inst, u.reopen = w.reopen,
         \A t \in Slots \ {s} : u.info[t] = w.info[t],
         u.info[s].made => w.info[s].made \/ s \in w.use,
         \A t \in Extra \ {s} : u.told[t] = w.told[t],
         u.inst # "freed" => u.told[s] = u.info[s].fb
  PROVE  Living(u)
<1>1. \A t \in Mains : u.info[t] = w.info[t]
  BY SlotFacts
<1>2. IsScript(u, "widget") = IsScript(w, "widget")
  BY DEF IsScript
<1>3. \A t \in Slots : u.info[t].made => t \in u.use
  BY DEF Living
<1>4. \A t \in u.use \ Extra : u.info[t] = w.info[t]
  BY FieldFacts, SlotFacts DEF Core
<1>5. u.inst # "freed" => \A t \in Extra : u.told[t] = u.info[t].fb
  BY SlotFacts DEF Living
<1> QED
  BY <1>1, <1>2, <1>3, <1>4, <1>5, SlotFacts DEF Living
-----------------------------------------------------------------------------
(* The life of the instance *)

LEMMA RenewKeeps ==
  ASSUME BufferInv, Renew
  PROVE  BufferInv'
<1> DEFINE u == [b EXCEPT !.inst = "renewing"]
<1>1. b \in Buffers /\ Core(b) /\ Living(b) /\ b.inst = "reset" /\ b' = u
  BY DEF BufferInv, Core, Renew
<1>2. "renewing" \in Insts
  BY DEF Insts
<1>3. /\ u \in Buffers /\ Elsewhere(b, u) /\ u.told = b.told
      /\ u.inst = "renewing" /\ u.reopen = b.reopen
  BY <1>1, <1>2, StateSet
<1> HIDE DEF u
<1>4. Core(u)
  BY <1>1, <1>3, ElsewhereCore
<1>5. IsScript(u, "widget") = IsScript(b, "widget")
  BY <1>3 DEF IsScript, Elsewhere
<1>6. Living(u)
  BY <1>1, <1>3, <1>5 DEF Living, Elsewhere
<1> QED
  BY <1>1, <1>4, <1>6 DEF BufferInv

LEMMA DestroyRequestedKeeps ==
  ASSUME BufferInv, DestroyRequested
  PROVE  BufferInv'
<1> DEFINE u == [b EXCEPT !.inst = "destroyed"]
<1>1. b \in Buffers /\ Core(b) /\ Living(b) /\ b.inst = "active" /\ b' = u
  BY DEF BufferInv, Core, DestroyRequested
<1>2. "destroyed" \in Insts
  BY DEF Insts
<1>3. /\ u \in Buffers /\ Elsewhere(b, u) /\ u.told = b.told
      /\ u.inst = "destroyed" /\ u.reopen = b.reopen
  BY <1>1, <1>2, StateSet
<1> HIDE DEF u
<1>4. Core(u)
  BY <1>1, <1>3, ElsewhereCore
<1>5. IsScript(u, "widget") = IsScript(b, "widget")
  BY <1>3 DEF IsScript, Elsewhere
<1>6. Living(u)
  BY <1>1, <1>3, <1>5 DEF Living, Elsewhere
<1> QED
  BY <1>1, <1>4, <1>6 DEF BufferInv

LEMMA MonitorChanged ==
  ASSUME NEW w, NEW mon \in SUBSET Monitors, Core(w), Living(w)
  PROVE  LET u == [w EXCEPT !.mon = mon] IN
         Core(u) /\ Living(u) /\ Elsewhere(w, u) /\ u.inst = w.inst /\ u.mon = mon
<1> DEFINE u == [w EXCEPT !.mon = mon]
<1>1. /\ u \in Buffers /\ Elsewhere(w, u) /\ u.told = w.told
      /\ u.inst = w.inst /\ u.reopen = w.reopen /\ u.mon = mon
  BY MonitorsSet DEF Core
<1> HIDE DEF u
<1>2. Core(u) /\ Living(u)
  BY <1>1, ElsewhereCore, LivingElsewhere
<1> QED
  BY <1>1, <1>2 DEF u

LEMMA MonitorExpiresKeeps ==
  ASSUME BufferInv, MonitorExpires
  PROVE  BufferInv'
<1>1. PICK m \in b.mon : b' = [b EXCEPT !.mon = @ \ {m}]
  BY DEF MonitorExpires
<1> DEFINE mon == b.mon \ {m}
<1>2. mon \in SUBSET Monitors /\ Core(b) /\ Living(b)
  BY FieldFacts DEF BufferInv, Core
<1>3. b' = [b EXCEPT !.mon = mon]
  BY <1>1
<1> HIDE DEF mon
<1>4. Core([b EXCEPT !.mon = mon]) /\ Living([b EXCEPT !.mon = mon])
  BY <1>2, MonitorChanged
<1> QED
  BY <1>3, <1>4, Zenon DEF BufferInv

LEMMA ClientConnectsKeeps ==
  ASSUME BufferInv, ClientConnects
  PROVE  BufferInv'
<1>1. PICK c \in Clients \ b.live : b' = [b EXCEPT !.live = @ \cup {c}]
  BY DEF ClientConnects
<1> DEFINE live == b.live \cup {c}
           u == [b EXCEPT !.live = live]
<1>2. b \in Buffers /\ Core(b) /\ Living(b)
  BY DEF BufferInv, Core
<1>3. live \in SUBSET Clients /\ b' = u
  BY <1>1, <1>2, FieldFacts
<1> HIDE DEF live
<1>4. u \in Buffers
  BY <1>2, <1>3, ZenonT(60) DEF Buffers
<1>5. u.told = b.told /\ u.inst = b.inst /\ u.reopen = b.reopen
  BY <1>2 DEF Buffers
<1>6. Elsewhere(b, u)
  BY <1>2 DEF Buffers, Elsewhere
<1> HIDE DEF u
<1>7. Core(u) /\ Living(u)
  BY <1>2, <1>4, <1>5, <1>6, ElsewhereCore, LivingElsewhere
<1> QED
  BY <1>3, <1>7 DEF BufferInv

\* The bar is opened and closed: a script at once, the slave is waited for.
LEMMA CreateGbarKeeps ==
  ASSUME BufferInv, Supplied, CreateGbar
  PROVE  BufferInv'
<1>1. PICK file \in BOOLEAN, ok \in Fails :
        /\ b.inst = "active" /\ "gbar" \in b.use /\ Room
        /\ IF IsScript(b, "gbar")
           THEN b.info["gbar"].opens < MaxHeld /\ b' = ScriptLoad(b, "gbar", file, ok)
           ELSE b.mon = {} /\ b' = [b EXCEPT !.mon = {"open"}]
  BY DEF CreateGbar
<1>2. Core(b) /\ Living(b) /\ ok = TRUE /\ b.next < MaxPixmaps /\ b.use \subseteq Slots
  BY <1>1, FieldFacts DEF BufferInv, Supplied, Fails, Room, Core
<1>3. CASE IsScript(b, "gbar")
  <2> DEFINE s == "gbar"
             u == ScriptLoad(b, s, file, TRUE)
  <2>1. s \in Mains /\ s \in Slots /\ s \in b.use /\ s # "widget" /\ s \notin Extra
    BY <1>1, <1>2, SlotFacts
  <2>2. IsScript(b, s) /\ b.info[s].opens < MaxHeld /\ b' = u
    BY <1>1, <1>2, <1>3
  <2> HIDE DEF s
  <2>3. b.info[s].made
    BY <1>1, <1>2, <2>1 DEF Living
  <2>4. Core(u) /\ Within(b, u, s) /\ u.info[s].made
    BY <1>2, <2>1, <2>2, <2>3, ScriptLoadCore
  <2> HIDE DEF u
  <2>5. Living(u)
    BY <1>2, <2>1, <2>3, <2>4, LivingMain
  <2> QED
    BY <2>2, <2>4, <2>5 DEF BufferInv
<1>4. CASE ~IsScript(b, "gbar")
  <2> DEFINE mon == {"open"}
  <2>1. mon \in SUBSET Monitors /\ b' = [b EXCEPT !.mon = mon]
    BY <1>1, <1>4 DEF Monitors
  <2> HIDE DEF mon
  <2>2. Core([b EXCEPT !.mon = mon]) /\ Living([b EXCEPT !.mon = mon])
    BY <1>2, <2>1, MonitorChanged
  <2> QED
    BY <2>1, <2>2, Zenon DEF BufferInv
<1> QED
  BY <1>3, <1>4

LEMMA DestroyGbarKeeps ==
  ASSUME BufferInv, DestroyGbar
  PROVE  BufferInv'
<1>1. Core(b) /\ Living(b) /\ "gbar" \in b.use /\ b.mon \subseteq Monitors
  BY FieldFacts DEF BufferInv, DestroyGbar, Core
<1>2. CASE IsScript(b, "gbar")
  <2> DEFINE s == "gbar"
             u == ScriptUnload(b, s)
  <2>1. s \in Mains /\ s \in Slots /\ s # "widget" /\ IsScript(b, s) /\ b' = u
    BY <1>2, SlotFacts DEF DestroyGbar
  <2> HIDE DEF s
  <2>2. Core(u) /\ Within(b, u, s) /\ u.info[s].made = b.info[s].made
    BY <1>1, <2>1, ScriptUnloadCore
  <2> HIDE DEF u
  <2>3. Living(u)
    BY <1>1, <2>1, <2>2, LivingMain
  <2> QED
    BY <2>1, <2>2, <2>3 DEF BufferInv
<1>3. CASE ~IsScript(b, "gbar")
  <2> DEFINE mon == IF b.mon = {} THEN {"close"}
                    ELSE IF "open" \in b.mon THEN b.mon \ {"open"} ELSE b.mon \ {"resize"}
  <2>1. mon \in SUBSET Monitors
    BY <1>1 DEF Monitors
  <2>2. b' = [b EXCEPT !.mon = mon]
    BY <1>3 DEF DestroyGbar
  <2> HIDE DEF mon
  <2>3. Core([b EXCEPT !.mon = mon]) /\ Living([b EXCEPT !.mon = mon])
    BY <1>1, <2>1, MonitorChanged
  <2> QED
    BY <2>2, <2>3, Zenon DEF BufferInv
<1> QED
  BY <1>2, <1>3

\* The buffers of the instance are there, its slots are those of w.
Touched(w, u) == Alike(w, u) /\ \A t \in Extra : u.info[t] = w.info[t]

LEMMA TouchedWithin ==
  ASSUME NEW w, NEW u, NEW s \in Mains, Within(w, u, s)
  PROVE  Touched(w, u)
BY SlotFacts DEF Within, Touched

LEMMA TouchedTrans ==
  ASSUME NEW w, NEW u, NEW v, Touched(w, u), Touched(u, v)
  PROVE  Touched(w, v)
BY DEF Touched, Alike

LEMMA ActivatedKeeps ==
  ASSUME BufferInv, Supplied, Activated
  PROVE  BufferInv'
<1>1. PICK file \in BOOLEAN, ok \in Fails :
        b.inst = "new" /\ Room /\ b' = Activate(b, file, ok)
  BY DEF Activated
<1>2. Core(b) /\ Living(b) /\ ok = TRUE /\ b.next < MaxPixmaps
  BY <1>1 DEF BufferInv, Supplied, Fails, Room
<1> DEFINE m == "widget"
           g == "gbar"
           u == CreateUsed(b, m)
           v == CreateUsed(u, g)
           a == [v EXCEPT !.inst = "active"]
           z == ScriptLoad(a, m, file, TRUE)
<1>3. m \in Slots /\ g \in Slots /\ m \in Mains /\ g \in Mains /\ m # g
      /\ m \notin Extra /\ g \notin Extra /\ (\A t \in Slots \ Extra : t \in {m, g})
  BY SlotFacts DEF Mains
<1>4. b' = IF m \in b.use /\ IsScript(b, m) THEN z ELSE a
  BY <1>1, <1>2 DEF Activate
<1>5. b.info[m].opens = 0
  BY <1>1, <1>2 DEF Living
<1> HIDE DEF m, g
<1>6. /\ Core(u) /\ Within(b, u, m) /\ u.next = b.next
      /\ m \in b.use => u.info[m].made
      /\ u.info[m].made => b.info[m].made \/ m \in b.use
      /\ u.info[m].opens = b.info[m].opens
  BY <1>2, <1>3, CreateUsedCore
<1> HIDE DEF u
<1>7. /\ Core(v) /\ Within(u, v, g) /\ v.next = u.next
      /\ g \in u.use => v.info[g].made
      /\ v.info[g].made => u.info[g].made \/ g \in u.use
  BY <1>3, <1>6, CreateUsedCore
<1> HIDE DEF v
<1>8. v \in Buffers /\ "active" \in Insts
  BY <1>7 DEF Core, Insts
<1>9. a \in Buffers /\ Elsewhere(v, a) /\ a.told = v.told /\ a.inst = "active" /\ a.reopen = v.reopen
  BY <1>8, StateSet
<1> HIDE DEF a
<1>10. Core(a)
  BY <1>7, <1>9, ElsewhereCore
<1>11. Touched(b, u) /\ Touched(u, v) /\ Touched(b, v)
  BY <1>3, <1>6, <1>7, TouchedWithin, TouchedTrans
<1>12. /\ a.use = b.use /\ a.scripts = b.scripts /\ a.told = b.told /\ a.reopen = b.reopen
       /\ \A t \in Extra : a.info[t] = b.info[t]
       /\ a.next = b.next
  BY <1>6, <1>7, <1>9, <1>11 DEF Touched, Alike, Elsewhere
<1>13. a.info[m] = u.info[m] /\ a.info[g] = v.info[g] /\ u.info[g] = b.info[g] /\ u.use = b.use
  BY <1>3, <1>6, <1>7, <1>9 DEF Within, Alike, Elsewhere
<1>14. IsScript(a, m) = IsScript(b, m)
  BY <1>12 DEF IsScript
<1>15. Living(a)
  <2>1. ASSUME NEW t \in Slots, a.info[t].made PROVE t \in a.use
    <3>1. CASE t \in Extra
      BY <1>2, <1>12, <2>1, <3>1 DEF Living
    <3>2. CASE t = m
      BY <1>2, <1>3, <1>6, <1>12, <1>13, <2>1, <3>2 DEF Living
    <3>3. CASE t = g
      BY <1>2, <1>3, <1>7, <1>12, <1>13, <2>1, <3>3 DEF Living
    <3> QED
      BY <1>3, <3>1, <3>2, <3>3
  <2>2. \A t \in a.use \ Extra : a.info[t].made
    <3>1. a.use \subseteq Slots
      BY <1>9, FieldFacts
    <3> QED
      BY <1>3, <1>6, <1>7, <1>12, <1>13, <3>1
  <2>3. b.reopen => a.info[g].made
    <3>1. b.reopen => b.info[g].made
      BY <1>1, <1>2 DEF Living, g
    <3> QED
      BY <1>2, <1>3, <1>7, <1>13, <3>1 DEF Living
  <2>4. a.info[m].opens = 0
    BY <1>5, <1>6, <1>13
  <2>5. \A t \in Extra : a.told[t] = a.info[t].fb
    BY <1>1, <1>2, <1>12 DEF Living
  <2> QED
    BY <1>9, <1>12, <2>1, <2>2, <2>3, <2>4, <2>5 DEF Living, m, g
<1>16. CASE m \in b.use /\ IsScript(b, m)
  <2>1. a.info[m].made /\ a.info[m].opens = 0 /\ a.info[m].opens < MaxHeld /\ a.next < MaxPixmaps
    BY <1>2, <1>5, <1>6, <1>12, <1>13, <1>16, NumberFacts
  <2>2. Core(z) /\ Within(a, z, m) /\ z.info[m].made
        /\ z.info[m].opens \in {a.info[m].opens, a.info[m].opens + 1}
    BY <1>3, <1>10, <1>14, <1>16, <2>1, ScriptLoadCore
  <2> HIDE DEF z
  <2>3. z.info[m].opens \in {0, 1}
    BY <2>1, <2>2
  <2>4. Living(z)
    BY <1>3, <1>9, <1>10, <1>14, <1>15, <1>16, <2>1, <2>2, <2>3, LivingOpened DEF m
  <2> QED
    BY <1>4, <1>16, <2>2, <2>4 DEF BufferInv
<1>17. CASE ~(m \in b.use /\ IsScript(b, m))
  BY <1>4, <1>10, <1>15, <1>17 DEF BufferInv
<1> QED
  BY <1>16, <1>17

LEMMA SlaveLostKeeps ==
  ASSUME BufferInv, SlaveLost
  PROVE  BufferInv'
<1> DEFINE m == "widget"
           g == "gbar"
           u == UnloadUsed(b, m)
           v == UnloadUsed(u, g)
           inst == "reset"
           mon == {}
           reopen == IF IsScript(b, g) THEN b.info[g].opens > 0 ELSE b.info[g].loaded
           z == [v EXCEPT !.inst = inst, !.mon = mon, !.reopen = reopen]
<1>1. Core(b) /\ Living(b) /\ b.inst \in {"active", "renewing"} /\ b' = StateReset(b)
  BY DEF BufferInv, SlaveLost
<1>2. b' = z
  BY <1>1, Zenon DEF StateReset
<1>3. m \in Slots /\ g \in Slots /\ m \in Mains /\ g \in Mains /\ m # g
      /\ m \notin Extra /\ g \notin Extra
  BY SlotFacts
<1>4. inst \in Insts /\ mon \in SUBSET Monitors /\ inst \notin {"new", "freed"}
  BY DEF Insts
<1>5. inst \in {"new", "reset", "renewing"}
  OBVIOUS
<1>6. reopen \in BOOLEAN /\ (reopen => b.info[g].made)
  <2>1. b.info[g].loaded \in BOOLEAN /\ InfoKept(b, g)
    BY <1>1, <1>3, FieldFacts, InfoFacts DEF Core
  <2>2. (b.info[g].opens > 0) \in BOOLEAN
    OBVIOUS
  <2>3. b.info[g].loaded \/ b.info[g].opens > 0 => b.info[g].made
    BY <2>1 DEF InfoKept
  <2> QED
    BY <2>1, <2>2, <2>3, Zenon
<1>7. b.info[m].opens \in 0..1 /\ (b.info[m].opens > 0 => IsScript(b, m))
  <2>1. b.info[m].opens \in 0..MaxHeld
    BY <1>1, <1>3, FieldFacts, InfoFacts DEF Core
  <2> QED
    BY <1>1, <2>1, NumberFacts DEF Living
<1>8. b.info[m].opens > 0 => m \in b.use
  <2>1. InfoKept(b, m)
    BY <1>1, <1>3 DEF Core
  <2> QED
    BY <1>1, <1>3, <2>1 DEF InfoKept, Living
<1> HIDE DEF inst, mon, reopen
<1>9. /\ Core(u) /\ Within(b, u, m) /\ u.info[m].made = b.info[m].made
      /\ u.info[m].opens = IF m \in b.use /\ IsScript(b, m) /\ b.info[m].opens # 0
                           THEN b.info[m].opens - 1 ELSE b.info[m].opens
  BY <1>1, <1>3, UnloadUsedCore
<1> HIDE DEF u
<1>10. Core(v) /\ Within(u, v, g) /\ v.info[g].made = u.info[g].made /\ v \in Buffers
  BY <1>3, <1>9, UnloadUsedCore DEF Core
<1> HIDE DEF v
<1>11. /\ z \in Buffers /\ Elsewhere(v, z) /\ z.told = v.told
       /\ z.inst = inst /\ z.reopen = reopen
  <2>1. inst \in Insts /\ mon \in SUBSET Monitors /\ reopen \in BOOLEAN /\ v \in Buffers
    BY <1>4, <1>6, <1>10
  <2>2. z \in Buffers
    BY <2>1, ZenonT(60) DEF Buffers
  <2>3. z.told = v.told /\ z.inst = inst /\ z.reopen = reopen
    BY <2>1 DEF Buffers
  <2>4. Elsewhere(v, z)
    BY <2>1 DEF Buffers, Elsewhere
  <2> QED
    BY <2>2, <2>3, <2>4
<1> HIDE DEF z
<1>12. Core(z)
  BY <1>10, <1>11, ElsewhereCore
<1>13. Touched(b, u) /\ Touched(u, v) /\ Touched(b, v)
  BY <1>3, <1>9, <1>10, TouchedWithin, TouchedTrans
<1>14. /\ z.use = b.use /\ z.scripts = b.scripts /\ z.told = b.told
       /\ \A t \in Extra : z.info[t] = b.info[t]
  BY <1>11, <1>13 DEF Touched, Alike, Elsewhere
<1>15. \A t \in Slots : z.info[t].made = b.info[t].made
  <2>1. \A t \in Slots : u.info[t].made = b.info[t].made
    BY <1>9 DEF Within
  <2>2. \A t \in Slots : v.info[t].made = u.info[t].made
    BY <1>10 DEF Within
  <2> QED
    BY <1>11, <2>1, <2>2 DEF Elsewhere
<1>16. z.info[m].opens = 0
  <2>1. z.info[m] = u.info[m]
    BY <1>3, <1>10, <1>11 DEF Within, Elsewhere
  <2> QED
    BY <1>7, <1>8, <1>9, <2>1
<1>17. \A t \in z.use \ Extra : z.info[t].made
  <2>1. z.use \subseteq Slots
    BY <1>11, FieldFacts
  <2> QED
    BY <1>1, <1>14, <1>15, <2>1 DEF Living
<1>18. \A t \in Slots : z.info[t].made => t \in z.use
  BY <1>1, <1>14, <1>15 DEF Living
<1>19. \A t \in Extra : z.told[t] = z.info[t].fb
  BY <1>1, <1>14 DEF Living
<1>20. z.reopen => z.info[g].made
  BY <1>3, <1>6, <1>11, <1>15
<1>21. Living(z)
  BY <1>16, <1>17, <1>18, <1>19, <1>20 DEF Living, m, g
<1> QED
  BY <1>2, <1>12, <1>21 DEF BufferInv

\* Nothing is left of the instance; what its viewers hold stays.
LEMMA DestroyedKeeps ==
  ASSUME BufferInv, Destroyed
  PROVE  BufferInv'
<1> DEFINE m == "widget"
           g == "gbar"
           x == "widget_extra"
           y == "gbar_extra"
           u1 == DestroyUsed(b, m)
           u2 == DestroyUsed(u1, g)
           u3 == DestroyUsed(u2, x)
           u4 == DestroyUsed(u3, y)
           inst == "freed"
           mon == {}
           z == [u4 EXCEPT !.inst = inst, !.mon = mon]
<1>1. Core(b) /\ Living(b) /\ b' = DestroyInstance(b)
  BY DEF BufferInv, Destroyed
<1>2. b' = z
  BY <1>1, Zenon DEF DestroyInstance
<1>3. /\ m \in Slots /\ g \in Slots /\ x \in Slots /\ y \in Slots
      /\ m # g /\ m # x /\ m # y
  BY DEF Slots
<1>4. inst \in Insts /\ mon \in SUBSET Monitors
  BY DEF Insts
<1>5. b.info[m].opens \in Nat
  BY <1>1, <1>3, FieldFacts, InfoFacts DEF Core
<1> HIDE DEF m, g, x, y, mon
<1>6. /\ Core(u1) /\ Within(b, u1, m) /\ u1.info[m].opens <= b.info[m].opens
      /\ u1.info[m].made => b.info[m].made
  BY <1>1, <1>3, DestroyUsedCore
<1> HIDE DEF u1
<1>7. Core(u2) /\ Within(u1, u2, g) /\ (u2.info[g].made => u1.info[g].made)
  BY <1>3, <1>6, DestroyUsedCore
<1> HIDE DEF u2
<1>8. Core(u3) /\ Within(u2, u3, x) /\ (u3.info[x].made => u2.info[x].made)
  BY <1>3, <1>7, DestroyUsedCore
<1> HIDE DEF u3
<1>9. Core(u4) /\ Within(u3, u4, y) /\ (u4.info[y].made => u3.info[y].made)
  BY <1>3, <1>8, DestroyUsedCore
<1> HIDE DEF u4
<1>10. /\ u4.use = b.use /\ u4.scripts = b.scripts /\ u4 \in Buffers
  BY <1>6, <1>7, <1>8, <1>9 DEF Within, Alike, Core
<1>11. u4.info[m] = u1.info[m]
  BY <1>3, <1>7, <1>8, <1>9 DEF Within
<1>12. \A t \in Slots : u4.info[t].made => b.info[t].made
  <2>1. \A t \in Slots : u1.info[t].made => b.info[t].made
    BY <1>6 DEF Within
  <2>2. \A t \in Slots : u2.info[t].made => u1.info[t].made
    BY <1>7 DEF Within
  <2>3. \A t \in Slots : u3.info[t].made => u2.info[t].made
    BY <1>8 DEF Within
  <2>4. \A t \in Slots : u4.info[t].made => u3.info[t].made
    BY <1>9 DEF Within
  <2> QED
    BY <2>1, <2>2, <2>3, <2>4
<1>13. z \in Buffers
  BY <1>4, <1>10, ZenonT(60) DEF Buffers
<1>14. z.inst = inst
  BY <1>10 DEF Buffers
<1>15. Elsewhere(u4, z)
  BY <1>10 DEF Buffers, Elsewhere
<1> HIDE DEF z
<1>16. Core(z)
  BY <1>9, <1>13, <1>15, ElsewhereCore
<1>17. z.use = b.use /\ z.scripts = b.scripts /\ z.info = u4.info
  BY <1>10, <1>15 DEF Elsewhere
<1>18. \A t \in Slots : z.info[t].made => t \in z.use
  BY <1>1, <1>12, <1>17 DEF Living
<1>19. u4.info[m].opens \in Nat /\ z.info[m].opens <= b.info[m].opens
  BY <1>3, <1>6, <1>9, <1>10, <1>11, <1>17, FieldFacts, InfoFacts DEF Core
<1>20. IsScript(z, m) = IsScript(b, m)
  BY <1>17 DEF IsScript
<1>21. z.info[m].opens <= 1 /\ (z.info[m].opens > 0 => IsScript(z, m))
  BY <1>1, <1>5, <1>17, <1>19, <1>20 DEF Living, m
<1>22. Living(z)
  BY <1>14, <1>18, <1>21 DEF Living, m
<1> QED
  BY <1>2, <1>16, <1>22 DEF BufferInv

LEMMA LoadMainCore ==
  ASSUME NEW w, NEW s \in Slots, NEW file \in BOOLEAN, Core(w), w.info[s].made,
         w.next < MaxPixmaps, w.info[s].opens < MaxHeld
  PROVE  LET u == LoadMain(w, s, file, TRUE) IN
         /\ Core(u) /\ Within(w, u, s) /\ u.info[s].made
         /\ u.next \in {w.next, w.next + 1}
         /\ \/ u.info[s].opens = w.info[s].opens
            \/ IsScript(w, s) /\ u.info[s].opens = w.info[s].opens + 1
<1> DEFINE a == ScriptLoad(w, s, file, TRUE)
           c == Load(w, s, TRUE)
<1>1. CASE IsScript(w, s)
  <2>1. LoadMain(w, s, file, TRUE) = a
    BY <1>1 DEF LoadMain
  <2>2. /\ Core(a) /\ Within(w, a, s) /\ a.info[s].made
        /\ a.next \in {w.next, w.next + 1}
        /\ a.info[s].opens \in {w.info[s].opens, w.info[s].opens + 1}
    BY <1>1, ScriptLoadCore
  <2> HIDE DEF a
  <2> QED
    BY <1>1, <2>1, <2>2
<1>2. CASE ~IsScript(w, s)
  <2>1. LoadMain(w, s, file, TRUE) = c
    BY <1>2 DEF LoadMain
  <2>2. /\ Core(c) /\ Within(w, c, s) /\ c.info[s].made /\ Level(w, c, s)
        /\ c.next \in {w.next, w.next + 1}
    BY LoadCore
  <2> HIDE DEF c
  <2> QED
    BY <2>1, <2>2 DEF Level
<1> QED
  BY <1>1, <1>2

LEMMA ReactivatedKeeps ==
  ASSUME BufferInv, Supplied, Reactivated
  PROVE  BufferInv'
<1>1. PICK file \in BOOLEAN, ok \in Fails :
        b.inst = "renewing" /\ b.next + 1 < MaxPixmaps /\ b' = Reactivate(b, file, ok)
  BY DEF Reactivated
<1> DEFINE m == "widget"
           g == "gbar"
           a == [b EXCEPT !.inst = "active"]
           u == IF b.info[m].made THEN LoadMain(a, m, file, TRUE) ELSE a
           z == Load(u, g, TRUE)
<1>2. Core(b) /\ Living(b) /\ ok = TRUE /\ b.next \in Nat /\ b \in Buffers
  BY <1>1, FieldFacts DEF BufferInv, Supplied, Fails, Core
<1>3. b' = IF b.reopen /\ ~IsScript(b, g) THEN z ELSE u
  BY <1>1, <1>2 DEF Reactivate
<1>4. /\ m \in Mains /\ g \in Mains /\ m \in Slots /\ g \in Slots /\ m # g
  BY SlotFacts
<1>5. b.info[m].opens = 0
  BY <1>1, <1>2 DEF Living
<1>6. b.reopen => b.info[g].made
  BY <1>1, <1>2 DEF Living
<1>7. /\ a \in Buffers /\ Elsewhere(b, a) /\ a.told = b.told
      /\ a.inst = "active" /\ a.reopen = b.reopen
  <2>1. "active" \in Insts
    BY DEF Insts
  <2> QED
    BY <1>2, <2>1, StateSet
<1> HIDE DEF a
<1>8. Core(a)
  BY <1>2, <1>7, ElsewhereCore
<1>9. a.info = b.info /\ a.next = b.next /\ IsScript(a, m) = IsScript(b, m)
  BY <1>7 DEF Elsewhere, IsScript
<1>10. IsScript(a, "widget") = IsScript(b, "widget")
  BY <1>9
<1>11. Living(a)
  <2>1. a.use = b.use /\ a.info = b.info
    BY <1>7 DEF Elsewhere
  <2>2. a.inst \notin {"new", "freed"} /\ a.inst \notin {"new", "reset", "renewing"}
    BY <1>7
  <2>3. b.inst \notin {"new", "freed"}
    BY <1>1
  <2>4. /\ \A t \in Slots : b.info[t].made => t \in b.use
        /\ b.info["widget"].opens > 0 => IsScript(b, "widget")
        /\ \A t \in b.use \ Extra : b.info[t].made
        /\ b.reopen => b.info["gbar"].made
        /\ b.info["widget"].opens <= 1
        /\ \A t \in Extra : b.told[t] = b.info[t].fb
    BY <1>2, <2>3 DEF Living
  <2> QED
    BY <1>7, <1>10, <2>1, <2>2, <2>4 DEF Living
<1>12. /\ Core(u) /\ Living(u) /\ u.next \in {b.next, b.next + 1}
       /\ u.info[g] = b.info[g] /\ u.use = b.use
  <2>1. CASE b.info[m].made
    <3> DEFINE v == LoadMain(a, m, file, TRUE)
    <3>1. a.info[m].made /\ a.info[m].opens = 0 /\ a.info[m].opens < MaxHeld /\ a.next < MaxPixmaps
      BY <1>1, <1>2, <1>5, <1>9, <2>1, NumberFacts
    <3>2. /\ Core(v) /\ Within(a, v, m) /\ v.info[m].made
          /\ v.next \in {a.next, a.next + 1}
          /\ \/ v.info[m].opens = a.info[m].opens
             \/ IsScript(a, m) /\ v.info[m].opens = a.info[m].opens + 1
      BY <1>4, <1>8, <3>1, LoadMainCore
    <3>3. u = v
      BY <2>1
    <3> HIDE DEF v, u
    <3>4. v.info[m].opens \in {0, 1} /\ (v.info[m].opens > 0 => IsScript(a, m))
      BY <3>1, <3>2
    <3>5. Living(v)
      <4>1. /\ m \in Mains /\ m = "widget" /\ Living(a) /\ Core(a) /\ Within(a, v, m)
            /\ a.inst = "active" /\ a.info[m].made /\ v.info[m].made
        BY <1>4, <1>7, <1>8, <1>11, <3>1, <3>2
      <4> HIDE DEF m
      <4> QED
        BY <3>4, <4>1, LivingOpened
    <3>6. v.info[g] = b.info[g] /\ v.use = b.use
      BY <1>4, <1>7, <1>9, <3>2 DEF Within, Alike, Elsewhere
    <3> QED
      BY <1>9, <3>2, <3>3, <3>5, <3>6
  <2>2. CASE ~b.info[m].made
    <3>1. u = a
      BY <2>2
    <3> HIDE DEF u
    <3> QED
      BY <1>7, <1>8, <1>9, <1>11, <3>1 DEF Elsewhere
  <2> QED
    BY <2>1, <2>2
<1> HIDE DEF u
<1>13. CASE b.reopen /\ ~IsScript(b, g)
  <2>1. u.info[g].made /\ u.next < MaxPixmaps
    BY <1>1, <1>2, <1>6, <1>12, <1>13, NumberFacts
  <2>2. Core(z) /\ Within(u, z, g) /\ z.info[g].made
    BY <1>4, <1>12, <2>1, LoadCore
  <2> HIDE DEF z
  <2>3. Living(z)
    BY <1>4, <1>12, <2>1, <2>2, LivingMain
  <2> QED
    BY <1>3, <1>13, <2>2, <2>3 DEF BufferInv
<1>14. CASE ~(b.reopen /\ ~IsScript(b, g))
  BY <1>3, <1>12, <1>14 DEF BufferInv
<1> QED
  BY <1>13, <1>14
-----------------------------------------------------------------------------
(* The slave *)

Acquired(w, s, size) == Load(Resize(Create(w, s), s, size, TRUE), s, TRUE)

\* One pixmap at most is made: what is resized is loaded, or not yet.
LEMMA AcquiredCore ==
  ASSUME NEW w, NEW s \in Slots, NEW size \in Sizes, Core(w), w.next < MaxPixmaps
  PROVE  LET u == Acquired(w, s, size) IN
         /\ Core(u) /\ Within(w, u, s) /\ u.info[s].made /\ u.info[s].loaded
         /\ u.info[s].opens = w.info[s].opens
<1> DEFINE c == Create(w, s)
           r == Resize(c, s, size, TRUE)
           l == Load(r, s, TRUE)
<1>1. /\ Core(c) /\ Within(w, c, s) /\ c.next = w.next /\ c.info[s].made
      /\ c.info[s].opens = w.info[s].opens
  BY CreateCore
<1> HIDE DEF c
<1>2. /\ Core(r) /\ Within(c, r, s) /\ r.info[s].made = c.info[s].made
      /\ r.info[s].opens = c.info[s].opens
      /\ r.next \in {c.next, c.next + 1} /\ (r.next # c.next => r.info[s].loaded)
  <2>1. c.info[s].loaded => c.next < MaxPixmaps
    BY <1>1
  <2> QED
    BY <1>1, <2>1, ResizeCore
<1> HIDE DEF r
<1>3. r.info[s].made /\ (r.info[s].loaded \/ r.next < MaxPixmaps)
  BY <1>1, <1>2
<1>4. /\ Core(l) /\ Within(r, l, s) /\ Level(r, l, s)
      /\ l.info[s].made /\ l.info[s].loaded
  BY <1>2, <1>3, LoadCore
<1>5. Acquired(w, s, size) = l
  BY DEF Acquired, c, r
<1> HIDE DEF l
<1>6. Within(w, l, s)
  BY <1>1, <1>2, <1>4, WithinTrans
<1> QED
  BY <1>1, <1>2, <1>4, <1>5, <1>6 DEF Level

LEMMA SlaveAcquireBufferKeeps ==
  ASSUME NEW w, NEW s \in Mains, NEW size \in Sizes, Core(w), Living(w), s \in w.use,
         w.next < MaxPixmaps
  PROVE  LET u == SlaveAcquireBuffer(w, s, size, TRUE) IN Core(u) /\ Living(u)
<1> DEFINE open == "open" \in w.mon
           mon == w.mon \ {IF open THEN "open" ELSE "resize"}
           m == [w EXCEPT !.mon = mon]
           a == IF s = "gbar" THEN m ELSE w
           z == Acquired(a, s, size)
           u == SlaveAcquireBuffer(w, s, size, TRUE)
<1>1. u = w \/ u = z
  BY Zenon DEF SlaveAcquireBuffer, Acquired
<1>2. mon \in SUBSET Monitors /\ s \in Slots
  BY FieldFacts, SlotFacts DEF Core
<1> HIDE DEF mon
<1>3. Core(m) /\ Living(m) /\ Elsewhere(w, m)
  BY <1>2, MonitorChanged
<1> HIDE DEF m
<1>4. Core(a) /\ Living(a) /\ a.use = w.use /\ a.next = w.next
  BY <1>3 DEF Elsewhere
<1> HIDE DEF a
<1>5. /\ Core(z) /\ Within(a, z, s) /\ z.info[s].made
      /\ z.info[s].opens = a.info[s].opens
  BY <1>2, <1>4, AcquiredCore
<1> HIDE DEF z, u
<1>6. Living(z)
  BY <1>4, <1>5, LivingMain
<1> QED
  BY <1>1, <1>5, <1>6 DEF u

LEMMA SlaveResizeBufferKeeps ==
  ASSUME NEW w, NEW s \in Mains, NEW size \in Sizes, Core(w), Living(w),
         w.next < MaxPixmaps
  PROVE  LET u == SlaveResizeBuffer(w, s, size, TRUE) IN Core(u) /\ Living(u)
<1> DEFINE z == Resize(w, s, size, TRUE)
           u == SlaveResizeBuffer(w, s, size, TRUE)
<1>1. u = w \/ u = z
  BY Zenon DEF SlaveResizeBuffer
<1>2. s \in Slots
  BY SlotFacts
<1>3. /\ Core(z) /\ Within(w, z, s) /\ z.info[s].made = w.info[s].made
      /\ z.info[s].opens = w.info[s].opens
  BY <1>2, ResizeCore
<1> HIDE DEF z, u
<1>4. Living(z)
  BY <1>3, LivingMain
<1> QED
  BY <1>1, <1>3, <1>4 DEF u

LEMMA SlaveUpdatedKeeps ==
  ASSUME NEW w, NEW s \in Mains, NEW size \in Sizes, Core(w), Living(w), IsScript(w, s),
         w.next < MaxPixmaps
  PROVE  LET u == SlaveUpdated(w, s, size, TRUE) IN Core(u) /\ Living(u)
<1> DEFINE z == ScriptResize(w, s, size, TRUE)
           u == SlaveUpdated(w, s, size, TRUE)
<1>1. u = w \/ u = z \/ u = Frame(z, s)
  BY Zenon DEF SlaveUpdated
<1>2. s \in Slots
  BY SlotFacts
<1>3. /\ Core(z) /\ Within(w, z, s) /\ z.info[s].made = w.info[s].made
      /\ z.info[s].opens = w.info[s].opens
  BY <1>2, ScriptResizeCore
<1> HIDE DEF z, u
<1>4. Living(z)
  BY <1>3, LivingMain
<1>5. Frame(z, s) = z
  BY <1>2, <1>3, ScriptSame, BufferFbSame
<1> QED
  BY <1>1, <1>3, <1>4, <1>5 DEF u

LEMMA SlaveReleaseBufferKeeps ==
  ASSUME NEW w, NEW s \in Mains, NEW fault \in BOOLEAN, Core(w), Living(w)
  PROVE  LET u == SlaveReleaseBuffer(w, s, fault) IN Core(u) /\ Living(u)
<1> DEFINE z == Unload(w, s)
           less == z.mon \ {"close"}
           more == z.mon \cup {"resize"}
           u == SlaveReleaseBuffer(w, s, fault)
<1>1. u = w \/ u = z \/ u = [z EXCEPT !.mon = less] \/ u = [z EXCEPT !.mon = more]
  BY Zenon DEF SlaveReleaseBuffer
<1>2. s \in Slots
  BY SlotFacts
<1>3. Core(z) /\ Within(w, z, s) /\ Level(w, z, s) /\ z.info[s].made = w.info[s].made
  BY <1>2, UnloadCore
<1> HIDE DEF z, u
<1>4. Living(z)
  BY <1>3, LivingMain DEF Level
<1>5. less \in SUBSET Monitors /\ more \in SUBSET Monitors
  BY <1>3, FieldFacts DEF Core, Monitors
<1> HIDE DEF less, more
<1>6. Core([z EXCEPT !.mon = less]) /\ Living([z EXCEPT !.mon = less])
  BY <1>3, <1>4, <1>5, MonitorChanged
<1>7. Core([z EXCEPT !.mon = more]) /\ Living([z EXCEPT !.mon = more])
  BY <1>3, <1>4, <1>5, MonitorChanged
<1> QED
  BY <1>1, <1>3, <1>4, <1>6, <1>7, Zenon DEF u

LEMMA ToldSet ==
  ASSUME NEW w, NEW s \in Extra, NEW f \in 0..MaxPixmaps, Core(w)
  PROVE  LET u == [w EXCEPT !.told[s] = f] IN
         /\ Core(u) /\ Elsewhere(w, u) /\ u.inst = w.inst /\ u.reopen = w.reopen
         /\ u.told[s] = f /\ \A t \in Extra \ {s} : u.told[t] = w.told[t]
<1> DEFINE T == [w.told EXCEPT ![s] = f]
           u == [w EXCEPT !.told = T]
<1>1. w \in Buffers /\ w.told \in [Extra -> 0..MaxPixmaps]
  BY FieldFacts DEF Core
<1>2. T \in [Extra -> 0..MaxPixmaps] /\ T[s] = f /\ \A t \in Extra \ {s} : T[t] = w.told[t]
  BY <1>1
<1> HIDE DEF T
<1>3. u \in Buffers
  BY <1>1, <1>2, ZenonT(60) DEF Buffers
<1>4. u.told = T /\ u.inst = w.inst /\ u.reopen = w.reopen
  BY <1>1 DEF Buffers
<1>5. Elsewhere(w, u)
  BY <1>1 DEF Buffers, Elsewhere
<1> HIDE DEF u
<1>6. Core(u)
  BY <1>3, <1>5, ElsewhereCore
<1> QED
  BY <1>2, <1>4, <1>5, <1>6 DEF u, T

LEMMA SlaveAcquireExtraBufferKeeps ==
  ASSUME NEW w, NEW s \in Extra, NEW size \in Sizes, Core(w), Living(w), s \in w.use,
         w.next < MaxPixmaps
  PROVE  LET u == SlaveAcquireExtraBuffer(w, s, size, TRUE) IN Core(u) /\ Living(u)
<1> DEFINE z == Acquired(w, s, size)
           f == z.info[s].fb
           t == [z EXCEPT !.told[s] = f]
           u == SlaveAcquireExtraBuffer(w, s, size, TRUE)
<1>1. s \in Slots
  BY SlotFacts
<1>2. Core(z) /\ Within(w, z, s) /\ z.info[s].made /\ z.info[s].loaded
  BY <1>1, AcquiredCore
<1>3. u = w \/ u = (IF f # 0 THEN t ELSE z)
  <2>1. u = w \/ u = TellExtra(z, s)
    BY <1>2, Zenon DEF SlaveAcquireExtraBuffer, Acquired
  <2>2. TellExtra(z, s) = IF f # 0 THEN t ELSE z
    BY Zenon DEF TellExtra
  <2> QED
    BY <2>1, <2>2
<1> HIDE DEF z, u
<1>4. f \in 0..MaxPixmaps
  BY <1>1, <1>2, FieldFacts, InfoFacts DEF Core
<1> HIDE DEF f
<1>5. /\ Core(t) /\ Elsewhere(z, t) /\ t.inst = z.inst /\ t.reopen = z.reopen
      /\ t.told[s] = f /\ \A x \in Extra \ {s} : t.told[x] = z.told[x]
  BY <1>2, <1>4, ToldSet
<1> HIDE DEF t
<1>6. Alike(w, z) /\ \A x \in Slots \ {s} : z.info[x] = w.info[x]
  BY <1>2 DEF Within
<1>7. CASE f # 0
  <2>1. Living(t)
    BY <1>1, <1>5, <1>6, LivingExtra DEF Elsewhere, Alike, f
  <2> QED
    BY <1>3, <1>5, <1>7, <2>1 DEF u
<1>8. CASE f = 0
  <2>1. z.type # "pixmap"
    BY <1>1, <1>2, <1>8 DEF Core, InfoKept, f
  <2>2. w.info[s].fb = 0
    BY <1>1, <1>6, <2>1 DEF Core, InfoKept, Alike
  <2>3. z.inst # "freed" => z.told[s] = z.info[s].fb
    BY <1>6, <1>8, <2>2 DEF Living, Alike, f
  <2>4. Living(z)
    BY <1>1, <1>2, <1>6, <2>3, LivingExtra DEF Alike
  <2> QED
    BY <1>2, <1>3, <1>8, <2>4 DEF u
<1> QED
  BY <1>7, <1>8

LEMMA SlaveReleaseExtraBufferKeeps ==
  ASSUME NEW w, NEW s \in Extra, Core(w), Living(w)
  PROVE  LET u == SlaveReleaseExtraBuffer(w, s) IN Core(u) /\ Living(u)
<1> DEFINE f == 0
           t == [w EXCEPT !.told[s] = f]
           a == IF w.info[s].fb # 0 THEN t ELSE w
           z == Unload(a, s)
           u == SlaveReleaseExtraBuffer(w, s)
<1>1. s \in Slots /\ f \in 0..MaxPixmaps /\ f = 0
  BY SlotFacts, NumberFacts
<1>2. u = w \/ u = z
  BY Zenon DEF SlaveReleaseExtraBuffer
<1> HIDE DEF f
<1>3. /\ Core(t) /\ Elsewhere(w, t) /\ t.inst = w.inst /\ t.reopen = w.reopen
      /\ t.told[s] = f /\ \A x \in Extra \ {s} : t.told[x] = w.told[x]
  BY <1>1, ToldSet
<1> HIDE DEF t
<1>4. /\ Core(a) /\ a.info = w.info /\ a.use = w.use /\ a.scripts = w.scripts
      /\ a.inst = w.inst /\ a.reopen = w.reopen
      /\ \A x \in Extra \ {s} : a.told[x] = w.told[x]
      /\ a.inst # "freed" => a.told[s] = 0
  BY <1>1, <1>3 DEF Elsewhere, Living
<1> HIDE DEF a
<1>5. Core(z) /\ Within(a, z, s) /\ z.info[s].made = a.info[s].made /\ z.info[s].fb = 0
  BY <1>1, <1>4, UnloadCore
<1> HIDE DEF z, u
<1>6. Alike(a, z) /\ \A x \in Slots \ {s} : z.info[x] = a.info[x]
  BY <1>5 DEF Within
<1>7. Living(z)
  BY <1>1, <1>4, <1>5, <1>6, LivingExtra DEF Alike
<1> QED
  BY <1>2, <1>5, <1>7 DEF u

LEMMA SlaveKeeps ==
  ASSUME BufferInv, Supplied, Slave
  PROVE  BufferInv'
<1>1. PICK s \in Used(b), size \in Sizes, ok \in Fails :
        /\ Alive /\ Room
        /\ \/ s \notin Extra /\ b' = SlaveAcquireBuffer(b, s, size, ok)
           \/ s \in Extra /\ b' = SlaveAcquireExtraBuffer(b, s, size, ok)
           \/ s \notin Extra /\ b' = SlaveResizeBuffer(b, s, size, ok)
           \/ s = "widget" /\ IsScript(b, s) /\ b.info[s].made /\ b' = SlaveUpdated(b, s, size, ok)
  BY DEF Slave
<1>2. Core(b) /\ Living(b) /\ ok = TRUE /\ b.next < MaxPixmaps
  BY <1>1 DEF BufferInv, Supplied, Fails, Room
<1>3. s \in b.use /\ s \in Slots /\ (s \notin Extra => s \in Mains)
  BY <1>1, <1>2, FieldFacts, SlotFacts DEF Core, Used
<1>4. CASE s \notin Extra /\ b' = SlaveAcquireBuffer(b, s, size, ok)
  <2> DEFINE u == SlaveAcquireBuffer(b, s, size, TRUE)
  <2>1. Core(u) /\ Living(u) /\ b' = u
    BY <1>2, <1>3, <1>4, SlaveAcquireBufferKeeps
  <2> HIDE DEF u
  <2> QED
    BY <2>1 DEF BufferInv
<1>5. CASE s \in Extra /\ b' = SlaveAcquireExtraBuffer(b, s, size, ok)
  <2> DEFINE u == SlaveAcquireExtraBuffer(b, s, size, TRUE)
  <2>1. Core(u) /\ Living(u) /\ b' = u
    BY <1>2, <1>3, <1>5, SlaveAcquireExtraBufferKeeps
  <2> HIDE DEF u
  <2> QED
    BY <2>1 DEF BufferInv
<1>6. CASE s \notin Extra /\ b' = SlaveResizeBuffer(b, s, size, ok)
  <2> DEFINE u == SlaveResizeBuffer(b, s, size, TRUE)
  <2>1. Core(u) /\ Living(u) /\ b' = u
    BY <1>2, <1>3, <1>6, SlaveResizeBufferKeeps
  <2> HIDE DEF u
  <2> QED
    BY <2>1 DEF BufferInv
<1>7. CASE s = "widget" /\ IsScript(b, s) /\ b' = SlaveUpdated(b, s, size, ok)
  <2> DEFINE u == SlaveUpdated(b, s, size, TRUE)
  <2>1. s \in Mains
    BY <1>7, SlotFacts
  <2>2. Core(u) /\ Living(u) /\ b' = u
    BY <1>2, <1>7, <2>1, SlaveUpdatedKeeps
  <2> HIDE DEF u
  <2> QED
    BY <2>2 DEF BufferInv
<1> QED
  BY <1>1, <1>4, <1>5, <1>6, <1>7

LEMMA SlaveReleasesKeeps ==
  ASSUME BufferInv, SlaveReleases
  PROVE  BufferInv'
<1>1. PICK s \in Used(b), fault \in BOOLEAN :
        /\ Alive
        /\ \/ s \notin Extra /\ b' = SlaveReleaseBuffer(b, s, fault)
           \/ s \in Extra /\ b' = SlaveReleaseExtraBuffer(b, s)
  BY DEF SlaveReleases
<1>2. Core(b) /\ Living(b)
  BY DEF BufferInv
<1>3. s \in Slots /\ (s \notin Extra => s \in Mains)
  BY <1>1, <1>2, FieldFacts, SlotFacts DEF Core, Used
<1>4. CASE s \notin Extra /\ b' = SlaveReleaseBuffer(b, s, fault)
  <2> DEFINE u == SlaveReleaseBuffer(b, s, fault)
  <2>1. Core(u) /\ Living(u) /\ b' = u
    BY <1>2, <1>3, <1>4, SlaveReleaseBufferKeeps
  <2> HIDE DEF u
  <2> QED
    BY <2>1 DEF BufferInv
<1>5. CASE s \in Extra /\ b' = SlaveReleaseExtraBuffer(b, s)
  <2> DEFINE u == SlaveReleaseExtraBuffer(b, s)
  <2>1. Core(u) /\ Living(u) /\ b' = u
    BY <1>2, <1>5, SlaveReleaseExtraBufferKeeps
  <2> HIDE DEF u
  <2> QED
    BY <2>1 DEF BufferInv
<1> QED
  BY <1>1, <1>4, <1>5
-----------------------------------------------------------------------------
(* The viewers *)

LEMMA KeepersElements ==
  ASSUME NEW w, NEW f
  PROVE  \A e : e \in Keepers(w, f) <=> \E c \in Clients : e \in {c} \X (1..w.held[c][f])
BY DEF Keepers

\* A client acquires a pixmap once more.
LEMMA OneMore ==
  ASSUME NEW w, NEW u, NEW f, NEW c \in Clients, NEW n \in Nat,
         w.held[c][f] = n, u.held[c][f] = n + 1,
         \A d \in Clients \ {c} : u.held[d][f] = w.held[d][f],
         IsFiniteSet(Keepers(w, f))
  PROVE  IsFiniteSet(Keepers(u, f)) /\ Kept(u, f) = Kept(w, f) + 1
<1>1. <<c, n + 1>> \notin Keepers(w, f)
  <2>1. \A d \in Clients : <<c, n + 1>> \in {d} \X (1..w.held[d][f]) => d = c
    OBVIOUS
  <2>2. <<c, n + 1>> \notin {c} \X (1..n)
    OBVIOUS
  <2> QED
    BY <2>1, <2>2, KeepersElements
<1>2. Keepers(u, f) = Keepers(w, f) \cup {<<c, n + 1>>}
  <2>1. {c} \X (1..(n + 1)) = ({c} \X (1..n)) \cup {<<c, n + 1>>}
    <3> DEFINE S == 1..n
               k == n + 1
    <3>1. 1..(n + 1) = S \cup {k}
      OBVIOUS
    <3> HIDE DEF S, k
    <3>2. {c} \X (S \cup {k}) = ({c} \X S) \cup {<<c, k>>}
      OBVIOUS
    <3> QED
      BY <3>1, <3>2 DEF S, k
  <2>2. \A d \in Clients \ {c} : {d} \X (1..u.held[d][f]) = {d} \X (1..w.held[d][f])
    OBVIOUS
  <2>3. ASSUME NEW e PROVE e \in Keepers(u, f) <=> e \in Keepers(w, f) \/ e = <<c, n + 1>>
    <3>1. e \in Keepers(u, f) <=> \E d \in Clients : e \in {d} \X (1..u.held[d][f])
      BY KeepersElements
    <3>2. e \in Keepers(w, f) <=> \E d \in Clients : e \in {d} \X (1..w.held[d][f])
      BY KeepersElements
    <3>3. e \in {c} \X (1..u.held[c][f]) <=> e \in {c} \X (1..w.held[c][f]) \/ e = <<c, n + 1>>
      BY <2>1
    <3> QED
      BY <2>2, <3>1, <3>2, <3>3, Zenon
  <2> QED
    BY <2>3
<1> DEFINE K == Keepers(w, f)
           e == <<c, n + 1>>
<1>3. K = Keepers(w, f) /\ Keepers(u, f) = K \cup {e} /\ e \notin K /\ IsFiniteSet(K)
  BY <1>1, <1>2
<1> HIDE DEF K, e
<1>4. IsFiniteSet(K \cup {e}) /\ Cardinality(K \cup {e}) = Cardinality(K) + 1
  BY <1>3, FS_AddElement
<1> QED
  BY <1>3, <1>4 DEF Kept

\* A client gives back all but m of the n it holds.
LEMMA Fewer ==
  ASSUME NEW w, NEW u, NEW f, NEW c \in Clients, NEW n \in Nat, NEW m \in 0..n,
         w.held[c][f] = n, u.held[c][f] = m,
         \A d \in Clients \ {c} : u.held[d][f] = w.held[d][f],
         IsFiniteSet(Keepers(w, f))
  PROVE  /\ IsFiniteSet(Keepers(u, f)) /\ Kept(w, f) >= n
         /\ Kept(u, f) = Kept(w, f) - (n - m)
<1> DEFINE R == {c} \X ((m + 1)..n)
           A == {c} \X (1..n)
<1>1. IsFiniteSet(R) /\ Cardinality(R) = n - m
  <2> DEFINE I == (m + 1)..n
  <2>1. m \in Nat /\ m <= n /\ m + 1 \in Int /\ n \in Int
    OBVIOUS
  <2>2. IsFiniteSet(I) /\ Cardinality(I) = IF m + 1 > n THEN 0 ELSE n - (m + 1) + 1
    BY <2>1, FS_Interval
  <2>3. Cardinality(I) = n - m
    BY <2>1, <2>2
  <2>4. IsFiniteSet({c}) /\ Cardinality({c}) = 1
    BY FS_Singleton
  <2>5. IsFiniteSet(R) /\ Cardinality(R) = Cardinality({c}) * Cardinality(I)
    BY <2>2, <2>4, FS_Product
  <2> QED
    BY <2>1, <2>3, <2>4, <2>5
<1>2. IsFiniteSet(A) /\ Cardinality(A) = n
  <2> DEFINE I == 1..n
  <2>1. 1 \in Int /\ n \in Int
    OBVIOUS
  <2>2. IsFiniteSet(I) /\ Cardinality(I) = IF 1 > n THEN 0 ELSE n - 1 + 1
    BY <2>1, FS_Interval
  <2>3. Cardinality(I) = n
    BY <2>2
  <2>4. IsFiniteSet({c}) /\ Cardinality({c}) = 1
    BY FS_Singleton
  <2>5. IsFiniteSet(A) /\ Cardinality(A) = Cardinality({c}) * Cardinality(I)
    BY <2>2, <2>4, FS_Product
  <2> QED
    BY <2>3, <2>4, <2>5
<1>3. R \subseteq A /\ A \subseteq Keepers(w, f)
  <2>1. R \subseteq A
    OBVIOUS
  <2>2. A \subseteq Keepers(w, f)
    BY KeepersElements
  <2> QED
    BY <2>1, <2>2
<1>4. Keepers(u, f) = Keepers(w, f) \ R
  <2>1. {c} \X (1..m) = A \ R
    OBVIOUS
  <2>2. \A d \in Clients \ {c} : {d} \X (1..u.held[d][f]) = {d} \X (1..w.held[d][f])
    OBVIOUS
  <2>3. ASSUME NEW d \in Clients \ {c}, NEW e \in {d} \X (1..w.held[d][f]) PROVE e \notin R
    OBVIOUS
  <2>4. ASSUME NEW e PROVE e \in Keepers(u, f) <=> e \in Keepers(w, f) /\ e \notin R
    <3>1. e \in Keepers(u, f) <=> \E d \in Clients : e \in {d} \X (1..u.held[d][f])
      BY KeepersElements
    <3>2. e \in Keepers(w, f) <=> \E d \in Clients : e \in {d} \X (1..w.held[d][f])
      BY KeepersElements
    <3>3. e \in {c} \X (1..u.held[c][f]) <=> e \in {c} \X (1..w.held[c][f]) /\ e \notin R
      BY <2>1
    <3> HIDE DEF R
    <3> QED
      BY <2>2, <2>3, <3>1, <3>2, <3>3, Zenon
  <2> HIDE DEF R
  <2> QED
    BY <2>4
<1> HIDE DEF R, A
<1>5. IsFiniteSet(Keepers(u, f)) /\ Cardinality(Keepers(u, f)) = Cardinality(Keepers(w, f)) - Cardinality(Keepers(w, f) \cap R)
  BY <1>4, FS_Difference
<1>6. Keepers(w, f) \cap R = R
  BY <1>3
<1>7. Cardinality(A) <= Cardinality(Keepers(w, f))
  BY <1>3, FS_Subset
<1>8. Cardinality(Keepers(w, f)) \in Nat
  BY FS_CardinalityType
<1> QED
  BY <1>1, <1>2, <1>5, <1>6, <1>7, <1>8 DEF Kept

\* What a client does to pixmaps leaves the buffers and the instance alone.
Beside(w, u) ==
  /\ u.type = w.type /\ u.use = w.use /\ u.scripts = w.scripts /\ u.gem = w.gem
  /\ u.inst = w.inst /\ u.reopen = w.reopen /\ u.info = w.info /\ u.next = w.next
  /\ u.told = w.told

LEMMA BesideKeeps ==
  ASSUME NEW w, NEW u \in Buffers, Core(w), Living(w), Beside(w, u),
         ~u.bad, u.held = u.given,
         \A f \in Fbs : IsFiniteSet(Keepers(u, f)) /\ PixmapKept(u, f),
         \A f \in Fbs : InUse(w, f) = 1 => u.fb[f].gem = w.fb[f].gem
  PROVE  Core(u) /\ Living(u)
<1>1. \A s \in Slots : IsScript(u, s) = IsScript(w, s)
  BY DEF IsScript, Beside
<1>2. ASSUME NEW s \in Slots PROVE InfoKept(u, s)
  <2>1. w.info[s].fb \in 0..MaxPixmaps
    BY FieldFacts, InfoFacts DEF Core
  <2>2. w.info[s].fb # 0 => u.fb[w.info[s].fb].gem = w.fb[w.info[s].fb].gem
    BY <2>1, NumberFacts DEF InUse
  <2> QED
    BY <1>1, <2>2 DEF InfoKept, Core, Beside
<1>3. Core(u)
  BY <1>2 DEF Core, Apart, Beside
<1>4. IsScript(u, "widget") = IsScript(w, "widget")
  BY DEF IsScript, Beside
<1>5. Living(u)
  BY <1>4 DEF Living, Beside
<1> QED
  BY <1>3, <1>5

LEMMA GivenSet ==
  ASSUME NEW w \in Buffers, NEW c \in Clients, NEW f \in Fbs, NEW n \in Nat
  PROVE  LET u == [w EXCEPT !.given[c][f] = n] IN
         /\ u \in Buffers /\ Beside(w, u) /\ u.fb = w.fb /\ u.held = w.held
         /\ u.given = [w.given EXCEPT ![c][f] = n] /\ u.bad = w.bad
         /\ u.mon = w.mon /\ u.live = w.live
<1> DEFINE G == [w.given EXCEPT ![c][f] = n]
           u == [w EXCEPT !.given = G]
<1>1. G \in [Clients -> [Fbs -> Nat]]
  BY FieldFacts
<1> HIDE DEF G
<1>2. u \in Buffers
  BY <1>1, ZenonT(60) DEF Buffers
<1>3. u.fb = w.fb /\ u.held = w.held /\ u.given = G /\ u.bad = w.bad
      /\ u.mon = w.mon /\ u.live = w.live
  BY DEF Buffers
<1>4. Beside(w, u)
  BY DEF Buffers, Beside
<1> QED
  BY <1>2, <1>3, <1>4 DEF G

LEMMA HeldSet ==
  ASSUME NEW w \in Buffers, NEW c \in Clients, NEW f \in Fbs, NEW n \in Nat
  PROVE  LET u == [w EXCEPT !.held[c][f] = n] IN
         /\ u \in Buffers /\ Beside(w, u) /\ u.fb = w.fb /\ u.given = w.given
         /\ u.held = [w.held EXCEPT ![c][f] = n] /\ u.bad = w.bad
<1> DEFINE H == [w.held EXCEPT ![c][f] = n]
           u == [w EXCEPT !.held = H]
<1>1. H \in [Clients -> [Fbs -> Nat]]
  BY FieldFacts
<1> HIDE DEF H
<1>2. u \in Buffers
  BY <1>1, ZenonT(60) DEF Buffers
<1>3. u.fb = w.fb /\ u.given = w.given /\ u.held = H /\ u.bad = w.bad
  BY DEF Buffers
<1>4. Beside(w, u)
  BY DEF Buffers, Beside
<1> QED
  BY <1>2, <1>3, <1>4 DEF H

\* A client acquires or releases the pixmap f, which becomes p.
LEMMA OneChanged ==
  ASSUME NEW w, NEW u \in Buffers, NEW f \in Fbs, NEW p \in Pixmap, Core(w), Living(w),
         Beside(w, u), ~u.bad, u.held = u.given, u.fb = [w.fb EXCEPT ![f] = p],
         \A g \in Fbs \ {f} : \A d \in Clients : u.held[d][g] = w.held[d][g],
         f < w.next, IsFiniteSet(Keepers(u, f)), p.ref = InUse(w, f) + Kept(u, f),
         p.st = "made" <=> p.ref > 0, p.listed = IF p.st = "made" THEN 1 ELSE 0,
         p.maps = 0, ~p.data, InUse(w, f) = 1 => p.gem = w.fb[f].gem
  PROVE  Core(u) /\ Living(u)
<1>1. u.fb[f] = p /\ \A g \in Fbs \ {f} : u.fb[g] = w.fb[g]
  BY FieldFacts DEF Core
<1>2. \A g \in Fbs : InUse(u, g) = InUse(w, g)
  BY DEF InUse, Beside
<1>3. u.next = w.next /\ w.next \in Int /\ f \in Int
  BY FieldFacts DEF Beside, Core, Fbs
<1>4. PixmapKept(u, f)
  BY <1>1, <1>2, <1>3 DEF PixmapKept
<1>5. ASSUME NEW g \in Fbs \ {f} PROVE PixmapKept(u, g) /\ IsFiniteSet(Keepers(u, g))
  <2>1. Keepers(u, g) = Keepers(w, g)
    BY DEF Keepers
  <2>2. PixmapKept(w, g) /\ IsFiniteSet(Keepers(w, g))
    BY DEF Core
  <2> QED
    BY <1>1, <1>2, <1>3, <2>1, <2>2 DEF PixmapKept, Kept
<1>6. \A g \in Fbs : IsFiniteSet(Keepers(u, g)) /\ PixmapKept(u, g)
  BY <1>4, <1>5
<1>7. \A g \in Fbs : InUse(w, g) = 1 => u.fb[g].gem = w.fb[g].gem
  BY <1>1
<1> QED
  BY <1>6, <1>7, BesideKeeps

\* One client acquires the pixmap in use once more.
LEMMA ClientAcquirePixmapKeeps ==
  ASSUME NEW w, NEW c \in Clients, NEW s \in Slots, Core(w), Living(w)
  PROVE  LET u == ClientAcquirePixmap(w, c, s) IN Core(u) /\ Living(u)
<1> DEFINE f == w.info[s].fb
           r == PixmapRef(w, s)
           n == w.held[c][f]
           m == n + 1
           h == [r EXCEPT !.held[c][f] = m]
           z == [h EXCEPT !.given[c][f] = m]
           u == ClientAcquirePixmap(w, c, s)
<1>1. CASE ~CanRef(w, s) \/ (s = "gbar" /\ "resize" \in w.mon)
  <2>1. u = w
    BY <1>1, Zenon DEF ClientAcquirePixmap
  <2> HIDE DEF u
  <2> QED
    BY <2>1 DEF u
<1>2. CASE ~(~CanRef(w, s) \/ (s = "gbar" /\ "resize" \in w.mon))
  <2>1. CanRef(w, s) /\ f \in Fbs /\ w \in Buffers /\ w.held = w.given /\ f # 0
    <3>1. w.info[s].loaded /\ w.type = "pixmap" /\ InfoKept(w, s) /\ CanRef(w, s)
      BY <1>2 DEF CanRef, Core
    <3>2. f \in 0..MaxPixmaps /\ w \in Buffers /\ w.held = w.given
      BY FieldFacts, InfoFacts DEF Core
    <3>3. f # 0
      BY <3>1 DEF InfoKept
    <3> QED
      BY <3>1, <3>2, <3>3, NumberFacts
  <2>2. /\ r \in Buffers /\ Alike(w, r) /\ r.info = w.info /\ r.next = w.next /\ ~r.bad
        /\ r.fb = [w.fb EXCEPT ![f] = [w.fb[f] EXCEPT !.ref = @ + 1]]
    BY <2>1, PixmapRefFields
  <2>3. r.info[s].fb = f /\ InUse(w, f) = 1
    BY <2>2 DEF InUse
  <2>4. u = [r EXCEPT !.held[c][f] = @ + 1, !.given[c][f] = @ + 1]
    <3> HIDE DEF r
    <3> QED
      BY <1>2, <2>3, Zenon DEF ClientAcquirePixmap, r
  <2> HIDE DEF f, r, u
  <2>5. n \in Nat /\ m \in Nat /\ r.held[c][f] + 1 = m /\ r.given[c][f] + 1 = m
    BY <2>1, <2>2, FieldFacts DEF Alike
  <2>6. u = z
    <3>1. u = [[r EXCEPT !.held[c][f] = r.held[c][f] + 1] EXCEPT !.given[c][f] = r.given[c][f] + 1]
      BY <2>2, <2>4 DEF Buffers
    <3> QED
      BY <2>5, <3>1
  <2>7. \A d \in Clients \ {c} : r.held[d][f] = w.held[d][f]
    BY <2>2 DEF Alike
  <2>8. w.held[c][f] = n /\ m = n + 1 /\ IsFiniteSet(Keepers(w, f))
    BY <2>1 DEF Core
  <2> HIDE DEF n, m
  <2>9. /\ h \in Buffers /\ Beside(r, h) /\ h.fb = r.fb /\ h.given = r.given
        /\ h.held = [r.held EXCEPT ![c][f] = m] /\ h.bad = r.bad
    BY <2>1, <2>2, <2>5, HeldSet
  <2> HIDE DEF h
  <2>10. /\ z \in Buffers /\ Beside(h, z) /\ z.fb = h.fb /\ z.held = h.held
         /\ z.given = [h.given EXCEPT ![c][f] = m] /\ z.bad = h.bad
    BY <2>1, <2>5, <2>9, GivenSet
  <2> HIDE DEF z
  <2>11. /\ z.held = [w.held EXCEPT ![c][f] = m] /\ z.held = z.given /\ ~z.bad
         /\ z.fb = [w.fb EXCEPT ![f] = [w.fb[f] EXCEPT !.ref = @ + 1]]
    BY <2>1, <2>2, <2>9, <2>10 DEF Alike
  <2>12. Beside(w, z)
    BY <2>2, <2>9, <2>10 DEF Beside, Alike
  <2>13. /\ w.fb[f] \in Pixmap /\ w.fb[f].st = "made" /\ w.fb[f].listed = 1
         /\ w.fb[f].maps = 0 /\ ~w.fb[f].data /\ f < w.next
         /\ w.fb[f].ref = 1 + Kept(w, f) /\ Kept(w, f) \in Nat
    BY <2>1, <2>3, UsedIsMade
  <2>14. z.held[c][f] = m /\ \A d \in Clients \ {c} : z.held[d][f] = w.held[d][f]
    BY <2>1, <2>11, FieldFacts
  <2>15. IsFiniteSet(Keepers(z, f)) /\ Kept(z, f) = Kept(w, f) + 1
    BY <2>5, <2>8, <2>14, OneMore
  <2>16. \A g \in Fbs \ {f} : \A d \in Clients : z.held[d][g] = w.held[d][g]
    BY <2>1, <2>11, FieldFacts
  <2> DEFINE y == [w.fb[f] EXCEPT !.ref = @ + 1]
  <2>17. /\ y \in Pixmap /\ y.st = "made" /\ y.listed = 1 /\ y.maps = 0 /\ ~y.data
         /\ y.ref = w.fb[f].ref + 1 /\ y.gem = w.fb[f].gem
    BY <2>13 DEF Pixmap
  <2>18. z.fb = [w.fb EXCEPT ![f] = y]
    BY <2>11
  <2> HIDE DEF y
  <2>19. y.ref = InUse(w, f) + Kept(z, f) /\ y.ref > 0
    BY <2>3, <2>13, <2>15, <2>17
  <2>20. Core(z) /\ Living(z)
    BY <2>1, <2>10, <2>11, <2>12, <2>13, <2>15, <2>16, <2>17, <2>18, <2>19, OneChanged
  <2> QED
    BY <2>6, <2>20 DEF u
<1> QED
  BY <1>1, <1>2

\* It gives one back, if it holds one.
LEMMA ClientReleasePixmapKeeps ==
  ASSUME NEW w, NEW c \in Clients, NEW f \in Fbs, Core(w), Living(w)
  PROVE  LET u == ClientReleasePixmap(w, c, f) IN Core(u) /\ Living(u)
<1> DEFINE n == w.held[c][f]
           m == IF n > 0 THEN n - 1 ELSE 0
           l == n - 1
           a == [w EXCEPT !.given[c][f] = m]
           h == [a EXCEPT !.held[c][f] = l]
           z == PixmapUnref(h, f)
           u == ClientReleasePixmap(w, c, f)
<1>1. w \in Buffers /\ w.held = w.given /\ n \in Nat /\ m \in Nat
  BY FieldFacts DEF Core
<1>2. a = GivenBack(w, c, f)
  <2>1. GivenBack(w, c, f)
        = [w EXCEPT !.given[c][f] = IF w.given[c][f] > 0 THEN w.given[c][f] - 1 ELSE 0]
    BY <1>1 DEF GivenBack, Buffers
  <2> QED
    BY <1>1, <2>1
<1>3. h = EventCallbackDel(a, c, f)
  <2>1. a.held[c][f] = n
    BY <1>1 DEF Buffers
  <2> HIDE DEF a
  <2>2. EventCallbackDel(a, c, f) = [a EXCEPT !.held[c][f] = a.held[c][f] - 1]
    BY DEF EventCallbackDel
  <2> QED
    BY <2>1, <2>2
<1>4. u = IF PixmapFind(w, f) /\ n > 0 THEN z ELSE a
  BY <1>2, <1>3, Zenon DEF ClientReleasePixmap
<1>5. (n > 0 => m = l) /\ (n = 0 => m = 0)
  BY <1>1
<1> HIDE DEF m, l, u
<1>6. /\ a \in Buffers /\ Beside(w, a) /\ a.fb = w.fb /\ a.held = w.held
      /\ a.given = [w.given EXCEPT ![c][f] = m] /\ a.bad = w.bad
      /\ a.mon = w.mon /\ a.live = w.live
  BY <1>1, GivenSet
<1> HIDE DEF a
<1>7. CASE n = 0
  <2>1. a.given = w.given
    BY <1>1, <1>5, <1>6, <1>7, FieldFacts
  <2>2. Alike(w, a) /\ a.info = w.info /\ a.next = w.next
    BY <1>6, <2>1 DEF Alike, Beside
  <2>3. a = w
    BY <1>1, <1>6, <2>2, Rewritten
  <2>4. u = a
    BY <1>4, <1>7
  <2> QED
    BY <2>3, <2>4 DEF u
<1>8. CASE n > 0
  <2>1. l \in Nat /\ l \in 0..n /\ n - l = 1
    BY <1>1, <1>8 DEF l
  <2>2. \A d \in Clients \ {c} : w.held[d][f] = w.held[d][f]
    OBVIOUS
  <2>3. w.held[c][f] = n /\ IsFiniteSet(Keepers(w, f))
    BY DEF Core
  <2> HIDE DEF n
  <2>4. /\ h \in Buffers /\ Beside(a, h) /\ h.fb = a.fb /\ h.given = a.given
        /\ h.held = [a.held EXCEPT ![c][f] = l] /\ h.bad = a.bad
    BY <1>6, <2>1, HeldSet
  <2> HIDE DEF h
  <2>5. h.held[c][f] = l /\ \A d \in Clients \ {c} : h.held[d][f] = w.held[d][f]
    BY <1>1, <1>6, <2>4, FieldFacts
  <2>6. IsFiniteSet(Keepers(h, f)) /\ Kept(w, f) >= n /\ Kept(h, f) = Kept(w, f) - (n - l)
    BY <1>1, <2>1, <2>3, <2>5, Fewer
  <2>7. Kept(w, f) \in Nat
    BY <2>3, FS_CardinalityType DEF Kept
  <2>8. Kept(w, f) > 0 /\ Kept(h, f) = Kept(w, f) - 1
    BY <1>1, <1>8, <2>1, <2>6, <2>7
  <2>9. /\ w.fb[f] \in Pixmap /\ w.fb[f].st = "made" /\ w.fb[f].listed = 1
        /\ w.fb[f].maps = 0 /\ ~w.fb[f].data /\ f < w.next
        /\ w.fb[f].ref = InUse(w, f) + Kept(w, f)
    BY <2>8, UsedIsMade
  <2>10. u = z
    BY <1>4, <1>8, <2>9 DEF PixmapFind
  <2> DEFINE k == 1
             y == Unref(w.fb[f], k)
  <2>11. k = 1 /\ k \in Nat /\ k > 0
    OBVIOUS
  <2>12. InUse(w, f) \in 0..1 /\ w.fb[f].ref \in Nat
    BY <2>9, PixmapFacts DEF InUse
  <2>13. k <= w.fb[f].ref
    BY <2>7, <2>8, <2>9, <2>12
  <2>14. w.fb[f] = h.fb[f] /\ y = Unref(h.fb[f], 1)
    BY <1>6, <2>4
  <2>15. Lacks(w.fb[f], k) = Lacks(h.fb[f], 1)
    BY <2>14
  <2> HIDE DEF k
  <2>16. /\ ~Lacks(w.fb[f], k) /\ y \in Pixmap /\ y.ref = w.fb[f].ref - k
         /\ y.st = "made" <=> y.ref > 0
         /\ y.listed = IF y.st = "made" THEN 1 ELSE 0
         /\ y.maps = 0 /\ ~y.data /\ (y.ref > 0 => y.gem = w.fb[f].gem)
    BY <2>9, <2>11, <2>13, UnrefFacts
  <2> HIDE DEF y
  <2>17. /\ z \in Buffers /\ Alike(h, z) /\ z.info = h.info
         /\ z.fb = [h.fb EXCEPT ![f] = Unref(@, 1)] /\ z.next = h.next
         /\ z.bad = (h.bad \/ Lacks(h.fb[f], 1))
    <3>1. Unref(h.fb[f], 1) \in Pixmap
      BY <2>14, <2>16
    <3> QED
      BY <2>4, <3>1, PixmapUnrefFields
  <2> HIDE DEF z
  <2>18. z.fb = [w.fb EXCEPT ![f] = y] /\ ~z.bad
    <3>1. h.fb = w.fb /\ h.bad = w.bad /\ ~w.bad
      BY <1>6, <2>4 DEF Core
    <3>2. ~Lacks(h.fb[f], 1)
      BY <2>15, <2>16
    <3>3. z.fb = [w.fb EXCEPT ![f] = y]
      BY <2>14, <2>17, <3>1
    <3> QED
      BY <2>17, <3>1, <3>2, <3>3
  <2>19. Beside(w, z) /\ z.held = h.held /\ z.given = h.given
    BY <1>6, <2>4, <2>17 DEF Beside, Alike
  <2>20. z.held = z.given
    BY <1>1, <1>5, <1>6, <1>8, <2>4, <2>19
  <2>21. \A g \in Fbs \ {f} : \A d \in Clients : z.held[d][g] = w.held[d][g]
    BY <1>1, <1>6, <2>4, <2>19, FieldFacts
  <2>22. Keepers(z, f) = Keepers(h, f) /\ Kept(z, f) = Kept(h, f)
    BY <2>19, KeepersSame
  <2>23. y.ref = InUse(w, f) + Kept(z, f)
    BY <2>7, <2>8, <2>9, <2>11, <2>12, <2>16, <2>22
  <2>24. InUse(w, f) = 1 => y.ref > 0
    BY <2>7, <2>8, <2>22, <2>23
  <2>25. Core(z) /\ Living(z)
    BY <2>6, <2>9, <2>16, <2>17, <2>18, <2>19, <2>20, <2>21, <2>22, <2>23, <2>24, OneChanged
  <2> QED
    BY <2>10, <2>25 DEF u
<1> QED
  BY <1>1, <1>7, <1>8

\* A client that leaves gives back all it holds.
LEMMA ClientDeactivatedKeeps ==
  ASSUME NEW w, NEW c \in Clients, Core(w), Living(w)
  PROVE  LET u == ClientDeactivated(w, c) IN Core(u) /\ Living(u)
<1> DEFINE n == w.held[c]
           F == [f \in Fbs |-> IF n[f] > 0 THEN Unref(w.fb[f], n[f]) ELSE w.fb[f]]
           d == w.bad \/ \E f \in Fbs : n[f] > 0 /\ Lacks(w.fb[f], n[f])
           L == w.live \ {c}
           H == [w.held EXCEPT ![c] = None]
           G == [w.given EXCEPT ![c] = None]
           u == [w EXCEPT !.fb = F, !.bad = d, !.live = L, !.held = H, !.given = G]
<1>1. w \in Buffers /\ w.held = w.given /\ ~w.bad /\ n \in [Fbs -> Nat]
  BY FieldFacts DEF Core
<1>2. ClientDeactivated(w, c) = u
  BY Zenon DEF ClientDeactivated
<1>3. H \in [Clients -> [Fbs -> Nat]] /\ G = H /\ L \in SUBSET Clients
  BY <1>1, FieldFacts DEF None
<1>4. ASSUME NEW f \in Fbs
      PROVE  H[c][f] = 0 /\ \A e \in Clients \ {c} : H[e][f] = w.held[e][f]
  BY <1>1, FieldFacts DEF None
<1> HIDE DEF H
<1>5. ASSUME NEW f \in Fbs, n[f] > 0
      PROVE  /\ ~Lacks(w.fb[f], n[f]) /\ F[f] \in Pixmap /\ F[f].ref = w.fb[f].ref - n[f]
             /\ F[f].st = "made" <=> F[f].ref > 0
             /\ F[f].listed = IF F[f].st = "made" THEN 1 ELSE 0
             /\ F[f].maps = 0 /\ ~F[f].data /\ (F[f].ref > 0 => F[f].gem = w.fb[f].gem)
             /\ n[f] <= Kept(w, f) /\ Kept(w, f) \in Nat /\ f < w.next
             /\ w.fb[f].ref = InUse(w, f) + Kept(w, f)
  <2> DEFINE k == n[f]
             z == 0
             v == [w EXCEPT !.held = H]
  <2>1. k \in Nat /\ w.held[c][f] = k /\ IsFiniteSet(Keepers(w, f)) /\ z \in 0..k
    BY <1>1 DEF Core
  <2>2. F[f] = Unref(w.fb[f], k)
    BY <1>5
  <2>3. k > 0 /\ z = 0
    BY <1>5
  <2>4. v.held = H
    BY <1>1 DEF Buffers
  <2>5. v.held[c][f] = z /\ \A e \in Clients \ {c} : v.held[e][f] = w.held[e][f]
    BY <1>4, <2>4
  <2>6. n[f] = k
    OBVIOUS
  <2> HIDE DEF k, z, v, F, n
  <2>7. Kept(w, f) >= k
    BY <2>1, <2>5, Fewer
  <2>8. Kept(w, f) \in Nat
    BY <2>1, FS_CardinalityType DEF Kept
  <2>9. /\ w.fb[f] \in Pixmap /\ w.fb[f].st = "made" /\ w.fb[f].listed = 1
        /\ w.fb[f].maps = 0 /\ ~w.fb[f].data /\ f < w.next
        /\ w.fb[f].ref = InUse(w, f) + Kept(w, f)
    BY <2>1, <2>3, <2>7, <2>8, UsedIsMade
  <2>10. InUse(w, f) \in 0..1
    BY DEF InUse
  <2>11. k <= w.fb[f].ref
    BY <2>1, <2>7, <2>8, <2>9, <2>10
  <2> DEFINE y == Unref(w.fb[f], k)
  <2>12. /\ ~Lacks(w.fb[f], k) /\ y \in Pixmap /\ y.ref = w.fb[f].ref - k
         /\ y.st = "made" <=> y.ref > 0
         /\ y.listed = IF y.st = "made" THEN 1 ELSE 0
         /\ y.maps = 0 /\ ~y.data /\ (y.ref > 0 => y.gem = w.fb[f].gem)
    BY <2>1, <2>3, <2>9, <2>11, UnrefFacts
  <2>13. y = F[f]
    BY <2>2
  <2> HIDE DEF y
  <2> QED
    BY <2>1, <2>6, <2>7, <2>8, <2>9, <2>12, <2>13
<1>6. ASSUME NEW f \in Fbs, ~(n[f] > 0) PROVE n[f] = 0 /\ F[f] = w.fb[f] /\ F[f] \in Pixmap
  BY <1>1, <1>6, FieldFacts
<1>7. F \in [Fbs -> Pixmap]
  <2>1. \A f \in Fbs : F[f] \in Pixmap
    BY <1>5, <1>6
  <2> QED
    BY <2>1
<1>8. d = FALSE
  BY <1>1, <1>5
<1>9. \A f \in Fbs : w.held[c][f] = n[f]
  OBVIOUS
<1> HIDE DEF F, d, L, G, n
<1>10. u \in Buffers
  BY <1>1, <1>3, <1>7, <1>8, ZenonT(60) DEF Buffers
<1>11. u.fb = F /\ u.bad = d /\ u.held = H /\ u.given = G
  BY <1>1 DEF Buffers
<1>12. Beside(w, u)
  BY <1>1 DEF Buffers, Beside
<1> HIDE DEF u
<1>13. \A f \in Fbs : InUse(u, f) = InUse(w, f) /\ InUse(w, f) \in 0..1
  BY <1>12 DEF InUse, Beside
<1>14. ASSUME NEW f \in Fbs
       PROVE  IsFiniteSet(Keepers(u, f)) /\ Kept(w, f) \in Nat /\ Kept(u, f) = Kept(w, f) - n[f]
  <2> DEFINE k == n[f]
             z == 0
  <2>1. k \in Nat /\ w.held[c][f] = k /\ IsFiniteSet(Keepers(w, f)) /\ z \in 0..k
    BY <1>1, <1>9 DEF Core
  <2>2. u.held[c][f] = z /\ \A e \in Clients \ {c} : u.held[e][f] = w.held[e][f]
    BY <1>4, <1>11
  <2>3. z = 0 /\ n[f] = k
    OBVIOUS
  <2> HIDE DEF k, z
  <2>4. IsFiniteSet(Keepers(u, f)) /\ Kept(u, f) = Kept(w, f) - (k - z)
    BY <2>1, <2>2, Fewer
  <2>5. Kept(w, f) \in Nat
    BY <2>1, FS_CardinalityType DEF Kept
  <2> QED
    BY <2>1, <2>3, <2>4, <2>5
<1>15. u.next = w.next /\ w.next \in Int
  BY <1>1, <1>12, FieldFacts DEF Beside
<1>16. ASSUME NEW f \in Fbs
       PROVE  PixmapKept(u, f) /\ (InUse(w, f) = 1 => u.fb[f].gem = w.fb[f].gem)
  <2>1. u.fb[f] = F[f] /\ n[f] \in Nat /\ f \in Int
    BY <1>1, <1>11 DEF Fbs
  <2>2. CASE n[f] > 0
    <3>1. F[f].ref = InUse(u, f) + Kept(u, f)
      BY <1>5, <1>13, <1>14, <2>1, <2>2
    <3>2. InUse(w, f) = 1 => F[f].ref > 0
      BY <1>5, <1>13, <1>14, <2>1, <2>2
    <3> QED
      BY <1>5, <1>15, <2>1, <2>2, <3>1, <3>2 DEF PixmapKept
  <2>3. CASE ~(n[f] > 0)
    <3>1. F[f] = w.fb[f] /\ n[f] = 0 /\ PixmapKept(w, f)
      BY <1>6, <2>3 DEF Core
    <3>2. Kept(u, f) = Kept(w, f)
      BY <1>14, <3>1
    <3> QED
      BY <1>13, <1>15, <2>1, <3>1, <3>2 DEF PixmapKept
  <2> QED
    BY <2>2, <2>3
<1>17. ~u.bad /\ u.held = u.given
  BY <1>3, <1>8, <1>11
<1>18. Core(u) /\ Living(u)
  <2>1. \A f \in Fbs : IsFiniteSet(Keepers(u, f)) /\ PixmapKept(u, f)
    BY <1>14, <1>16
  <2>2. \A f \in Fbs : InUse(w, f) = 1 => u.fb[f].gem = w.fb[f].gem
    BY <1>16
  <2> QED
    BY <1>10, <1>12, <1>17, <2>1, <2>2, BesideKeeps
<1> QED
  BY <1>2, <1>18

LEMMA ClientKeeps ==
  ASSUME BufferInv, Client
  PROVE  BufferInv'
<1>1. PICK c \in b.live :
        \/ \E s \in Used(b) : b' = ClientAcquirePixmap(b, c, s)
        \/ \E f \in 1..(b.next - 1) : b' = ClientReleasePixmap(b, c, f)
        \/ b' = ClientDeactivated(b, c)
  BY DEF Client
<1>2. Core(b) /\ Living(b) /\ b \in Buffers /\ b.live \subseteq Clients
      /\ b.use \subseteq Slots /\ b.next \in 1..MaxPixmaps
  BY FieldFacts DEF BufferInv, Core
<1>3. c \in Clients
  BY <1>1, <1>2
<1>4. ASSUME NEW s \in Used(b), b' = ClientAcquirePixmap(b, c, s) PROVE BufferInv'
  <2> DEFINE u == ClientAcquirePixmap(b, c, s)
  <2>1. s \in Slots
    BY <1>2, <1>4 DEF Used
  <2>2. Core(u) /\ Living(u) /\ b' = u
    BY <1>2, <1>3, <1>4, <2>1, ClientAcquirePixmapKeeps
  <2> HIDE DEF u
  <2> QED
    BY <2>2 DEF BufferInv
<1>5. ASSUME NEW f \in 1..(b.next - 1), b' = ClientReleasePixmap(b, c, f) PROVE BufferInv'
  <2> DEFINE u == ClientReleasePixmap(b, c, f)
  <2>1. f \in Fbs
    BY <1>2, <1>5, NumberFacts
  <2>2. Core(u) /\ Living(u) /\ b' = u
    BY <1>2, <1>3, <1>5, <2>1, ClientReleasePixmapKeeps
  <2> HIDE DEF u
  <2> QED
    BY <2>2 DEF BufferInv
<1>6. CASE b' = ClientDeactivated(b, c)
  <2> DEFINE u == ClientDeactivated(b, c)
  <2>1. Core(u) /\ Living(u) /\ b' = u
    BY <1>2, <1>3, <1>6, ClientDeactivatedKeeps
  <2> HIDE DEF u
  <2> QED
    BY <2>1 DEF BufferInv
<1> QED
  BY <1>1, <1>4, <1>5, <1>6
-----------------------------------------------------------------------------
(* The invariant *)

LEMMA InitKeeps ==
  ASSUME Supplied, Init
  PROVE  BufferInv
<1>1. PICK type \in Types, use \in Uses :
      \E scripts \in SUBSET (use \cap {"widget", "gbar"}),
         gem \in {TRUE} \cup (IF "no_gem" \in Rare THEN {FALSE} ELSE {}) :
        b = [type |-> type, use |-> use, scripts |-> scripts, gem |-> gem,
             inst |-> "new", reopen |-> FALSE, mon |-> {},
             info |-> [s \in Slots |-> NoInfo], fb |-> [f \in Fbs |-> NoFb], next |-> 1,
             live |-> Clients, held |-> [c \in Clients |-> [f \in Fbs |-> 0]],
             given |-> [c \in Clients |-> [f \in Fbs |-> 0]],
             told |-> [s \in Extra |-> 0], bad |-> FALSE]
  BY DEF Init
<1>2. PICK scripts \in SUBSET Mains :
        b = [type |-> type, use |-> use, scripts |-> scripts, gem |-> TRUE,
             inst |-> "new", reopen |-> FALSE, mon |-> {},
             info |-> [s \in Slots |-> NoInfo], fb |-> [f \in Fbs |-> NoFb], next |-> 1,
             live |-> Clients, held |-> [c \in Clients |-> [f \in Fbs |-> 0]],
             given |-> [c \in Clients |-> [f \in Fbs |-> 0]],
             told |-> [s \in Extra |-> 0], bad |-> FALSE]
  BY <1>1 DEF Supplied, Mains
<1> DEFINE I == [s \in Slots |-> NoInfo]
           F == [f \in Fbs |-> NoFb]
           H == [c \in Clients |-> [f \in Fbs |-> 0]]
           T == [s \in Extra |-> 0]
<1>3. I \in [Slots -> Info] /\ F \in [Fbs -> Pixmap]
  BY NoInfoFacts, NoFbFacts
<1>4. H \in [Clients -> [Fbs -> Nat]] /\ T \in [Extra -> 0..MaxPixmaps]
  BY NumberFacts
<1>5. use \in SUBSET Slots /\ 1 \in 1..MaxPixmaps /\ "new" \in Insts
  BY BufferHandlerAssumption, NumberFacts DEF Insts
<1>6. /\ b.type = type /\ b.use = use /\ b.scripts = scripts /\ b.gem = TRUE /\ b.inst = "new"
      /\ b.reopen = FALSE /\ b.info = I /\ b.fb = F /\ b.next = 1 /\ b.held = H /\ b.given = H
      /\ b.told = T /\ b.bad = FALSE
  BY <1>2
<1>7. /\ \A s \in Slots : I[s] = NoInfo
      /\ \A f \in Fbs : F[f] = NoFb
      /\ \A c \in Clients, f \in Fbs : H[c][f] = 0
      /\ \A s \in Extra : T[s] = 0
  OBVIOUS
<1> HIDE DEF I, F, H, T
<1>8. b \in Buffers
  <2>1. b = [type |-> type, use |-> use, scripts |-> scripts, gem |-> TRUE,
             inst |-> "new", reopen |-> FALSE, mon |-> {}, info |-> I, fb |-> F, next |-> 1,
             live |-> Clients, held |-> H, given |-> H, told |-> T, bad |-> FALSE]
    BY <1>2, Zenon DEF I, F, H, T
  <2> QED
    BY <1>3, <1>4, <1>5, <2>1, ZenonT(60) DEF Buffers
<1>9. ASSUME NEW f \in Fbs PROVE IsFiniteSet(Keepers(b, f)) /\ Kept(b, f) = 0
  <2>1. \A c \in Clients : {c} \X (1..b.held[c][f]) = {}
    <3>1. ASSUME NEW c \in Clients PROVE 1..b.held[c][f] = {}
      BY <1>6, <1>7
    <3> QED
      BY <3>1
  <2>2. Keepers(b, f) = {}
    BY <2>1 DEF Keepers
  <2> QED
    BY <2>2, FS_EmptySet DEF Kept
<1>10. \A s \in Slots : b.info[s] = NoInfo
  BY <1>6, <1>7
<1>11. \A f \in Fbs : InUse(b, f) = 0
  BY <1>10, NoInfoFacts, NumberFacts DEF InUse
<1>12. \A f \in Fbs : PixmapKept(b, f)
  BY <1>6, <1>7, <1>9, <1>11, NoFbFacts DEF PixmapKept
<1>13. \A s \in Slots : InfoKept(b, s)
  BY <1>10, NoInfoFacts DEF InfoKept
<1>14. Apart(b)
  BY <1>10, NoInfoFacts DEF Apart
<1>15. Core(b)
  BY <1>6, <1>8, <1>9, <1>12, <1>13, <1>14 DEF Core
<1>16. "widget" \in Slots /\ "gbar" \in Slots /\ Extra \subseteq Slots
  BY SlotFacts
<1>17. Living(b)
  BY <1>6, <1>7, <1>10, <1>16, NoInfoFacts DEF Living
<1> QED
  BY <1>15, <1>17 DEF BufferInv

LEMMA NextKeeps ==
  ASSUME Supplied, BufferInv, [Next]_vars
  PROVE  BufferInv'
<1>1. CASE Next
  BY <1>1, ActivatedKeeps, SlaveLostKeeps, RenewKeeps, ReactivatedKeeps, DestroyRequestedKeeps,
     DestroyedKeeps, CreateGbarKeeps, DestroyGbarKeeps, MonitorExpiresKeeps, SlaveKeeps,
     SlaveReleasesKeeps, ClientKeeps, ClientConnectsKeeps DEF Next
<1>2. CASE UNCHANGED vars
  BY <1>2 DEF vars, BufferInv
<1> QED
  BY <1>1, <1>2

LEMMA Invariant ==
  ASSUME Supplied
  PROVE  Spec => []BufferInv
BY InitKeeps, NextKeeps, PTL DEF Spec

LEMMA CountIs ==
  ASSUME BufferInv, NEW f \in Fbs
  PROVE  Count(f) = InUse(b, f) + Kept(b, f)
<1>1. Cardinality(Users(b, f)) = InUse(b, f)
  <2>1. CASE \E s \in Slots : b.info[s].fb = f
    <3>1. PICK s \in Slots : b.info[s].fb = f
      BY <2>1
    <3>2. Users(b, f) = {s}
      BY <3>1, NumberFacts DEF Users, BufferInv, Core, Apart
    <3> QED
      BY <2>1, <3>2, FS_Singleton DEF InUse
  <2>2. CASE ~ \E s \in Slots : b.info[s].fb = f
    <3>1. Users(b, f) = {}
      BY <2>2 DEF Users
    <3> QED
      BY <2>2, <3>1, FS_EmptySet DEF InUse
  <2> QED
    BY <2>1, <2>2
<1> QED
  BY <1>1 DEF Count, Kept

LEMMA CountedFollows ==
  ASSUME BufferInv
  PROVE  PixmapsCounted
<1>1. Core(b)
  BY DEF BufferInv
<1>2. ASSUME NEW s \in Slots
      PROVE  LET x == b.info[s] IN
             /\ x.size \in Sizes /\ x.fb \in 0..MaxPixmaps /\ x.opens \in 0..MaxHeld
             /\ x.loaded => x.made
             /\ (x.fb # 0) = (x.loaded /\ b.type = "pixmap")
             /\ x.lock = IF x.loaded /\ b.type # "pixmap" THEN 1 ELSE 0
  <2> DEFINE x == b.info[s]
  <2>1. x \in Info /\ InfoKept(b, s)
    BY <1>1, FieldFacts DEF Core
  <2>2. x.size \in Sizes /\ x.fb \in 0..MaxPixmaps /\ x.opens \in 0..MaxHeld
        /\ x.loaded \in BOOLEAN
    BY <2>1, InfoFacts
  <2>3. x.loaded => x.made
    BY <2>1 DEF InfoKept
  <2>4. (x.fb # 0) = (x.loaded /\ b.type = "pixmap")
    BY <2>1, <2>2 DEF InfoKept
  <2>5. x.lock = IF x.loaded /\ b.type # "pixmap" THEN 1 ELSE 0
    BY <2>1 DEF InfoKept
  <2> QED
    BY <2>2, <2>3, <2>4, <2>5
<1>3. \A f \in Fbs : b.fb[f].maps = 0 /\ ~b.fb[f].data
  BY <1>1 DEF Core, PixmapKept
<1>4. TypeOK
  BY <1>2, <1>3 DEF TypeOK
<1>5. ASSUME NEW f \in Fbs
      PROVE  LET x == b.fb[f] IN
             /\ x.ref = Count(f) /\ x.listed = (IF x.st = "made" THEN 1 ELSE 0)
             /\ x.st = "made" <=> x.ref > 0
  BY <1>1, CountIs DEF Core, PixmapKept
<1>6. ~b.bad
  BY <1>1 DEF Core
<1> QED
  BY <1>4, <1>5, <1>6 DEF PixmapsCounted, PixmapHeldExactly

LEMMA GrantFollows ==
  ASSUME BufferInv
  PROVE  GrantKept
<1>1. Core(b) /\ b \in Buffers /\ b.held = b.given /\ b.live \subseteq Clients
  BY FieldFacts DEF BufferInv, Core
<1>2. ASSUME NEW c \in b.live, NEW f \in Fbs, b.given[c][f] > 0 PROVE b.fb[f].st = "made"
  <2> DEFINE n == b.held[c][f]
  <2>1. c \in Clients /\ n \in Nat /\ n > 0
    BY <1>1, <1>2, FieldFacts
  <2>2. <<c, 1>> \in {c} \X (1..n)
    BY <2>1
  <2>3. <<c, 1>> \in Keepers(b, f)
    BY <2>1, <2>2, KeepersElements
  <2>4. IsFiniteSet(Keepers(b, f))
    BY <1>1 DEF Core
  <2>5. Kept(b, f) \in Nat /\ Kept(b, f) # 0
    BY <2>3, <2>4, FS_CardinalityType, FS_EmptySet DEF Kept
  <2> QED
    BY <1>1, <2>5, UsedIsMade
<1> QED
  BY <1>2 DEF GrantKept

(* buffer_handler_load, _unload, _resize, _pixmap_ref, _pixmap_unref,      *)
(* client_release_pixmap: for any viewers, reloads, lost slaves and order  *)
(* of requests, a buffer has its pixmap or its lock while it is loaded, a  *)
(* pixmap counts that buffer and all it was given to, is listed once while *)
(* it counts any, and nobody uses it once it is freed.                     *)
THEOREM PixmapsAreCounted ==
  ASSUME Supplied
  PROVE  Spec => []PixmapsCounted
BY Invariant, CountedFollows, PTL

(* client_widget_acquire_pixmap: what a viewer was given stays until it    *)
(* gives it back or leaves.                                                *)
THEOREM GrantsAreKept ==
  ASSUME Supplied
  PROVE  Spec => []GrantKept
BY Invariant, GrantFollows, PTL

(* slave_acquire_extra_buffer, slave_release_extra_buffer: the viewers     *)
(* know of the extra pixmap that is drawn into, and of no other.           *)
THEOREM ExtraIsTold ==
  ASSUME Supplied
  PROVE  Spec => []ExtraTold
<1>1. BufferInv => ExtraTold
  BY DEF BufferInv, Living, ExtraTold
<1> QED
  BY <1>1, Invariant, PTL
=============================================================================
