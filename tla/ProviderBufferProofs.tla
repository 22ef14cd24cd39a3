------------------------ MODULE ProviderBufferProofs ------------------------
(***************************************************************************)
(* Proofs about the buffers of a provider, for any number of buffers and   *)
(* canvases, any clock, and any number of frames to skip.                  *)
(***************************************************************************)
EXTENDS ProviderBufferProps, TLAPS

Gem == [st : {"none", "live"}, refcnt : Nat, data : BOOLEAN, locks : Int,
        comp : BOOLEAN, old : BOOLEAN]
FrameBuffer == [kind : Kinds \cup {"none"}, buffer : Canvases \cup {None}, gem : Gem]
Buffer == [st : {"none", "init", "created"}, handler : BOOLEAN, fb : FrameBuffer,
           lock : {"none", "free", "taken"}, skip : 0..Skip,
           extra : SUBSET (0..Extras), press : {"up", "down", "bad"}, cleared : Nat,
           asked : {"none", "handed", "refused", "lost"}, frame : BOOLEAN]
Canvas == [st : {"none", "live", "unmapped"}, kind : Kinds \cup {"none"},
           refcnt : Nat, held : Nat]
Touches == [st : {"none", "ACTIVATE", "ACTIVATED"}, ts : Times]
State == [buf : [Bufs -> Buffer], canvas : [Canvases -> Canvas], eo : [Bufs -> Touches],
          last : Times, fd : BOOLEAN, open : Int, bufmgr : BOOLEAN, gone : BOOLEAN,
          bad : BOOLEAN, touched : BOOLEAN, uses : Uses]

(* Only an acquired buffer has memory, only a pixmap has a gem.            *)
Shaped(x) ==
  /\ x.st # "created" => x.fb = NoFb
  /\ x.st = "created" => x.fb.kind \in Kinds
  /\ x.fb.gem.st = "live" => x.fb.kind = "pixmap"
  /\ x.fb.gem.st = "none" => x.fb.gem = NoGem

Base(w) == w \in State /\ \A b \in Bufs : Shaped(w.buf[b])

(* A canvas that lives is counted as often as the app holds it.            *)
Kept(x) ==
  \/ x.st = "live" /\ x.held > 0 /\ x.refcnt = x.held /\ x.kind # "shm"
  \/ x = NoCanvas

Pointed(w) == \A b \in Bufs :
  w.buf[b].fb.buffer # None => w.canvas[w.buf[b].fb.buffer].st = "live"

Memory(w) ==
  /\ \A c \in Canvases : Kept(w.canvas[c])
  /\ Pointed(w)
  /\ \A b \in Bufs : w.buf[b].fb.gem.old => w.gone
  /\ \A b \in Bufs : w.buf[b].extra \subseteq {i \in 0..Extras : i < Extras}
  /\ w.bad = FALSE /\ w.touched = FALSE
  /\ w.open = (IF w.fd THEN 1 ELSE 0)

(* Who is registered is there, and the device is open for him.             *)
Device(w) ==
  /\ \A b \in Bufs : Registered(w, b) => FindBuffer(w, b)
  /\ w.fd = (AllRegistered(w) # {})

Fingers(w) == \A b \in Bufs :
  /\ w.buf[b].press # "bad"
  /\ "touch" \in w.uses =>
       (w.buf[b].press = "down" <=> Active(w, b) /\ w.buf[b].handler)
  /\ "touch" \notin w.uses => ~Registered(w, b)

(* The memory is locked while a frame is drawn into it.                    *)
Whole(g, frame) ==
  /\ g.refcnt \in {0, 1} /\ (g.refcnt = 1 => frame) /\ (g.data <=> g.refcnt = 1)
  /\ g.locks = (IF g.data /\ ~g.comp THEN 1 ELSE 0)

Framed(x) ==
  /\ x.frame => x.st = "created"
  /\ Whole(x.fb.gem, x.frame)
  /\ x.lock = "taken" => x.frame /\ x.fb.kind = "shm"
  /\ x.st # "none" /\ x.handler => x.cleared = (IF x.skip = 0 THEN 1 ELSE 0)

Frames(w) == \A b \in Bufs : Framed(w.buf[b])

USE ProviderBufferAssumption DEF Times
-----------------------------------------------------------------------------
(* One buffer changes, and little of it.                                   *)

Mild(x, y) ==
  /\ y \in Buffer /\ Shaped(y)
  /\ y.fb.buffer \in {x.fb.buffer, None}
  /\ y.fb.gem.old => x.fb.gem.old
  /\ y.press = x.press /\ y.handler = x.handler /\ (x.st # "none" => y.st # "none")
  /\ y.extra \subseteq x.extra \cup {i \in 0..Extras : i < Extras}

Put(w, b, x) == [w EXCEPT !.buf[b] = x]

LEMMA PutBase ==
  ASSUME NEW w, Base(w), NEW b \in Bufs, NEW x \in Buffer, Shaped(x)
  PROVE  LET u == [w EXCEPT !.buf[b] = x]
         IN  /\ Base(u) /\ u.buf[b] = x
             /\ \A d \in Bufs : d # b => u.buf[d] = w.buf[d]
             /\ u.canvas = w.canvas /\ u.eo = w.eo /\ u.last = w.last /\ u.fd = w.fd
             /\ u.open = w.open /\ u.bufmgr = w.bufmgr /\ u.gone = w.gone
             /\ u.bad = w.bad /\ u.touched = w.touched /\ u.uses = w.uses
  BY DEF Base, State

LEMMA PutMild ==
  ASSUME NEW w, Base(w), NEW b \in Bufs, NEW y, Mild(w.buf[b], y)
  PROVE  LET u == [w EXCEPT !.buf[b] = y]
         IN  /\ Base(u) /\ (Memory(w) => Memory(u)) /\ (Device(w) => Device(u))
             /\ (Fingers(w) => Fingers(u))
             /\ (Frames(w) /\ Framed(y) => Frames(u))
  <1> DEFINE u == [w EXCEPT !.buf[b] = y]
  <1>1. /\ Base(u) /\ u.buf[b] = y
        /\ \A d \in Bufs : d # b => u.buf[d] = w.buf[d]
        /\ u.canvas = w.canvas /\ u.eo = w.eo /\ u.last = w.last /\ u.fd = w.fd
        /\ u.open = w.open /\ u.bufmgr = w.bufmgr /\ u.gone = w.gone
        /\ u.bad = w.bad /\ u.touched = w.touched /\ u.uses = w.uses
    BY PutBase DEF Mild
  <1> HIDE DEF u
  <1>2. Memory(w) => Memory(u)
    BY <1>1 DEF Memory, Pointed, Mild
  <1>3. Device(w) => Device(u)
    BY <1>1 DEF Device, Mild, Registered, FindBuffer, AllRegistered
  <1>4. Fingers(w) => Fingers(u)
    BY <1>1 DEF Fingers, Mild, Registered, Active
  <1>5. Frames(w) /\ Framed(y) => Frames(u)
    BY <1>1 DEF Frames
  <1> QED BY <1>1, <1>2, <1>3, <1>4, <1>5 DEF u

LEMMA BadBase ==
  ASSUME NEW w, Base(w)
  PROVE  /\ Base(Bad(w)) /\ (Device(w) => Device(Bad(w))) /\ (Fingers(w) => Fingers(Bad(w)))
         /\ (Frames(w) => Frames(Bad(w))) /\ Bad(w).buf = w.buf
  BY DEF Base, State, Bad, Device, Fingers, Frames, Registered, FindBuffer, AllRegistered,
    Active

LEMMA WithGem ==
  ASSUME NEW x \in Buffer, NEW g \in Gem, Shaped(x), x.st = "created", x.fb.kind = "pixmap",
         g.st = "live" \/ g = NoGem, g.old => x.fb.gem.old
  PROVE  LET y == [x EXCEPT !.fb.gem = g] IN Mild(x, y) /\ y.fb.gem = g
  BY DEF Buffer, FrameBuffer, Shaped, Mild, NoFb

LEMMA MappedGem ==
  ASSUME NEW g \in Gem, g.st = "live", NEW maps \in BOOLEAN
  PROVE  LET h == Mapped(g, maps)
         IN  /\ h \in Gem /\ h.st = "live" /\ h.old = g.old /\ h.comp = g.comp
             /\ h.refcnt = g.refcnt + 1 /\ h.data = (g.data \/ maps)
             /\ h.locks = IF ~g.data /\ ~g.comp /\ maps THEN g.locks + 1 ELSE g.locks
  <1> DEFINE h == Mapped(g, maps)
  <1>1. /\ h.st = "live" /\ h.old = g.old /\ h.comp = g.comp
        /\ h.refcnt = g.refcnt + 1 /\ h.data = (g.data \/ maps)
        /\ h.locks = IF ~g.data /\ ~g.comp /\ maps THEN g.locks + 1 ELSE g.locks
    BY ZenonT(30) DEF Gem, Mapped
  <1>2. g.refcnt \in Nat /\ g.locks \in Int BY DEF Gem
  <1>3. g.refcnt + 1 \in Nat /\ g.locks + 1 \in Int BY <1>2
  <1>4. h \in Gem
    BY ZenonT(30), <1>1, <1>2, <1>3 DEF Gem, Mapped
  <1> QED BY <1>1, <1>4

LEMMA UnmappedGem ==
  ASSUME NEW g \in Gem, g.st = "live"
  PROVE  LET h == Unmapped(g)
         IN  /\ h \in Gem /\ h.st = "live" /\ h.old = g.old /\ h.comp = g.comp
             /\ g.refcnt = 1 =>
                  /\ h.refcnt = 0 /\ h.data = FALSE
                  /\ h.locks = IF g.comp /\ g.data THEN g.locks ELSE g.locks - 1
             /\ g.refcnt > 1 =>
                  h.refcnt = g.refcnt - 1 /\ h.data = g.data /\ h.locks = g.locks
             /\ g.refcnt = 0 => h.refcnt = 0 /\ h.data = g.data /\ h.locks = g.locks
  <1> DEFINE h == Unmapped(g)
  <1>0. g.refcnt \in Nat /\ g.locks \in Int BY DEF Gem
  <1>1. CASE g.refcnt = 1
    <2>1. h = [g EXCEPT !.refcnt = 0, !.data = FALSE,
                        !.locks = IF g.comp /\ g.data THEN @ ELSE @ - 1]
      BY <1>1, Zenon DEF Unmapped
    <2>2. /\ h.st = "live" /\ h.old = g.old /\ h.comp = g.comp
          /\ h.refcnt = 0 /\ h.data = FALSE
          /\ h.locks = IF g.comp /\ g.data THEN g.locks ELSE g.locks - 1
      BY <2>1, ZenonT(30) DEF Gem
    <2>3. g.locks - 1 \in Int /\ 0 \in Nat BY <1>0
    <2>4. h \in Gem
      BY <2>1, <2>2, <2>3, <1>0, ZenonT(30) DEF Gem
    <2>5. ~(g.refcnt > 1) /\ g.refcnt # 0 BY <1>1
    <2> QED BY <2>2, <2>4, <2>5, <1>1, Zenon
  <1>2. CASE g.refcnt # 1
    <2>1. /\ h \in Gem /\ h.st = "live" /\ h.old = g.old /\ h.comp = g.comp
          /\ g.refcnt > 1 =>
               h.refcnt = g.refcnt - 1 /\ h.data = g.data /\ h.locks = g.locks
          /\ g.refcnt = 0 => h.refcnt = 0 /\ h.data = g.data /\ h.locks = g.locks
      BY <1>0, <1>2 DEF Gem, Unmapped
    <2> QED BY <2>1, <1>2, Zenon
  <1> QED BY <1>1, <1>2

(* A frame begins, ends, or draws at one go.                               *)
LEMMA MappedWhole ==
  ASSUME NEW g \in Gem, g.st = "live", NEW frame \in BOOLEAN, Whole(g, frame), g.refcnt = 0
  PROVE  Whole(Mapped(g, TRUE), TRUE)
  <1> DEFINE h == Mapped(g, TRUE)
  <1>1. /\ h.comp = g.comp /\ h.refcnt = g.refcnt + 1 /\ h.data = (g.data \/ TRUE)
        /\ h.locks = IF ~g.data /\ ~g.comp /\ TRUE THEN g.locks + 1 ELSE g.locks
    BY MappedGem
  <1> HIDE DEF h
  <1>2. g.data = FALSE /\ g.locks = 0 /\ h.refcnt = 1
    BY <1>1, SMT DEF Whole, Gem
  <1>3. h.data = TRUE BY <1>1, Zenon
  <1>4. h.locks = (IF h.data /\ ~h.comp THEN 1 ELSE 0)
    <2>1. CASE g.comp = TRUE BY <2>1, <1>1, <1>2, <1>3
    <2>2. CASE g.comp = FALSE BY <2>2, <1>1, <1>2, <1>3
    <2> QED BY <2>1, <2>2 DEF Gem
  <1>5. Whole(h, TRUE) BY <1>2, <1>3, <1>4 DEF Whole
  <1> QED BY <1>5 DEF h

LEMMA UnmappedWhole ==
  ASSUME NEW g \in Gem, g.st = "live", NEW frame \in BOOLEAN, Whole(g, frame)
  PROVE  Whole(Unmapped(g), FALSE)
  <1> DEFINE h == Unmapped(g)
  <1>1. /\ h.comp = g.comp
        /\ g.refcnt = 1 =>
             /\ h.refcnt = 0 /\ h.data = FALSE
             /\ h.locks = IF g.comp /\ g.data THEN g.locks ELSE g.locks - 1
        /\ g.refcnt = 0 => h.refcnt = 0 /\ h.data = g.data /\ h.locks = g.locks
    BY UnmappedGem
  <1> HIDE DEF h
  <1>2. ASSUME g.refcnt = 1 PROVE Whole(h, FALSE)
    <2>1. g.data = TRUE /\ h.data = FALSE /\ h.refcnt = 0
      BY <1>1, <1>2 DEF Whole, Gem
    <2>2. h.locks = 0
      <3>1. CASE g.comp = TRUE BY <3>1, <2>1, <1>1, <1>2 DEF Whole
      <3>2. CASE g.comp = FALSE BY <3>2, <2>1, <1>1, <1>2 DEF Whole
      <3> QED BY <3>1, <3>2 DEF Gem
    <2> QED BY <2>1, <2>2 DEF Whole
  <1>3. ASSUME g.refcnt = 0 PROVE Whole(h, FALSE)
    <2>1. g.data = FALSE /\ h.data = FALSE /\ h.refcnt = 0 /\ h.locks = 0
      BY <1>1, <1>3 DEF Whole, Gem
    <2> QED BY <2>1 DEF Whole
  <1>4. g.refcnt = 0 \/ g.refcnt = 1 BY DEF Whole
  <1>5. Whole(h, FALSE) BY <1>2, <1>3, <1>4
  <1> QED BY <1>5 DEF h

LEMMA AtOneGo ==
  ASSUME NEW g \in Gem, g.st = "live", NEW frame \in BOOLEAN, Whole(g, frame)
  PROVE  Whole(Unmapped(Mapped(g, TRUE)), frame)
  <1> DEFINE h == Mapped(g, TRUE)
             k == Unmapped(h)
  <1>0. /\ h \in Gem /\ h.st = "live" /\ h.comp = g.comp
        /\ h.refcnt = g.refcnt + 1 /\ h.data = (g.data \/ TRUE)
        /\ h.locks = IF ~g.data /\ ~g.comp /\ TRUE THEN g.locks + 1 ELSE g.locks
    BY MappedGem
  <1>1. CASE g.refcnt = 0
    <2>1. Whole(h, TRUE) BY <1>1, MappedWhole
    <2>2. Whole(k, FALSE) BY <2>1, <1>0, UnmappedWhole
    <2>3. g.refcnt \in {0, 1} /\ (g.refcnt = 1 => frame) BY DEF Whole
    <2> QED BY <2>2 DEF Whole
  <1>2. CASE g.refcnt = 1
    <2>0. h.refcnt = g.refcnt + 1 BY <1>0
    <2>1. h.refcnt = 2 /\ h.refcnt > 1
      <3> HIDE DEF h
      <3> QED BY <2>0, <1>2
    <2>2. k.comp = h.comp /\ k.refcnt = h.refcnt - 1 /\ k.data = h.data /\ k.locks = h.locks
      <3> HIDE DEF h
      <3> QED BY <1>0, <2>1, UnmappedGem
    <2> HIDE DEF h, k
    <2>3. g.data = TRUE /\ h.data = TRUE /\ h.locks = g.locks
      BY <1>0, <1>2, Zenon DEF Whole, Gem
    <2>4. k.refcnt = 1 /\ k.data = TRUE /\ k.comp = g.comp /\ k.locks = g.locks
      BY <2>1, <2>2, <2>3, <1>0
    <2>5. Whole(k, frame)
      BY <2>3, <2>4, <1>2 DEF Whole
    <2> QED BY <2>5 DEF k, h
  <1> QED BY <1>1, <1>2 DEF Whole

LEMMA GemOfBuffer ==
  ASSUME NEW w, Base(w), NEW b \in Bufs
  PROVE  LET x == w.buf[b]
         IN  /\ x \in Buffer /\ x.fb.gem \in Gem /\ Shaped(x) /\ x.frame \in BOOLEAN
             /\ FbHasGem(w, b) => x.fb.gem.st = "live" /\ x.fb.kind = "pixmap" /\ x.st = "created"
             /\ ~FbHasGem(w, b) => x.fb.gem = NoGem
  BY DEF Base, State, Buffer, FrameBuffer, FbHasGem, FbSupportGem, Shaped, Gem, NoFb

(* What a step does to one buffer alone.                                   *)
Keeps(w, u, memory, frame) ==
  /\ Base(u) /\ (Memory(w) /\ memory => Memory(u)) /\ (Device(w) => Device(u))
  /\ (Fingers(w) => Fingers(u)) /\ (Frames(w) /\ frame => Frames(u))

LEMMA PutKeeps ==
  ASSUME NEW w, Base(w), NEW b \in Bufs, NEW y, Mild(w.buf[b], y), NEW frame,
         Framed(w.buf[b]) /\ frame => Framed(y)
  PROVE  Keeps(w, [w EXCEPT !.buf[b] = y], TRUE, frame)
  <1>1. Frames(w) => Framed(w.buf[b]) BY DEF Frames
  <1> QED BY <1>1, PutMild DEF Keeps

LEMMA SameKeeps ==
  ASSUME NEW w, Base(w), NEW memory, NEW frame PROVE Keeps(w, w, memory, frame)
  BY DEF Keeps
-----------------------------------------------------------------------------
(* The operators of one buffer.                                            *)

LEMMA SetGemKeeps ==
  ASSUME NEW w, Base(w), NEW b \in Bufs, Created(w, b), FbSupportGem(w, b),
         NEW g \in Gem, g.st = "live" \/ g = NoGem, g.old => w.buf[b].fb.gem.old,
         NEW frame \in BOOLEAN,
         Framed(w.buf[b]) /\ frame => Whole(g, w.buf[b].frame)
  PROVE  Keeps(w, SetGem(w, b, g), TRUE, frame) /\ SetGem(w, b, g).buf[b].fb.gem = g
  <1> DEFINE x == w.buf[b]
             y == [x EXCEPT !.fb.gem = g]
  <1>1. SetGem(w, b, g) = [w EXCEPT !.buf[b] = y] BY DEF SetGem
  <1>2. x \in Buffer /\ Shaped(x) /\ x.st = "created" /\ x.fb.kind = "pixmap"
    BY GemOfBuffer DEF Created, FbSupportGem
  <1>3. Mild(x, y) /\ y.fb.gem = g BY <1>2, WithGem
  <1>4. /\ y.frame = x.frame /\ y.st = x.st /\ y.fb.kind = x.fb.kind /\ y.lock = x.lock
        /\ y.handler = x.handler /\ y.cleared = x.cleared /\ y.skip = x.skip
    BY <1>2 DEF Buffer, FrameBuffer
  <1>5. SetGem(w, b, g).buf[b] = y
    BY <1>1, <1>2 DEF Base, State
  <1> HIDE DEF y
  <1>6. Framed(x) /\ frame => Framed(y)
    BY <1>3, <1>4 DEF Framed
  <1>7. Keeps(w, [w EXCEPT !.buf[b] = y], TRUE, frame)
    BY <1>3, <1>6, PutKeeps
  <1> QED BY <1>1, <1>3, <1>5, <1>7

LEMMA FreshGem ==
  ASSUME NEW g, g.refcnt = 0, g.data = FALSE, g.locks = 0, NEW frame
  PROVE  Whole(g, frame)
  <1>1. 0 # 1 OBVIOUS
  <1>2. g.refcnt # 1 BY <1>1
  <1> QED BY <1>2, Zenon DEF Whole

LEMMA CreateHwKeeps ==
  ASSUME NEW w, Base(w), NEW b \in Bufs, NEW comp \in BOOLEAN, NEW ok \in BOOLEAN
  PROVE  Keeps(w, CreateHw(w, b, comp, ok), TRUE, TRUE)
  <1> DEFINE g == [NoGem EXCEPT !.st = "live", !.comp = comp]
  <1>1. CASE CreateHw(w, b, comp, ok) = w BY <1>1, SameKeeps
  <1>2. CASE CreateHw(w, b, comp, ok) # w
    <2>1. Created(w, b) /\ FbSupportGem(w, b)
          /\ CreateHw(w, b, comp, ok) = SetGem(w, b, g)
      BY <1>2 DEF CreateHw, CreateGem
    <2>2. /\ g.st = "live" /\ g.old = FALSE /\ g.refcnt = 0 /\ g.data = FALSE
          /\ g.locks = 0 /\ g.comp = comp
      BY DEF NoGem
    <2>3. NoGem \in Gem BY DEF NoGem, Gem
    <2>4. g \in Gem BY <2>3 DEF Gem
    <2> HIDE DEF g
    <2>5. Whole(g, w.buf[b].frame) BY <2>2, FreshGem
    <2>6. Keeps(w, SetGem(w, b, g), TRUE, TRUE)
      BY <2>1, <2>2, <2>4, <2>5, SetGemKeeps
    <2> QED BY <2>1, <2>6
  <1> QED BY <1>1, <1>2

LEMMA NoGemIs == NoGem \in Gem /\ NoGem.old = FALSE /\ \A frame : Whole(NoGem, frame)
  <1>1. NoGem \in Gem /\ NoGem.old = FALSE /\ NoGem.refcnt = 0 /\ NoGem.data = FALSE
        /\ NoGem.locks = 0
    BY DEF NoGem, Gem
  <1> QED BY <1>1, FreshGem

(* Device memory of a master that is there is given back, of another not.  *)
LEMMA DestroyHwKeeps ==
  ASSUME NEW w, Base(w), NEW b \in Bufs
  PROVE  Keeps(w, DestroyHw(w, b), TRUE, TRUE)
  <1>1. CASE ~(Created(w, b) /\ FbHasGem(w, b)) BY <1>1, SameKeeps DEF DestroyHw
  <1>2. CASE Created(w, b) /\ FbHasGem(w, b)
    <2> DEFINE u == SetGem(w, b, NoGem)
               t == w.touched \/ (w.buf[b].fb.gem.old /\ ~w.gone)
    <2>1. DestroyHw(w, b) = [u EXCEPT !.touched = t]
      <3>1. u.touched = w.touched BY DEF SetGem, Base, State
      <3> QED BY <1>2, <3>1 DEF DestroyHw, DestroyGem
    <2>2. Keeps(w, u, TRUE, TRUE)
      BY <1>2, NoGemIs, SetGemKeeps DEF FbHasGem
    <2>3. u \in State /\ Base(u) BY <2>2 DEF Keeps, Base
    <2>4. t \in BOOLEAN /\ (Memory(w) => t = FALSE)
      BY DEF Memory, Base, State
    <2> HIDE DEF u, t
    <2> DEFINE v == [u EXCEPT !.touched = t]
    <2>5. v \in State /\ v.buf = u.buf /\ v.canvas = u.canvas /\ v.eo = u.eo /\ v.fd = u.fd
          /\ v.open = u.open /\ v.gone = u.gone /\ v.bad = u.bad /\ v.uses = u.uses
          /\ v.touched = t
      BY <2>3, <2>4 DEF State
    <2> HIDE DEF v
    <2>6. Base(v) BY <2>5, <2>3 DEF Base
    <2>7. (Memory(w) => Memory(v)) BY <2>2, <2>4, <2>5 DEF Keeps, Memory, Pointed
    <2>8. /\ Device(u) => Device(v)
          /\ Fingers(u) => Fingers(v)
          /\ Frames(u) => Frames(v)
      BY <2>5 DEF Device, Fingers, Frames, Registered, FindBuffer, AllRegistered, Active
    <2>9. Keeps(w, v, TRUE, TRUE)
      BY <2>6, <2>7, <2>8, <2>2, Zenon DEF Keeps
    <2> QED BY <2>9, <2>1 DEF v
  <1> QED BY <1>1, <1>2

(* Two steps on the same buffer are one.                                   *)
LEMMA PutTwice ==
  ASSUME NEW w, w \in State, NEW b \in Bufs, NEW x, NEW y
  PROVE  /\ Put(Put(w, b, x), b, y) = Put(w, b, y) /\ Put(w, b, x).buf[b] = x
         /\ [Put(w, b, x) EXCEPT !.buf[b] = y] = Put(w, b, y)
  BY DEF State, Put

LEMMA HwAddrKeeps ==
  ASSUME NEW w, Base(w), NEW b \in Bufs, FbHasGem(w, b)
  PROVE  Keeps(w, ReleaseGem(AcquireGem(w, b, TRUE), b), TRUE, TRUE)
  <1> DEFINE x == w.buf[b]
             g == x.fb.gem
             h == Mapped(g, TRUE)
             k == Unmapped(h)
             y == [x EXCEPT !.fb.gem = h]
             u == Put(w, b, y)
  <1>1. /\ x \in Buffer /\ g \in Gem /\ g.st = "live" /\ x.fb.kind = "pixmap" /\ x.st = "created"
        /\ x.frame \in BOOLEAN
    BY GemOfBuffer
  <1>2. AcquireGem(w, b, TRUE) = u BY DEF AcquireGem, SetGem, Put
  <1>3. w \in State BY DEF Base
  <1>4. u.buf[b] = y /\ y.fb.gem = h
    <2>1. y.fb.gem = h
      <3> HIDE DEF h
      <3> QED BY <1>1 DEF Buffer, FrameBuffer
    <2> HIDE DEF y
    <2>2. u.buf[b] = y BY <1>3, PutTwice
    <2> QED BY <2>1, <2>2
  <1>5. ReleaseGem(u, b) = Put(u, b, [y EXCEPT !.fb.gem = k])
    <2> HIDE DEF u, y, h
    <2> QED BY <1>4 DEF ReleaseGem, SetGem, Put
  <1>6. [y EXCEPT !.fb.gem = k] = [x EXCEPT !.fb.gem = k]
    <2> HIDE DEF k, h
    <2> QED BY <1>1 DEF Buffer, FrameBuffer
  <1>7. ReleaseGem(u, b) = Put(w, b, [x EXCEPT !.fb.gem = k])
    <2> HIDE DEF k, y
    <2> QED BY <1>5, <1>6, <1>3, PutTwice
  <1>8. ReleaseGem(u, b) = SetGem(w, b, k) BY <1>7 DEF SetGem, Put
  <1>9. h \in Gem /\ h.st = "live" /\ h.old = g.old BY <1>1, MappedGem
  <1>10. k \in Gem /\ k.st = "live" /\ k.old = g.old
    <2> HIDE DEF h
    <2> QED BY <1>9, UnmappedGem
  <1>11. Framed(x) => Whole(k, x.frame)
    BY <1>1, AtOneGo DEF Framed
  <1>12. Created(w, b) /\ FbSupportGem(w, b) BY <1>1 DEF Created, FbSupportGem
  <1> HIDE DEF k
  <1>13. Keeps(w, SetGem(w, b, k), TRUE, TRUE)
    BY <1>10, <1>11, <1>12, SetGemKeeps
  <1> QED BY <1>2, <1>8, <1>13

LEMMA BadKeeps ==
  ASSUME NEW w, Base(w), NEW memory, ~memory, NEW frame PROVE Keeps(w, Bad(w), memory, frame)
  BY BadBase DEF Keeps

LEMMA DumpFrameKeeps ==
  ASSUME NEW w, Base(w), NEW b \in Bufs
  PROVE  Keeps(w, DumpFrame(w, b), Created(w, b), TRUE)
  <1>1. CASE w.buf[b].st = "init"
    <2>1. ~Created(w, b) BY <1>1 DEF Created
    <2> QED BY <1>1, <2>1, BadKeeps DEF DumpFrame
  <1>2. CASE w.buf[b].st # "init" /\ FbHasGem(w, b)
    <2>1. Keeps(w, DumpFrame(w, b), TRUE, TRUE) BY <1>2, HwAddrKeeps DEF DumpFrame
    <2> QED BY <2>1 DEF Keeps
  <1>3. CASE w.buf[b].st # "init" /\ ~FbHasGem(w, b)
    BY <1>3, SameKeeps DEF DumpFrame
  <1> QED BY <1>1, <1>2, <1>3
-----------------------------------------------------------------------------
(* Frames. *)

(* A step on one buffer, that may have read memory that is not there.      *)
LEMMA OneBuffer ==
  ASSUME NEW w, Base(w), NEW b \in Bufs, NEW v, v = w \/ v = Bad(w),
         NEW memory, Memory(w) /\ memory => v = w,
         NEW y, Mild(w.buf[b], y), NEW frame, Framed(w.buf[b]) /\ frame => Framed(y)
  PROVE  Keeps(w, Put(v, b, y), memory, frame)
  <1>1. /\ Base(v) /\ (Device(w) => Device(v)) /\ (Fingers(w) => Fingers(v))
        /\ (Frames(w) => Frames(v)) /\ v.buf = w.buf
    BY BadBase
  <1>2. Keeps(v, [v EXCEPT !.buf[b] = y], TRUE, frame)
    BY <1>1, PutKeeps
  <1> QED BY <1>1, <1>2 DEF Keeps, Put

LEMMA FbTypeIs ==
  ASSUME NEW w, Base(w), NEW b \in Bufs
  PROVE  /\ FbType(w, b) = w \/ FbType(w, b) = Bad(w)
         /\ (Memory(w) => FbType(w, b) = w)
  BY DEF FbType, Memory, Pointed

LEMMA SkipMild ==
  ASSUME NEW x \in Buffer, Shaped(x)
  PROVE  LET y == SkipFrame(x)
         IN  /\ Mild(x, y) /\ y.fb = x.fb /\ y.lock = x.lock /\ y.frame = x.frame /\ y.st = x.st
             /\ x.cleared = (IF x.skip = 0 THEN 1 ELSE 0) /\ x.handler =>
                  y.cleared = (IF y.skip = 0 THEN 1 ELSE 0)
  <1> DEFINE y == SkipFrame(x)
             z == [x EXCEPT !.skip = IF @ > 0 THEN @ - 1 ELSE 0]
  <1>1. x.skip \in Nat /\ x.skip <= Skip /\ x.cleared \in Nat BY DEF Buffer
  <1>2. (IF x.skip > 0 THEN x.skip - 1 ELSE 0) \in 0..Skip BY <1>1
  <1>3. /\ z \in Buffer /\ z.skip = (IF x.skip > 0 THEN x.skip - 1 ELSE 0)
        /\ z.fb = x.fb /\ z.lock = x.lock /\ z.frame = x.frame /\ z.st = x.st
        /\ z.press = x.press /\ z.handler = x.handler /\ z.extra = x.extra
        /\ z.cleared = x.cleared
    BY <1>2 DEF Buffer
  <1>4. /\ y \in Buffer /\ y.fb = z.fb /\ y.lock = z.lock /\ y.frame = z.frame /\ y.st = z.st
        /\ y.press = z.press /\ y.handler = z.handler /\ y.extra = z.extra /\ y.skip = z.skip
        /\ x.handler => y.cleared = (IF x.skip = 1 THEN x.cleared + 1 ELSE x.cleared)
    <2> HIDE DEF z
    <2>1. CASE x.skip = 1 /\ x.handler
      <3>1. y = [z EXCEPT !.cleared = @ + 1]
        BY <2>1, <1>3 DEF z, SkipFrame, FeedFrameSkipCleared
      <3>2. z.cleared + 1 \in Nat BY <1>1, <1>3
      <3> HIDE DEF y
      <3> QED BY <2>1, <3>1, <3>2, <1>3 DEF Buffer
    <2>2. CASE ~(x.skip = 1 /\ x.handler)
      <3>1. y = z
        BY <2>2, <1>3 DEF z, SkipFrame, FeedFrameSkipCleared
      <3> HIDE DEF y
      <3> QED BY <2>2, <3>1, <1>3
    <2> QED BY <2>1, <2>2
  <1> HIDE DEF y, z
  <1>5. Mild(x, y) BY <1>3, <1>4 DEF Mild, Shaped
  <1>6. x.cleared = (IF x.skip = 0 THEN 1 ELSE 0) /\ x.handler =>
          y.cleared = (IF y.skip = 0 THEN 1 ELSE 0)
    <2>1. CASE x.skip = 1 BY <2>1, <1>1, <1>3, <1>4
    <2>2. CASE x.skip = 0 BY <2>2, <1>1, <1>3, <1>4
    <2>3. CASE x.skip > 1 BY <2>3, <1>1, <1>3, <1>4
    <2> QED BY <2>1, <2>2, <2>3, <1>1
  <1> QED BY <1>3, <1>4, <1>5, <1>6 DEF y

LEMMA ClearFrameSkipKeeps ==
  ASSUME NEW w, Base(w), NEW b \in Bufs
  PROVE  Keeps(w, ClearFrameSkip(w, b), TRUE, TRUE)
  <1> DEFINE x == w.buf[b]
             z == [x EXCEPT !.skip = 0]
             y == FeedFrameSkipCleared(z)
  <1>0. x \in Buffer /\ Shaped(x) BY GemOfBuffer
  <1>1. CASE ~(x.skip > 0) BY <1>1, SameKeeps DEF ClearFrameSkip
  <1>2. CASE x.skip > 0
    <2>1. x.skip \in Nat /\ x.skip # 0 /\ x.cleared \in Nat /\ 0 \in 0..Skip
      BY <1>0, <1>2 DEF Buffer
    <2>2. /\ z \in Buffer /\ z.skip = 0
          /\ z.fb = x.fb /\ z.lock = x.lock /\ z.frame = x.frame /\ z.st = x.st
          /\ z.press = x.press /\ z.handler = x.handler /\ z.extra = x.extra
          /\ z.cleared = x.cleared
      BY <1>0, <2>1 DEF Buffer
    <2>3. /\ y \in Buffer /\ y.fb = z.fb /\ y.lock = z.lock /\ y.frame = z.frame /\ y.st = z.st
          /\ y.press = z.press /\ y.handler = z.handler /\ y.extra = z.extra /\ y.skip = z.skip
          /\ x.handler => y.cleared = x.cleared + 1
      <3> HIDE DEF z
      <3>1. CASE x.handler
        <4>1. y = [z EXCEPT !.cleared = @ + 1] BY <3>1, <2>2 DEF FeedFrameSkipCleared
        <4>2. z.cleared + 1 \in Nat BY <2>1, <2>2
        <4> HIDE DEF y
        <4> QED BY <3>1, <4>1, <4>2, <2>2 DEF Buffer
      <3>2. CASE ~x.handler
        <4>1. y = z BY <3>2, <2>2 DEF FeedFrameSkipCleared
        <4> HIDE DEF y
        <4> QED BY <3>2, <4>1, <2>2
      <3> QED BY <3>1, <3>2
    <2>4. ClearFrameSkip(w, b) = [w EXCEPT !.buf[b] = y] BY <1>2 DEF ClearFrameSkip
    <2> HIDE DEF y, z
    <2>5. Mild(x, y) BY <1>0, <2>2, <2>3 DEF Mild, Shaped
    <2>6. Framed(x) => Framed(y)
      <3>1. x.st # "none" /\ x.handler /\ x.cleared = (IF x.skip = 0 THEN 1 ELSE 0) =>
              y.cleared = (IF y.skip = 0 THEN 1 ELSE 0)
        BY <2>1, <2>2, <2>3
      <3> QED BY <3>1, <2>2, <2>3 DEF Framed
    <2>7. Keeps(w, [w EXCEPT !.buf[b] = y], TRUE, TRUE)
      BY <2>5, <2>6, PutKeeps
    <2> QED BY <2>4, <2>7
  <1> QED BY <1>1, <1>2

(* The app begins a frame.                                                 *)
StartFrame(w, b, maps) == [PreRender(w, b, maps) EXCEPT !.buf[b].frame = TRUE]

LEMMA FrameMild ==
  ASSUME NEW x \in Buffer, NEW y, Mild(x, y), NEW frame \in BOOLEAN
  PROVE  LET z == [y EXCEPT !.frame = frame]
         IN  /\ Mild(x, z) /\ z.frame = frame /\ z.fb = y.fb /\ z.st = y.st /\ z.lock = y.lock
             /\ z.handler = y.handler /\ z.cleared = y.cleared /\ z.skip = y.skip
  BY DEF Buffer, Mild, Shaped

LEMMA LockMild ==
  ASSUME NEW x \in Buffer, Shaped(x), NEW now \in {"free", "taken"}
  PROVE  LET y == Lock(x, now)
         IN  /\ Mild(x, y) /\ y.fb = x.fb /\ y.frame = x.frame /\ y.st = x.st /\ y.skip = x.skip
             /\ y.handler = x.handler /\ y.cleared = x.cleared /\ y \in Buffer /\ Shaped(y)
             /\ y.lock = (IF x.fb.kind = "shm" THEN now ELSE x.lock)
  BY DEF Buffer, Mild, Shaped, Lock

LEMMA TypeOfState ==
  ASSUME NEW w, Base(w), NEW v, v = w \/ v = Bad(w)
  PROVE  v \in State /\ v.buf = w.buf
  BY BadBase DEF Base

LEMMA StartFrameKeeps ==
  ASSUME NEW w, Base(w), NEW b \in Bufs, NEW maps \in BOOLEAN, w.buf[b].frame = FALSE
  PROVE  Keeps(w, StartFrame(w, b, maps), Created(w, b), Created(w, b) /\ maps)
  <1> DEFINE x == w.buf[b]
  <1>0. /\ x \in Buffer /\ Shaped(x) /\ w \in State
        /\ FbHasGem(w, b) => x.fb.gem \in Gem /\ x.fb.gem.st = "live" /\ x.fb.kind = "pixmap"
             /\ x.st = "created"
        /\ ~FbHasGem(w, b) => x.fb.gem = NoGem
        /\ TRUE \in BOOLEAN
    BY GemOfBuffer DEF Base
  <1>1. CASE x.st = "init"
    <2> DEFINE y == [x EXCEPT !.frame = TRUE]
    <2>1. StartFrame(w, b, maps) = Put(Bad(w), b, y)
      BY <1>1, TypeOfState DEF StartFrame, PreRender, Put
    <2>2. ~Created(w, b) BY <1>1 DEF Created
    <2>3. Mild(x, x) BY <1>0 DEF Mild
    <2>4. Mild(x, y) BY <2>3, <1>0, FrameMild
    <2> HIDE DEF y
    <2>5. Keeps(w, Put(Bad(w), b, y), Created(w, b), Created(w, b) /\ maps)
      BY <2>2, <2>4, OneBuffer
    <2> QED BY <2>1, <2>5
  <1>2. CASE x.st # "init" /\ FbHasGem(w, b)
    <2> DEFINE g == x.fb.gem
               h == Mapped(g, maps)
               z == [x EXCEPT !.fb.gem = h]
               y == [z EXCEPT !.frame = TRUE]
               u == Put(w, b, z)
    <2>1. PreRender(w, b, maps) = u BY <1>2 DEF PreRender, AcquireGem, SetGem, Put
    <2>2. u.buf[b] = z
      <3> HIDE DEF z
      <3> QED BY <1>0, PutTwice
    <2>3. StartFrame(w, b, maps) = Put(u, b, y)
      <3> HIDE DEF z, u
      <3> QED BY <2>1, <2>2, Zenon DEF StartFrame, Put
    <2>4. Put(u, b, y) = Put(w, b, y)
      <3> HIDE DEF z, y
      <3> QED BY <1>0, PutTwice
    <2>5. h \in Gem /\ h.st = "live" /\ (h.old => g.old) BY <1>0, <1>2, MappedGem
    <2>6. maps /\ Framed(x) => Whole(h, TRUE)
      <3>1. ASSUME maps, Framed(x) PROVE Whole(h, TRUE)
        <4>1. Whole(g, x.frame) /\ x.frame = FALSE BY <3>1 DEF Framed
        <4>2. g.refcnt = 0 BY <4>1 DEF Whole
        <4>3. maps = TRUE BY <3>1
        <4>4. Whole(Mapped(g, TRUE), TRUE) BY <4>1, <4>2, <1>0, <1>2, MappedWhole
        <4> QED BY <4>3, <4>4
      <3> QED BY <3>1
    <2> HIDE DEF h
    <2>7. Mild(x, z) /\ z.fb.gem = h BY <2>5, <1>0, <1>2, WithGem
    <2>8. /\ z.st = x.st /\ z.fb.kind = x.fb.kind /\ z.lock = x.lock
          /\ z.handler = x.handler /\ z.cleared = x.cleared /\ z.skip = x.skip
      BY <1>0 DEF Buffer, FrameBuffer
    <2> HIDE DEF z
    <2>9. /\ Mild(x, y) /\ y.frame = TRUE /\ y.fb = z.fb /\ y.st = z.st /\ y.lock = z.lock
          /\ y.handler = z.handler /\ y.cleared = z.cleared /\ y.skip = z.skip
      BY <2>7, <1>0, FrameMild
    <2> HIDE DEF y
    <2>10. Framed(x) /\ (Created(w, b) /\ maps) => Framed(y)
      BY <2>6, <2>7, <2>8, <2>9, <1>0, <1>2 DEF Framed
    <2>11. Keeps(w, Put(w, b, y), Created(w, b), Created(w, b) /\ maps)
      BY <2>9, <2>10, OneBuffer
    <2> QED BY <2>3, <2>4, <2>11
  <1>3. CASE x.st # "init" /\ ~FbHasGem(w, b)
    <2> DEFINE v == FbType(w, b)
               z == Lock(x, "taken")
               y == [z EXCEPT !.frame = TRUE]
               u == Put(v, b, z)
    <2>0. /\ v = w \/ v = Bad(w)
          /\ Memory(w) => v = w
      BY FbTypeIs
    <2> HIDE DEF v
    <2>1. v \in State /\ v.buf = w.buf BY <2>0, TypeOfState
    <2>2. PreRender(w, b, maps) = u BY <1>3, <2>1 DEF PreRender, LockBuffer, v, Put
    <2>3. u.buf[b] = z
      <3> HIDE DEF z
      <3> QED BY <2>1, PutTwice
    <2>4. StartFrame(w, b, maps) = Put(u, b, y)
      <3> HIDE DEF z, u
      <3> QED BY <2>2, <2>3, Zenon DEF StartFrame, Put
    <2>5. Put(u, b, y) = Put(v, b, y)
      <3> HIDE DEF z, y
      <3> QED BY <2>1, PutTwice
    <2>6. /\ Mild(x, z) /\ z.fb = x.fb /\ z.st = x.st /\ z.skip = x.skip
          /\ z.handler = x.handler /\ z.cleared = x.cleared
          /\ z.lock = (IF x.fb.kind = "shm" THEN "taken" ELSE x.lock)
      BY <1>0, LockMild
    <2> HIDE DEF z
    <2>7. /\ Mild(x, y) /\ y.frame = TRUE /\ y.fb = z.fb /\ y.st = z.st /\ y.lock = z.lock
          /\ y.handler = z.handler /\ y.cleared = z.cleared /\ y.skip = z.skip
      BY <2>6, <1>0, FrameMild
    <2> HIDE DEF y
    <2>8. Whole(NoGem, TRUE) BY NoGemIs
    <2>9. Framed(x) /\ (Created(w, b) /\ maps) => Framed(y)
      <3> SUFFICES ASSUME Framed(x), Created(w, b) PROVE Framed(y)
        OBVIOUS
      <3> HIDE DEF x
      <3>1. x.st = "created" BY DEF Created, x
      <3>2. x.fb.gem = NoGem BY <1>0, <1>3
      <3>3. y.st = "created" /\ y.frame = TRUE /\ y.fb.kind = x.fb.kind /\ y.fb.gem = NoGem
        BY <2>6, <2>7, <3>1, <3>2
      <3>4. Whole(y.fb.gem, y.frame) BY <2>8, <3>3
      <3>5. y.lock = "taken" => y.fb.kind = "shm" BY <2>6, <2>7, <3>2 DEF Framed
      <3>6. y.st # "none" /\ y.handler => y.cleared = (IF y.skip = 0 THEN 1 ELSE 0)
        BY <2>6, <2>7 DEF Framed
      <3> QED BY <3>3, <3>4, <3>5, <3>6 DEF Framed
    <2>10. Keeps(w, Put(v, b, y), Created(w, b), Created(w, b) /\ maps)
      BY <2>0, <2>7, <2>9, OneBuffer
    <2> QED BY <2>4, <2>5, <2>10
  <1> QED BY <1>1, <1>2, <1>3

(* The app ends a frame: it counts, and the memory is given back.          *)
EndFrame(w, b) == [PostRender(w, b) EXCEPT !.buf[b].frame = FALSE]

LEMMA EndFrameKeeps ==
  ASSUME NEW w, Base(w), NEW b \in Bufs, Created(w, b)
  PROVE  Keeps(w, EndFrame(w, b), TRUE, TRUE)
  <1> DEFINE x == w.buf[b]
             gem == FbHasGem(w, b)
             v == IF gem THEN w ELSE FbType(w, b)
             z == IF gem THEN [x EXCEPT !.fb.gem = Unmapped(@)] ELSE Lock(x, "free")
             s == SkipFrame(z)
             y == [s EXCEPT !.frame = FALSE]
             u == Put(v, b, z)
             t == Put(u, b, s)
  <1>0. /\ x \in Buffer /\ Shaped(x) /\ w \in State /\ x.st = "created"
        /\ gem => x.fb.gem \in Gem /\ x.fb.gem.st = "live" /\ x.fb.kind = "pixmap"
        /\ ~gem => x.fb.gem = NoGem
        /\ FALSE \in BOOLEAN
    BY GemOfBuffer DEF Base, Created
  <1>1. /\ v = w \/ v = Bad(w)
        /\ Memory(w) => v = w
    BY FbTypeIs
  <1> HIDE DEF v
  <1>2. v \in State /\ v.buf = w.buf BY <1>1, <1>0, TypeOfState
  <1>3. PostRender(w, b) = [u EXCEPT !.buf[b] = SkipFrame(@)]
    <2>1. CASE gem
      <3>1. ReleaseGem(w, b) = u
        BY <2>1 DEF ReleaseGem, SetGem, v, Put
      <3> HIDE DEF u
      <3> QED BY <3>1, <2>1, <1>0, Zenon DEF PostRender
    <2>2. CASE ~gem
      <3>1. LockBuffer(w, b, "free") = u
        BY <2>2, <1>2 DEF LockBuffer, v, Put
      <3> HIDE DEF u
      <3> QED BY <3>1, <2>2, <1>0, Zenon DEF PostRender
    <2> QED BY <2>1, <2>2
  <1>4. u.buf[b] = z
    <2> HIDE DEF z
    <2> QED BY <1>2, PutTwice
  <1>5. PostRender(w, b) = t
    <2> HIDE DEF z, u
    <2> QED BY <1>3, <1>4, Zenon DEF Put
  <1>6. t = Put(v, b, s) /\ t.buf[b] = s
    <2> HIDE DEF z, s
    <2> QED BY <1>2, PutTwice
  <1>7. EndFrame(w, b) = Put(t, b, y)
    <2> HIDE DEF s, t
    <2> QED BY <1>5, <1>6, Zenon DEF EndFrame, Put
  <1>8. Put(t, b, y) = Put(v, b, y)
    <2> HIDE DEF s, y, t
    <2> QED BY <1>2, <1>6, PutTwice
  <1>9. /\ Mild(x, z) /\ z.st = x.st /\ z.skip = x.skip /\ z.fb.kind = x.fb.kind
        /\ z.handler = x.handler /\ z.cleared = x.cleared
        /\ Framed(x) => Whole(z.fb.gem, FALSE) /\ z.lock # "taken"
    <2>1. CASE gem
      <3> DEFINE h == Unmapped(x.fb.gem)
                 k == [x EXCEPT !.fb.gem = h]
      <3>0. z = k BY <2>1
      <3>1. h \in Gem /\ h.st = "live" /\ (h.old => x.fb.gem.old) BY <2>1, <1>0, UnmappedGem
      <3>2. Framed(x) => Whole(h, FALSE)
        <4>1. x.frame \in BOOLEAN BY <1>0 DEF Buffer
        <4> QED BY <4>1, <2>1, <1>0, UnmappedWhole DEF Framed
      <3> HIDE DEF h, z
      <3>3. Mild(x, k) /\ k.fb.gem = h BY <3>1, <2>1, <1>0, WithGem
      <3>4. /\ k.st = x.st /\ k.fb.kind = x.fb.kind /\ k.lock = x.lock
            /\ k.handler = x.handler /\ k.cleared = x.cleared /\ k.skip = x.skip
        BY <1>0 DEF Buffer, FrameBuffer
      <3>5. Framed(x) => k.lock # "taken"
        BY <3>4, <2>1, <1>0 DEF Framed
      <3> HIDE DEF k
      <3> QED BY <3>0, <3>2, <3>3, <3>4, <3>5
    <2>2. CASE ~gem
      <3> DEFINE k == Lock(x, "free")
      <3>0. z = k BY <2>2
      <3> HIDE DEF z
      <3>1. /\ Mild(x, k) /\ k.fb = x.fb /\ k.st = x.st /\ k.skip = x.skip
            /\ k.handler = x.handler /\ k.cleared = x.cleared
            /\ k.lock = (IF x.fb.kind = "shm" THEN "free" ELSE x.lock)
        BY <1>0, LockMild
      <3> HIDE DEF k
      <3>2. Framed(x) => k.lock # "taken" BY <3>1 DEF Framed
      <3>3. Whole(NoGem, FALSE) BY NoGemIs
      <3> QED BY <3>0, <3>1, <3>2, <3>3, <2>2, <1>0
    <2> QED BY <2>1, <2>2
  <1> HIDE DEF z
  <1>10. z \in Buffer /\ Shaped(z) BY <1>9 DEF Mild
  <1>11. /\ Mild(z, s) /\ s.fb = z.fb /\ s.lock = z.lock /\ s.st = z.st
         /\ z.cleared = (IF z.skip = 0 THEN 1 ELSE 0) /\ z.handler =>
              s.cleared = (IF s.skip = 0 THEN 1 ELSE 0)
    BY <1>10, SkipMild
  <1> HIDE DEF s
  <1>12. Mild(x, s) /\ s.handler = x.handler BY <1>9, <1>11 DEF Mild
  <1>13. /\ Mild(x, y) /\ y.frame = FALSE /\ y.fb = s.fb /\ y.st = s.st /\ y.lock = s.lock
         /\ y.handler = s.handler /\ y.cleared = s.cleared /\ y.skip = s.skip
    BY <1>12, <1>0, FrameMild
  <1> HIDE DEF y
  <1>14. Framed(x) => Framed(y)
    BY <1>9, <1>11, <1>12, <1>13 DEF Framed
  <1>15. Keeps(w, Put(v, b, y), TRUE, TRUE)
    BY <1>1, <1>13, <1>14, OneBuffer
  <1> QED BY <1>7, <1>8, <1>15
-----------------------------------------------------------------------------
(* Buffers come and go. *)

LEMMA FreshPut ==
  ASSUME NEW w, Base(w), NEW b \in Bufs, NEW y \in Buffer, y.fb = NoFb, y.st # "created",
         y.extra = {}, y.press = "up", y.frame = FALSE, y.lock = "none",
         y.st # "none" \/ ~Registered(w, b), ~Active(w, b),
         y.st = "none" \/ (y.cleared = 0 /\ y.skip = Skip)
  PROVE  Keeps(w, Put(w, b, y), TRUE, Skip # 0)
  <1> DEFINE u == Put(w, b, y)
  <1>1. Shaped(y) /\ y.fb.gem = NoGem /\ y.fb.buffer = None BY DEF Shaped, NoFb, NoGem
  <1>2. /\ Base(u) /\ u.buf[b] = y
        /\ \A d \in Bufs : d # b => u.buf[d] = w.buf[d]
        /\ u.canvas = w.canvas /\ u.eo = w.eo /\ u.last = w.last /\ u.fd = w.fd
        /\ u.open = w.open /\ u.bufmgr = w.bufmgr /\ u.gone = w.gone
        /\ u.bad = w.bad /\ u.touched = w.touched /\ u.uses = w.uses
    BY <1>1, PutBase DEF Put
  <1> HIDE DEF u
  <1>3. Memory(w) => Memory(u)
    BY <1>1, <1>2, NoGemIs DEF Memory, Pointed
  <1>4. Device(w) => Device(u)
    BY <1>2 DEF Device, Registered, FindBuffer, AllRegistered
  <1>5. Fingers(w) => Fingers(u)
    BY <1>2 DEF Fingers, Registered, Active
  <1>6. Whole(NoGem, FALSE) BY NoGemIs
  <1>7. Skip # 0 => Framed(y)
    BY <1>1, <1>6 DEF Framed
  <1>8. Frames(w) /\ Skip # 0 => Frames(u)
    BY <1>2, <1>7 DEF Frames
  <1> QED BY <1>2, <1>3, <1>4, <1>5, <1>8 DEF Keeps, u

LEMMA NoFbIs == NoFb \in FrameBuffer /\ NoFb.buffer = None /\ NoFb.gem = NoGem
                /\ NoFb.kind = "none"
  BY NoGemIs DEF NoFb, FrameBuffer

LEMMA NoBufIs == NoBuf \in Buffer
  BY NoFbIs DEF NoBuf, Buffer

LEMMA BufferCreateKeeps ==
  ASSUME NEW w, Base(w), Device(w), NEW b \in Bufs, ~FindBuffer(w, b), NEW handler \in BOOLEAN
  PROVE  Keeps(w, BufferCreate(w, b, handler), TRUE, Skip # 0)
  <1> DEFINE y == [NoBuf EXCEPT !.st = "init", !.handler = handler, !.skip = Skip]
  <1>0. /\ NoBuf.fb = NoFb /\ NoBuf.st = "none" /\ NoBuf.extra = {} /\ NoBuf.cleared = 0
        /\ NoBuf.press = "up" /\ NoBuf.frame = FALSE /\ NoBuf.lock = "none"
    BY DEF NoBuf
  <1>1. /\ y \in Buffer /\ y.fb = NoFb /\ y.st = "init" /\ y.extra = {} /\ y.press = "up"
        /\ y.frame = FALSE /\ y.lock = "none" /\ y.cleared = 0 /\ y.skip = Skip
    <2>1. Skip \in 0..Skip OBVIOUS
    <2> QED BY <1>0, <2>1, NoBufIs DEF Buffer
  <1>2. ~Active(w, b)
    BY DEF Device, Active, Registered
  <1>3. BufferCreate(w, b, handler) = Put(w, b, y) BY DEF BufferCreate, Put
  <1> HIDE DEF y
  <1>4. y.st # "none" /\ y.st # "created" BY <1>1
  <1>5. Keeps(w, Put(w, b, y), TRUE, Skip # 0) BY <1>1, <1>2, <1>4, FreshPut
  <1> QED BY <1>3, <1>5

LEMMA BufferDestroyKeeps ==
  ASSUME NEW w, Base(w), NEW b \in Bufs, ~Registered(w, b)
  PROVE  Keeps(w, BufferDestroy(w, b), TRUE, TRUE)
  <1>1. CASE w.buf[b].st # "init" BY <1>1, SameKeeps DEF BufferDestroy
  <1>2. CASE w.buf[b].st = "init"
    <2>1. /\ NoBuf \in Buffer /\ NoBuf.fb = NoFb /\ NoBuf.st = "none" /\ NoBuf.extra = {}
          /\ NoBuf.press = "up" /\ NoBuf.frame = FALSE /\ NoBuf.lock = "none"
      BY NoBufIs DEF NoBuf
    <2>2. ~Active(w, b) BY DEF Active, Registered
    <2> DEFINE u == Put(w, b, NoBuf)
    <2>3. Keeps(w, u, TRUE, Skip # 0)
      BY <2>1, <2>2, FreshPut
    <2>4. u.buf[b] = NoBuf /\ \A d \in Bufs : d # b => u.buf[d] = w.buf[d]
      BY DEF Base, State, Put
    <2> HIDE DEF u
    <2>5. Whole(NoGem, FALSE) BY NoGemIs
    <2>6. Framed(NoBuf) BY <2>1, <2>5, NoFbIs DEF Framed
    <2>7. Frames(w) => Frames(u) BY <2>4, <2>6 DEF Frames
    <2>8. Keeps(w, u, TRUE, TRUE) BY <2>3, <2>7 DEF Keeps
    <2> QED BY <2>8, <1>2 DEF u, BufferDestroy, Put
  <1> QED BY <1>1, <1>2

LEMMA BufferAcquireKeeps ==
  ASSUME NEW w, Base(w), NEW b \in Bufs, w.buf[b].st = "init", NEW kind \in Kinds, NEW ok \in BOOLEAN
  PROVE  Keeps(w, BufferAcquire(w, b, kind, ok), TRUE, TRUE)
  <1> DEFINE x == w.buf[b]
             fb == SendAcquireRequest(kind)
             lock == IF kind = "pixmap" THEN "none" ELSE "free"
             y == [x EXCEPT !.fb = fb, !.st = "created", !.lock = lock]
  <1>0. x \in Buffer BY GemOfBuffer
  <1>1. CASE ~ok BY <1>1, SameKeeps DEF BufferAcquire
  <1>2. CASE ok
    <2>0. kind # "none" /\ {"none", "free"} \subseteq {"none", "free", "taken"} OBVIOUS
    <2>1. fb \in FrameBuffer /\ fb.buffer = None /\ fb.gem = NoGem /\ fb.kind = kind
      BY NoFbIs DEF FrameBuffer, SendAcquireRequest
    <2>2. lock \in {"none", "free"} OBVIOUS
    <2>3. BufferAcquire(w, b, kind, ok) = [w EXCEPT !.buf[b] = y]
      BY <1>2 DEF BufferAcquire
    <2> HIDE DEF fb, lock
    <2>4. /\ y \in Buffer /\ y.fb = fb /\ y.st = "created" /\ y.lock = lock
          /\ y.press = x.press /\ y.handler = x.handler /\ y.extra = x.extra
          /\ y.frame = x.frame /\ y.cleared = x.cleared /\ y.skip = x.skip
      BY <1>0, <2>1, <2>2 DEF Buffer
    <2> HIDE DEF y
    <2>5. NoGem.old = FALSE /\ NoGem.st = "none" BY NoGemIs DEF NoGem
    <2>6. Mild(x, y) BY <2>1, <2>4, <2>5 DEF Mild, Shaped
    <2>7. Whole(NoGem, y.frame) BY NoGemIs
    <2>8. Framed(x) => Framed(y)
      BY <2>1, <2>2, <2>4, <2>7 DEF Framed
    <2>9. Keeps(w, [w EXCEPT !.buf[b] = y], TRUE, TRUE) BY <2>6, <2>8, PutKeeps
    <2> QED BY <2>3, <2>9
  <1> QED BY <1>1, <1>2
-----------------------------------------------------------------------------
(* Extra buffers, and what the app is asked and answers. *)

LEMMA ExtraPut ==
  ASSUME NEW w, Base(w), NEW b \in Bufs, NEW e \in SUBSET (0..Extras),
         e \subseteq w.buf[b].extra \cup {i \in 0..Extras : i < Extras}
  PROVE  Keeps(w, Put(w, b, [w.buf[b] EXCEPT !.extra = e]), TRUE, TRUE)
  <1> DEFINE x == w.buf[b]
             y == [x EXCEPT !.extra = e]
  <1>0. x \in Buffer /\ Shaped(x) BY GemOfBuffer
  <1>1. /\ y \in Buffer /\ y.fb = x.fb /\ y.st = x.st /\ y.lock = x.lock
        /\ y.press = x.press /\ y.handler = x.handler /\ y.extra = e
        /\ y.frame = x.frame /\ y.cleared = x.cleared /\ y.skip = x.skip
    BY <1>0 DEF Buffer
  <1> HIDE DEF y
  <1>3. Mild(x, y) BY <1>0, <1>1 DEF Mild, Shaped
  <1>4. Framed(x) => Framed(y) BY <1>1 DEF Framed
  <1>5. Keeps(w, Put(w, b, y), TRUE, TRUE) BY <1>3, <1>4, PutKeeps DEF Put
  <1> QED BY <1>5 DEF y

LEMMA ExtrasKeep ==
  ASSUME NEW w, Base(w), NEW b \in Bufs, NEW idx \in 0..Extras, NEW ok \in BOOLEAN
  PROVE  /\ Keeps(w, ExtraAcquire(w, b, idx, ok), TRUE, TRUE)
         /\ Keeps(w, ExtraRelease(w, b, idx, ok), TRUE, TRUE)
         /\ Keeps(w, SendExtraUpdated(w, b, idx), idx \in w.buf[b].extra, TRUE)
  <1> DEFINE x == w.buf[b]
  <1>0. x.extra \in SUBSET (0..Extras)
    <2>1. x \in Buffer BY GemOfBuffer
    <2> QED BY <2>1 DEF Buffer
  <1>1. Keeps(w, ExtraAcquire(w, b, idx, ok), TRUE, TRUE)
    <2>1. CASE idx >= Extras BY <2>1, SameKeeps DEF ExtraAcquire
    <2>2. CASE ~(idx >= Extras)
      <3> DEFINE e == IF ok THEN x.extra \cup {idx} ELSE x.extra \ {idx}
      <3>1. e \in SUBSET (0..Extras) /\ e \subseteq x.extra \cup {i \in 0..Extras : i < Extras}
        BY <1>0, <2>2
      <3>2. ExtraAcquire(w, b, idx, ok) = Put(w, b, [x EXCEPT !.extra = e])
        BY <2>2 DEF Put, ExtraAcquire, SendAcquireExtra
      <3> HIDE DEF e
      <3>3. Keeps(w, Put(w, b, [x EXCEPT !.extra = e]), TRUE, TRUE) BY <3>1, ExtraPut
      <3> QED BY <3>2, <3>3
    <2> QED BY <2>1, <2>2
  <1>2. Keeps(w, ExtraRelease(w, b, idx, ok), TRUE, TRUE)
    <2>1. CASE ~Created(w, b) \/ idx >= Extras BY <2>1, SameKeeps DEF ExtraRelease
    <2>2. CASE ~(~Created(w, b) \/ idx >= Extras)
      <3> DEFINE e == IF ok THEN x.extra \ {idx} ELSE x.extra
      <3>1. e \in SUBSET (0..Extras) /\ e \subseteq x.extra \cup {i \in 0..Extras : i < Extras}
        BY <1>0
      <3>2. ExtraRelease(w, b, idx, ok) = Put(w, b, [x EXCEPT !.extra = e])
        BY <2>2 DEF Put, ExtraRelease, SendReleaseExtra
      <3> HIDE DEF e
      <3>3. Keeps(w, Put(w, b, [x EXCEPT !.extra = e]), TRUE, TRUE) BY <3>1, ExtraPut
      <3> QED BY <3>2, <3>3
    <2> QED BY <2>1, <2>2
  <1>3. Keeps(w, SendExtraUpdated(w, b, idx), idx \in x.extra, TRUE)
    <2>1. CASE SendExtraUpdated(w, b, idx) = w BY <2>1, SameKeeps
    <2>2. CASE SendExtraUpdated(w, b, idx) # w
      <3>1. SendExtraUpdated(w, b, idx) = Bad(w) /\ (x.extra = {} \/ idx = Extras)
        BY <2>2 DEF SendExtraUpdated
      <3>2. idx \in x.extra => ~Memory(w)
        BY <3>1 DEF Memory
      <3>3. Keeps(w, Bad(w), idx \in x.extra, TRUE)
        BY <3>2, BadBase DEF Keeps
      <3> QED BY <3>1, <3>3
    <2> QED BY <2>1, <2>2
  <1> QED BY <1>1, <1>2, <1>3

LEMMA AskedPut ==
  ASSUME NEW w, Base(w), NEW b \in Bufs, NEW a \in {"none", "handed", "refused", "lost"}
  PROVE  Keeps(w, Put(w, b, [w.buf[b] EXCEPT !.asked = a]), TRUE, TRUE)
  <1> DEFINE x == w.buf[b]
             y == [x EXCEPT !.asked = a]
  <1>0. x \in Buffer /\ Shaped(x) BY GemOfBuffer
  <1>1. /\ y \in Buffer /\ y.fb = x.fb /\ y.st = x.st /\ y.lock = x.lock
        /\ y.press = x.press /\ y.handler = x.handler /\ y.extra = x.extra
        /\ y.frame = x.frame /\ y.cleared = x.cleared /\ y.skip = x.skip
    BY <1>0 DEF Buffer
  <1> HIDE DEF y
  <1>3. Mild(x, y) BY <1>0, <1>1 DEF Mild, Shaped
  <1>4. Framed(x) => Framed(y) BY <1>1 DEF Framed
  <1>5. Keeps(w, Put(w, b, y), TRUE, TRUE) BY <1>3, <1>4, PutKeeps DEF Put
  <1> QED BY <1>5 DEF y

LEMMA AskedKeeps ==
  ASSUME NEW w, Base(w), NEW b \in Bufs
  PROVE  /\ Keeps(w, Feed(w, b, TRUE), TRUE, TRUE) /\ Keeps(w, Feed(w, b, FALSE), TRUE, TRUE)
         /\ Keeps(w, FeedUnrefused(w, b), TRUE, TRUE) /\ Keeps(w, SendStatus(w, b), TRUE, TRUE)
  <1> DEFINE x == w.buf[b]
             All == {"none", "handed", "refused", "lost"}
             a1 == IF x.handler THEN "handed" ELSE "refused"
             a2 == IF x.handler THEN "handed" ELSE "lost"
             a3 == IF x.asked = "handed" THEN "none" ELSE x.asked
             Asked(a) == Put(w, b, [x EXCEPT !.asked = a])
  <1>1. Feed(w, b, FALSE) = w BY DEF Feed
  <1>2. /\ Feed(w, b, TRUE) = w \/ Feed(w, b, TRUE) = Asked(a1)
        /\ FeedUnrefused(w, b) = w \/ FeedUnrefused(w, b) = Asked(a2)
        /\ SendStatus(w, b) = Asked(a3)
    BY Zenon DEF Feed, FeedUnrefused, SendStatus, Put
  <1>3. x.asked \in All
    <2>1. x \in Buffer BY GemOfBuffer
    <2> QED BY <2>1 DEF Buffer
  <1>4. a1 \in All /\ a2 \in All /\ a3 \in All BY <1>3
  <1> HIDE DEF a1, a2, a3
  <1>5. Keeps(w, Asked(a1), TRUE, TRUE) /\ Keeps(w, Asked(a2), TRUE, TRUE)
        /\ Keeps(w, Asked(a3), TRUE, TRUE)
    BY <1>4, AskedPut
  <1>6. Keeps(w, w, TRUE, TRUE) BY SameKeeps
  <1> HIDE DEF Asked
  <1> QED BY <1>1, <1>2, <1>5, <1>6
-----------------------------------------------------------------------------
(* Canvases. *)

PutCanvas(w, c, x) == [w EXCEPT !.canvas[c] = x]

LEMMA CanvasPut ==
  ASSUME NEW w, Base(w), NEW c \in Canvases, NEW x \in Canvas,
         NEW memory,
         Memory(w) /\ memory =>
           Kept(x) /\ (x.st = "live" \/ \A b \in Bufs : w.buf[b].fb.buffer # c)
  PROVE  LET u == PutCanvas(w, c, x)
         IN  /\ Keeps(w, u, memory, TRUE) /\ u.canvas[c] = x /\ u.buf = w.buf
  <1> DEFINE u == PutCanvas(w, c, x)
  <1>1. /\ u \in State /\ u.canvas[c] = x
        /\ \A d \in Canvases : d # c => u.canvas[d] = w.canvas[d]
        /\ u.buf = w.buf /\ u.eo = w.eo /\ u.last = w.last /\ u.fd = w.fd
        /\ u.open = w.open /\ u.bufmgr = w.bufmgr /\ u.gone = w.gone
        /\ u.bad = w.bad /\ u.touched = w.touched /\ u.uses = w.uses
    BY DEF Base, State, PutCanvas
  <1> HIDE DEF u
  <1>2. Base(u) BY <1>1 DEF Base
  <1>3. \A b \in Bufs : w.buf[b].fb.buffer \in Canvases \cup {None}
    BY DEF Base, State, Buffer, FrameBuffer
  <1>4. ASSUME Memory(w), memory PROVE Memory(u)
    <2>1. \A d \in Canvases : Kept(u.canvas[d]) BY <1>1, <1>4 DEF Memory
    <2>2. Pointed(u) BY <1>1, <1>3, <1>4 DEF Memory, Pointed
    <2> QED BY <1>1, <1>4, <2>1, <2>2 DEF Memory
  <1>5. /\ Device(w) => Device(u)
        /\ Fingers(w) => Fingers(u)
        /\ Frames(w) => Frames(u)
    BY <1>1 DEF Device, Fingers, Frames, Registered, FindBuffer, AllRegistered, Active
  <1>6. Keeps(w, u, memory, TRUE) BY <1>2, <1>4, <1>5 DEF Keeps
  <1> QED BY <1>1, <1>6 DEF u

LEMMA NoCanvasIs == NoCanvas \in Canvas /\ Kept(NoCanvas) /\ NoCanvas.refcnt = 0
                    /\ NoCanvas.held = 0 /\ NoCanvas.st = "none"
  BY DEF NoCanvas, Canvas, Kept

LEMMA CountedIs ==
  ASSUME NEW x \in Canvas, x.st = "live"
  PROVE  /\ Counted(x) \in Canvas /\ Counted(x).st = "live"
         /\ x.kind # "shm" /\ x.refcnt = x.held => Kept(Counted(x))
  <1> DEFINE y == Counted(x)
  <1>0. x.refcnt \in Nat /\ x.held \in Nat BY DEF Canvas
  <1>1. CASE x.kind = "shm"
    <2>1. y = [x EXCEPT !.held = @ + 1] BY <1>1 DEF Counted
    <2>2. x.held + 1 \in Nat BY <1>0
    <2> QED BY <2>1, <2>2, <1>1 DEF Canvas
  <1>2. CASE x.kind # "shm"
    <2>1. y = [x EXCEPT !.refcnt = @ + 1, !.held = @ + 1] BY <1>2 DEF Counted
    <2>2. x.held + 1 \in Nat /\ x.refcnt + 1 \in Nat /\ x.held + 1 > 0 BY <1>0
    <2>3. /\ y \in Canvas /\ y.st = "live" /\ y.refcnt = x.refcnt + 1 /\ y.held = x.held + 1
          /\ y.kind = x.kind
      BY <2>1, <2>2 DEF Canvas
    <2> HIDE DEF y
    <2>4. x.refcnt = x.held => Kept(y) BY <1>2, <2>2, <2>3 DEF Kept
    <2> QED BY <2>3, <2>4 DEF y
  <1> QED BY <1>1, <1>2

(* The buffer points to a canvas that is there.                            *)
Pointing(x, c) == [x EXCEPT !.fb.buffer = c]

LEMMA PointPut ==
  ASSUME NEW w, Base(w), NEW b \in Bufs, Created(w, b), NEW c \in Canvases,
         w.canvas[c].st = "live"
  PROVE  Keeps(w, Put(w, b, Pointing(w.buf[b], c)), TRUE, TRUE)
  <1> DEFINE x == w.buf[b]
             y == Pointing(x, c)
             u == Put(w, b, y)
  <1>0. x \in Buffer /\ Shaped(x) /\ x.st = "created" BY GemOfBuffer DEF Created
  <1>1. /\ y \in Buffer /\ y.fb.buffer = c /\ y.fb.kind = x.fb.kind /\ y.fb.gem = x.fb.gem
        /\ y.st = x.st /\ y.lock = x.lock
        /\ y.press = x.press /\ y.handler = x.handler /\ y.extra = x.extra
        /\ y.frame = x.frame /\ y.cleared = x.cleared /\ y.skip = x.skip
    BY <1>0 DEF Buffer, FrameBuffer, Pointing
  <1> HIDE DEF y
  <1>2. Shaped(y) BY <1>0, <1>1 DEF Shaped
  <1>3. /\ Base(u) /\ u.buf[b] = y
        /\ \A d \in Bufs : d # b => u.buf[d] = w.buf[d]
        /\ u.canvas = w.canvas /\ u.eo = w.eo /\ u.last = w.last /\ u.fd = w.fd
        /\ u.open = w.open /\ u.bufmgr = w.bufmgr /\ u.gone = w.gone
        /\ u.bad = w.bad /\ u.touched = w.touched /\ u.uses = w.uses
    BY <1>1, <1>2, PutBase DEF Put
  <1> HIDE DEF u
  <1>4. Memory(w) => Memory(u) BY <1>1, <1>3 DEF Memory, Pointed
  <1>5. Device(w) => Device(u)
    BY <1>1, <1>3 DEF Device, Registered, FindBuffer, AllRegistered
  <1>6. Fingers(w) => Fingers(u) BY <1>1, <1>3 DEF Fingers, Registered, Active
  <1>7. Framed(x) => Framed(y) BY <1>1 DEF Framed
  <1>8. Frames(w) => Frames(u) BY <1>3, <1>7 DEF Frames
  <1> QED BY <1>3, <1>4, <1>5, <1>6, <1>8 DEF Keeps, u, y

LEMMA BothKeep ==
  ASSUME NEW w, NEW v, NEW u, NEW memory, NEW frame,
         Keeps(w, v, memory, frame), Keeps(v, u, memory, frame)
  PROVE  Keeps(w, u, memory, frame)
  BY DEF Keeps

(* What is not a shared segment: what the app refers to is counted.        *)
NoSegments == "shm" \notin Kinds

LEMMA BufferRefKeeps ==
  ASSUME NEW w, Base(w), NEW b \in Bufs, NEW c \in Canvases, w.canvas[c].st = "none",
         NEW ok \in BOOLEAN
  PROVE  Keeps(w, BufferRef(w, b, c, ok), NoSegments, TRUE)
  <1> DEFINE x == w.buf[b]
             d == x.fb.buffer
             r == BufferRef(w, b, c, ok)
             N == [NoCanvas EXCEPT !.st = "live", !.kind = x.fb.kind]
             n == Counted(N)
  <1>0. /\ x \in Buffer /\ Shaped(x) /\ w \in State /\ d \in Canvases \cup {None}
        /\ None \notin Canvases
    <2>1. x \in Buffer /\ Shaped(x) /\ w \in State BY GemOfBuffer DEF Base
    <2> QED BY <2>1 DEF Buffer, FrameBuffer
  <1>1. CASE ~Created(w, b) BY <1>1, SameKeeps DEF BufferRef
  <1>2. CASE Created(w, b) /\ d # None
    <2>1. d \in Canvases /\ w.canvas[d] \in Canvas
      BY <1>0, <1>2 DEF State
    <2>2. r = IF w.canvas[d].st # "live" THEN Bad(w) ELSE PutCanvas(w, d, Counted(w.canvas[d]))
      BY <1>2 DEF BufferRef, FbAcquireBuffer, PutCanvas
    <2>3. CASE w.canvas[d].st # "live"
      <3>1. ~Memory(w) BY <2>3, <1>2 DEF Memory, Pointed
      <3>2. r = Bad(w) BY <2>2, <2>3
      <3> QED BY <3>1, <3>2, BadBase DEF Keeps
    <2>4. CASE w.canvas[d].st = "live"
      <3>1. Memory(w) => w.canvas[d].kind # "shm" /\ w.canvas[d].refcnt = w.canvas[d].held
        <4>1. Memory(w) => Kept(w.canvas[d]) BY <2>1 DEF Memory
        <4> QED BY <4>1, <2>4, NoCanvasIs DEF Kept
      <3> DEFINE m == Counted(w.canvas[d])
      <3>2. m \in Canvas /\ m.st = "live" /\ (Memory(w) => Kept(m))
        BY <3>1, <2>1, <2>4, CountedIs
      <3>3. r = PutCanvas(w, d, m) BY <2>2, <2>4
      <3> HIDE DEF m
      <3>4. Keeps(w, PutCanvas(w, d, m), NoSegments, TRUE)
        BY <3>2, <2>1, CanvasPut
      <3> QED BY <3>3, <3>4
    <2> QED BY <2>3, <2>4
  <1>3. CASE Created(w, b) /\ d = None
    <2>1. CASE x.fb.kind = "pixmap" /\ ~ok
      <3>1. r = w
        BY <1>3, <2>1 DEF BufferRef, FbAcquireBuffer, NewBuffer, CreatePixmapInfo
      <3> QED BY <3>1, SameKeeps
    <2>2. CASE ~(x.fb.kind = "pixmap" /\ ~ok)
      <3> DEFINE u == [w EXCEPT !.canvas[c] = N, !.buf[b].fb.buffer = c]
                 v == PutCanvas(w, c, n)
      <3>1. NewBuffer(w, b, c, ok) = u
        BY <2>2 DEF NewBuffer, CreatePixmapInfo
      <3>2. x.fb.kind \in Kinds /\ x.fb.kind # "none"
        BY <1>0, <1>3 DEF Shaped, Created
      <3>3. /\ N \in Canvas /\ N.st = "live" /\ N.kind = x.fb.kind /\ N.refcnt = 0 /\ N.held = 0
        BY <3>2, NoCanvasIs DEF Canvas
      <3> HIDE DEF N
      <3>4. u.buf[b].fb.buffer = c /\ u.canvas[c] = N
        <4>1. u.canvas[c] = N BY <1>0 DEF State
        <4>2. u.buf[b].fb.buffer = c BY <1>0 DEF State, Buffer, FrameBuffer
        <4> QED BY <4>1, <4>2
      <3>5. r = [u EXCEPT !.canvas[c] = n]
        <4> HIDE DEF u
        <4> QED BY <3>1, <3>3, <3>4, <1>0, <1>3 DEF BufferRef, FbAcquireBuffer
      <3>6. n \in Canvas /\ n.st = "live" /\ (x.fb.kind # "shm" => Kept(n))
        BY <3>3, CountedIs
      <3> HIDE DEF n
      <3>7. [u EXCEPT !.canvas[c] = n] = Put(v, b, Pointing(x, c))
        BY <1>0 DEF State, PutCanvas, Put, Pointing
      <3>8. NoSegments => x.fb.kind # "shm" BY <3>2 DEF NoSegments
      <3>9. Keeps(w, v, NoSegments, TRUE) /\ v.canvas[c] = n /\ v.buf = w.buf
        <4>1. Memory(w) /\ NoSegments =>
                Kept(n) /\ (n.st = "live" \/ \A e \in Bufs : w.buf[e].fb.buffer # c)
          BY <3>6, <3>8
        <4>2. Keeps(w, PutCanvas(w, c, n), NoSegments, TRUE)
          BY <4>1, <3>6, CanvasPut
        <4>3. PutCanvas(w, c, n).canvas[c] = n /\ PutCanvas(w, c, n).buf = w.buf
          BY <1>0 DEF PutCanvas, State
        <4> QED BY <4>2, <4>3
      <3> HIDE DEF v
      <3>10. Created(v, b) /\ Base(v) BY <3>9, <1>3 DEF Created, Keeps
      <3>11. Keeps(v, Put(v, b, Pointing(v.buf[b], c)), TRUE, TRUE)
        BY <3>6, <3>9, <3>10, PointPut
      <3>12. Keeps(v, Put(v, b, Pointing(x, c)), NoSegments, TRUE)
        BY <3>11, <3>9 DEF Keeps
      <3> QED BY <3>5, <3>7, <3>9, <3>12, BothKeep
    <2> QED BY <2>1, <2>2
  <1> QED BY <1>1, <1>2, <1>3

LEMMA ForgetKeeps ==
  ASSUME NEW w, Base(w), NEW c \in Canvases
  PROVE  Keeps(w, Forget(w, c), TRUE, TRUE)
  <1>1. CASE \E b \in Bufs : w.buf[b].fb.buffer = c BY <1>1, SameKeeps DEF Forget
  <1>2. CASE ~\E b \in Bufs : w.buf[b].fb.buffer = c
    <2>1. Forget(w, c) = PutCanvas(w, c, NoCanvas) BY <1>2 DEF Forget, PutCanvas
    <2>2. Keeps(w, PutCanvas(w, c, NoCanvas), TRUE, TRUE)
      BY <1>2, NoCanvasIs, CanvasPut
    <2> QED BY <2>1, <2>2
  <1> QED BY <1>1, <1>2

LEMMA DropKeeps ==
  ASSUME NEW w, Base(w), NEW c \in Canvases
  PROVE  Keeps(w, DropBuffer(w, c), TRUE, TRUE)
  <1> DEFINE u == DropBuffer(w, c)
             Left(x) == [x EXCEPT !.fb.buffer = None]
  <1>0. w \in State BY DEF Base
  <1>1. \A b \in Bufs : w.buf[b] \in Buffer /\ Shaped(w.buf[b]) BY GemOfBuffer
  <1>2. \A b \in Bufs : LET x == w.buf[b] y == Left(x) IN
          /\ y \in Buffer /\ y.fb.buffer = None /\ y.fb.kind = x.fb.kind /\ y.fb.gem = x.fb.gem
          /\ y.st = x.st /\ y.lock = x.lock
          /\ y.press = x.press /\ y.handler = x.handler /\ y.extra = x.extra
          /\ y.frame = x.frame /\ y.cleared = x.cleared /\ y.skip = x.skip
          /\ y.fb = [x.fb EXCEPT !.buffer = None]
    BY <1>1 DEF Buffer, FrameBuffer
  <1> HIDE DEF Left
  <1>3. /\ u.buf = [b \in Bufs |-> IF w.buf[b].fb.buffer = c THEN Left(w.buf[b]) ELSE w.buf[b]]
        /\ u.canvas = [w.canvas EXCEPT ![c] = NoCanvas]
        /\ u.eo = w.eo /\ u.last = w.last /\ u.fd = w.fd
        /\ u.open = w.open /\ u.bufmgr = w.bufmgr /\ u.gone = w.gone
        /\ u.bad = w.bad /\ u.touched = w.touched /\ u.uses = w.uses
    BY <1>0 DEF DropBuffer, State, Left
  <1>4. u \in State
    <2>1. u.buf \in [Bufs -> Buffer] BY <1>1, <1>2, <1>3
    <2>2. u.canvas \in [Canvases -> Canvas] BY <1>0, <1>3, NoCanvasIs DEF State
    <2> HIDE DEF u
    <2>3. u = [w EXCEPT !.buf = u.buf, !.canvas = u.canvas]
      BY <1>0, <1>3 DEF u, DropBuffer, State, Left
    <2> QED BY <1>0, <2>1, <2>2, <2>3 DEF State
  <1> HIDE DEF u
  <1>5. \A b \in Bufs : LET x == w.buf[b] y == u.buf[b] IN
          /\ y.fb.buffer # c
          /\ y.fb.buffer = x.fb.buffer \/ y.fb.buffer = None
          /\ y.fb.kind = x.fb.kind /\ y.fb.gem = x.fb.gem
          /\ y.st = x.st /\ y.lock = x.lock
          /\ y.press = x.press /\ y.handler = x.handler /\ y.extra = x.extra
          /\ y.frame = x.frame /\ y.cleared = x.cleared /\ y.skip = x.skip
          /\ (x.fb = NoFb => y.fb = NoFb)
    <2> TAKE b \in Bufs
    <2>1. u.buf[b] = IF w.buf[b].fb.buffer = c THEN Left(w.buf[b]) ELSE w.buf[b]
      BY <1>3
    <2>2. None # c OBVIOUS
    <2>3. CASE w.buf[b].fb.buffer = c
      <3>1. w.buf[b].fb # NoFb BY <2>2, <2>3, NoFbIs
      <3>2. u.buf[b] = Left(w.buf[b]) BY <2>1, <2>3
      <3> HIDE DEF u
      <3> QED BY <3>1, <3>2, <2>2, <1>2
    <2>4. CASE w.buf[b].fb.buffer # c
      <3>1. u.buf[b] = w.buf[b] BY <2>1, <2>4
      <3> QED BY <3>1, <2>4
    <2> QED BY <2>3, <2>4
  <1>6. Base(u)
    BY <1>1, <1>4, <1>5 DEF Base, Shaped
  <1>7. \A d \in Canvases : u.canvas[d] = IF d = c THEN NoCanvas ELSE w.canvas[d]
    BY <1>0, <1>3 DEF State
  <1>8. Memory(w) => Memory(u)
    <2>1. \A b \in Bufs : w.buf[b].fb.buffer \in Canvases \cup {None}
      BY <1>1 DEF Buffer, FrameBuffer
    <2>2. Pointed(w) => Pointed(u) BY <2>1, <1>5, <1>7 DEF Pointed
    <2> QED BY <1>3, <1>5, <1>7, <2>2, NoCanvasIs DEF Memory
  <1>9. Device(w) => Device(u)
    BY <1>3, <1>5 DEF Device, Registered, FindBuffer, AllRegistered
  <1>10. Fingers(w) => Fingers(u)
    BY <1>3, <1>5 DEF Fingers, Registered, Active
  <1>11. Frames(w) => Frames(u) BY <1>5 DEF Frames, Framed
  <1> QED BY <1>6, <1>8, <1>9, <1>10, <1>11 DEF Keeps, u

LEMMA BufferUnrefKeeps ==
  ASSUME NEW w, Base(w), NEW c \in Canvases, w.canvas[c].held > 0
  PROVE  Keeps(w, BufferUnref(w, c), TRUE, TRUE)
  <1> DEFINE x == w.canvas[c]
             r == BufferUnref(w, c)
  <1>0. w \in State /\ x \in Canvas /\ x.held \in Nat /\ x.refcnt \in Nat /\ x.held - 1 \in Nat
    BY DEF Base, State, Canvas
  <1>1. Memory(w) => x.st = "live" /\ x.kind # "shm" /\ x.refcnt = x.held
    <2>1. Memory(w) => Kept(x) BY DEF Memory
    <2>2. x # NoCanvas BY NoCanvasIs
    <2> QED BY <2>1, <2>2 DEF Kept
  <1>2. CASE x.st # "live"
    <2> DEFINE y == [x EXCEPT !.held = @ - 1]
               u == PutCanvas(w, c, y)
    <2>1. y \in Canvas BY <1>0 DEF Canvas
    <2>2. r = Bad(u) BY <1>2 DEF BufferUnref, FbReleaseBuffer, PutCanvas
    <2> HIDE DEF y
    <2>3. Keeps(w, u, TRUE, TRUE) BY <2>1, <1>1, <1>2, CanvasPut
    <2> HIDE DEF u
    <2>4. Base(u) BY <2>3 DEF Keeps
    <2>5. Keeps(u, Bad(u), FALSE, TRUE) BY <2>4, BadBase DEF Keeps
    <2>6. Keeps(w, Bad(u), TRUE, TRUE) BY <2>3, <2>5, <1>1, <1>2 DEF Keeps
    <2> QED BY <2>2, <2>6
  <1>3. CASE x.st = "live" /\ x.kind = "shm"
    <2> DEFINE y == [x EXCEPT !.st = "unmapped", !.held = @ - 1]
               u == PutCanvas(w, c, y)
    <2>1. y \in Canvas BY <1>0 DEF Canvas
    <2>2. r = Forget(u, c)
      <3>1. u = [w EXCEPT !.canvas[c].st = "unmapped", !.canvas[c].held = @ - 1]
        BY <1>0 DEF PutCanvas, State
      <3> HIDE DEF u
      <3> QED BY <1>3, <3>1 DEF BufferUnref, FbReleaseBuffer
    <2> HIDE DEF y
    <2>3. Keeps(w, u, TRUE, TRUE) BY <2>1, <1>1, <1>3, CanvasPut
    <2> HIDE DEF u
    <2>4. Base(u) BY <2>3 DEF Keeps
    <2>5. Keeps(u, Forget(u, c), TRUE, TRUE) BY <2>4, ForgetKeeps
    <2> QED BY <2>2, <2>3, <2>5, BothKeep
  <1>4. CASE x.st = "live" /\ x.kind # "shm" /\ x.refcnt > 1
    <2> DEFINE y == [x EXCEPT !.refcnt = @ - 1, !.held = @ - 1]
    <2>0. x.refcnt - 1 \in Nat BY <1>0, <1>4
    <2>1. /\ y \in Canvas /\ y.st = "live" /\ y.kind = x.kind /\ y.held = x.held - 1
          /\ y.refcnt = x.refcnt - 1
      BY <1>0, <2>0, <1>4 DEF Canvas
    <2>2. r = PutCanvas(w, c, y)
      <3>1. PutCanvas(w, c, y) = [w EXCEPT !.canvas[c].refcnt = @ - 1, !.canvas[c].held = @ - 1]
        BY <1>0 DEF PutCanvas, State
      <3> HIDE DEF y
      <3> QED BY <1>4, <3>1 DEF BufferUnref, FbReleaseBuffer
    <2> HIDE DEF y
    <2>3. x.refcnt = x.held => Kept(y) BY <2>1, <1>0, <1>4 DEF Kept
    <2>4. Keeps(w, PutCanvas(w, c, y), TRUE, TRUE) BY <2>1, <2>3, <1>1, CanvasPut
    <2> QED BY <2>2, <2>4
  <1>5. CASE x.st = "live" /\ x.kind # "shm" /\ ~(x.refcnt > 1)
    <2>1. r = DropBuffer(w, c) BY <1>5 DEF BufferUnref, FbReleaseBuffer
    <2> QED BY <2>1, DropKeeps
  <1> QED BY <1>2, <1>3, <1>4, <1>5

(* A buffer leaves its frame buffer.                                       *)
LEMMA LeaveKeeps ==
  ASSUME NEW w, Base(w), NEW b \in Bufs, NEW v, NEW memory, NEW frame,
         Keeps(w, v, memory, frame), NEW c, c = w.buf[b].fb.buffer
  PROVE  Keeps(w, IF c # None /\ w.canvas[c].st = "unmapped" THEN Forget(v, c) ELSE v,
               memory, frame)
  <1>1. c \in Canvases \cup {None}
    BY DEF Base, State, Buffer, FrameBuffer
  <1>2. CASE c # None /\ w.canvas[c].st = "unmapped"
    <2>1. c \in Canvases /\ Base(v) BY <1>1, <1>2 DEF Keeps
    <2>2. Keeps(v, Forget(v, c), TRUE, TRUE) BY <2>1, ForgetKeeps
    <2>3. Keeps(v, Forget(v, c), memory, frame) BY <2>2 DEF Keeps
    <2> QED BY <1>2, <2>3, BothKeep
  <1>3. CASE ~(c # None /\ w.canvas[c].st = "unmapped") BY <1>3
  <1> QED BY <1>2, <1>3

LEMMA BufferResizeKeeps ==
  ASSUME NEW w, Base(w), NEW b \in Bufs, NEW ok \in BOOLEAN
  PROVE  Keeps(w, BufferResize(w, b, ok), TRUE, TRUE)
  <1> DEFINE x == w.buf[b]
             c == x.fb.buffer
             fb == SendResizeRequest(x.fb.kind)
             y == [x EXCEPT !.fb = fb]
             v == [w EXCEPT !.buf[b] = y]
  <1>1. CASE ~Created(w, b) \/ ~ok BY <1>1, SameKeeps DEF BufferResize
  <1>2. CASE ~(~Created(w, b) \/ ~ok)
    <2>1. x \in Buffer /\ Shaped(x) /\ x.st = "created" /\ x.fb.kind \in Kinds
      BY <1>2, GemOfBuffer DEF Shaped, Created
    <2>2. BufferResize(w, b, ok) =
            IF c # None /\ w.canvas[c].st = "unmapped" THEN Forget(v, c) ELSE v
      BY <1>2 DEF BufferResize, LeaveFb
    <2>3. fb \in FrameBuffer /\ fb.buffer = None /\ fb.gem = NoGem /\ fb.kind = x.fb.kind
      BY <2>1, NoFbIs DEF FrameBuffer, SendResizeRequest
    <2> HIDE DEF fb
    <2>4. /\ y \in Buffer /\ y.fb = fb /\ y.st = x.st /\ y.lock = x.lock
          /\ y.press = x.press /\ y.handler = x.handler /\ y.extra = x.extra
          /\ y.frame = x.frame /\ y.cleared = x.cleared /\ y.skip = x.skip
      BY <2>1, <2>3 DEF Buffer
    <2> HIDE DEF y
    <2>5. NoGem.old = FALSE /\ NoGem.st = "none" /\ Whole(NoGem, y.frame)
      BY NoGemIs DEF NoGem
    <2>6. Mild(x, y) BY <2>1, <2>3, <2>4, <2>5 DEF Mild, Shaped
    <2>7. Framed(x) => Framed(y) BY <2>3, <2>4, <2>5 DEF Framed
    <2>8. Keeps(w, v, TRUE, TRUE) BY <2>6, <2>7, PutKeeps
    <2> HIDE DEF v
    <2>9. Keeps(w, IF c # None /\ w.canvas[c].st = "unmapped" THEN Forget(v, c) ELSE v, TRUE, TRUE)
      BY <2>8, LeaveKeeps
    <2> QED BY <2>2, <2>9
  <1> QED BY <1>1, <1>2

LEMMA BufferReleaseKeeps ==
  ASSUME NEW w, Base(w), NEW b \in Bufs, w.buf[b].frame = FALSE
  PROVE  Keeps(w, BufferRelease(w, b), TRUE, TRUE)
  <1> DEFINE x == w.buf[b]
             c == x.fb.buffer
             y == [x EXCEPT !.fb = NoFb]
             z == [y EXCEPT !.st = "init", !.lock = "none"]
             v == Put(w, b, y)
             u == Put(w, b, z)
  <1>1. CASE ~Created(w, b) BY <1>1, SameKeeps DEF BufferRelease
  <1>2. CASE Created(w, b)
    <2>1. x \in Buffer /\ Shaped(x) /\ x.st = "created" /\ w \in State
      BY <1>2, GemOfBuffer DEF Created, Base
    <2>2. NoGem.old = FALSE /\ NoGem.st = "none" /\ Whole(NoGem, FALSE)
      BY NoGemIs DEF NoGem
    <2>3. /\ y \in Buffer /\ y.fb = NoFb /\ y.st = x.st /\ y.lock = x.lock
          /\ y.press = x.press /\ y.handler = x.handler /\ y.extra = x.extra
          /\ y.frame = x.frame /\ y.cleared = x.cleared /\ y.skip = x.skip
      BY <2>1, NoFbIs DEF Buffer
    <2> HIDE DEF y
    <2>4. /\ z \in Buffer /\ z.fb = NoFb /\ z.st = "init" /\ z.lock = "none"
          /\ z.press = x.press /\ z.handler = x.handler /\ z.extra = x.extra
          /\ z.frame = x.frame /\ z.cleared = x.cleared /\ z.skip = x.skip
      BY <2>3 DEF Buffer
    <2> HIDE DEF z
    <2>5. Mild(x, z) BY <2>1, <2>2, <2>4, NoFbIs DEF Mild, Shaped
    <2>6. Framed(x) => Framed(z) BY <2>1, <2>2, <2>4, NoFbIs DEF Framed
    <2>7. Keeps(w, u, TRUE, TRUE) BY <2>5, <2>6, PutKeeps DEF Put
    <2>8. [v EXCEPT !.buf[b] = z] = u /\ v.buf[b] = y
      <3>1. v.buf[b] = y BY <2>1, PutTwice
      <3>2. [v EXCEPT !.buf[b] = z] = u BY <2>1, PutTwice
      <3> QED BY <3>1, <3>2
    <2>9. CASE c # None /\ w.canvas[c].st = "unmapped"
      <3>0. c \in Canvases BY <2>1, <2>9 DEF Buffer, FrameBuffer
      <3>1. LeaveFb(w, b, NoFb) = Forget(v, c) BY <2>9 DEF LeaveFb, Put, y
      <3>2. (\E d \in Bufs : v.buf[d].fb.buffer = c) <=> (\E d \in Bufs : u.buf[d].fb.buffer = c)
        <4>1. \A d \in Bufs : v.buf[d].fb.buffer = u.buf[d].fb.buffer
          BY <2>1, <2>3, <2>4 DEF Put, State
        <4> QED BY <4>1
      <3>3. v.buf = [w.buf EXCEPT ![b] = y] BY <2>1 DEF Put, State
      <3>4. Forget(v, c).buf[b] = y
        BY <2>8, <2>1 DEF Forget, Put, State
      <3>5. [Forget(v, c) EXCEPT !.buf[b] = z] = Forget(u, c)
        <4>1. CASE \E d \in Bufs : v.buf[d].fb.buffer = c
          BY <4>1, <3>2, <2>8 DEF Forget
        <4>2. CASE ~\E d \in Bufs : v.buf[d].fb.buffer = c
          <5>1. Forget(v, c) = [v EXCEPT !.canvas[c] = NoCanvas]
                /\ Forget(u, c) = [u EXCEPT !.canvas[c] = NoCanvas]
            BY <4>2, <3>2 DEF Forget
          <5>2. [[v EXCEPT !.canvas[c] = NoCanvas] EXCEPT !.buf[b] = z] =
                [u EXCEPT !.canvas[c] = NoCanvas]
            BY <2>1 DEF Put, State
          <5> QED BY <5>1, <5>2
        <4> QED BY <4>1, <4>2
      <3>6. BufferRelease(w, b) = [Forget(v, c) EXCEPT !.buf[b] = z]
        BY <1>2, <3>1, <3>4, Zenon DEF BufferRelease, z
      <3>7. Keeps(u, Forget(u, c), TRUE, TRUE)
        BY <2>7, <3>0, ForgetKeeps DEF Keeps
      <3> QED BY <2>7, <3>5, <3>6, <3>7, BothKeep
    <2>10. CASE ~(c # None /\ w.canvas[c].st = "unmapped")
      <3>1. LeaveFb(w, b, NoFb) = v BY <2>10 DEF LeaveFb, Put, y
      <3>2. BufferRelease(w, b) = [v EXCEPT !.buf[b] = z]
        BY <1>2, <3>1, <2>8, Zenon DEF BufferRelease, z
      <3> QED BY <2>7, <2>8, <3>2
    <2> QED BY <2>9, <2>10
  <1> QED BY <1>1, <1>2
-----------------------------------------------------------------------------
(* The master goes and comes. *)

LEMMA MasterLostKeeps ==
  ASSUME NEW w, Base(w)
  PROVE  Keeps(w, FbFini(MasterGone(w)), TRUE, TRUE)
  <1> DEFINE u == FbFini(MasterGone(w))
             Old(x) == Aged(x)
  <1>0. w \in State BY DEF Base
  <1>1. \A b \in Bufs : w.buf[b] \in Buffer /\ Shaped(w.buf[b]) BY GemOfBuffer
  <1>2. \A x \in Buffer : Shaped(x) => LET y == Old(x) IN
          /\ y \in Buffer /\ y.fb.buffer = x.fb.buffer /\ y.fb.kind = x.fb.kind
          /\ y.fb.gem.refcnt = x.fb.gem.refcnt /\ y.fb.gem.data = x.fb.gem.data
          /\ y.fb.gem.locks = x.fb.gem.locks /\ y.fb.gem.comp = x.fb.gem.comp
          /\ y.fb.gem.st = x.fb.gem.st
          /\ y.st = x.st /\ y.lock = x.lock
          /\ y.press = x.press /\ y.handler = x.handler /\ y.extra = x.extra
          /\ y.frame = x.frame /\ y.cleared = x.cleared /\ y.skip = x.skip
          /\ (x.fb.gem.st # "live" => y = x)
    <2> SUFFICES ASSUME NEW x \in Buffer, Shaped(x) PROVE
          LET y == Old(x) IN
          /\ y \in Buffer /\ y.fb.buffer = x.fb.buffer /\ y.fb.kind = x.fb.kind
          /\ y.fb.gem.refcnt = x.fb.gem.refcnt /\ y.fb.gem.data = x.fb.gem.data
          /\ y.fb.gem.locks = x.fb.gem.locks /\ y.fb.gem.comp = x.fb.gem.comp
          /\ y.fb.gem.st = x.fb.gem.st
          /\ y.st = x.st /\ y.lock = x.lock
          /\ y.press = x.press /\ y.handler = x.handler /\ y.extra = x.extra
          /\ y.frame = x.frame /\ y.cleared = x.cleared /\ y.skip = x.skip
          /\ (x.fb.gem.st # "live" => y = x)
      OBVIOUS
    <2> DEFINE g == x.fb.gem
               h == [g EXCEPT !.old = @ \/ x.fb.gem.st = "live"]
               fb == [x.fb EXCEPT !.gem = h]
               y == [x EXCEPT !.fb = fb]
    <2>1. g \in Gem /\ x.fb \in FrameBuffer BY DEF Buffer, FrameBuffer
    <2>2. /\ h \in Gem /\ h.refcnt = g.refcnt /\ h.data = g.data /\ h.locks = g.locks
          /\ h.comp = g.comp /\ h.st = g.st
      BY <2>1, Zenon DEF Gem
    <2>3. ASSUME g.st # "live" PROVE h = g
      <3>1. (g.old \/ x.fb.gem.st = "live") = g.old BY <2>1, <2>3 DEF Gem
      <3>2. [g EXCEPT !.old = g.old] = g BY <2>1 DEF Gem
      <3> QED BY <3>1, <3>2, Zenon
    <2>4. Old(x) = y BY Zenon DEF Aged
    <2> HIDE DEF h
    <2>5. fb \in FrameBuffer /\ fb.buffer = x.fb.buffer /\ fb.kind = x.fb.kind /\ fb.gem = h
      BY <2>1, <2>2 DEF FrameBuffer
    <2>6. g.st # "live" => fb = x.fb BY <2>1, <2>3 DEF FrameBuffer
    <2> HIDE DEF fb
    <2>7. /\ y \in Buffer /\ y.fb = fb /\ y.st = x.st /\ y.lock = x.lock
          /\ y.press = x.press /\ y.handler = x.handler /\ y.extra = x.extra
          /\ y.frame = x.frame /\ y.cleared = x.cleared /\ y.skip = x.skip
          /\ (g.st # "live" => y = x)
      BY <2>5, <2>6 DEF Buffer
    <2> HIDE DEF y, Old
    <2> QED BY <2>2, <2>4, <2>5, <2>7
  <1>3. /\ u.buf = [b \in Bufs |-> Old(w.buf[b])]
        /\ u.canvas = w.canvas /\ u.eo = w.eo /\ u.last = w.last /\ u.fd = w.fd
        /\ u.open = w.open /\ u.bufmgr = FALSE /\ u.gone = TRUE
        /\ u.bad = w.bad /\ u.touched = w.touched /\ u.uses = w.uses
        /\ u = [w EXCEPT !.gone = TRUE, !.bufmgr = FALSE, !.buf = [b \in Bufs |-> Old(w.buf[b])]]
    <2>1. MasterGone(w) = [w EXCEPT !.gone = TRUE, !.buf = [b \in Bufs |-> Old(w.buf[b])]]
      BY DEF MasterGone
    <2> HIDE DEF Old
    <2> QED BY <1>0, <2>1 DEF FbFini, State
  <1> HIDE DEF Old
  <1>4. u \in State
    <2>1. [b \in Bufs |-> Old(w.buf[b])] \in [Bufs -> Buffer] BY <1>1, <1>2
    <2> HIDE DEF u
    <2> QED BY <1>0, <1>3, <2>1 DEF State
  <1> HIDE DEF u
  <1>5. \A b \in Bufs : LET x == w.buf[b] y == u.buf[b] IN
          /\ y \in Buffer /\ y.fb.buffer = x.fb.buffer /\ y.fb.kind = x.fb.kind
          /\ y.fb.gem.refcnt = x.fb.gem.refcnt /\ y.fb.gem.data = x.fb.gem.data
          /\ y.fb.gem.locks = x.fb.gem.locks /\ y.fb.gem.comp = x.fb.gem.comp
          /\ y.fb.gem.st = x.fb.gem.st
          /\ y.st = x.st /\ y.lock = x.lock
          /\ y.press = x.press /\ y.handler = x.handler /\ y.extra = x.extra
          /\ y.frame = x.frame /\ y.cleared = x.cleared /\ y.skip = x.skip
          /\ (x.fb.gem.st # "live" => y = x)
    BY <1>1, <1>2, <1>3
  <1>6. NoGem.st # "live" BY DEF NoGem
  <1>7. Base(u)
    <2> SUFFICES ASSUME NEW b \in Bufs PROVE Shaped(u.buf[b]) BY <1>4 DEF Base
    <2>1. CASE w.buf[b].fb.gem.st = "live"
      BY <2>1, <1>1, <1>5, <1>6, NoFbIs DEF Shaped
    <2>2. CASE w.buf[b].fb.gem.st # "live"
      BY <2>2, <1>1, <1>5
    <2> QED BY <2>1, <2>2
  <1>8. Memory(w) => Memory(u)
    <2>1. Pointed(w) => Pointed(u) BY <1>3, <1>5 DEF Pointed
    <2> QED BY <1>3, <1>5, <2>1 DEF Memory
  <1>9. Device(w) => Device(u)
    BY <1>3, <1>5 DEF Device, Registered, FindBuffer, AllRegistered
  <1>10. Fingers(w) => Fingers(u)
    BY <1>3, <1>5 DEF Fingers, Registered, Active
  <1>11. Frames(w) => Frames(u)
    <2> SUFFICES ASSUME Frames(w), NEW b \in Bufs PROVE Framed(u.buf[b])
      BY DEF Frames
    <2> DEFINE x == w.buf[b]
               y == u.buf[b]
    <2>1. Framed(x) BY DEF Frames
    <2>2. Whole(x.fb.gem, x.frame) BY <2>1 DEF Framed
    <2>3. Whole(y.fb.gem, y.frame) BY <2>2, <1>5 DEF Whole
    <2>4. /\ y.frame => y.st = "created"
          /\ y.lock = "taken" => y.frame /\ y.fb.kind = "shm"
          /\ y.st # "none" /\ y.handler => y.cleared = (IF y.skip = 0 THEN 1 ELSE 0)
      BY <2>1, <1>5 DEF Framed
    <2> QED BY <2>3, <2>4 DEF Framed
  <1> QED BY <1>7, <1>8, <1>9, <1>10, <1>11 DEF Keeps, u

LEMMA MasterBackKeeps ==
  ASSUME NEW w, Base(w)
  PROVE  Keeps(w, FbInit(w), \A b \in Bufs : ~FbHasGem(w, b), TRUE)
  <1> DEFINE u == FbInit(w)
  <1>1. /\ u \in State /\ u.buf = w.buf /\ u.canvas = w.canvas /\ u.eo = w.eo /\ u.fd = w.fd
        /\ u.open = w.open /\ u.gone = FALSE /\ u.bad = w.bad /\ u.touched = w.touched
        /\ u.uses = w.uses
    BY DEF Base, State, FbInit
  <1> HIDE DEF u
  <1>2. Base(u) BY <1>1 DEF Base
  <1>3. ASSUME Memory(w), \A b \in Bufs : ~FbHasGem(w, b) PROVE Memory(u)
    <2>1. \A b \in Bufs : w.buf[b].fb.gem.old = FALSE
      BY <1>3, GemOfBuffer, NoGemIs
    <2> QED BY <1>1, <1>3, <2>1 DEF Memory, Pointed
  <1>4. /\ Device(w) => Device(u)
        /\ Fingers(w) => Fingers(u)
        /\ Frames(w) => Frames(u)
    BY <1>1 DEF Device, Fingers, Frames, Registered, FindBuffer, AllRegistered, Active
  <1> QED BY <1>2, <1>3, <1>4 DEF Keeps, u
-----------------------------------------------------------------------------
(* The touch device. *)

(* The app is told of a finger, of nothing else.                           *)
Tells(x, y) ==
  /\ y \in Buffer /\ y.fb = x.fb /\ y.st = x.st /\ y.lock = x.lock
  /\ y.handler = x.handler /\ y.extra = x.extra
  /\ y.frame = x.frame /\ y.cleared = x.cleared /\ y.skip = x.skip

LEMMA PressTells ==
  ASSUME NEW x \in Buffer, NEW what
  PROVE  LET y == Press(x, what)
         IN Tells(x, y) /\ y.press = (IF x.handler THEN Told(x.press, what) ELSE x.press)
  <1> DEFINE p == Told(x.press, what)
             y == Press(x, what)
  <1>1. p \in {"up", "down", "bad"} BY DEF Told
  <1>2. CASE x.handler
    <2>1. y = [x EXCEPT !.press = p] BY <1>2 DEF Press
    <2> HIDE DEF p
    <2>2. Tells(x, [x EXCEPT !.press = p]) /\ [x EXCEPT !.press = p].press = p
      BY <1>1 DEF Buffer, Tells
    <2> QED BY <2>1, <2>2, <1>2 DEF p
  <1>3. CASE ~x.handler
    <2>1. y = x BY <1>3 DEF Press
    <2> QED BY <2>1, <1>3 DEF Tells
  <1> QED BY <1>2, <1>3

LEMMA TellsTwice ==
  ASSUME NEW x, NEW y, NEW z, Tells(x, y), Tells(y, z) PROVE Tells(x, z)
  BY DEF Tells

(* What a widget sees of an event and of the end of its touch.             *)
LEMMA PumpTells ==
  ASSUME NEW w, Base(w), NEW b \in Bufs
  PROVE  LET x == w.buf[b] y == PumpOne(w, b)
         IN /\ Tells(x, y)
            /\ ~x.handler => y.press = x.press
            /\ x.handler /\ Active(w, b) /\ x.press = "down" => y.press = "down"
            /\ x.handler /\ ~Active(w, b) /\ x.press = "up" => y.press = "down"
  <1> DEFINE x == w.buf[b]
  <1>1. x \in Buffer BY GemOfBuffer
  <1>2. Told("down", "move") = "down" /\ Told("up", "down") = "down" BY DEF Told
  <1>3. /\ Tells(x, MouseMove(x)) /\ Tells(x, MouseDown(x))
        /\ MouseMove(x).press = (IF x.handler THEN Told(x.press, "move") ELSE x.press)
        /\ MouseDown(x).press = (IF x.handler THEN Told(x.press, "down") ELSE x.press)
    BY <1>1, PressTells DEF MouseMove, MouseDown
  <1> QED BY <1>2, <1>3 DEF PumpOne

LEMMA EndTells ==
  ASSUME NEW w, Base(w), NEW b \in Bufs
  PROVE  LET x == w.buf[b] y == EndTouch(w, b)
         IN /\ Tells(x, y)
            /\ ~x.handler => y.press = x.press
            /\ x.handler /\ Active(w, b) /\ x.press = "down" => y.press = "up"
            /\ x.handler /\ ~Active(w, b) /\ x.press = "up" => y.press = "up"
  <1> DEFINE x == w.buf[b]
             x1 == IF Active(w, b) THEN x ELSE MouseDown(x)
             x2 == MouseMove(x1)
             x3 == MouseUp(x2)
  <1>1. x \in Buffer BY GemOfBuffer
  <1>2. Told("down", "move") = "down" /\ Told("up", "down") = "down" /\ Told("down", "up") = "up"
    BY DEF Told
  <1>3. Tells(x, x) BY <1>1 DEF Tells
  <1>4. Tells(x, MouseDown(x)) /\
        MouseDown(x).press = (IF x.handler THEN Told(x.press, "down") ELSE x.press)
    BY <1>1, PressTells DEF MouseDown
  <1>5. /\ Tells(x, x1)
        /\ x.handler /\ ((Active(w, b) /\ x.press = "down") \/ (~Active(w, b) /\ x.press = "up")) =>
             x1.press = "down"
        /\ ~x.handler => x1.press = x.press
    BY <1>2, <1>3, <1>4
  <1> HIDE DEF x1
  <1>6. x1 \in Buffer /\ x1.handler = x.handler BY <1>5 DEF Tells
  <1>7. Tells(x1, x2) /\ x2.press = (IF x1.handler THEN Told(x1.press, "move") ELSE x1.press)
    BY <1>6, PressTells DEF MouseMove
  <1> HIDE DEF x2
  <1>8. x2 \in Buffer /\ x2.handler = x.handler BY <1>6, <1>7 DEF Tells
  <1>9. Tells(x2, x3) /\ x3.press = (IF x2.handler THEN Told(x2.press, "up") ELSE x2.press)
    BY <1>8, PressTells DEF MouseUp
  <1> HIDE DEF x3
  <1>10. Tells(x, x3) BY <1>5, <1>7, <1>9, TellsTwice
  <1>11. EndTouch(w, b) = IF ~HasRest(w, b) THEN x ELSE x3
    BY DEF EndTouch, x1, x2, x3
  <1>12. Active(w, b) => HasRest(w, b) BY DEF HasRest
  <1>13. CASE ~HasRest(w, b) BY <1>13, <1>11, <1>12, <1>3
  <1>14. CASE HasRest(w, b)
    <2>1. EndTouch(w, b) = x3 BY <1>14, <1>11
    <2>2. /\ ~x.handler => x3.press = x.press
          /\ x.handler /\ ((Active(w, b) /\ x.press = "down") \/ (~Active(w, b) /\ x.press = "up")) =>
               x3.press = "up"
      BY <1>2, <1>5, <1>6, <1>7, <1>8, <1>9
    <2> QED BY <2>1, <2>2, <1>10
  <1> QED BY <1>13, <1>14

LEMMA Hear ==
  ASSUME NEW w, Base(w), NEW u, u \in State, \A b \in Bufs : Tells(w.buf[b], u.buf[b]),
         u.canvas = w.canvas, u.gone = w.gone, u.touched = w.touched
  PROVE  /\ Base(u) /\ (Frames(w) => Frames(u))
         /\ Memory(w) /\ u.bad = FALSE /\ u.open = (IF u.fd THEN 1 ELSE 0) => Memory(u)
  <1>1. \A b \in Bufs : Shaped(w.buf[b]) => Shaped(u.buf[b]) BY DEF Shaped, Tells
  <1>2. Base(u) BY <1>1 DEF Base
  <1>3. \A b \in Bufs : Framed(w.buf[b]) => Framed(u.buf[b]) BY DEF Framed, Tells
  <1>4. Frames(w) => Frames(u) BY <1>3 DEF Frames
  <1>5. Pointed(w) => Pointed(u) BY DEF Pointed, Tells
  <1>6. ASSUME Memory(w), u.bad = FALSE, u.open = (IF u.fd THEN 1 ELSE 0) PROVE Memory(u)
    BY <1>5, <1>6 DEF Memory, Tells
  <1> QED BY <1>2, <1>4, <1>6

LEMMA EventKeeps ==
  ASSUME NEW w, Base(w), NEW t \in Times
  PROVE  Keeps(w, ProcessingInputEvent(w, t), Device(w), TRUE)
  <1> DEFINE due == {b \in Bufs : Registered(w, b) /\ w.eo[b].ts <= t}
             u == ProcessingInputEvent(w, t)
             nb == [b \in Bufs |-> IF b \in due THEN PumpOne(w, b) ELSE w.buf[b]]
             ne == [b \in Bufs |-> IF b \in due THEN [w.eo[b] EXCEPT !.st = "ACTIVATED"] ELSE w.eo[b]]
             bad == w.bad \/ \E b \in due : ~FindBuffer(w, b)
  <1>0. w \in State BY DEF Base
  <1>1. u = [w EXCEPT !.bad = bad, !.last = t, !.buf = nb, !.eo = ne]
    BY DEF ProcessingInputEvent, Direct
  <1>2. \A b \in Bufs : w.buf[b] \in Buffer /\ w.eo[b] \in Touches
    BY <1>0 DEF State
  <1>3. \A b \in Bufs : Tells(w.buf[b], nb[b])
    BY <1>2, PumpTells DEF Tells
  <1>4. \A b \in Bufs : ne[b] \in Touches /\ (ne[b].st = "none" <=> w.eo[b].st = "none")
          /\ (ne[b].st = "ACTIVATED" <=> (b \in due \/ w.eo[b].st = "ACTIVATED"))
    BY <1>2 DEF Touches, Registered
  <1>5. nb \in [Bufs -> Buffer] /\ ne \in [Bufs -> Touches] BY <1>3, <1>4 DEF Tells
  <1>6. bad \in BOOLEAN BY <1>0 DEF State
  <1>7. ASSUME Memory(w), Device(w) PROVE bad = FALSE
    BY <1>7 DEF Memory, Device
  <1>8. \A b \in Bufs : nb[b] = IF b \in due THEN PumpOne(w, b) ELSE w.buf[b] OBVIOUS
  <1> HIDE DEF nb, ne, bad, u
  <1>9. /\ u \in State /\ u.buf = nb /\ u.eo = ne /\ u.bad = bad /\ u.canvas = w.canvas
        /\ u.gone = w.gone /\ u.touched = w.touched /\ u.fd = w.fd /\ u.open = w.open
        /\ u.uses = w.uses
    BY <1>0, <1>1, <1>5, <1>6 DEF State
  <1>10. /\ Base(u) /\ (Frames(w) => Frames(u))
         /\ Memory(w) /\ u.bad = FALSE /\ u.open = (IF u.fd THEN 1 ELSE 0) => Memory(u)
    BY <1>3, <1>9, Hear
  <1>11. Memory(w) /\ Device(w) => Memory(u)
    <2>1. Memory(w) => w.open = (IF w.fd THEN 1 ELSE 0) BY DEF Memory
    <2> QED BY <2>1, <1>7, <1>9, <1>10
  <1>12. \A b \in Bufs : Registered(u, b) = Registered(w, b)
    BY <1>4, <1>9 DEF Registered
  <1>13. Device(w) => Device(u)
    BY <1>3, <1>9, <1>12 DEF Device, FindBuffer, AllRegistered, Tells
  <1>14. ASSUME Fingers(w), NEW b \in Bufs PROVE
           /\ u.buf[b].press # "bad"
           /\ "touch" \in u.uses => (u.buf[b].press = "down" <=> Active(u, b) /\ u.buf[b].handler)
           /\ "touch" \notin u.uses => ~Registered(u, b)
    <2>1. /\ w.buf[b].press # "bad"
          /\ "touch" \in w.uses => (w.buf[b].press = "down" <=> Active(w, b) /\ w.buf[b].handler)
          /\ "touch" \notin w.uses => ~Registered(w, b)
      BY <1>14 DEF Fingers
    <2>2. w.buf[b].press \in {"up", "down", "bad"} BY <1>2 DEF Buffer
    <2>3. CASE b \in due
      <3>1. "touch" \in w.uses BY <2>1, <2>3
      <3>2. /\ Tells(w.buf[b], u.buf[b])
            /\ ~w.buf[b].handler => u.buf[b].press = w.buf[b].press
            /\ w.buf[b].handler => u.buf[b].press = "down"
        BY <2>1, <2>2, <2>3, <3>1, <1>8, <1>9, PumpTells
      <3>3. Active(u, b) BY <2>3, <1>4, <1>9 DEF Active
      <3> QED BY <3>1, <3>2, <3>3, <2>1, <1>9 DEF Tells
    <2>4. CASE b \notin due
      <3>1. u.buf[b] = w.buf[b] BY <2>4, <1>8, <1>9
      <3>2. Active(u, b) = Active(w, b) BY <2>4, <1>4, <1>9 DEF Active
      <3> QED BY <3>1, <3>2, <2>1, <1>9, <1>12
    <2> QED BY <2>3, <2>4
  <1>15. Fingers(w) => Fingers(u) BY <1>14 DEF Fingers
  <1> QED BY <1>10, <1>11, <1>13, <1>15 DEF Keeps, u

(* The touches of the buffers in S end; the device is as it was.           *)
LEMMA EndTouchesIs ==
  ASSUME NEW w, Base(w), NEW S \in SUBSET Bufs, \A b \in S : Registered(w, b)
  PROVE  LET u == EndTouches(w, S)
         IN  /\ Base(u) /\ (Frames(w) => Frames(u)) /\ (Memory(w) /\ Device(w) => Memory(u))
             /\ (Fingers(w) => Fingers(u)) /\ u.fd = w.fd /\ u.open = w.open
             /\ \A b \in Bufs : /\ Registered(u, b) <=> Registered(w, b) /\ b \notin S
                                /\ FindBuffer(u, b) = FindBuffer(w, b)
  <1> DEFINE u == EndTouches(w, S)
             nb == [b \in Bufs |-> IF b \in S THEN EndTouch(w, b) ELSE w.buf[b]]
             ne == [b \in Bufs |-> IF b \in S THEN NoTouch ELSE w.eo[b]]
             bad == w.bad \/ \E b \in {d \in S : HasRest(w, d)} : ~FindBuffer(w, b)
  <1>0. w \in State BY DEF Base
  <1>1. u = [w EXCEPT !.bad = bad, !.buf = nb, !.eo = ne]
    BY DEF EndTouches, Direct
  <1>2. \A b \in Bufs : w.buf[b] \in Buffer /\ w.eo[b] \in Touches
    BY <1>0 DEF State
  <1>3. \A b \in Bufs : Tells(w.buf[b], nb[b])
    BY <1>2, EndTells DEF Tells
  <1>4. NoTouch \in Touches /\ NoTouch.st = "none" BY DEF NoTouch, Touches
  <1>5. nb \in [Bufs -> Buffer] /\ ne \in [Bufs -> Touches] BY <1>2, <1>3, <1>4 DEF Tells
  <1>6. bad \in BOOLEAN BY <1>0 DEF State
  <1>7. ASSUME Memory(w), Device(w) PROVE bad = FALSE
    BY <1>7 DEF Memory, Device
  <1>8. \A b \in Bufs : /\ nb[b] = IF b \in S THEN EndTouch(w, b) ELSE w.buf[b]
                        /\ ne[b] = IF b \in S THEN NoTouch ELSE w.eo[b]
    OBVIOUS
  <1> HIDE DEF nb, ne, bad, u
  <1>9. /\ u \in State /\ u.buf = nb /\ u.eo = ne /\ u.bad = bad /\ u.canvas = w.canvas
        /\ u.gone = w.gone /\ u.touched = w.touched /\ u.fd = w.fd /\ u.open = w.open
        /\ u.uses = w.uses
    BY <1>0, <1>1, <1>5, <1>6 DEF State
  <1>10. /\ Base(u) /\ (Frames(w) => Frames(u))
         /\ Memory(w) /\ u.bad = FALSE /\ u.open = (IF u.fd THEN 1 ELSE 0) => Memory(u)
    BY <1>3, <1>9, Hear
  <1>11. Memory(w) /\ Device(w) => Memory(u)
    <2>1. Memory(w) => w.open = (IF w.fd THEN 1 ELSE 0) BY DEF Memory
    <2> QED BY <2>1, <1>7, <1>9, <1>10
  <1>12. \A b \in Bufs : /\ Registered(u, b) <=> Registered(w, b) /\ b \notin S
                         /\ FindBuffer(u, b) = FindBuffer(w, b)
    BY <1>3, <1>4, <1>8, <1>9 DEF Registered, FindBuffer, Tells
  <1>13. ASSUME Fingers(w), NEW b \in Bufs PROVE
           /\ u.buf[b].press # "bad"
           /\ "touch" \in u.uses => (u.buf[b].press = "down" <=> Active(u, b) /\ u.buf[b].handler)
           /\ "touch" \notin u.uses => ~Registered(u, b)
    <2>1. /\ w.buf[b].press # "bad"
          /\ "touch" \in w.uses => (w.buf[b].press = "down" <=> Active(w, b) /\ w.buf[b].handler)
          /\ "touch" \notin w.uses => ~Registered(w, b)
      BY <1>13 DEF Fingers
    <2>2. w.buf[b].press \in {"up", "down", "bad"} BY <1>2 DEF Buffer
    <2>3. CASE b \in S
      <3>1. "touch" \in w.uses BY <2>1, <2>3
      <3>2. /\ Tells(w.buf[b], u.buf[b])
            /\ ~w.buf[b].handler => u.buf[b].press = w.buf[b].press
            /\ w.buf[b].handler => u.buf[b].press = "up"
        BY <2>1, <2>2, <2>3, <3>1, <1>8, <1>9, EndTells
      <3>3. ~Active(u, b) BY <2>3, <1>4, <1>8, <1>9 DEF Active
      <3> QED BY <3>1, <3>2, <3>3, <2>1, <1>9 DEF Tells
    <2>4. CASE b \notin S
      <3>1. u.buf[b] = w.buf[b] /\ u.eo[b] = w.eo[b] BY <2>4, <1>8, <1>9
      <3> QED BY <3>1, <2>1, <1>9 DEF Active, Registered
    <2> QED BY <2>3, <2>4
  <1>14. Fingers(w) => Fingers(u) BY <1>13 DEF Fingers
  <1> QED BY <1>9, <1>10, <1>11, <1>12, <1>14 DEF u

LEMMA CloseIs ==
  ASSUME NEW w, Base(w), w.fd = TRUE, AllRegistered(w) = {}
  PROVE  LET u == Close(w)
         IN  /\ Base(u) /\ (Frames(w) => Frames(u)) /\ (Memory(w) => Memory(u))
             /\ (Fingers(w) => Fingers(u)) /\ Device(u)
  <1> DEFINE u == Close(w)
  <1>1. /\ u \in State /\ u.buf = w.buf /\ u.canvas = w.canvas /\ u.eo = w.eo
        /\ u.gone = w.gone /\ u.bad = w.bad /\ u.touched = w.touched /\ u.uses = w.uses
        /\ u.fd = FALSE /\ u.open = w.open - 1
    <2> DEFINE o == w.open - 1
    <2>1. w \in State BY DEF Base
    <2>2. o \in Int BY <2>1 DEF State
    <2>3. u = [w EXCEPT !.fd = FALSE, !.open = o] BY DEF Close
    <2> HIDE DEF o, u
    <2>4. /\ u \in State /\ u.buf = w.buf /\ u.canvas = w.canvas /\ u.eo = w.eo
          /\ u.gone = w.gone /\ u.bad = w.bad /\ u.touched = w.touched /\ u.uses = w.uses
          /\ u.fd = FALSE /\ u.open = o
      BY <2>1, <2>2, <2>3 DEF State
    <2> QED BY <2>4 DEF o
  <1> HIDE DEF u
  <1>2. Base(u) BY <1>1 DEF Base
  <1>3. Memory(w) => Memory(u) BY <1>1 DEF Memory, Pointed
  <1>4. Device(u) BY <1>1 DEF Device, AllRegistered, Registered
  <1>5. /\ Fingers(w) => Fingers(u)
        /\ Frames(w) => Frames(u)
    BY <1>1 DEF Fingers, Frames, Registered, Active
  <1> QED BY <1>2, <1>3, <1>4, <1>5 DEF u

LEMMA InputLostKeeps ==
  ASSUME NEW w, Base(w), w.fd = TRUE
  PROVE  Keeps(w, InputLost(w), Device(w), TRUE)
  <1> DEFINE S == AllRegistered(w)
             u == EndTouches(w, S)
  <1>1. S \in SUBSET Bufs /\ \A b \in S : Registered(w, b) BY DEF AllRegistered
  <1> HIDE DEF S
  <1>2. /\ Base(u) /\ (Frames(w) => Frames(u)) /\ (Memory(w) /\ Device(w) => Memory(u))
        /\ (Fingers(w) => Fingers(u)) /\ u.fd = w.fd
        /\ \A b \in Bufs : Registered(u, b) <=> Registered(w, b) /\ b \notin S
    BY <1>1, EndTouchesIs
  <1>3. AllRegistered(u) = {}
    <2> HIDE DEF u
    <2> QED BY <1>2 DEF AllRegistered, S
  <1>4. InputLost(w) = Close(u) BY DEF InputLost, S
  <1> HIDE DEF u
  <1>5. /\ Base(Close(u)) /\ (Frames(u) => Frames(Close(u))) /\ (Memory(u) => Memory(Close(u)))
        /\ (Fingers(u) => Fingers(Close(u))) /\ Device(Close(u))
    BY <1>2, <1>3, CloseIs
  <1> QED BY <1>2, <1>4, <1>5 DEF Keeps

LEMMA MouseUnsetKeeps ==
  ASSUME NEW w, Base(w), NEW b \in Bufs
  PROVE  Keeps(w, MouseUnset(w, b), Device(w), TRUE)
  <1> DEFINE u == IF Registered(w, b) THEN EndTouches(w, {b}) ELSE w
             r == MouseUnset(w, b)
  <1>0. w.fd \in BOOLEAN BY DEF Base, State
  <1>1. CASE ~FindBuffer(w, b) \/ ~w.fd
    BY <1>1, SameKeeps DEF MouseUnset, EventRemoveObject
  <1>2. CASE FindBuffer(w, b) /\ w.fd
    <2>1. /\ Base(u) /\ (Frames(w) => Frames(u)) /\ (Memory(w) /\ Device(w) => Memory(u))
          /\ (Fingers(w) => Fingers(u)) /\ u.fd = w.fd
          /\ \A d \in Bufs : (Registered(u, d) => Registered(w, d))
                             /\ FindBuffer(u, d) = FindBuffer(w, d)
      BY EndTouchesIs
    <2>2. r = IF AllRegistered(u) = {} THEN Close(u) ELSE u
      BY <1>2 DEF MouseUnset, EventRemoveObject
    <2> HIDE DEF u
    <2>3. CASE AllRegistered(u) = {}
      <3>1. /\ Base(Close(u)) /\ (Frames(u) => Frames(Close(u))) /\ (Memory(u) => Memory(Close(u)))
            /\ (Fingers(u) => Fingers(Close(u))) /\ Device(Close(u))
        BY <2>1, <2>3, <1>0, <1>2, CloseIs
      <3> QED BY <3>1, <2>1, <2>2, <2>3 DEF Keeps
    <2>4. CASE AllRegistered(u) # {}
      <3>1. Device(w) => Device(u) BY <2>1, <2>4, <1>2 DEF Device
      <3>2. Keeps(w, u, Device(w), TRUE) BY <3>1, <2>1 DEF Keeps
      <3> QED BY <3>2, <2>2, <2>4
    <2> QED BY <2>3, <2>4
  <1> QED BY <1>1, <1>2, <1>0

LEMMA MouseSetKeeps ==
  ASSUME NEW w, Base(w), NEW b \in Bufs, NEW ts \in Times, NEW ok \in BOOLEAN,
         "touch" \in w.uses
  PROVE  Keeps(w, MouseSet(w, b, ts, ok), ~Registered(w, b), TRUE)
  <1> DEFINE r == MouseSet(w, b, ts, ok)
             x == [st |-> "ACTIVATE", ts |-> ts]
             fd == (w.fd \/ ok)
             open == IF w.fd THEN w.open ELSE w.open + 1
             v == [w EXCEPT !.eo[b] = x, !.fd = fd, !.open = open]
  <1>0. w \in State /\ w.fd \in BOOLEAN /\ w.open \in Int BY DEF Base, State
  <1>1. CASE ~FindBuffer(w, b) BY <1>1, SameKeeps DEF MouseSet
  <1>2. CASE FindBuffer(w, b) /\ Registered(w, b)
    <2> DEFINE u == [w EXCEPT !.open = @ + 1]
    <2>1. r = u BY <1>2 DEF MouseSet, EventAddObject
    <2>2. /\ u \in State /\ u.buf = w.buf /\ u.eo = w.eo /\ u.fd = w.fd /\ u.uses = w.uses
      BY <1>0 DEF State
    <2> HIDE DEF u
    <2>3. /\ Base(u) /\ (Device(w) => Device(u))
          /\ (Fingers(w) => Fingers(u)) /\ (Frames(w) => Frames(u))
      BY <2>2 DEF Base, Device, Fingers, Frames, Registered, FindBuffer, AllRegistered, Active
    <2>4. Keeps(w, u, ~Registered(w, b), TRUE) BY <2>3, <1>2 DEF Keeps
    <2> QED BY <2>1, <2>4
  <1>3. CASE FindBuffer(w, b) /\ ~Registered(w, b) /\ ~w.fd /\ ~ok
    BY <1>3, SameKeeps DEF MouseSet, EventAddObject
  <1>4. CASE FindBuffer(w, b) /\ ~Registered(w, b) /\ (w.fd \/ ok)
    <2>1. x \in Touches BY DEF Touches
    <2>2. r = v
      <3>1. CASE w.fd
        <4>1. r = [w EXCEPT !.eo[b] = x] BY <1>4, <3>1 DEF MouseSet, EventAddObject
        <4>2. fd = w.fd /\ open = w.open BY <3>1, <1>0
        <4> HIDE DEF x, fd, open, r
        <4>3. v = [w EXCEPT !.eo[b] = x] BY <4>2, <1>0 DEF State
        <4> QED BY <4>1, <4>3
      <3>2. CASE ~w.fd
        <4>1. r = [[w EXCEPT !.eo[b] = x] EXCEPT !.fd = TRUE, !.open = @ + 1]
          BY <1>4, <3>2 DEF MouseSet, EventAddObject
        <4>2. fd = TRUE /\ open = w.open + 1 BY <3>2, <1>4
        <4> HIDE DEF x, fd, open, r
        <4>3. v = [[w EXCEPT !.eo[b] = x] EXCEPT !.fd = TRUE, !.open = @ + 1]
          BY <4>2, <1>0 DEF State
        <4> QED BY <4>1, <4>3
      <3> QED BY <3>1, <3>2
    <2>3. x.st = "ACTIVATE" /\ fd = TRUE /\ open \in Int BY <1>0, <1>4
    <2>4. open = (IF w.fd THEN w.open ELSE w.open + 1) OBVIOUS
    <2> HIDE DEF x, fd, open
    <2>5. /\ v \in State /\ v.buf = w.buf /\ v.canvas = w.canvas
          /\ v.eo = [w.eo EXCEPT ![b] = x]
          /\ v.fd = TRUE /\ v.open = open /\ v.gone = w.gone /\ v.bad = w.bad
          /\ v.touched = w.touched /\ v.uses = w.uses
      BY <1>0, <2>1, <2>3 DEF State
    <2> HIDE DEF v
    <2>6. \A d \in Bufs : v.eo[d] = IF d = b THEN x ELSE w.eo[d]
      BY <2>5, <1>0 DEF State
    <2>7. Base(v) BY <2>5 DEF Base
    <2>8. Memory(w) => Memory(v)
      <3>1. Memory(w) => v.open = (IF v.fd THEN 1 ELSE 0)
        BY <2>4, <2>5 DEF Memory
      <3> QED BY <3>1, <2>5 DEF Memory, Pointed
    <2>9. Device(w) => Device(v)
      BY <2>3, <2>5, <2>6, <1>4 DEF Device, Registered, FindBuffer, AllRegistered
    <2>10. Fingers(w) => Fingers(v)
      BY <2>3, <2>5, <2>6, <1>4 DEF Fingers, Registered, Active
    <2>11. Frames(w) => Frames(v) BY <2>5 DEF Frames
    <2>12. Keeps(w, v, ~Registered(w, b), TRUE) BY <2>7, <2>8, <2>9, <2>10, <2>11 DEF Keeps
    <2> QED BY <2>2, <2>12
  <1> QED BY <1>1, <1>2, <1>3, <1>4
-----------------------------------------------------------------------------
(* The actions. *)

(* A buffer is drawn into once it was acquired.                            *)
Acquired == "not_acquired" \notin Rare

(* The app and the master keep to what the code relies on: a buffer is not *)
(* destroyed while it is touched, a touch is set once, an extra buffer is  *)
(* one that was acquired, and a gem is destroyed with its master.          *)
Orderly ==
  /\ Acquired /\ NoSegments
  /\ "set_twice" \notin Rare /\ "destroyed_touched" \notin Rare
  /\ "extra_missing" \notin Rare /\ "gem_outlives" \notin Rare

(* The memory of a frame can be mapped, and there are frames to skip.      *)
Drawable == Acquired /\ "map_fails" \notin Rare /\ Skip # 0

(* A widget is touched by the device or by the events of its master.       *)
OneHand == \A use \in Uses : ~("touch" \in use /\ "status" \in use)

LEMMA Weaker ==
  ASSUME NEW w, NEW u, NEW memory, NEW frame, NEW m, NEW f, Keeps(w, u, memory, frame),
         m => memory, f => frame
  PROVE  Keeps(w, u, m, f)
  BY DEF Keeps

LEMMA PlainSteps ==
  ASSUME Base(q),
         \/ AppAcquires \/ AppResizes \/ AppRefers \/ AppUnrefers \/ AppReleases \/ AppSyncs
         \/ AppClearsSkip \/ AppAnswers \/ AppEndsFrame \/ MasterAsks \/ MasterLost
  PROVE  Keeps(q, q', Orderly, Drawable)
  <1>1. \/ Keeps(q, q', TRUE, TRUE)
        \/ Keeps(q, q', NoSegments, TRUE)
    <2>1. CASE AppAcquires
      <3>1. PICK b \in Bufs, kind \in Kinds, ok \in BOOLEAN :
              q.buf[b].st = "init" /\ q' = BufferAcquire(q, b, kind, ok)
        BY <2>1 DEF AppAcquires
      <3>2. Keeps(q, BufferAcquire(q, b, kind, ok), TRUE, TRUE) BY <3>1, BufferAcquireKeeps
      <3> QED BY <3>1, <3>2
    <2>2. CASE AppResizes BY <2>2, BufferResizeKeeps DEF AppResizes
    <2>3. CASE AppRefers
      <3> DEFINE c == CHOOSE c \in FreeCanvases(q) : TRUE
      <3>1. FreeCanvases(q) # {} /\ \E b \in Bufs, ok \in BOOLEAN : q' = BufferRef(q, b, c, ok)
        BY <2>3 DEF AppRefers
      <3>2. c \in FreeCanvases(q) BY <3>1
      <3>3. c \in Canvases /\ q.canvas[c].st = "none" BY <3>2 DEF FreeCanvases
      <3> HIDE DEF c
      <3>4. PICK b \in Bufs, ok \in BOOLEAN : q' = BufferRef(q, b, c, ok) BY <3>1
      <3>5. Keeps(q, BufferRef(q, b, c, ok), NoSegments, TRUE) BY <3>3, BufferRefKeeps
      <3> QED BY <3>4, <3>5
    <2>4. CASE AppUnrefers BY <2>4, BufferUnrefKeeps DEF AppUnrefers, Held
    <2>5. CASE AppReleases
      <3>1. PICK b \in Bufs : ~q.buf[b].frame /\ q' = BufferRelease(q, b)
        BY <2>5 DEF AppReleases, Settled, InFrame
      <3>2. q.buf[b].frame = FALSE BY <3>1, GemOfBuffer
      <3> QED BY <3>1, <3>2, BufferReleaseKeeps
    <2>6. CASE AppSyncs
      <3>1. PICK b \in Bufs : q' = q \/ q' = FbType(q, b)
        BY <2>6 DEF AppSyncs, BufferSync, FbSync
      <3>2. q' = q \/ (q' = Bad(q) /\ ~Memory(q)) BY <3>1, FbTypeIs
      <3>3. Keeps(q, q, TRUE, TRUE) BY SameKeeps
      <3>4. ~Memory(q) => Keeps(q, Bad(q), TRUE, TRUE) BY BadBase DEF Keeps
      <3> QED BY <3>2, <3>3, <3>4
    <2>7. CASE AppClearsSkip BY <2>7, ClearFrameSkipKeeps DEF AppClearsSkip
    <2>8. CASE AppAnswers BY <2>8, AskedKeeps DEF AppAnswers
    <2>9. CASE AppEndsFrame
      <3>1. PICK b \in Bufs : Created(q, b) /\ q' = EndFrame(q, b)
        BY <2>9 DEF AppEndsFrame, EndFrame
      <3>2. Keeps(q, EndFrame(q, b), TRUE, TRUE) BY <3>1, EndFrameKeeps
      <3> QED BY <3>1, <3>2
    <2>10. CASE MasterAsks
      <3>1. PICK b \in Bufs : \/ q' = Feed(q, b, TRUE) \/ q' = Feed(q, b, FALSE)
                              \/ q' = FeedUnrefused(q, b)
        BY <2>10 DEF MasterAsks, WidgetKey, GbarKey, WidgetEnter, GbarEnter, WidgetAccess,
          GbarAccess, WidgetActivate, GbarActivate, WidgetAccessMouse, GbarAccessMouse,
          WidgetAccessRead, GbarAccessRead, WidgetHold, GbarHold
      <3> QED BY <3>1, AskedKeeps
    <2>11. CASE MasterLost BY <2>11, MasterLostKeeps DEF MasterLost
    <2> QED BY <2>1, <2>2, <2>3, <2>4, <2>5, <2>6, <2>7, <2>8, <2>9, <2>10, <2>11
  <1>2. (Orderly => TRUE) /\ (Drawable => TRUE) /\ (Orderly => NoSegments) BY DEF Orderly
  <1> QED BY <1>1, <1>2 DEF Keeps

LEMMA ExtraStep ==
  ASSUME Base(q), AppExtra PROVE Keeps(q, q', Orderly, Drawable)
  <1>1. PICK b \in Bufs, idx \in Idx, ok \in BOOLEAN :
          \/ q' = ExtraAcquire(q, b, idx, ok)
          \/ q' = ExtraRelease(q, b, idx, ok)
          \/ /\ idx \in q.buf[b].extra \/ "extra_missing" \in Rare
             /\ q' = SendExtraUpdated(q, b, idx)
    BY DEF AppExtra
  <1>2. idx \in 0..Extras BY DEF Idx
  <1>3. /\ Keeps(q, ExtraAcquire(q, b, idx, ok), TRUE, TRUE)
        /\ Keeps(q, ExtraRelease(q, b, idx, ok), TRUE, TRUE)
        /\ Keeps(q, SendExtraUpdated(q, b, idx), idx \in q.buf[b].extra, TRUE)
    BY <1>2, ExtrasKeep
  <1>4. CASE Keeps(q, q', TRUE, TRUE) BY <1>4 DEF Keeps
  <1>5. CASE Keeps(q, q', idx \in q.buf[b].extra, TRUE) /\
             (idx \in q.buf[b].extra \/ "extra_missing" \in Rare)
    <2>1. Orderly => idx \in q.buf[b].extra BY <1>5 DEF Orderly
    <2> QED BY <1>5, <2>1 DEF Keeps
  <1> QED BY <1>1, <1>3, <1>4, <1>5

LEMMA GemStep ==
  ASSUME Base(q), AppGem PROVE Keeps(q, q', Orderly, Drawable)
  <1>1. PICK b \in Bufs :
          \/ \E comp, ok \in BOOLEAN : q' = CreateHw(q, b, comp, ok)
          \/ q' = DestroyHw(q, b)
          \/ q' = HwAddr(q, b)
          \/ Usable(b) /\ q' = DumpFrame(q, b)
    BY DEF AppGem
  <1>2. CASE \E comp, ok \in BOOLEAN : q' = CreateHw(q, b, comp, ok)
    <2>1. Keeps(q, q', TRUE, TRUE) BY <1>2, CreateHwKeeps
    <2> QED BY <2>1 DEF Keeps
  <1>3. CASE q' = DestroyHw(q, b)
    <2>1. Keeps(q, q', TRUE, TRUE) BY <1>3, DestroyHwKeeps
    <2> QED BY <2>1 DEF Keeps
  <1>4. CASE q' = HwAddr(q, b)
    <2>1. Keeps(q, q, TRUE, TRUE) BY SameKeeps
    <2>2. FbHasGem(q, b) => Keeps(q, ReleaseGem(AcquireGem(q, b, TRUE), b), TRUE, TRUE)
      BY HwAddrKeeps
    <2>3. Keeps(q, q', TRUE, TRUE) BY <1>4, <2>1, <2>2 DEF HwAddr
    <2> QED BY <2>3 DEF Keeps
  <1>5. CASE Usable(b) /\ q' = DumpFrame(q, b)
    <2>1. Keeps(q, q', Created(q, b), TRUE) BY <1>5, DumpFrameKeeps
    <2>2. Orderly => Created(q, b) BY <1>5 DEF Usable, Orderly, Acquired
    <2> QED BY <2>1, <2>2 DEF Keeps
  <1> QED BY <1>1, <1>2, <1>3, <1>4, <1>5

LEMMA FrameStep ==
  ASSUME Base(q), AppStartsFrame PROVE Keeps(q, q', Orderly, Drawable)
  <1>1. PICK b \in Bufs, maps \in BOOLEAN :
          Usable(b) /\ ~InFrame(b) /\ (maps \/ "map_fails" \in Rare) /\ q' = StartFrame(q, b, maps)
    BY DEF AppStartsFrame, StartFrame
  <1>2. q.buf[b].frame = FALSE BY <1>1, GemOfBuffer DEF InFrame
  <1>3. Keeps(q, q', Created(q, b), Created(q, b) /\ maps)
    BY <1>1, <1>2, StartFrameKeeps
  <1>4. Acquired => Created(q, b) BY <1>1 DEF Usable, Acquired
  <1>5. Orderly => Created(q, b) BY <1>4 DEF Orderly
  <1>6. Drawable => Created(q, b) /\ maps BY <1>1, <1>4 DEF Drawable
  <1> QED BY <1>3, <1>5, <1>6 DEF Keeps

(* The steps of the device need to know that who is registered is there.   *)
LEMMA DeviceStep ==
  ASSUME Base(q), MasterSets \/ MasterUnsets \/ Touched \/ DeviceLost \/ MasterBack
  PROVE  Keeps(q, q', Orderly /\ Device(q), Drawable)
  <1>1. CASE MasterSets
    <2>1. PICK b \in Bufs, ts \in Times, ok \in BOOLEAN :
            (~Registered(q, b) \/ "set_twice" \in Rare) /\ q' = MouseSet(q, b, ts, ok)
      BY <1>1 DEF MasterSets
    <2>2. "touch" \in q.uses BY <1>1 DEF MasterSets, May
    <2>3. Keeps(q, q', ~Registered(q, b), TRUE) BY <2>1, <2>2, MouseSetKeeps
    <2>4. Orderly => ~Registered(q, b) BY <2>1 DEF Orderly
    <2> QED BY <2>3, <2>4 DEF Keeps
  <1>2. CASE MasterUnsets
    <2>1. Keeps(q, q', Device(q), TRUE) BY <1>2, MouseUnsetKeeps DEF MasterUnsets
    <2> QED BY <2>1 DEF Keeps
  <1>3. CASE Touched
    <2>1. PICK t \in q.last..MaxTime : q' = ProcessingInputEvent(q, t) BY <1>3 DEF Touched
    <2>2. t \in Times
      <3>1. q.last \in 0..MaxTime BY DEF Base, State
      <3> QED BY <3>1
    <2>3. Keeps(q, q', Device(q), TRUE) BY <2>1, <2>2, EventKeeps
    <2> QED BY <2>3 DEF Keeps
  <1>4. CASE DeviceLost
    <2>1. q.fd = TRUE /\ q' = InputLost(q) BY <1>4 DEF DeviceLost, Base, State
    <2>2. Keeps(q, q', Device(q), TRUE) BY <2>1, InputLostKeeps
    <2> QED BY <2>2 DEF Keeps
  <1>5. CASE MasterBack
    <2>1. Keeps(q, q', \A b \in Bufs : ~FbHasGem(q, b), TRUE)
      BY <1>5, MasterBackKeeps DEF MasterBack
    <2>2. Orderly => \A b \in Bufs : ~FbHasGem(q, b)
      BY <1>5 DEF MasterBack, Orderly, Gems
    <2> QED BY <2>1, <2>2 DEF Keeps
  <1> QED BY <1>1, <1>2, <1>3, <1>4, <1>5

LEMMA FreshFrames ==
  ASSUME NEW w, Base(w), NEW b \in Bufs, NEW y \in Buffer, y.fb = NoFb, y.st # "created",
         y.frame = FALSE, y.lock = "none", y.st = "none" \/ (y.cleared = 0 /\ y.skip = Skip)
  PROVE  LET u == Put(w, b, y) IN Base(u) /\ (Frames(w) /\ Skip # 0 => Frames(u))
  <1> DEFINE u == Put(w, b, y)
  <1>1. Shaped(y) /\ y.fb.gem = NoGem BY DEF Shaped, NoFb, NoGem
  <1>2. Base(u) /\ u.buf[b] = y /\ \A d \in Bufs : d # b => u.buf[d] = w.buf[d]
    BY <1>1, PutBase DEF Put
  <1> HIDE DEF u
  <1>3. Whole(NoGem, FALSE) BY NoGemIs
  <1>4. Skip # 0 => Framed(y) BY <1>1, <1>3 DEF Framed
  <1>5. Frames(w) /\ Skip # 0 => Frames(u) BY <1>2, <1>4 DEF Frames
  <1> QED BY <1>2, <1>5 DEF u

(* A buffer is created or destroyed.                                       *)
LEMMA LifeStep ==
  ASSUME Base(q), AppCreates \/ AppDestroys
  PROVE  /\ Base(q') /\ (Frames(q) /\ Drawable => Frames(q'))
         /\ "destroyed_touched" \notin Rare /\ Device(q) =>
              Device(q') /\ (Memory(q) => Memory(q')) /\ (Fingers(q) => Fingers(q'))
  <1>1. CASE AppCreates
    <2>1. PICK b \in Bufs, handler \in BOOLEAN :
            ~FindBuffer(q, b) /\ q' = BufferCreate(q, b, handler)
      BY <1>1 DEF AppCreates
    <2>2. Device(q) => Keeps(q, q', TRUE, Skip # 0) BY <2>1, BufferCreateKeeps
    <2> DEFINE y == [NoBuf EXCEPT !.st = "init", !.handler = handler, !.skip = Skip]
    <2>3. /\ y \in Buffer /\ y.fb = NoFb /\ y.st = "init" /\ y.frame = FALSE
          /\ y.lock = "none" /\ y.cleared = 0 /\ y.skip = Skip
      <3>1. /\ NoBuf.fb = NoFb /\ NoBuf.cleared = 0
            /\ NoBuf.frame = FALSE /\ NoBuf.lock = "none" /\ Skip \in 0..Skip
        BY DEF NoBuf
      <3> QED BY <3>1, NoBufIs DEF Buffer
    <2>4. q' = Put(q, b, y) BY <2>1 DEF BufferCreate, Put
    <2> HIDE DEF y
    <2>5. Base(q') /\ (Frames(q) /\ Skip # 0 => Frames(q')) BY <2>3, <2>4, FreshFrames
    <2> QED BY <2>2, <2>5 DEF Keeps, Drawable
  <1>2. CASE AppDestroys
    <2>1. PICK b \in Bufs : (~Registered(q, b) \/ "destroyed_touched" \in Rare)
                            /\ q' = BufferDestroy(q, b)
      BY <1>2 DEF AppDestroys
    <2>2. "destroyed_touched" \notin Rare => Keeps(q, q', TRUE, TRUE)
      BY <2>1, BufferDestroyKeeps
    <2>3. CASE q.buf[b].st # "init"
      <3>1. q' = q BY <2>1, <2>3 DEF BufferDestroy
      <3> QED BY <3>1
    <2>4. CASE q.buf[b].st = "init"
      <3>1. q' = Put(q, b, NoBuf) BY <2>1, <2>4 DEF BufferDestroy, Put
      <3>2. /\ NoBuf \in Buffer /\ NoBuf.fb = NoFb /\ NoBuf.st = "none"
            /\ NoBuf.frame = FALSE /\ NoBuf.lock = "none"
        BY NoBufIs DEF NoBuf
      <3>3. Base(q') /\ (Frames(q) /\ Skip # 0 => Frames(q')) BY <3>1, <3>2, FreshFrames
      <3> QED BY <2>2, <3>3 DEF Keeps, Drawable
    <2> QED BY <2>3, <2>4
  <1> QED BY <1>1, <1>2

(* A finger that the master tells of, one event after the other.           *)
LEMMA TouchStep ==
  ASSUME Base(q), MasterTouches
  PROVE  /\ Base(q') /\ (Memory(q) => Memory(q')) /\ (Device(q) => Device(q'))
         /\ (Frames(q) => Frames(q')) /\ (OneHand /\ Fingers(q) => Fingers(q'))
  <1>1. PICK b \in Bufs : \E what \in IF q.buf[b].press = "up" THEN {"down"} ELSE {"move", "up"} :
          q' = Touch(q, b, what)
    BY DEF MasterTouches, WidgetMouse, GbarMouse
  <1>2. PICK what \in IF q.buf[b].press = "up" THEN {"down"} ELSE {"move", "up"} :
          q' = Touch(q, b, what)
    BY <1>1
  <1> DEFINE x == q.buf[b]
             y == Press(x, what)
  <1>3. CASE ~FindBuffer(q, b)
    <2>1. q' = q BY <1>2, <1>3 DEF Touch
    <2> QED BY <2>1
  <1>4. CASE FindBuffer(q, b)
    <2>1. x \in Buffer /\ q \in State BY GemOfBuffer DEF Base
    <2>2. Tells(x, y) /\ y.press = (IF x.handler THEN Told(x.press, what) ELSE x.press)
      BY <2>1, PressTells
    <2>3. q' = [q EXCEPT !.buf[b] = y] BY <1>2, <1>4 DEF Touch
    <2> HIDE DEF y
    <2>4. /\ q' \in State /\ q'.buf[b] = y
          /\ \A d \in Bufs : d # b => q'.buf[d] = q.buf[d]
          /\ q'.canvas = q.canvas /\ q'.eo = q.eo /\ q'.fd = q.fd
          /\ q'.open = q.open /\ q'.gone = q.gone
          /\ q'.bad = q.bad /\ q'.touched = q.touched /\ q'.uses = q.uses
      <3>1. y \in Buffer BY <2>2 DEF Tells
      <3> QED BY <2>1, <2>3, <3>1 DEF State
    <2>5. \A d \in Bufs : Tells(q.buf[d], q'.buf[d])
      BY <2>1, <2>2, <2>4 DEF Tells, State
    <2>6. /\ Base(q') /\ (Frames(q) => Frames(q'))
          /\ Memory(q) /\ q'.bad = FALSE /\ q'.open = (IF q'.fd THEN 1 ELSE 0) => Memory(q')
      BY <2>4, <2>5, Hear
    <2>7. Memory(q) => Memory(q')
      <3>1. Memory(q) => q.bad = FALSE /\ q.open = (IF q.fd THEN 1 ELSE 0) BY DEF Memory
      <3> QED BY <3>1, <2>4, <2>6
    <2>8. Device(q) => Device(q')
      BY <2>4, <2>5 DEF Device, Registered, FindBuffer, AllRegistered, Tells
    <2>9. ASSUME OneHand, Fingers(q) PROVE Fingers(q')
      <3>1. "status" \in q.uses /\ q.uses \in Uses BY <2>1 DEF MasterTouches, May, State
      <3>2. "touch" \notin q.uses BY <3>1, <2>9 DEF OneHand
      <3>3. x.press \in {"up", "down"} BY <2>1, <2>9 DEF Fingers, Buffer
      <3>4. Told(x.press, what) # "bad" BY <3>3 DEF Told
      <3>5. y.press # "bad" BY <2>2, <3>3, <3>4
      <3> QED BY <2>4, <2>9, <3>2, <3>5 DEF Fingers, Registered
    <2> QED BY <2>6, <2>7, <2>8, <2>9
  <1> QED BY <1>3, <1>4

(* Every step, and what it keeps.                                          *)
LEMMA NextKeeps ==
  ASSUME Base(q), [Next]_vars
  PROVE  /\ Base(q')
         /\ Frames(q) /\ Drawable => Frames(q')
         /\ "destroyed_touched" \notin Rare /\ Device(q) => Device(q')
         /\ "destroyed_touched" \notin Rare /\ OneHand /\ Device(q) /\ Fingers(q) => Fingers(q')
         /\ Orderly /\ Device(q) /\ Memory(q) => Memory(q')
  <1>0. Orderly => "destroyed_touched" \notin Rare BY DEF Orderly
  <1>1. CASE Keeps(q, q', Orderly, Drawable) BY <1>1 DEF Keeps
  <1>2. CASE Keeps(q, q', Orderly /\ Device(q), Drawable) BY <1>2 DEF Keeps
  <1>3. CASE AppCreates \/ AppDestroys BY <1>0, <1>3, LifeStep
  <1>4. CASE MasterTouches BY <1>4, TouchStep
  <1>5. CASE UNCHANGED vars BY <1>5 DEF vars
  <1> QED
    BY <1>1, <1>2, <1>3, <1>4, <1>5, PlainSteps, ExtraStep, GemStep, FrameStep, DeviceStep
    DEF Next
-----------------------------------------------------------------------------
(* The theorems *)

LEMMA InitKeeps ==
  ASSUME Init PROVE Base(q) /\ Memory(q) /\ Device(q) /\ Fingers(q) /\ Frames(q)
  <1>1. PICK use \in Uses :
          q = [buf |-> [b \in Bufs |-> NoBuf], canvas |-> [c \in Canvases |-> NoCanvas],
               eo |-> [b \in Bufs |-> NoTouch], last |-> 0, fd |-> FALSE, open |-> 0,
               bufmgr |-> TRUE, gone |-> FALSE, bad |-> FALSE, touched |-> FALSE, uses |-> use]
    BY DEF Init
  <1>2. /\ \A b \in Bufs : q.buf[b] = NoBuf /\ q.eo[b] = NoTouch
        /\ \A c \in Canvases : q.canvas[c] = NoCanvas
        /\ q.fd = FALSE /\ q.open = 0 /\ q.gone = FALSE /\ q.bad = FALSE /\ q.touched = FALSE
    BY <1>1
  <1>3. /\ NoBuf \in Buffer /\ NoBuf.fb = NoFb /\ NoBuf.st = "none" /\ NoBuf.extra = {}
        /\ NoBuf.press = "up" /\ NoBuf.frame = FALSE /\ NoBuf.lock = "none"
        /\ NoBuf.handler = FALSE
    BY NoBufIs DEF NoBuf
  <1>4. NoTouch \in Touches /\ NoTouch.st = "none" BY DEF NoTouch, Touches
  <1>5. Shaped(NoBuf) /\ NoBuf.fb.gem.old = FALSE /\ NoBuf.fb.buffer = None
        /\ NoBuf.fb.gem = NoGem
    BY <1>3, NoFbIs, NoGemIs DEF Shaped, NoGem
  <1>6. q \in State
    <2>1. /\ [b \in Bufs |-> NoBuf] \in [Bufs -> Buffer]
          /\ [c \in Canvases |-> NoCanvas] \in [Canvases -> Canvas]
          /\ [b \in Bufs |-> NoTouch] \in [Bufs -> Touches]
          /\ 0 \in Times
      BY <1>3, <1>4, NoCanvasIs
    <2> QED BY <2>1, <1>1 DEF State
  <1>7. Base(q) BY <1>2, <1>5, <1>6 DEF Base
  <1>8. Memory(q) BY <1>2, <1>3, <1>5, NoCanvasIs DEF Memory, Pointed
  <1>9. Device(q) BY <1>2, <1>4 DEF Device, Registered, AllRegistered
  <1>10. Fingers(q) BY <1>2, <1>3, <1>4 DEF Fingers, Registered, Active
  <1>11. Framed(NoBuf)
    <2>1. Whole(NoGem, FALSE) BY NoGemIs
    <2> QED BY <2>1, <1>3, <1>5 DEF Framed
  <1>12. Frames(q) BY <1>2, <1>11 DEF Frames
  <1> QED BY <1>7, <1>8, <1>9, <1>10, <1>12

(* Memory and descriptors are there as long as the app draws, also after   *)
(* the master that gave them is gone (fb_release_buffer, fb_destroy,       *)
(* event_remove_object), for an app and a master that keep order.          *)
THEOREM MemoryStaysSafe == ASSUME Orderly PROVE Spec => []MemoryIsSafe
  <1> DEFINE Inv == Base(q) /\ Device(q) /\ Memory(q)
  <1>1. Init => Inv BY InitKeeps
  <1>2. Inv /\ [Next]_vars => Inv'
    <2>1. "destroyed_touched" \notin Rare BY DEF Orderly
    <2> QED BY <2>1, NextKeeps
  <1>3. Inv => MemoryIsSafe
    <2> SUFFICES ASSUME Inv PROVE MemoryIsSafe OBVIOUS
    <2>1. TypeOK
      <3>1. ASSUME NEW b \in Bufs PROVE
              /\ q.buf[b].st \in {"none", "init", "created"}
              /\ q.buf[b].press \in {"up", "down", "bad"}
              /\ (q.buf[b].fb = NoFb) = (q.buf[b].st # "created")
              /\ q.buf[b].fb.buffer \in Canvases \cup {None} /\ q.buf[b].skip \in 0..Skip
        <4>1. q.buf[b] \in Buffer /\ Shaped(q.buf[b]) BY GemOfBuffer
        <4>2. "none" \notin Kinds OBVIOUS
        <4>3. (q.buf[b].fb = NoFb) = (q.buf[b].st # "created")
          BY <4>1, <4>2, NoFbIs DEF Shaped
        <4> QED BY <4>1, <4>3 DEF Buffer, FrameBuffer
      <3> QED BY <3>1 DEF TypeOK, Device, Memory
    <2>2. CanvasHeld
      <3>1. \A c \in Canvases : Kept(q.canvas[c]) BY DEF Memory
      <3>2. \A c \in Canvases : (q.canvas[c].st = "live") = (q.canvas[c].held > 0)
        BY <3>1, NoCanvasIs DEF Kept
      <3> QED BY <3>2 DEF CanvasHeld, Memory
    <2>3. GemTrusted BY DEF GemTrusted, Memory
    <2> QED BY <2>1, <2>2, <2>3 DEF MemoryIsSafe
  <1> QED BY <1>1, <1>2, <1>3, PTL DEF Spec

(* Whatever the times of a touch and of its events, and however it ends,   *)
(* the app sees down, moves and up, in that order (event.c), as long as one*)
(* hand touches a widget and no buffer is destroyed beneath it.            *)
THEOREM PressStaysBalanced ==
  ASSUME OneHand, "destroyed_touched" \notin Rare PROVE Spec => []PressBalanced
  <1> DEFINE Inv == Base(q) /\ Device(q) /\ Fingers(q)
  <1>1. Init => Inv BY InitKeeps
  <1>2. Inv /\ [Next]_vars => Inv' BY NextKeeps
  <1>3. Inv => PressBalanced BY DEF Fingers, PressBalanced
  <1> QED BY <1>1, <1>2, <1>3, PTL DEF Spec

(* A frame locks the device memory it is drawn into, once, gives it back,  *)
(* and counts: the app is told once that the frames to skip are over       *)
(* (widget_provider_buffer_pre_render, _post_render, _clear_frame_skip).   *)
THEOREM FramesStayWhole == ASSUME Drawable PROVE Spec => []FramesAreWhole
  <1> DEFINE Inv == Base(q) /\ Frames(q)
  <1>1. Init => Inv BY InitKeeps
  <1>2. Inv /\ [Next]_vars => Inv' BY NextKeeps
  <1>3. Inv => FramesAreWhole
    <2> SUFFICES ASSUME Inv, NEW b \in Bufs PROVE
          /\ q.buf[b].fb.gem.locks \in {0, 1} /\ q.buf[b].fb.gem.refcnt \in {0, 1}
          /\ ~q.buf[b].frame =>
               /\ q.buf[b].fb.gem.refcnt = 0 /\ q.buf[b].fb.gem.locks = 0
               /\ ~q.buf[b].fb.gem.data /\ q.buf[b].lock # "taken"
          /\ q.buf[b].fb.gem.locks = 1 => q.buf[b].fb.gem.data
          /\ FindBuffer(q, b) /\ q.buf[b].handler =>
               q.buf[b].cleared = (IF q.buf[b].skip = 0 THEN 1 ELSE 0)
      BY DEF FramesAreWhole, RenderLocked, SkipClearedOnce
    <2> DEFINE x == q.buf[b]
               g == x.fb.gem
    <2>1. Framed(x) BY DEF Frames
    <2>2. /\ g.refcnt \in {0, 1} /\ (g.refcnt = 1 => x.frame) /\ (g.data <=> g.refcnt = 1)
          /\ g.locks = (IF g.data /\ ~g.comp THEN 1 ELSE 0)
      BY <2>1 DEF Framed, Whole
    <2>3. g.locks \in {0, 1} /\ (g.locks = 1 => g.data) BY <2>2
    <2>4. ~x.frame => g.refcnt = 0 /\ g.locks = 0 /\ ~g.data /\ x.lock # "taken"
      BY <2>1, <2>2 DEF Framed
    <2>5. FindBuffer(q, b) /\ x.handler => x.cleared = (IF x.skip = 0 THEN 1 ELSE 0)
      BY <2>1 DEF Framed, FindBuffer
    <2> QED BY <2>2, <2>3, <2>4, <2>5
  <1> QED BY <1>1, <1>2, <1>3, PTL DEF Spec
=============================================================================
