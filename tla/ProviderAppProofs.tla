------------------------- MODULE ProviderAppProofs -------------------------
(* Proofs about the library of a widget's process: the references to its   *)
(* connections, what its instances were told of pauses, and who gets what  *)
(* is drawn, for any number of instances, viewers and paths.               *)
EXTENDS ProviderAppProps, TLAPS, FiniteSetTheorems

RunStates == {"unknown", "resumed", "paused"}
Pings == {"off", "on", "frozen"}

Item ==
  [st : {"none", "live"}, state : RunStates, timer : {"off", "on", "frozen"},
   told : {"none", "paused", "resumed"}, twice : BOOLEAN, owner : Viewers,
   joined : SUBSET Viewers, paths : Nat, missed : SUBSET Viewers]

Provider ==
  [it : [Items -> Item], conn : [Addrs -> Nat], down : SUBSET Addrs,
   events : SUBSET Addrs, watch : {"none", "on", "bad"}, init : BOOLEAN,
   name : BOOLEAN, fd : BOOLEAN, state : RunStates,
   ping : Pings, secured : BOOLEAN, link : {"off", "on"},
   uses : Uses]

(* The inductive invariant, in five parts *)

\* Every connection is counted once for each entry.
Counted(w) == \A a \in Addrs : w.conn[a] = Cardinality(Entries(w, Items, a))

\* What is broken is there; what is not an instance is nothing.
Sane(w) ==
  /\ w.events \subseteq w.down /\ \A a \in w.down : w.conn[a] > 0
  /\ \A i \in Items : w.it[i].owner = NoAddr => w.it[i].paths = 0
  /\ \A i \in Items : w.it[i].st # "live" => w.it[i] = NoItem

\* The connection to the master, and what depends on it
Tied(w) ==
  /\ w.link = "on" <=> w.fd
  /\ w.fd => w.name
  /\ w.init => w.fd
  /\ w.ping # "off" => w.fd
  /\ w.watch # "none" => w.init
  /\ ~w.fd => \A i \in Items : w.it[i].st # "live"

\* What an app was told of an instance x is what holds of it, told once.
ToldRight(x, state) ==
  /\ (x.told = "resumed") <=> (x.state = "resumed" /\ state = "resumed")
  /\ ~x.twice
  /\ state = "unknown" \/ x.state = "unknown" => x.told = "none"
  /\ x.timer = "frozen" => x.told = "paused"

Paused(w) ==
  /\ \A i \in Items : ToldRight(w.it[i], w.state)
  /\ w.ping = "frozen" => w.state = "paused"

Served(w) == \A i \in Items : w.it[i].owner \notin w.it[i].missed

Links(w) == w \in Provider /\ Counted(w) /\ Sane(w)

\* What holds also while a callback of the main loop is under way
Good(w) == Links(w) /\ Paused(w) /\ Served(w)

Inv(w) == Good(w) /\ Tied(w)

\* What no function of connection.c or client.c but the one named for it does
SameLink(w, t) ==
  /\ t.init = w.init /\ t.name = w.name /\ t.fd = w.fd /\ t.link = w.link
  /\ t.secured = w.secured /\ t.uses = w.uses
  /\ t.watch \in {w.watch, "none"}

\* An instance goes on as it was, or is a new one or none.
Calm(x, y) ==
  \/ /\ y.state = x.state /\ y.told = x.told /\ y.twice = x.twice
     /\ y.timer = x.timer /\ y.owner = x.owner /\ y.missed = x.missed
  \/ /\ y.state = "unknown" /\ y.told = "none" /\ ~y.twice
     /\ y.timer # "frozen" /\ y.missed = {}

Quiet(w, t) ==
  /\ t.state = w.state /\ t.ping = w.ping
  /\ \A i \in Items : Calm(w.it[i], t.it[i])
-----------------------------------------------------------------------------
(* Entries of lists *)

LEMMA ItemsFinite == IsFiniteSet(Items)
BY ProviderAppAssumption

LEMMA OneRow ==
  ASSUME NEW i, NEW n \in Nat
  PROVE  IsFiniteSet({i} \X (1..n)) /\ Cardinality({i} \X (1..n)) = n
<1>1. IsFiniteSet(1..n) /\ Cardinality(1..n) = n
  BY FS_Interval
<1>2. IsFiniteSet({i}) /\ Cardinality({i}) = 1
  BY FS_Singleton
<1> QED
  BY <1>1, <1>2, FS_Product

LEMMA EntriesFinite ==
  ASSUME NEW w \in Provider, NEW S \in SUBSET Items, NEW a
  PROVE  /\ IsFiniteSet(Entries(w, S, a))
         /\ Cardinality(Entries(w, S, a)) \in Nat
<1> DEFINE J == {j \in S : w.it[j].owner = a}
           R(i) == {i} \X (1..w.it[i].paths)
<1>1. IsFiniteSet(J)
  BY FS_Subset, ItemsFinite
<1>2. \A i \in J : IsFiniteSet(R(i))
  BY OneRow DEF Provider, Item
<1>3. IsFiniteSet({R(i) : i \in J})
  <2> DEFINE f == [i \in J |-> R(i)]
             T == {R(i) : i \in J}
  <2>1. f \in Surjection(J, T)
    BY DEF Surjection, Range
  <2> HIDE DEF f, J, T
  <2>2. IsFiniteSet(T)
    BY <1>1, <2>1, FS_Surjection DEF ExistsSurjection
  <2> QED
    BY <2>2 DEF T
<1> HIDE DEF R, J
<1>4. \A T \in {R(i) : i \in J} : IsFiniteSet(T)
  BY <1>2
<1>5. IsFiniteSet(UNION {R(i) : i \in J})
  BY <1>3, <1>4, FS_UNION
<1>6. Entries(w, S, a) = UNION {R(i) : i \in J}
  BY DEF Entries, R, J
<1> QED
  BY <1>5, <1>6, FS_CardinalityType

\* The lists of disjoint sets of instances are disjoint.
LEMMA EntriesSplit ==
  ASSUME NEW w \in Provider, NEW S \in SUBSET Items, NEW a
  PROVE  Cardinality(Entries(w, Items, a))
           = Cardinality(Entries(w, S, a)) + Cardinality(Entries(w, Items \ S, a))
<1> DEFINE A == Entries(w, S, a)
           B == Entries(w, Items \ S, a)
<1>1. Entries(w, Items, a) = A \cup B
  BY DEF Entries
<1>2. A \cap B = {}
  BY DEF Entries
<1>3. IsFiniteSet(A) /\ IsFiniteSet(B)
  BY EntriesFinite
<1>4. Cardinality(A \cap B) = 0
  BY <1>2, FS_EmptySet
<1>5. Cardinality(A) \in Nat /\ Cardinality(B) \in Nat
  BY <1>3, FS_CardinalityType
<1> HIDE DEF A, B
<1>6. Cardinality(A \cup B) = Cardinality(A) + Cardinality(B) - Cardinality(A \cap B)
  BY <1>3, FS_Union
<1> QED
  BY <1>1, <1>4, <1>5, <1>6 DEF A, B

LEMMA EntriesOfOne ==
  ASSUME NEW w \in Provider, NEW i \in Items, NEW a
  PROVE  Cardinality(Entries(w, {i}, a)) = IF w.it[i].owner = a THEN w.it[i].paths ELSE 0
<1>1. CASE w.it[i].owner = a
  <2>1. Entries(w, {i}, a) = {i} \X (1..w.it[i].paths)
    BY <1>1 DEF Entries
  <2>2. w.it[i].paths \in Nat
    BY DEF Provider, Item
  <2> QED
    BY <1>1, <2>1, <2>2, OneRow
<1>2. CASE w.it[i].owner # a
  <2>1. Entries(w, {i}, a) = {}
    BY <1>2 DEF Entries
  <2> QED
    BY <1>2, <2>1, FS_EmptySet
<1> QED
  BY <1>1, <1>2

\* Only owner and paths of the instances matter.
LEMMA EntriesSame ==
  ASSUME NEW w, NEW t, NEW S, NEW a,
         \A i \in S : t.it[i].owner = w.it[i].owner /\ t.it[i].paths = w.it[i].paths
  PROVE  Entries(t, S, a) = Entries(w, S, a)
BY DEF Entries
-----------------------------------------------------------------------------
(* Connections *)

\* UnrefAll, with n given: what it does to each field
LEMMA UnrefAllFields ==
  ASSUME NEW w \in Provider, NEW n \in [Addrs -> Nat]
  PROVE  LET u == UnrefAll(w, n) IN
         /\ u \in Provider /\ SameLink(w, u)
         /\ u.it = w.it /\ u.state = w.state /\ u.ping = w.ping
         /\ \A a \in Addrs : u.conn[a] = IF w.conn[a] > n[a] THEN w.conn[a] - n[a] ELSE 0
         /\ u.down \subseteq w.down
         /\ \A a \in u.down : ~(n[a] > 0 /\ w.conn[a] <= n[a])
         /\ w.events \subseteq w.down => u.events \subseteq u.down
<1> DEFINE closed == {a \in Addrs : n[a] > 0 /\ w.conn[a] <= n[a]}
           u == [w EXCEPT !.conn = [a \in Addrs |-> IF w.conn[a] > n[a] THEN w.conn[a] - n[a] ELSE 0],
                          !.down = @ \ closed, !.events = @ \ closed]
           v == EventCb(u)
<1>1. \A a \in Addrs : w.conn[a] \in Nat /\ n[a] \in Nat
  BY DEF Provider
<1>2. [a \in Addrs |-> IF w.conn[a] > n[a] THEN w.conn[a] - n[a] ELSE 0] \in [Addrs -> Nat]
  BY <1>1
<1>3. /\ u \in Provider
      /\ u.conn = [a \in Addrs |-> IF w.conn[a] > n[a] THEN w.conn[a] - n[a] ELSE 0]
      /\ u.down = w.down \ closed /\ u.events = w.events \ closed
      /\ u.init = w.init /\ u.name = w.name /\ u.fd = w.fd /\ u.link = w.link
      /\ u.secured = w.secured /\ u.uses = w.uses /\ u.watch = w.watch
      /\ u.it = w.it /\ u.state = w.state /\ u.ping = w.ping
  BY <1>2 DEF Provider
<1>4. closed = {a \in Addrs : n[a] > 0 /\ w.conn[a] <= n[a]}
  OBVIOUS
<1> HIDE DEF closed, u
<1>5. /\ v \in Provider /\ v.watch \in {u.watch, "none"}
      /\ v.conn = u.conn /\ v.down = u.down /\ v.events = u.events
      /\ v.init = u.init /\ v.name = u.name /\ v.fd = u.fd /\ v.link = u.link
      /\ v.secured = u.secured /\ v.uses = u.uses
      /\ v.it = u.it /\ v.state = u.state /\ v.ping = u.ping
  BY <1>3 DEF EventCb, Provider
<1>6. UnrefAll(w, n) = u \/ UnrefAll(w, n) = v
  BY Zenon DEF UnrefAll, u, closed
<1> HIDE DEF v
<1>7. SUFFICES ASSUME NEW z, z = u \/ z = v
      PROVE  /\ z \in Provider /\ SameLink(w, z)
             /\ z.it = w.it /\ z.state = w.state /\ z.ping = w.ping
             /\ \A a \in Addrs : z.conn[a] = IF w.conn[a] > n[a] THEN w.conn[a] - n[a] ELSE 0
             /\ z.down \subseteq w.down
             /\ \A a \in z.down : ~(n[a] > 0 /\ w.conn[a] <= n[a])
             /\ w.events \subseteq w.down => z.events \subseteq z.down
  BY <1>6, Zenon
<1>8. /\ z \in Provider /\ SameLink(w, z)
      /\ z.it = w.it /\ z.state = w.state /\ z.ping = w.ping
      /\ z.conn = u.conn /\ z.down = u.down /\ z.events = u.events
  BY <1>3, <1>5, <1>7 DEF SameLink
<1>9. w.down \subseteq Addrs
  BY DEF Provider
<1> QED
  BY <1>3, <1>4, <1>8, <1>9

LEMMA OnlyType ==
  ASSUME NEW a, NEW n \in Nat
  PROVE  Only(a, n) \in [Addrs -> Nat] /\ \A b \in Addrs : Only(a, n)[b] = IF b = a THEN n ELSE 0
BY DEF Only

\* References that no entry stands for any more are given back: the count
\* is right again.
LEMMA UnrefCounted ==
  ASSUME NEW w \in Provider, NEW n \in [Addrs -> Nat], Sane(w),
         \A a \in Addrs : w.conn[a] = Cardinality(Entries(w, Items, a)) + n[a]
  PROVE  LET u == UnrefAll(w, n) IN
         /\ Links(u) /\ SameLink(w, u)
         /\ u.it = w.it /\ u.state = w.state /\ u.ping = w.ping
<1> DEFINE u == UnrefAll(w, n)
<1>1. /\ u \in Provider /\ SameLink(w, u)
      /\ u.it = w.it /\ u.state = w.state /\ u.ping = w.ping
      /\ \A a \in Addrs : u.conn[a] = IF w.conn[a] > n[a] THEN w.conn[a] - n[a] ELSE 0
      /\ u.down \subseteq w.down
      /\ \A a \in u.down : ~(n[a] > 0 /\ w.conn[a] <= n[a])
      /\ w.events \subseteq w.down => u.events \subseteq u.down
  BY UnrefAllFields, Zenon
<1> HIDE DEF u
<1>2. \A a \in Addrs : Cardinality(Entries(w, Items, a)) \in Nat /\ n[a] \in Nat /\ w.conn[a] \in Nat
  BY EntriesFinite DEF Provider
<1>3. \A a \in Addrs : Entries(u, Items, a) = Entries(w, Items, a)
  BY <1>1, EntriesSame
<1>4. Counted(u)
  BY <1>1, <1>2, <1>3 DEF Counted
<1>5. \A a \in u.down : u.conn[a] > 0
  BY <1>1, <1>2 DEF Sane, Provider
<1>6. Sane(u)
  BY <1>1, <1>5 DEF Sane
<1> QED
  BY <1>1, <1>4, <1>6 DEF Links, u
-----------------------------------------------------------------------------
(* Instances that come and go *)

LEMMA NoItemType == NoItem \in Item /\ ToldRight(NoItem, "paused")
BY DEF NoItem, Item, Viewers, RunStates, ToldRight

LEMMA NoItemFields ==
  NoItem.owner = NoAddr /\ NoItem.paths = 0 /\ NoItem.st # "live" /\ NoItem.missed = {}
  /\ NoItem.state = "unknown"
BY DEF NoItem

\* Counted and Sane are about the lists only.
LEMMA ItemsReplaced ==
  ASSUME NEW w \in Provider, NEW f \in [Items -> Item]
  PROVE  LET t == [w EXCEPT !.it = f] IN
         /\ t \in Provider /\ SameLink(w, t)
         /\ t.it = f /\ t.conn = w.conn /\ t.down = w.down /\ t.events = w.events
         /\ t.state = w.state /\ t.ping = w.ping /\ t.watch = w.watch
BY DEF Provider, SameLink

\* instance_destroy, of one or of all
LEMMA DestroyGood ==
  ASSUME NEW w, Links(w), NEW S \in SUBSET Items
  PROVE  /\ Links(Destroy(w, S)) /\ SameLink(w, Destroy(w, S)) /\ Quiet(w, Destroy(w, S))
         /\ Destroy(w, S).it = [i \in Items |-> IF i \in S THEN NoItem ELSE w.it[i]]
<1> DEFINE n == [a \in Addrs |-> Cardinality(Entries(w, S, a))]
           f == [i \in Items |-> IF i \in S THEN NoItem ELSE w.it[i]]
           x == [w EXCEPT !.it = f]
           u == UnrefAll(w, n)
           v == UnrefAll(x, n)
           t == [u EXCEPT !.it = f]
<1>1. w \in Provider /\ w.it \in [Items -> Item] /\ Sane(w) /\ Counted(w)
  BY DEF Links, Provider
<1>2. n \in [Addrs -> Nat]
  BY <1>1, EntriesFinite
<1>3. f \in [Items -> Item]
  BY <1>1, NoItemType
<1>4. /\ x \in Provider /\ SameLink(w, x)
      /\ x.it = f /\ x.conn = w.conn /\ x.down = w.down /\ x.events = w.events
      /\ x.state = w.state /\ x.ping = w.ping /\ x.watch = w.watch
  BY <1>1, <1>3, ItemsReplaced, Zenon
<1>5. /\ \A i \in S : f[i] = NoItem
      /\ \A i \in Items \ S : f[i] = w.it[i]
      /\ \A a \in Addrs : n[a] = Cardinality(Entries(w, S, a))
  OBVIOUS
<1>6. t = v
  \* UnrefAll neither reads nor writes the instances.
  <2>1. UnrefAll(x, n).it = f
    BY <1>2, <1>4, UnrefAllFields, Zenon
  <2> QED
    BY <1>1, <1>3, ZenonT(60) DEF UnrefAll, EventCb, Provider
<1> HIDE DEF f, n, x
<1>7. Sane(x)
  <2>1. \A i \in Items : x.it[i] = NoItem \/ x.it[i] = w.it[i]
    BY <1>4, <1>5
  <2> QED
    BY <1>1, <1>4, <2>1, NoItemFields DEF Sane
<1>8. \A a \in Addrs : x.conn[a] = Cardinality(Entries(x, Items, a)) + n[a]
  <2> SUFFICES ASSUME NEW a \in Addrs
               PROVE  x.conn[a] = Cardinality(Entries(x, Items, a)) + n[a]
    OBVIOUS
  <2>1. Entries(x, S, a) = {}
    BY <1>4, <1>5 DEF Entries, NoItem
  <2>2. Cardinality(Entries(x, S, a)) = 0
    BY <2>1, FS_EmptySet
  <2>3. Entries(x, Items \ S, a) = Entries(w, Items \ S, a)
    BY <1>4, <1>5, EntriesSame
  <2>4. /\ Cardinality(Entries(w, Items, a)) = Cardinality(Entries(w, S, a)) + Cardinality(Entries(w, Items \ S, a))
        /\ Cardinality(Entries(x, Items, a)) = Cardinality(Entries(x, S, a)) + Cardinality(Entries(x, Items \ S, a))
    BY <1>1, <1>4, EntriesSplit
  <2>5. /\ Cardinality(Entries(w, S, a)) \in Nat
        /\ Cardinality(Entries(w, Items \ S, a)) \in Nat
    BY <1>1, EntriesFinite
  <2> QED
    BY <1>1, <1>4, <1>5, <2>2, <2>3, <2>4, <2>5 DEF Counted
<1>9. /\ Links(v) /\ SameLink(x, v)
      /\ v.it = x.it /\ v.state = x.state /\ v.ping = x.ping
  BY <1>2, <1>4, <1>7, <1>8, UnrefCounted
<1>10. Destroy(w, S) = t
  BY DEF Destroy, n, f
<1>11. SameLink(w, v)
  BY <1>4, <1>9 DEF SameLink
<1>12. Quiet(w, v)
  BY <1>4, <1>5, <1>9 DEF Quiet, Calm, NoItem
<1> QED
  BY <1>4, <1>6, <1>9, <1>10, <1>11, <1>12 DEF f

\* An instance gets one more entry, which its connection is counted for.
LEMMA AddPathGood ==
  ASSUME NEW w, Links(w), NEW i \in Items, NEW ok \in BOOLEAN,
         w.it[i].st = "live", NEW a \in Viewers, w.it[i].owner = a
  PROVE  /\ Links(AddPath(w, i, a, ok)) /\ SameLink(w, AddPath(w, i, a, ok))
         /\ Quiet(w, AddPath(w, i, a, ok))
         /\ \A j \in Items : AddPath(w, i, a, ok).it[j].st = w.it[j].st
<1> DEFINE t == AddPath(w, i, a, ok)
           c == [w.conn EXCEPT ![a] = @ + 1]
           u == [w EXCEPT !.conn = c, !.it[i].paths = @ + 1]
<1>1. w \in Provider /\ w.it \in [Items -> Item] /\ w.conn \in [Addrs -> Nat] /\ Sane(w) /\ Counted(w)
  BY DEF Links, Provider
<1>2. CASE t = w
  BY <1>2 DEF SameLink, Quiet, Calm
<1>3. CASE t # w
  <2>1. a \in Addrs
    BY <1>3 DEF AddPath, Viewers
  <2>2. t = u
    <3>1. CASE w.conn[a] > 0
      BY <1>1, <1>3, <2>1, <3>1, ProviderAppAssumption
         DEF AddPath, ConnectionFind, ConnectionRef, Provider
    <3>2. CASE ~(w.conn[a] > 0)
      <4>1. w.conn[a] = 0
        BY <1>1, <2>1, <3>2
      <4>2. [w.conn EXCEPT ![a] = 1] = c
        BY <1>1, <2>1, <4>1
      <4>3. t = [ConnectionCreate(w, a, TRUE) EXCEPT !.it[i].paths = @ + 1]
        BY <1>3, <2>1, <3>2, ProviderAppAssumption DEF AddPath, ConnectionFind
      <4>4. ConnectionCreate(w, a, TRUE) = [w EXCEPT !.conn = c]
        BY <1>1, <4>2 DEF ConnectionCreate, Provider
      <4> QED
        BY <1>1, <4>3, <4>4 DEF Provider
    <3> QED
      BY <3>1, <3>2
  <2>3. /\ u \in Provider /\ SameLink(w, u)
        /\ u.conn = c /\ u.down = w.down /\ u.events = w.events
        /\ u.state = w.state /\ u.ping = w.ping
        /\ \A j \in Items \ {i} : u.it[j] = w.it[j]
        /\ u.it[i] = [w.it[i] EXCEPT !.paths = @ + 1]
    <3> DEFINE y == [w.it[i] EXCEPT !.paths = @ + 1]
               f == [w.it EXCEPT ![i] = y]
    <3>1. y \in Item
      BY <1>1 DEF Item
    <3>2. c \in [Addrs -> Nat]
      BY <1>1, <2>1
    <3> HIDE DEF y, c
    <3>3. f \in [Items -> Item] /\ f[i] = y /\ \A j \in Items \ {i} : f[j] = w.it[j]
      BY <1>1, <3>1
    <3>4. u = [w EXCEPT !.conn = c, !.it = f]
      BY <1>1 DEF y, Provider
    <3> HIDE DEF f
    <3>5. /\ u \in Provider /\ SameLink(w, u)
          /\ u.conn = c /\ u.down = w.down /\ u.events = w.events
          /\ u.state = w.state /\ u.ping = w.ping /\ u.it = f
      BY <1>1, <3>2, <3>3, <3>4 DEF Provider, SameLink
    <3> QED
      BY <3>3, <3>5 DEF y
  <2>4. \A b \in Addrs : c[b] = IF b = a THEN w.conn[b] + 1 ELSE w.conn[b]
    BY <1>1
  <2>5. /\ \A j \in Items : u.it[j].owner = w.it[j].owner /\ u.it[j].st = w.it[j].st
        /\ u.it[i].paths = w.it[i].paths + 1 /\ w.it[i].paths \in Nat
        /\ Calm(w.it[i], u.it[i])
    BY <1>1, <2>3 DEF Item, Calm
  <2> HIDE DEF u, c
  <2>6. Quiet(w, u)
    BY <2>3, <2>5 DEF Quiet, Calm
  <2>7. a # NoAddr
    BY <2>1, ProviderAppAssumption
  <2>8. Sane(u)
    BY <1>1, <2>3, <2>4, <2>5, <2>7 DEF Sane, Provider
  <2>9. Counted(u)
    <3> SUFFICES ASSUME NEW b \in Addrs
                 PROVE  u.conn[b] = Cardinality(Entries(u, Items, b))
      BY DEF Counted
    <3>1. /\ Cardinality(Entries(w, Items, b)) = Cardinality(Entries(w, {i}, b)) + Cardinality(Entries(w, Items \ {i}, b))
          /\ Cardinality(Entries(u, Items, b)) = Cardinality(Entries(u, {i}, b)) + Cardinality(Entries(u, Items \ {i}, b))
      BY <1>1, <2>3, EntriesSplit
    <3>2. Entries(u, Items \ {i}, b) = Entries(w, Items \ {i}, b)
      BY <2>3, EntriesSame
    <3>3. /\ Cardinality(Entries(w, {i}, b)) = IF w.it[i].owner = b THEN w.it[i].paths ELSE 0
          /\ Cardinality(Entries(u, {i}, b)) = IF u.it[i].owner = b THEN u.it[i].paths ELSE 0
      BY <1>1, <2>3, EntriesOfOne
    <3>4. Cardinality(Entries(w, Items \ {i}, b)) \in Nat
      BY <1>1, EntriesFinite
    <3> QED
      BY <1>1, <2>3, <2>4, <2>5, <3>1, <3>2, <3>3, <3>4 DEF Counted
  <2> QED
    BY <2>2, <2>3, <2>5, <2>6, <2>8, <2>9 DEF Links
<1> QED
  BY <1>2, <1>3

\* The lists stay as they are when the instances change otherwise.
LEMMA ListsKept ==
  ASSUME NEW w, Links(w), NEW f \in [Items -> Item],
         \A i \in Items :
           /\ f[i].paths = w.it[i].paths
           /\ f[i].owner = w.it[i].owner \/ f[i].paths = 0
           /\ f[i].st # "live" => f[i] = NoItem
  PROVE  LET t == [w EXCEPT !.it = f] IN
         /\ Links(t) /\ SameLink(w, t)
         /\ t.it = f /\ t.conn = w.conn /\ t.state = w.state /\ t.ping = w.ping
<1> DEFINE t == [w EXCEPT !.it = f]
<1>1. w \in Provider /\ w.it \in [Items -> Item] /\ Sane(w) /\ Counted(w)
  BY DEF Links, Provider
<1>2. /\ t \in Provider /\ SameLink(w, t)
      /\ t.it = f /\ t.conn = w.conn /\ t.down = w.down /\ t.events = w.events
      /\ t.state = w.state /\ t.ping = w.ping
  BY <1>1, ItemsReplaced, Zenon
<1> HIDE DEF t
<1>3. \A a \in Addrs : Entries(t, Items, a) = Entries(w, Items, a)
  <2> SUFFICES ASSUME NEW a \in Addrs
               PROVE  Entries(t, Items, a) = Entries(w, Items, a)
    OBVIOUS
  <2> DEFINE Row(z, i) == {i} \X (1..z.it[i].paths)
  <2>1. \A i \in Items : w.it[i].paths \in Nat /\ t.it[i].paths = w.it[i].paths
    BY <1>1, <1>2 DEF Item
  <2>2. \A i \in Items : Row(t, i) = Row(w, i) /\ (w.it[i].paths = 0 => Row(w, i) = {})
    BY <2>1
  <2>3. \A i \in Items : Row(w, i) # {} => t.it[i].owner = w.it[i].owner
    <3> SUFFICES ASSUME NEW i \in Items, Row(w, i) # {}
                 PROVE  t.it[i].owner = w.it[i].owner
      OBVIOUS
    <3>1. w.it[i].paths # 0
      BY <2>2
    <3> QED
      BY <1>2, <3>1
  <2>4. /\ \A e : e \in Entries(t, Items, a) <=> (\E i \in Items : t.it[i].owner = a /\ e \in Row(t, i))
        /\ \A e : e \in Entries(w, Items, a) <=> (\E i \in Items : w.it[i].owner = a /\ e \in Row(w, i))
    BY DEF Entries
  <2> HIDE DEF Row
  <2>5. \A i \in Items : \A e : e \in Row(w, i) => t.it[i].owner = w.it[i].owner
    BY <2>3
  <2>6. \A e : (\E i \in Items : t.it[i].owner = a /\ e \in Row(t, i))
                 <=> (\E i \in Items : w.it[i].owner = a /\ e \in Row(w, i))
    BY <2>2, <2>5
  <2>7. \A e : e \in Entries(t, Items, a) <=> e \in Entries(w, Items, a)
    BY <2>4, <2>6, Zenon
  <2> QED
    BY <2>7
<1>4. Counted(t)
  BY <1>1, <1>2, <1>3 DEF Counted
<1>5. Sane(t)
  BY <1>1, <1>2 DEF Sane
<1> QED
  BY <1>2, <1>4, <1>5 DEF Links, t

\* instance_create, of one that is not there
LEMMA InstanceCreateGood ==
  ASSUME NEW w, Links(w), NEW i \in Items, NEW a \in Viewers,
         NEW period \in BOOLEAN, NEW ok \in BOOLEAN, w.it[i].st # "live"
  PROVE  LET t == InstanceCreate(w, i, a, period, ok) IN
         Links(t) /\ SameLink(w, t) /\ Quiet(w, t)
<1> DEFINE timer == IF ~w.secured /\ period THEN "on" ELSE "off"
           y == [NoItem EXCEPT !.st = "live", !.timer = timer, !.owner = a]
           f == [w.it EXCEPT ![i] = y]
           x == [w EXCEPT !.it = f]
           t == AddPath(x, i, a, ok)
<1>1. w \in Provider /\ w.it \in [Items -> Item] /\ Sane(w) /\ Counted(w)
  BY DEF Links, Provider
<1>2. y \in Item /\ y.paths = 0 /\ y.st = "live" /\ y.owner = a
  BY DEF NoItem, Item, RunStates, Viewers
<1>3. Calm(w.it[i], y)
  BY DEF Calm, NoItem
<1> HIDE DEF y
<1>4. f \in [Items -> Item] /\ f[i] = y /\ \A j \in Items \ {i} : f[j] = w.it[j]
  BY <1>1, <1>2
<1>5. w.it[i].paths = 0
  BY <1>1, NoItemFields DEF Sane
<1> HIDE DEF f
<1>6. \A j \in Items :
        /\ f[j].paths = w.it[j].paths
        /\ f[j].owner = w.it[j].owner \/ f[j].paths = 0
        /\ f[j].st # "live" => f[j] = NoItem
  BY <1>1, <1>2, <1>4, <1>5 DEF Sane
<1>7. /\ Links(x) /\ SameLink(w, x)
      /\ x.it = f /\ x.state = w.state /\ x.ping = w.ping
  BY <1>4, <1>6, ListsKept, Zenon
<1> HIDE DEF x
<1>8. Quiet(w, x)
  BY <1>3, <1>4, <1>7 DEF Quiet, Calm
<1>9. x.it[i].st = "live" /\ x.it[i].owner = a
  BY <1>2, <1>4, <1>7
<1>10. Links(t) /\ SameLink(x, t) /\ Quiet(x, t)
  BY <1>7, <1>9, AddPathGood
<1>11. SameLink(w, t)
  BY <1>7, <1>10 DEF SameLink
<1>12. Quiet(w, t)
  BY <1>8, <1>10 DEF Quiet, Calm
<1>13. InstanceCreate(w, i, a, period, ok) = t
  <2>1. x = [w EXCEPT !.it[i] = y]
    BY <1>1 DEF x, f, Provider
  <2> QED
    BY <2>1, Zenon DEF InstanceCreate, y
<1> QED
  BY <1>10, <1>11, <1>12, <1>13

LEMMA QuietGood ==
  ASSUME NEW w, NEW t, Good(w), Links(t), Quiet(w, t)
  PROVE  Good(t)
<1>1. Paused(t)
  <2>1. ASSUME NEW i \in Items PROVE ToldRight(t.it[i], t.state)
    <3>1. ToldRight(w.it[i], w.state) /\ Calm(w.it[i], t.it[i]) /\ t.state = w.state
      BY DEF Good, Paused, Quiet
    <3> QED
      BY <3>1 DEF ToldRight, Calm
  <2> QED
    BY <2>1 DEF Good, Paused, Quiet
<1>2. Served(t)
  BY DEF Good, Served, Quiet, Calm
<1> QED
  BY <1>1, <1>2 DEF Good

LEMMA QuietTrans ==
  ASSUME NEW w, NEW t, NEW u, Quiet(w, t), Quiet(t, u)
  PROVE  Quiet(w, u)
BY DEF Quiet, Calm

LEMMA SameLinkTrans ==
  ASSUME NEW w, NEW t, NEW u, SameLink(w, t), SameLink(t, u)
  PROVE  SameLink(w, u)
BY DEF SameLink

\* connection_disconnected_cb: every instance lets go of the connection.
LEMMA DisconnectedGood ==
  ASSUME NEW w, Links(w), NEW a \in Addrs
  PROVE  LET t == ConnectionDisconnectedCb(w, a) IN
         /\ Links(t) /\ SameLink(w, t) /\ Quiet(w, t)
         /\ \A i \in Items : t.it[i].st = w.it[i].st
<1> DEFINE f == [i \in Items |-> IF w.it[i].owner = a THEN [w.it[i] EXCEPT !.paths = 0] ELSE w.it[i]]
           x == [w EXCEPT !.it = f]
           n == Only(a, Cardinality(Entries(w, Items, a)))
           t == UnrefAll(x, n)
<1>1. w \in Provider /\ w.it \in [Items -> Item] /\ Sane(w) /\ Counted(w)
  BY DEF Links, Provider
<1>2. n \in [Addrs -> Nat] /\ \A b \in Addrs : n[b] = IF b = a THEN Cardinality(Entries(w, Items, a)) ELSE 0
  BY <1>1, EntriesFinite, OnlyType
<1>3. ASSUME NEW i \in Items
      PROVE  /\ f[i] \in Item
             /\ f[i].owner = w.it[i].owner /\ f[i].st = w.it[i].st
             /\ f[i].paths = IF w.it[i].owner = a THEN 0 ELSE w.it[i].paths
             /\ Calm(w.it[i], f[i])
             /\ w.it[i].st # "live" => f[i] = NoItem
  <2>1. w.it[i] \in Item
    BY <1>1
  <2>2. w.it[i].st # "live" => w.it[i].owner = NoAddr /\ w.it[i] = NoItem
    BY <1>1, NoItemFields DEF Sane
  <2>3. CASE w.it[i].owner = a
    <3>1. f[i] = [w.it[i] EXCEPT !.paths = 0] /\ a # NoAddr
      BY <2>3, ProviderAppAssumption
    <3> QED
      BY <2>1, <2>2, <2>3, <3>1 DEF Item, Calm
  <2>4. CASE w.it[i].owner # a
    BY <2>1, <2>2, <2>4 DEF Calm
  <2> QED
    BY <2>3, <2>4
<1>4. f \in [Items -> Item]
  BY <1>3
<1>5. /\ x \in Provider /\ SameLink(w, x)
      /\ x.it = f /\ x.conn = w.conn /\ x.down = w.down /\ x.events = w.events
      /\ x.state = w.state /\ x.ping = w.ping
  BY <1>1, <1>4, ItemsReplaced, Zenon
<1>6. ConnectionDisconnectedCb(w, a) = t
  BY DEF ConnectionDisconnectedCb, Without
<1> HIDE DEF f, n, x
<1>7. Sane(x)
  BY <1>1, <1>3, <1>5 DEF Sane
<1>8. \A b \in Addrs : x.conn[b] = Cardinality(Entries(x, Items, b)) + n[b]
  <2> SUFFICES ASSUME NEW b \in Addrs
               PROVE  x.conn[b] = Cardinality(Entries(x, Items, b)) + n[b]
    OBVIOUS
  <2>0. Cardinality(Entries(w, Items, b)) \in Nat
    BY <1>1, EntriesFinite
  <2>1. CASE b = a
    <3>1. Entries(x, Items, a) = {}
      BY <1>3, <1>5 DEF Entries
    <3>2. Cardinality(Entries(x, Items, a)) = 0
      BY <3>1, FS_EmptySet
    <3> QED
      BY <1>1, <1>2, <1>5, <2>0, <2>1, <3>2 DEF Counted
  <2>2. CASE b # a
    <3> DEFINE J == {j \in Items : w.it[j].owner = b}
    <3>1. {j \in Items : x.it[j].owner = b} = J
      BY <1>3, <1>5
    <3>2. \A i \in J : x.it[i].paths = w.it[i].paths
      BY <1>3, <1>5, <2>2
    <3> HIDE DEF J
    <3>3. UNION {{i} \X (1..x.it[i].paths) : i \in J} = UNION {{i} \X (1..w.it[i].paths) : i \in J}
      BY <3>2
    <3>4. Entries(x, Items, b) = Entries(w, Items, b)
      BY <3>1, <3>3, Zenon DEF Entries, J
    <3> QED
      BY <1>1, <1>2, <1>5, <2>0, <2>2, <3>4 DEF Counted
  <2> QED
    BY <2>1, <2>2
<1>9. /\ Links(t) /\ SameLink(x, t)
      /\ t.it = x.it /\ t.state = x.state /\ t.ping = x.ping
  BY <1>2, <1>5, <1>7, <1>8, UnrefCounted, Zenon
<1> HIDE DEF t
<1>10. Quiet(w, t)
  BY <1>3, <1>5, <1>9 DEF Quiet
<1>11. \A i \in Items : t.it[i].st = w.it[i].st
  BY <1>3, <1>5, <1>9
<1> QED
  BY <1>5, <1>6, <1>9, <1>10, <1>11, SameLinkTrans

\* method_viewer_disconnected: an entry goes, and the reference with it.
LEMMA EntryRemoved ==
  ASSUME NEW w, Links(w), NEW i \in Items, NEW a \in Addrs,
         w.it[i].st = "live", w.it[i].owner = a, w.it[i].paths > 0
  PROVE  LET t == ConnectionUnref([w EXCEPT !.it[i].paths = @ - 1], a) IN
         Links(t) /\ SameLink(w, t) /\ Quiet(w, t)
<1> DEFINE y == [w.it[i] EXCEPT !.paths = @ - 1]
           f == [w.it EXCEPT ![i] = y]
           x == [w EXCEPT !.it = f]
           t == UnrefAll(x, Only(a, 1))
<1>1. w \in Provider /\ w.it \in [Items -> Item] /\ Sane(w) /\ Counted(w)
  BY DEF Links, Provider
<1>2. /\ y \in Item /\ y.owner = a /\ y.st = "live"
      /\ y.paths = w.it[i].paths - 1 /\ w.it[i].paths \in Nat
      /\ Calm(w.it[i], y)
  BY <1>1 DEF Item, Calm
<1> HIDE DEF y
<1>3. f \in [Items -> Item] /\ f[i] = y /\ \A j \in Items \ {i} : f[j] = w.it[j]
  BY <1>1, <1>2
<1>4. ConnectionUnref([w EXCEPT !.it[i].paths = @ - 1], a) = t
  <2>1. x = [w EXCEPT !.it[i].paths = @ - 1]
    BY <1>1 DEF y, Provider
  <2> QED
    BY <2>1, Zenon DEF ConnectionUnref
<1> HIDE DEF f
<1>5. /\ x \in Provider /\ SameLink(w, x)
      /\ x.it = f /\ x.conn = w.conn /\ x.down = w.down /\ x.events = w.events
      /\ x.state = w.state /\ x.ping = w.ping
  BY <1>1, <1>3, ItemsReplaced, Zenon
<1> HIDE DEF x
<1>6. Only(a, 1) \in [Addrs -> Nat] /\ \A b \in Addrs : Only(a, 1)[b] = IF b = a THEN 1 ELSE 0
  BY OnlyType
<1>7. Sane(x)
  BY <1>1, <1>2, <1>3, <1>5, ProviderAppAssumption DEF Sane
<1>8. \A b \in Addrs : x.conn[b] = Cardinality(Entries(x, Items, b)) + Only(a, 1)[b]
  <2> SUFFICES ASSUME NEW b \in Addrs
               PROVE  x.conn[b] = Cardinality(Entries(x, Items, b)) + Only(a, 1)[b]
    OBVIOUS
  <2>1. /\ Cardinality(Entries(w, Items, b)) = Cardinality(Entries(w, {i}, b)) + Cardinality(Entries(w, Items \ {i}, b))
        /\ Cardinality(Entries(x, Items, b)) = Cardinality(Entries(x, {i}, b)) + Cardinality(Entries(x, Items \ {i}, b))
    BY <1>1, <1>5, EntriesSplit
  <2>2. Entries(x, Items \ {i}, b) = Entries(w, Items \ {i}, b)
    BY <1>3, <1>5, EntriesSame
  <2>3. /\ Cardinality(Entries(w, {i}, b)) = IF w.it[i].owner = b THEN w.it[i].paths ELSE 0
        /\ Cardinality(Entries(x, {i}, b)) = IF x.it[i].owner = b THEN x.it[i].paths ELSE 0
    BY <1>1, <1>5, EntriesOfOne
  <2>4. Cardinality(Entries(w, Items \ {i}, b)) \in Nat
    BY <1>1, EntriesFinite
  <2> QED
    BY <1>1, <1>2, <1>3, <1>5, <1>6, <2>1, <2>2, <2>3, <2>4 DEF Counted
<1>9. /\ Links(t) /\ SameLink(x, t)
      /\ t.it = x.it /\ t.state = x.state /\ t.ping = x.ping
  BY <1>5, <1>6, <1>7, <1>8, UnrefCounted, Zenon
<1> HIDE DEF t
<1>10. Quiet(w, t)
  <2>1. \A j \in Items : Calm(w.it[j], w.it[j])
    BY DEF Calm
  <2> QED
    BY <1>2, <1>3, <1>5, <1>9, <2>1 DEF Quiet
<1> QED
  BY <1>4, <1>5, <1>9, <1>10, SameLinkTrans
-----------------------------------------------------------------------------
(* What the app is told *)

LEMMA CallType ==
  ASSUME NEW x \in Item
  PROVE  /\ Freeze(x) \in Item /\ Thaw(x) \in Item
         /\ \A y \in {Freeze(x), Thaw(x)} :
              /\ y.st = x.st /\ y.state = x.state /\ y.owner = x.owner
              /\ y.paths = x.paths /\ y.missed = x.missed
              /\ y.timer # "frozen" \/ y = Freeze(x)
         /\ Freeze(x).told = "paused" /\ (Freeze(x).twice <=> x.twice \/ x.told = "paused")
         /\ Thaw(x).told = "resumed" /\ (Thaw(x).twice <=> x.twice \/ x.told = "resumed")
<1> DEFINE F == [x EXCEPT !.told = "paused", !.twice = @ \/ x.told = "paused"]
           T == [x EXCEPT !.told = "resumed", !.twice = @ \/ x.told = "resumed"]
<1>1. /\ F \in Item /\ T \in Item
      /\ F.st = x.st /\ F.state = x.state /\ F.owner = x.owner
      /\ F.paths = x.paths /\ F.missed = x.missed /\ F.timer = x.timer
      /\ F.told = "paused" /\ (F.twice <=> x.twice \/ x.told = "paused")
      /\ T.st = x.st /\ T.state = x.state /\ T.owner = x.owner
      /\ T.paths = x.paths /\ T.missed = x.missed /\ T.timer = x.timer
      /\ T.told = "resumed" /\ (T.twice <=> x.twice \/ x.told = "resumed")
  BY DEF Item
<1>2. /\ Freeze(x) = [F EXCEPT !.timer = IF @ = "off" THEN @ ELSE "frozen"]
      /\ Thaw(x) = [T EXCEPT !.timer = IF @ = "off" THEN @ ELSE "on"]
  BY Zenon DEF Freeze, Thaw, Call
<1> HIDE DEF F, T
<1> QED
  BY <1>1, <1>2 DEF Item

\* Every instance keeps its lists and is told right: so is the provider.
LEMMA ToldGood ==
  ASSUME NEW w, Good(w), NEW t \in Provider,
         t.conn = w.conn /\ t.down = w.down /\ t.events = w.events,
         t.ping = "frozen" => t.state = "paused",
         \A i \in Items :
           /\ t.it[i].paths = w.it[i].paths /\ t.it[i].owner = w.it[i].owner
           /\ t.it[i].missed = w.it[i].missed
           /\ t.it[i].st # "live" => t.it[i] = NoItem
           /\ ToldRight(t.it[i], t.state)
  PROVE  Good(t)
<1>1. \A a \in Addrs : Entries(t, Items, a) = Entries(w, Items, a)
  BY EntriesSame
<1>2. Links(t)
  BY <1>1 DEF Good, Links, Counted, Sane
<1>3. Paused(t)
  BY DEF Paused
<1>4. Served(t)
  BY DEF Good, Served
<1> QED
  BY <1>2, <1>3, <1>4 DEF Good

LEMMA OneTold ==
  ASSUME NEW w, Good(w), NEW i \in Items, NEW y \in Item,
         y.paths = w.it[i].paths, y.owner = w.it[i].owner, y.missed = w.it[i].missed,
         y.st = "live", ToldRight(y, w.state)
  PROVE  LET t == [w EXCEPT !.it[i] = y] IN
         Good(t) /\ SameLink(w, t) /\ t.ping = w.ping
<1> DEFINE f == [w.it EXCEPT ![i] = y]
           t == [w EXCEPT !.it = f]
<1>1. /\ w \in Provider /\ w.it \in [Items -> Item] /\ w.state \in RunStates
      /\ w.ping \in Pings /\ Sane(w) /\ Paused(w)
  BY DEF Good, Links, Provider, Pings
<1>2. f \in [Items -> Item] /\ f[i] = y /\ \A j \in Items \ {i} : f[j] = w.it[j]
  BY <1>1
<1>3. t = [w EXCEPT !.it[i] = y]
  BY <1>1 DEF Provider
<1> HIDE DEF f
<1>4. \A j \in Items :
           /\ f[j].paths = w.it[j].paths /\ f[j].owner = w.it[j].owner
           /\ f[j].missed = w.it[j].missed
           /\ f[j].st # "live" => f[j] = NoItem
           /\ ToldRight(f[j], w.state)
  BY <1>1, <1>2 DEF Sane, Paused
<1>5. w.ping = "frozen" => w.state = "paused"
  BY <1>1 DEF Paused
<1>0. /\ t \in Provider /\ SameLink(w, t) /\ t.it = f
      /\ t.conn = w.conn /\ t.down = w.down /\ t.events = w.events
      /\ t.state = w.state /\ t.ping = w.ping
  BY <1>1, <1>2 DEF Provider, SameLink
<1> HIDE DEF t
<1>6. Good(t)
  BY <1>0, <1>4, <1>5, ToldGood
<1> QED
  BY <1>0, <1>3, <1>6 DEF t

\* method_pause, method_resume
LEMMA PauseGood ==
  ASSUME NEW w, Good(w)
  PROVE  Good(MethodPause(w)) /\ SameLink(w, MethodPause(w))
         /\ (MethodPause(w).ping # "off" => w.ping # "off")
<1> DEFINE f == [i \in Items |-> IF w.it[i].state = "resumed" THEN Freeze(w.it[i]) ELSE w.it[i]]
           ping == IF w.ping = "off" THEN w.ping ELSE "frozen"
           t == [w EXCEPT !.state = "paused", !.ping = ping, !.it = f]
<1>1. /\ w \in Provider /\ w.it \in [Items -> Item]
      /\ ping \in Pings /\ Sane(w) /\ Paused(w)
  BY DEF Good, Links, Provider, Pings
<1>2. CASE w.state = "paused"
  BY <1>2 DEF MethodPause, SameLink
<1>3. CASE w.state # "paused"
  <2>1. MethodPause(w) = t
    BY <1>3 DEF MethodPause
  <2>2. ASSUME NEW i \in Items
        PROVE  /\ f[i] \in Item
               /\ f[i].paths = w.it[i].paths /\ f[i].owner = w.it[i].owner
               /\ f[i].missed = w.it[i].missed
               /\ f[i].st # "live" => f[i] = NoItem
               /\ ToldRight(f[i], "paused")
    <3>1. w.it[i] \in Item /\ ToldRight(w.it[i], w.state)
      BY <1>1 DEF Paused
    <3>2. w.it[i].st # "live" => w.it[i].state # "resumed" /\ w.it[i] = NoItem
      BY <1>1, NoItemFields DEF Sane
    <3>3. CASE w.it[i].state = "resumed"
      <4>1. f[i] = Freeze(w.it[i])
        BY <3>3
      <4>2. w.it[i].told # "paused"
        BY <1>1, <1>3, <3>1, <3>3 DEF ToldRight, Provider, RunStates
      <4> QED
        BY <3>1, <3>2, <3>3, <4>1, <4>2, CallType DEF ToldRight
    <3>4. CASE w.it[i].state # "resumed"
      <4>1. f[i] = w.it[i]
        BY <3>4
      <4> QED
        BY <3>1, <3>2, <3>4, <4>1 DEF ToldRight
    <3> QED
      BY <3>3, <3>4
  <2>3. f \in [Items -> Item]
    BY <2>2
  <2> HIDE DEF f
  <2>4. "paused" \in RunStates
    BY DEF RunStates
  <2> HIDE DEF ping
  <2>0. /\ t \in Provider /\ SameLink(w, t) /\ t.it = f
        /\ t.conn = w.conn /\ t.down = w.down /\ t.events = w.events
        /\ t.state = "paused" /\ t.ping = ping
    BY <1>1, <2>3, <2>4 DEF Provider, SameLink, ping
  <2> HIDE DEF t
  <2>5. Good(t)
    BY <1>1, <2>0, <2>2, ToldGood
  <2> QED
    BY <2>0, <2>1, <2>5 DEF ping
<1> QED
  BY <1>2, <1>3

LEMMA ResumeGood ==
  ASSUME NEW w, Good(w)
  PROVE  Good(MethodResume(w)) /\ SameLink(w, MethodResume(w))
         /\ (MethodResume(w).ping # "off" => w.ping # "off")
<1> DEFINE f == [i \in Items |-> IF w.it[i].state = "resumed" THEN Thaw(w.it[i]) ELSE w.it[i]]
           ping == IF w.ping = "off" THEN w.ping ELSE "on"
           t == [w EXCEPT !.state = "resumed", !.ping = ping, !.it = f]
<1>1. /\ w \in Provider /\ w.it \in [Items -> Item]
      /\ ping \in Pings /\ ping # "frozen" /\ Sane(w) /\ Paused(w)
  BY DEF Good, Links, Provider, Pings
<1>2. CASE w.state = "resumed"
  BY <1>2 DEF MethodResume, SameLink
<1>3. CASE w.state # "resumed"
  <2>1. MethodResume(w) = t
    BY <1>3 DEF MethodResume
  <2>2. ASSUME NEW i \in Items
        PROVE  /\ f[i] \in Item
               /\ f[i].paths = w.it[i].paths /\ f[i].owner = w.it[i].owner
               /\ f[i].missed = w.it[i].missed
               /\ f[i].st # "live" => f[i] = NoItem
               /\ ToldRight(f[i], "resumed")
    <3>1. w.it[i] \in Item /\ ToldRight(w.it[i], w.state)
      BY <1>1 DEF Paused
    <3>2. w.it[i].st # "live" => w.it[i].state # "resumed" /\ w.it[i] = NoItem
      BY <1>1, NoItemFields DEF Sane
    <3>3. CASE w.it[i].state = "resumed"
      <4>1. f[i] = Thaw(w.it[i])
        BY <3>3
      <4>2. Thaw(w.it[i]).timer # "frozen"
        BY <3>1 DEF Thaw, Call, Item
      <4>3. w.it[i].told # "resumed"
        BY <1>3, <3>1 DEF ToldRight
      <4> QED
        BY <3>1, <3>2, <3>3, <4>1, <4>2, <4>3, CallType DEF ToldRight
    <3>4. CASE w.it[i].state # "resumed"
      <4>1. f[i] = w.it[i]
        BY <3>4
      <4> QED
        BY <3>1, <3>2, <3>4, <4>1 DEF ToldRight
    <3> QED
      BY <3>3, <3>4
  <2>3. f \in [Items -> Item]
    BY <2>2
  <2> HIDE DEF f
  <2>4. "resumed" \in RunStates
    BY DEF RunStates
  <2> HIDE DEF ping
  <2>0. /\ t \in Provider /\ SameLink(w, t) /\ t.it = f
        /\ t.conn = w.conn /\ t.down = w.down /\ t.events = w.events
        /\ t.state = "resumed" /\ t.ping = ping
    BY <1>1, <2>3, <2>4 DEF Provider, SameLink, ping
  <2> HIDE DEF t
  <2>5. Good(t)
    BY <1>1, <2>0, <2>2, ToldGood
  <2> QED
    BY <2>0, <2>1, <2>5 DEF ping
<1> QED
  BY <1>2, <1>3

\* method_widget_pause, method_widget_resume
LEMMA WidgetPauseGood ==
  ASSUME NEW w, Good(w), NEW i \in Items
  PROVE  LET t == MethodWidgetPause(w, i) IN
         Good(t) /\ SameLink(w, t) /\ t.ping = w.ping
<1> DEFINE y == [w.it[i] EXCEPT !.state = "paused"]
           z == IF w.state = "resumed" THEN Freeze(y) ELSE y
           t == [w EXCEPT !.it[i] = z]
<1>1. w \in Provider /\ w.it[i] \in Item /\ ToldRight(w.it[i], w.state)
  BY DEF Good, Links, Provider, Paused
<1>2. CASE ~InstanceFind(w, i) \/ w.it[i].state = "paused"
  BY <1>2 DEF MethodWidgetPause, SameLink
<1>3. CASE InstanceFind(w, i) /\ w.it[i].state # "paused"
  <2>1. /\ y \in Item /\ y.paths = w.it[i].paths /\ y.owner = w.it[i].owner
        /\ y.missed = w.it[i].missed /\ y.st = "live" /\ y.state = "paused"
        /\ y.told = w.it[i].told /\ y.twice = w.it[i].twice /\ y.timer = w.it[i].timer
    BY <1>1, <1>3 DEF Item, RunStates, InstanceFind
  <2>2. MethodWidgetPause(w, i) = t
    BY <1>1, <1>3 DEF MethodWidgetPause, Provider
  <2> HIDE DEF y
  <2>3. /\ z \in Item /\ z.paths = w.it[i].paths /\ z.owner = w.it[i].owner
        /\ z.missed = w.it[i].missed /\ z.st = "live"
    BY <2>1, CallType
  <2>4. ToldRight(z, w.state)
    <3>1. CASE w.state = "resumed"
      <4>1. z = Freeze(y) /\ y.told # "paused"
        BY <1>1, <1>3, <2>1, <3>1 DEF ToldRight, Item, RunStates
      <4> QED
        BY <1>1, <2>1, <3>1, <4>1, CallType DEF ToldRight
    <3>2. CASE w.state # "resumed"
      BY <1>1, <2>1, <3>2 DEF ToldRight
    <3> QED
      BY <3>1, <3>2
  <2> HIDE DEF z
  <2> QED
    BY <2>2, <2>3, <2>4, OneTold
<1> QED
  BY <1>2, <1>3

LEMMA WidgetResumeGood ==
  ASSUME NEW w, Good(w), NEW i \in Items
  PROVE  LET t == MethodWidgetResume(w, i) IN
         Good(t) /\ SameLink(w, t) /\ t.ping = w.ping
<1> DEFINE y == [w.it[i] EXCEPT !.state = "resumed"]
           z == IF w.state = "resumed" THEN Thaw(y) ELSE y
           t == [w EXCEPT !.it[i] = z]
<1>1. w \in Provider /\ w.it[i] \in Item /\ ToldRight(w.it[i], w.state)
  BY DEF Good, Links, Provider, Paused
<1>2. CASE ~InstanceFind(w, i) \/ w.it[i].state = "resumed"
  BY <1>2 DEF MethodWidgetResume, SameLink
<1>3. CASE InstanceFind(w, i) /\ w.it[i].state # "resumed"
  <2>1. /\ y \in Item /\ y.paths = w.it[i].paths /\ y.owner = w.it[i].owner
        /\ y.missed = w.it[i].missed /\ y.st = "live" /\ y.state = "resumed"
        /\ y.told = w.it[i].told /\ y.twice = w.it[i].twice /\ y.timer = w.it[i].timer
    BY <1>1, <1>3 DEF Item, RunStates, InstanceFind
  <2>2. MethodWidgetResume(w, i) = t
    BY <1>1, <1>3 DEF MethodWidgetResume, Provider
  <2> HIDE DEF y
  <2>3. /\ z \in Item /\ z.paths = w.it[i].paths /\ z.owner = w.it[i].owner
        /\ z.missed = w.it[i].missed /\ z.st = "live"
    BY <2>1, CallType
  <2>4. ToldRight(z, w.state)
    <3>1. CASE w.state = "resumed"
      <4>1. z = Thaw(y) /\ y.told # "resumed"
        BY <1>1, <1>3, <2>1, <3>1 DEF ToldRight
      <4>2. Thaw(y).timer # "frozen"
        BY <2>1 DEF Thaw, Call, Item
      <4> QED
        BY <1>1, <2>1, <3>1, <4>1, <4>2, CallType DEF ToldRight
    <3>2. CASE w.state # "resumed"
      BY <1>1, <1>3, <2>1, <3>2 DEF ToldRight
    <3> QED
      BY <3>1, <3>2
  <2> HIDE DEF z
  <2> QED
    BY <2>2, <2>3, <2>4, OneTold
<1> QED
  BY <1>2, <1>3
-----------------------------------------------------------------------------
(* The connection to the master *)

\* Nothing but the connection to the master changes.
LEMMA LinkChanged ==
  ASSUME NEW w, Good(w), NEW t \in Provider,
         t.it = w.it /\ t.conn = w.conn /\ t.down = w.down /\ t.events = w.events,
         t.state = w.state, t.ping = "frozen" => w.ping = "frozen"
  PROVE  Good(t)
<1>1. \A a \in Addrs : Entries(t, Items, a) = Entries(w, Items, a)
  BY EntriesSame
<1>2. Links(t)
  BY <1>1 DEF Good, Links, Counted, Sane
<1> QED
  BY <1>2 DEF Good, Paused, Served

\* The connection to the master is as it was, and so is what depends on it.
LEMMA TiedKept ==
  ASSUME NEW w, NEW t, Tied(w), SameLink(w, t),
         t.ping # "off" => w.ping # "off",
         w.fd \/ \A i \in Items : t.it[i].st = "live" => w.it[i].st = "live"
  PROVE  Tied(t)
BY DEF Tied, SameLink

LEMMA MethodNewGood ==
  ASSUME NEW w, Good(w), NEW i \in Items, NEW a \in Viewers, NEW period \in BOOLEAN,
         NEW ok \in BOOLEAN, NEW created \in BOOLEAN, w.it[i].st # "live"
  PROVE  LET t == MethodNew(w, i, a, period, ok, created) IN
         Good(t) /\ SameLink(w, t) /\ t.ping = w.ping /\ t.state = w.state
<1> DEFINE u == InstanceCreate(w, i, a, period, ok)
           v == Destroy(u, {i})
<1>1. Links(u) /\ SameLink(w, u) /\ Quiet(w, u)
  BY InstanceCreateGood DEF Good
<1> HIDE DEF u
<1>2. Links(v) /\ SameLink(u, v) /\ Quiet(u, v)
  BY <1>1, DestroyGood
<1>3. SameLink(w, v) /\ Quiet(w, v)
  BY <1>1, <1>2, SameLinkTrans, QuietTrans
<1> HIDE DEF v
<1>4. MethodNew(w, i, a, period, ok, created) = IF created THEN u ELSE v
  BY Zenon DEF MethodNew, InstanceDestroy, u, v
<1>5. Good(u) /\ Good(v)
  BY <1>1, <1>2, <1>3, QuietGood
<1>6. u.ping = w.ping /\ u.state = w.state /\ v.ping = w.ping /\ v.state = w.state
  BY <1>1, <1>3 DEF Quiet
<1> QED
  BY <1>1, <1>3, <1>4, <1>5, <1>6

LEMMA DestroyAllGood ==
  ASSUME NEW w, Good(w)
  PROVE  LET t == DestroyAll(w) IN
         /\ Good(t) /\ SameLink(w, t) /\ t.ping = w.ping /\ t.state = w.state
         /\ \A i \in Items : t.it[i] = NoItem
<1> DEFINE t == Destroy(w, Instances(w))
<1>1. Instances(w) \in SUBSET Items
  BY DEF Instances
<1>2. /\ Links(t) /\ SameLink(w, t) /\ Quiet(w, t)
      /\ t.it = [i \in Items |-> IF i \in Instances(w) THEN NoItem ELSE w.it[i]]
  BY <1>1, DestroyGood, Zenon DEF Good
<1> HIDE DEF t
<1>3. \A i \in Items : t.it[i] = NoItem
  BY <1>2 DEF Good, Links, Sane, Instances, InstanceFind
<1>4. Good(t)
  BY <1>2, QuietGood
<1> QED
  BY <1>2, <1>3, <1>4 DEF DestroyAll, Quiet, t

\* disconnected_cb: no instance is left, and the app is told.
LEMMA DisconnectedInv ==
  ASSUME NEW w, Inv(w)
  PROVE  Inv(DisconnectedCb(w)) /\ ~DisconnectedCb(w).init
<1> DEFINE a == [EventCb(w) EXCEPT !.ping = "off"]
           b == DestroyAll(a)
           c == [b EXCEPT !.link = "off"]
           d == ClientFini(c)
           t == [d EXCEPT !.fd = FALSE]
<1>1. w \in Provider /\ Good(w) /\ Tied(w)
  BY DEF Inv, Good, Links
<1>2. /\ a \in Provider /\ a.ping = "off" /\ a.state = w.state
      /\ a.it = w.it /\ a.conn = w.conn /\ a.down = w.down /\ a.events = w.events
      /\ a.init = w.init /\ a.watch \in {w.watch, "none"}
  BY <1>1 DEF EventCb, Provider, Pings
<1> HIDE DEF a
<1>3. Good(a)
  BY <1>1, <1>2, LinkChanged
<1>4. /\ Good(b) /\ SameLink(a, b) /\ b.ping = a.ping /\ b.state = a.state
      /\ \A i \in Items : b.it[i] = NoItem
  BY <1>3, DestroyAllGood, Zenon
<1> HIDE DEF b
<1>5. b \in Provider
  BY <1>4 DEF Good, Links
<1>6. /\ c \in Provider /\ c.link = "off" /\ c.ping = b.ping /\ c.state = b.state
      /\ c.it = b.it /\ c.conn = b.conn /\ c.down = b.down /\ c.events = b.events
      /\ c.init = b.init /\ c.watch = b.watch
  BY <1>5 DEF Provider
<1> HIDE DEF c
<1>7. /\ d \in Provider /\ d.link = c.link /\ d.ping = c.ping /\ d.state = c.state
      /\ d.it = c.it /\ d.conn = c.conn /\ d.down = c.down /\ d.events = c.events
      /\ ~d.init /\ d.watch \in {c.watch, "none"} /\ (c.init => d.watch = "none")
  <2>1. CASE ~c.init
    <3>1. d = c
      BY <2>1 DEF ClientFini
    <3> QED
      BY <1>6, <2>1, <3>1
  <2>2. CASE c.init
    <3> DEFINE x == [c EXCEPT !.init = FALSE]
               y == [x EXCEPT !.name = FALSE, !.fd = FALSE]
    <3>1. d = [y EXCEPT !.watch = "none"]
      BY <2>2, Zenon DEF ClientFini, WidgetProviderFini
    <3>2. /\ y \in Provider /\ y.link = c.link /\ y.ping = c.ping /\ y.state = c.state
          /\ y.it = c.it /\ y.conn = c.conn /\ y.down = c.down /\ y.events = c.events
          /\ ~y.init
      BY <1>6 DEF Provider
    <3> HIDE DEF y
    <3> QED
      BY <3>1, <3>2 DEF Provider
  <2> QED
    BY <2>1, <2>2
<1> HIDE DEF d
<1>8. /\ t \in Provider /\ t.link = d.link /\ t.ping = d.ping /\ t.state = d.state
      /\ t.it = d.it /\ t.conn = d.conn /\ t.down = d.down /\ t.events = d.events
      /\ t.init = d.init /\ t.watch = d.watch /\ ~t.fd
  BY <1>7 DEF Provider
<1>9. DisconnectedCb(w) = t
  BY Zenon DEF DisconnectedCb, MethodDisconnected, t, d, c, b, a
<1> HIDE DEF t
<1>10. Good(t)
  BY <1>4, <1>6, <1>7, <1>8, LinkChanged
<1>11. t.watch = "none"
  BY <1>1, <1>2, <1>4, <1>6, <1>7, <1>8 DEF Tied, SameLink
<1>12. Tied(t)
  <2>1. t.link = "off" /\ t.ping = "off" /\ \A i \in Items : t.it[i].st # "live"
    BY <1>2, <1>4, <1>6, <1>7, <1>8, NoItemFields
  <2>2. t.fd = FALSE /\ t.init = FALSE
    BY <1>7, <1>8 DEF Provider
  <2> QED
    BY <1>11, <2>1, <2>2 DEF Tied
<1> QED
  BY <1>7, <1>8, <1>9, <1>10, <1>12 DEF Inv

LEMMA ClientInitInv ==
  ASSUME NEW w, Inv(w), NEW secured \in BOOLEAN, NEW watch \in {"on", "bad"}
  PROVE  Inv(ClientInit(w, secured, watch))
<1> DEFINE a == [w EXCEPT !.name = TRUE, !.fd = TRUE]
           b == [a EXCEPT !.ping = "on", !.link = "on"]
           t == [b EXCEPT !.init = TRUE, !.secured = secured, !.watch = watch]
<1>1. w \in Provider /\ Good(w) /\ Tied(w)
  BY DEF Inv, Good, Links
<1>2. ClientInit(w, secured, watch) = IF w.init \/ w.name THEN w ELSE t
  BY Zenon DEF ClientInit, MethodConnected, InitializeProvider
<1>3. /\ a \in Provider /\ a.name /\ a.fd /\ a.state = w.state
      /\ a.it = w.it /\ a.conn = w.conn /\ a.down = w.down /\ a.events = w.events
  BY <1>1 DEF Provider
<1> HIDE DEF a
<1>4. /\ b \in Provider /\ b.name /\ b.fd /\ b.state = w.state
      /\ b.it = w.it /\ b.conn = w.conn /\ b.down = w.down /\ b.events = w.events
      /\ b.ping = "on" /\ b.link = "on"
  BY <1>3 DEF Provider, Pings
<1> HIDE DEF b
<1>5. /\ t \in Provider /\ t.name /\ t.fd = TRUE /\ t.init = TRUE /\ t.state = w.state
      /\ t.it = w.it /\ t.conn = w.conn /\ t.down = w.down /\ t.events = w.events
      /\ t.ping = "on" /\ t.link = "on"
  BY <1>4 DEF Provider
<1> HIDE DEF t
<1>6. Good(t)
  BY <1>1, <1>5, LinkChanged
<1>7. Tied(t)
  BY <1>5 DEF Tied
<1> QED
  BY <1>2, <1>6, <1>7 DEF Inv

LEMMA ClientInitSyncInv ==
  ASSUME NEW w, Inv(w), NEW answer \in {"created", "failed", "refused"},
         NEW i \in Items, NEW a \in Viewers, NEW period \in BOOLEAN,
         NEW ok \in BOOLEAN, NEW watch \in {"on", "bad"}
  PROVE  Inv(ClientInitSync(w, answer, i, a, period, ok, watch))
<1> DEFINE x == [w EXCEPT !.name = TRUE, !.fd = TRUE]
           b == [x EXCEPT !.link = "on"]
           c == MethodNew(b, i, a, period, ok, answer = "created")
           d == [c EXCEPT !.ping = "on"]
           t == [d EXCEPT !.init = TRUE, !.secured = TRUE, !.watch = watch]
<1>1. w \in Provider /\ Good(w) /\ Tied(w)
  BY DEF Inv, Good, Links
<1>2. CASE w.init \/ w.name
  BY <1>2 DEF ClientInitSync
<1>3. CASE ~(w.init \/ w.name)
  <2>1. ClientInitSync(w, answer, i, a, period, ok, watch) = IF answer = "refused" THEN b ELSE t
    BY <1>3, Zenon DEF ClientInitSync, MethodConnectedSync, InitializeProvider, SendHelloSync
  <2>2. w.fd = FALSE /\ w.init = FALSE /\ w.ping = "off" /\ w.watch = "none"
        /\ \A j \in Items : w.it[j].st # "live"
    BY <1>1, <1>3 DEF Tied, Provider
  <2>3. /\ x \in Provider /\ x.name /\ x.fd = TRUE /\ x.state = w.state
        /\ x.it = w.it /\ x.conn = w.conn /\ x.down = w.down /\ x.events = w.events
        /\ x.ping = w.ping /\ x.init = w.init /\ x.watch = w.watch
    BY <1>1 DEF Provider
  <2> HIDE DEF x
  <2>4. /\ b \in Provider /\ b.name /\ b.fd = TRUE /\ b.link = "on" /\ b.state = w.state
        /\ b.it = w.it /\ b.conn = w.conn /\ b.down = w.down /\ b.events = w.events
        /\ b.ping = w.ping /\ b.init = w.init /\ b.watch = w.watch
    BY <2>3 DEF Provider
  <2> HIDE DEF b
  <2>5. Good(b)
    BY <1>1, <2>4, LinkChanged
  <2>6. Tied(b)
    BY <2>2, <2>4 DEF Tied
  <2>7. Good(c) /\ SameLink(b, c) /\ c.ping = b.ping /\ c.state = b.state
    <3> DEFINE created == answer = "created"
    <3>1. created \in BOOLEAN /\ b.it[i].st # "live"
      BY <2>2, <2>4
    <3>2. c = MethodNew(b, i, a, period, ok, created)
      OBVIOUS
    <3> HIDE DEF created, c
    <3> QED
      BY <2>5, <3>1, <3>2, MethodNewGood
  <2> HIDE DEF c
  <2>8. c \in Provider
    BY <2>7 DEF Good, Links
  <2>9. /\ d \in Provider /\ d.name = c.name /\ d.fd = c.fd /\ d.link = c.link /\ d.state = c.state
        /\ d.it = c.it /\ d.conn = c.conn /\ d.down = c.down /\ d.events = c.events
        /\ d.ping = "on"
    BY <2>8 DEF Provider, Pings
  <2> HIDE DEF d
  <2>10. /\ t \in Provider /\ t.name = d.name /\ t.fd = d.fd /\ t.link = d.link /\ t.state = d.state
         /\ t.it = d.it /\ t.conn = d.conn /\ t.down = d.down /\ t.events = d.events
         /\ t.ping = d.ping /\ t.init = TRUE
    BY <2>9 DEF Provider
  <2> HIDE DEF t
  <2>11. Good(t)
    BY <2>7, <2>9, <2>10, LinkChanged
  <2>12. t.name = b.name /\ t.fd = TRUE /\ t.link = "on" /\ t.ping = "on"
    BY <2>4, <2>7, <2>9, <2>10 DEF SameLink
  <2>13. Tied(t)
    BY <2>4, <2>10, <2>12 DEF Tied
  <2> QED
    BY <2>1, <2>5, <2>6, <2>11, <2>13 DEF Inv
<1> QED
  BY <1>2, <1>3
-----------------------------------------------------------------------------
(* The actions *)

LEMMA InitInv == Init => Inv(p)
<1> SUFFICES ASSUME Init PROVE Inv(p)
  OBVIOUS
<1>1. /\ p.it = [i \in Items |-> NoItem] /\ p.conn = [a \in Addrs |-> 0]
      /\ p.down = {} /\ p.events = {} /\ p.watch = "none" /\ p.init = FALSE
      /\ p.fd = FALSE /\ p.state = "unknown" /\ p.ping = "off" /\ p.link = "off"
  BY DEF Init
<1>2. p \in Provider
  BY NoItemType DEF Init, Provider, Pings, RunStates
<1>3. Counted(p)
  <2> SUFFICES ASSUME NEW a \in Addrs PROVE p.conn[a] = Cardinality(Entries(p, Items, a))
    BY DEF Counted
  <2>1. \A i \in Items : p.it[i].owner = NoAddr
    BY <1>1, NoItemFields
  <2>2. Entries(p, Items, a) = {}
    BY <2>1, ProviderAppAssumption DEF Entries
  <2> QED
    BY <1>1, <2>2, FS_EmptySet
<1>4. Sane(p)
  BY <1>1, NoItemFields DEF Sane
<1>5. \A i \in Items : ToldRight(p.it[i], p.state) /\ p.it[i].owner \notin p.it[i].missed
                       /\ p.it[i].st # "live"
  BY <1>1 DEF NoItem, ToldRight
<1> QED
  BY <1>1, <1>2, <1>3, <1>4, <1>5 DEF Inv, Good, Links, Paused, Served, Tied

\* SendUpdatedEvent: the owner is never among those who missed it.
LEMMA ToldServes ==
  ASSUME NEW w, Inv(w), NEW i \in Items, w.it[i].st = "live"
  PROVE  Inv(SendUpdatedEvent(w, i))
<1> DEFINE x == w.it[i]
           master == x.paths = 0 \/ ~Arrives(w, x.owner)
           direct == {a \in {x.owner} : x.paths > 0 /\ Arrives(w, a)}
           missed == IF master THEN x.missed ELSE x.missed \cup ((x.joined \cup {x.owner}) \ direct)
           y == [x EXCEPT !.missed = missed]
           f == [w.it EXCEPT ![i] = y]
           t == [w EXCEPT !.it = f]
<1>1. /\ w \in Provider /\ w.it \in [Items -> Item] /\ x \in Item
      /\ Sane(w) /\ Paused(w) /\ Served(w) /\ Good(w) /\ Tied(w) /\ Links(w)
  BY DEF Inv, Good, Links, Provider
<1>2. SendUpdatedEvent(w, i) = t
  <2>1. t = [w EXCEPT !.it[i].missed = missed]
    BY <1>1 DEF Provider
  <2> QED
    BY <2>1 DEF SendUpdatedEvent, Told
<1>3. x.owner \notin missed /\ missed \subseteq Viewers
  <2>1. x.owner \notin x.missed /\ x.owner \in Viewers /\ x.missed \subseteq Viewers
        /\ x.joined \subseteq Viewers /\ x.paths \in Nat
    BY <1>1 DEF Served, Item
  <2> HIDE DEF x
  <2>2. CASE master
    BY <2>1, <2>2
  <2>3. CASE ~master
    <3>1. x.owner \in direct
      BY <2>1, <2>3
    <3> QED
      BY <2>1, <2>3, <3>1
  <2> QED
    BY <2>2, <2>3
<1> HIDE DEF missed
<1>4. /\ y \in Item /\ y.st = x.st /\ y.paths = x.paths /\ y.owner = x.owner
      /\ y.missed = missed /\ y.state = x.state /\ y.told = x.told
      /\ y.twice = x.twice /\ y.timer = x.timer
  BY <1>1, <1>3 DEF Item
<1> HIDE DEF y
<1>5. f \in [Items -> Item] /\ f[i] = y /\ \A j \in Items \ {i} : f[j] = w.it[j]
  BY <1>1, <1>4
<1> HIDE DEF f
<1>6. \A j \in Items :
        /\ f[j].paths = w.it[j].paths
        /\ f[j].owner = w.it[j].owner \/ f[j].paths = 0
        /\ f[j].st # "live" => f[j] = NoItem
  BY <1>1, <1>4, <1>5 DEF Sane
<1>7. /\ Links(t) /\ SameLink(w, t)
      /\ t.it = f /\ t.conn = w.conn /\ t.state = w.state /\ t.ping = w.ping
  BY <1>1, <1>5, <1>6, ListsKept, Zenon
<1> HIDE DEF t
<1>8. \A j \in Items : ToldRight(f[j], w.state) /\ f[j].owner \notin f[j].missed
                       /\ f[j].st = w.it[j].st
  BY <1>1, <1>3, <1>4, <1>5 DEF Paused, Served, ToldRight
<1>9. Good(t)
  BY <1>1, <1>7, <1>8 DEF Good, Paused, Served
<1>10. Tied(t)
  BY <1>1, <1>7, <1>8, TiedKept
<1> QED
  BY <1>2, <1>9, <1>10 DEF Inv

\* A function that keeps the lists, the link and the pings, of a provider
\* that is connected
LEMMA LinkedInv ==
  ASSUME NEW w, Inv(w), w.fd, NEW t, Good(t), SameLink(w, t),
         t.ping # "off" => w.ping # "off"
  PROVE  Inv(t)
BY TiedKept DEF Inv

LEMMA QuietInv ==
  ASSUME NEW w, Inv(w), w.fd, NEW t, Links(t), SameLink(w, t), Quiet(w, t)
  PROVE  Inv(t)
<1>1. Good(t)
  BY QuietGood DEF Inv
<1>2. t.ping = w.ping
  BY DEF Quiet
<1> QED
  BY <1>1, <1>2, LinkedInv

\* Who is told of a viewer does not matter to the lists.
LEMMA JoinedInv ==
  ASSUME NEW w, Inv(w), w.fd, NEW i \in Items, w.it[i].st = "live",
         NEW joined \in SUBSET Viewers
  PROVE  LET t == [w EXCEPT !.it[i].joined = joined] IN
         /\ Inv(t) /\ t.fd /\ t.it[i].st = "live"
         /\ t.it[i].owner = w.it[i].owner /\ t.it[i].paths = w.it[i].paths
<1> DEFINE y == [w.it[i] EXCEPT !.joined = joined]
           t == [w EXCEPT !.it[i] = y]
<1>1. w \in Provider /\ w.it[i] \in Item /\ ToldRight(w.it[i], w.state) /\ Good(w)
  BY DEF Inv, Good, Links, Provider, Paused
<1>2. /\ y \in Item /\ y.paths = w.it[i].paths /\ y.owner = w.it[i].owner
      /\ y.missed = w.it[i].missed /\ y.st = "live"
      /\ y.state = w.it[i].state /\ y.told = w.it[i].told
      /\ y.twice = w.it[i].twice /\ y.timer = w.it[i].timer
  BY <1>1 DEF Item
<1>3. t = [w EXCEPT !.it[i].joined = joined]
  BY <1>1 DEF Provider
<1>4. t.it[i] = y
  BY <1>1 DEF Provider
<1> HIDE DEF y
<1>5. ToldRight(y, w.state)
  BY <1>1, <1>2 DEF ToldRight
<1>6. Good(t) /\ SameLink(w, t) /\ t.ping = w.ping
  BY <1>1, <1>2, <1>5, OneTold
<1> HIDE DEF t
<1>7. Inv(t) /\ t.fd
  BY <1>6, LinkedInv DEF SameLink
<1> QED
  BY <1>2, <1>3, <1>4, <1>7

LEMMA ConnectsInv ==
  ASSUME NEW w, Inv(w), w.fd, NEW i \in Items, w.it[i].st = "live", NEW ok \in BOOLEAN
  PROVE  Inv(MethodViewerConnected(w, i, w.it[i].owner, ok))
<1> DEFINE t == AddPath(w, i, w.it[i].owner, ok)
<1>1. Links(w) /\ w.it[i].owner \in Viewers
  BY DEF Inv, Good, Links, Provider, Item
<1>2. Links(t) /\ SameLink(w, t) /\ Quiet(w, t)
  BY <1>1, AddPathGood
<1>3. MethodViewerConnected(w, i, w.it[i].owner, ok) = t
  BY DEF MethodViewerConnected, InstanceFind
<1> HIDE DEF t
<1> QED
  BY <1>2, <1>3, QuietInv

LEMMA DisconnectsInv ==
  ASSUME NEW w, Inv(w), w.fd, NEW i \in Items, w.it[i].st = "live"
  PROVE  Inv(MethodViewerDisconnected(w, i, w.it[i].owner))
<1> DEFINE a == w.it[i].owner
           t == ConnectionUnref([w EXCEPT !.it[i].paths = @ - 1], a)
<1>1. Links(w) /\ w \in Provider /\ w.it[i].paths \in Nat
  BY DEF Inv, Good, Links, Provider, Item
<1>2. MethodViewerDisconnected(w, i, a) =
        IF ConnectionFind(w, a) /\ Entries(w, {i}, a) # {} THEN t ELSE w
  BY DEF MethodViewerDisconnected, InstanceFind
<1>3. CASE ConnectionFind(w, a) /\ Entries(w, {i}, a) # {}
  <2>1. a \in Addrs
    BY <1>3 DEF ConnectionFind
  <2>2. w.it[i].paths # 0
    BY <1>3 DEF Entries
  <2>3. w.it[i].paths > 0
    BY <1>1, <2>2
  <2>4. Links(t) /\ SameLink(w, t) /\ Quiet(w, t)
    BY <1>1, <2>1, <2>3, EntryRemoved
  <2> HIDE DEF t
  <2> QED
    BY <1>2, <1>3, <2>4, QuietInv
<1>4. CASE ~(ConnectionFind(w, a) /\ Entries(w, {i}, a) # {})
  BY <1>2, <1>4
<1> QED
  BY <1>3, <1>4

LEMMA DeletedInv ==
  ASSUME NEW w, Inv(w), w.fd, NEW i \in Items
  PROVE  Inv(MethodDelete(w, i))
<1> DEFINE t == Destroy(w, {i})
<1>1. Links(t) /\ SameLink(w, t) /\ Quiet(w, t)
  BY DestroyGood DEF Inv, Good
<1>2. MethodDelete(w, i) = t \/ MethodDelete(w, i) = w
  BY DEF MethodDelete, InstanceDestroy
<1> HIDE DEF t
<1> QED
  BY <1>1, <1>2, QuietInv

LEMMA NewInv ==
  ASSUME NEW w, Inv(w), w.fd, NEW i \in Items, NEW a \in Viewers, NEW period \in BOOLEAN,
         NEW ok \in BOOLEAN, NEW created \in BOOLEAN, w.it[i].st # "live"
  PROVE  Inv(MethodNew(w, i, a, period, ok, created))
<1> DEFINE t == MethodNew(w, i, a, period, ok, created)
<1>1. Good(t) /\ SameLink(w, t) /\ t.ping = w.ping
  BY MethodNewGood DEF Inv
<1> HIDE DEF t
<1> QED
  BY <1>1, LinkedInv DEF t

\* A connection breaks, and com-core reports it.
LEMMA BreaksInv ==
  ASSUME NEW w, Inv(w), NEW a \in Addrs, w.conn[a] > 0
  PROVE  Inv([w EXCEPT !.down = @ \cup {a}, !.events = @ \cup {a}])
<1> DEFINE t == [w EXCEPT !.down = @ \cup {a}, !.events = @ \cup {a}]
<1>1. w \in Provider /\ Good(w) /\ Tied(w) /\ Links(w)
  BY DEF Inv, Good, Links
<1>2. /\ t \in Provider /\ SameLink(w, t) /\ t.it = w.it /\ t.conn = w.conn
      /\ t.down = w.down \cup {a} /\ t.events = w.events \cup {a}
      /\ t.state = w.state /\ t.ping = w.ping
  BY <1>1 DEF Provider, SameLink
<1> HIDE DEF t
<1>3. \A b \in Addrs : Entries(t, Items, b) = Entries(w, Items, b)
  BY <1>2, EntriesSame
<1>4. Links(t)
  BY <1>1, <1>2, <1>3 DEF Links, Counted, Sane
<1>5. Good(t)
  BY <1>1, <1>2, <1>4 DEF Good, Paused, Served
<1>6. Tied(t)
  BY <1>1, <1>2, TiedKept
<1> QED
  BY <1>5, <1>6 DEF Inv, t

LEMMA BrokenInv ==
  ASSUME NEW w, Inv(w), NEW a \in w.events
  PROVE  Inv(DisconnectedEvent([w EXCEPT !.events = @ \ {a}], a))
<1> DEFINE x == [w EXCEPT !.events = @ \ {a}]
           t == ConnectionDisconnectedCb(x, a)
           v == EventCb(x)
<1>1. w \in Provider /\ Good(w) /\ Tied(w) /\ Links(w) /\ a \in Addrs
  BY DEF Inv, Good, Links, Provider
<1>2. /\ x \in Provider /\ SameLink(w, x) /\ x.it = w.it /\ x.conn = w.conn
      /\ x.down = w.down /\ x.events = w.events \ {a}
      /\ x.state = w.state /\ x.ping = w.ping
  BY <1>1 DEF Provider, SameLink
<1> HIDE DEF x
<1>3. \A b \in Addrs : Entries(x, Items, b) = Entries(w, Items, b)
  BY <1>2, EntriesSame
<1>4. Links(x)
  BY <1>1, <1>2, <1>3 DEF Links, Counted, Sane
<1>5. Good(x) /\ Tied(x)
  BY <1>1, <1>2, <1>4, TiedKept DEF Good, Paused, Served
<1>6. Links(t) /\ SameLink(x, t) /\ Quiet(x, t) /\ \A i \in Items : t.it[i].st = x.it[i].st
  BY <1>1, <1>4, DisconnectedGood
<1> HIDE DEF t
<1>7. Good(t)
  BY <1>5, <1>6, QuietGood
<1>8. Tied(t)
  BY <1>5, <1>6, TiedKept DEF Quiet
<1>9. /\ v \in Provider /\ SameLink(x, v) /\ v.it = x.it /\ v.conn = x.conn
      /\ v.down = x.down /\ v.events = x.events
      /\ v.state = x.state /\ v.ping = x.ping
  BY <1>2 DEF EventCb, Provider, SameLink
<1> HIDE DEF v
<1>10. Good(v)
  BY <1>5, <1>9, LinkChanged
<1>11. Tied(v)
  BY <1>5, <1>9, TiedKept
<1>12. DisconnectedEvent(x, a) = t \/ DisconnectedEvent(x, a) = v
  BY DEF DisconnectedEvent, t, v
<1> QED
  BY <1>7, <1>8, <1>10, <1>11, <1>12 DEF Inv, x

LEMMA TerminatedInv ==
  ASSUME NEW w, Inv(w)
  PROVE  Inv(TerminateApp(w))
<1> DEFINE t == DestroyAll(w)
<1>1. /\ Good(t) /\ SameLink(w, t) /\ t.ping = w.ping
      /\ \A i \in Items : t.it[i] = NoItem
  BY DestroyAllGood DEF Inv
<1> HIDE DEF t
<1>2. Tied(t)
  BY <1>1, NoItemFields, TiedKept DEF Inv
<1> QED
  BY <1>1, <1>2 DEF Inv, TerminateApp, t
-----------------------------------------------------------------------------
(* One step of the main loop *)

LEMMA NextInv == ASSUME Inv(p), Next PROVE Inv(p')
<1>0. Linked => p.fd
  BY DEF Linked
<1>1. CASE AppInit
  BY <1>1, ClientInitInv DEF AppInit
<1>2. CASE AppInitSync
  BY <1>2, ClientInitSyncInv DEF AppInitSync
<1>3. CASE AppFini
  <2>1. p' = ClientFini(DisconnectedCb(p))
    BY <1>3 DEF AppFini
  <2>2. Inv(DisconnectedCb(p)) /\ ~DisconnectedCb(p).init
    BY DisconnectedInv
  <2>3. p' = DisconnectedCb(p)
    BY <2>1, <2>2, Zenon DEF ClientFini
  <2> QED
    BY <2>2, <2>3
<1>4. CASE AppTerminate
  BY <1>4, TerminatedInv DEF AppTerminate
<1>5. CASE AppUpdates
  BY <1>5, ToldServes DEF AppUpdates, Instances, InstanceFind, SendBufferUpdatedEvent
<1>6. CASE MasterNew
  <2>1. PICK i \in Items \ Instances(p), a \in Viewers, period \in BOOLEAN,
             ok \in BOOLEAN, created \in BOOLEAN :
          \/ p' = MethodNew(p, i, a, period, ok, created)
          \/ p' = MethodRenew(p, i, a, period, ok, created)
    BY <1>6 DEF MasterNew
  <2>2. MethodRenew(p, i, a, period, ok, created) = MethodNew(p, i, a, period, ok, created)
    BY Zenon DEF MethodNew, MethodRenew
  <2>3. p.it[i].st # "live" /\ p.fd
    BY <1>0, <1>6, <2>1 DEF Instances, InstanceFind, MasterNew
  <2> QED
    BY <2>1, <2>2, <2>3, NewInv
<1>7. CASE MasterDelete
  BY <1>0, <1>7, DeletedInv DEF MasterDelete
<1>8. CASE MasterPause
  <2>1. p' = MethodPause(p) /\ p.fd
    BY <1>0, <1>8 DEF MasterPause
  <2> QED
    BY <2>1, PauseGood, LinkedInv DEF Inv
<1>9. CASE MasterResume
  <2>1. p' = MethodResume(p) /\ p.fd
    BY <1>0, <1>9 DEF MasterResume
  <2> QED
    BY <2>1, ResumeGood, LinkedInv DEF Inv
<1>10. CASE MasterWidgetPause
  <2>1. PICK i \in Items : p' = MethodWidgetPause(p, i) /\ p.fd
    BY <1>0, <1>10 DEF MasterWidgetPause
  <2> QED
    BY <2>1, WidgetPauseGood, LinkedInv DEF Inv
<1>11. CASE MasterWidgetResume
  <2>1. PICK i \in Items : p' = MethodWidgetResume(p, i) /\ p.fd
    BY <1>0, <1>11 DEF MasterWidgetResume
  <2> QED
    BY <2>1, WidgetResumeGood, LinkedInv DEF Inv
<1>12. CASE MasterViewerConnected
  <2>0. PICK i \in Instances(p), ok \in BOOLEAN :
          \E v \in Addrs \ {p.it[i].owner} :
             p' = MethodViewerConnected([p EXCEPT !.it[i].joined = @ \cup {v}], i, p.it[i].owner, ok)
    BY <1>12 DEF MasterViewerConnected
  <2>1. PICK v \in Addrs \ {p.it[i].owner} :
          p' = MethodViewerConnected([p EXCEPT !.it[i].joined = @ \cup {v}], i, p.it[i].owner, ok)
    BY <2>0
  <2> DEFINE joined == p.it[i].joined \cup {v}
             w == [p EXCEPT !.it[i].joined = joined]
  <2>2. p.fd /\ i \in Items /\ p.it[i].st = "live" /\ joined \in SUBSET Viewers
    BY <1>0, <1>12, <2>1
       DEF MasterViewerConnected, Instances, InstanceFind, Inv, Good, Links, Provider, Item, Viewers
  <2>3. [p EXCEPT !.it[i].joined = @ \cup {v}] = w
    OBVIOUS
  <2> HIDE DEF joined
  <2>4. Inv(w) /\ w.fd /\ w.it[i].st = "live" /\ w.it[i].owner = p.it[i].owner
    BY <2>2, JoinedInv, Zenon
  <2> HIDE DEF w
  <2> QED
    BY <2>1, <2>2, <2>3, <2>4, ConnectsInv
<1>13. CASE MasterViewerDisconnected
  <2>0. PICK i \in Instances(p) : \E v \in p.it[i].joined :
          p' = MethodViewerDisconnected([p EXCEPT !.it[i].joined = @ \ {v}], i, p.it[i].owner)
    BY <1>13 DEF MasterViewerDisconnected
  <2>1. PICK v \in p.it[i].joined :
          p' = MethodViewerDisconnected([p EXCEPT !.it[i].joined = @ \ {v}], i, p.it[i].owner)
    BY <2>0
  <2> DEFINE joined == p.it[i].joined \ {v}
             w == [p EXCEPT !.it[i].joined = joined]
  <2>2. p.fd /\ i \in Items /\ p.it[i].st = "live" /\ joined \in SUBSET Viewers
    BY <1>0, <1>13, <2>1
       DEF MasterViewerDisconnected, Instances, InstanceFind, Inv, Good, Links, Provider, Item
  <2>3. [p EXCEPT !.it[i].joined = @ \ {v}] = w
    OBVIOUS
  <2> HIDE DEF joined
  <2>4. Inv(w) /\ w.fd /\ w.it[i].st = "live" /\ w.it[i].owner = p.it[i].owner
    BY <2>2, JoinedInv, Zenon
  <2> HIDE DEF w
  <2> QED
    BY <2>1, <2>2, <2>3, <2>4, DisconnectsInv
<1>14. CASE MasterDisconnect
  BY <1>14, DisconnectedInv DEF MasterDisconnect
<1>15. CASE PathBreaks
  <2>1. PICK a \in Addrs : p.conn[a] > 0 /\ p' = [p EXCEPT !.down = @ \cup {a}, !.events = @ \cup {a}]
    BY <1>15 DEF PathBreaks, ConnectionFind
  <2> QED
    BY <2>1, BreaksInv
<1>16. CASE PathBroken
  BY <1>16, BrokenInv DEF PathBroken
<1> QED
  BY <1>1, <1>2, <1>3, <1>4, <1>5, <1>6, <1>7, <1>8, <1>9, <1>10, <1>11, <1>12, <1>13,
     <1>14, <1>15, <1>16 DEF Next

LEMMA SpecInv == Spec => []Inv(p)
<1>1. Inv(p) /\ [Next]_vars => Inv(p)'
  <2>1. ASSUME Inv(p), Next PROVE Inv(p)'
    BY <2>1, NextInv
  <2>2. ASSUME Inv(p), UNCHANGED vars PROVE Inv(p)'
    BY <2>2 DEF vars, Inv, Good, Links, Counted, Entries, Sane, Paused, Served, Tied, ToldRight
  <2> QED
    BY <2>1, <2>2
<1> QED
  BY <1>1, InitInv, PTL DEF Spec

LEMMA InvLinks == Inv(p) => LinksAreHeld
<1> SUFFICES ASSUME Inv(p) PROVE LinksAreHeld
  OBVIOUS
<1>1. p \in Provider /\ Counted(p) /\ Sane(p) /\ Tied(p)
  BY DEF Inv, Good, Links
<1>2. TypeOK
  <2>1. ASSUME NEW i \in Items
        PROVE  LET x == p.it[i] IN
               /\ x.state \in {"unknown", "resumed", "paused"}
               /\ x.timer \in {"off", "on", "frozen"}
               /\ x.paths \in Nat /\ (x.owner = NoAddr => x.paths = 0)
               /\ ~InstanceFind(p, i) => x = NoItem
    BY <1>1 DEF Provider, Item, RunStates, Sane, InstanceFind
  <2>2. p.events \subseteq p.down /\ \A a \in p.down : ConnectionFind(p, a)
    BY <1>1 DEF Sane, Provider, ConnectionFind
  <2>3. /\ p.init => p.fd /\ p.name
        /\ p.ping # "off" => p.fd
        /\ p.watch # "none" => p.init
    BY <1>1 DEF Tied
  <2> QED
    BY <2>1, <2>2, <2>3 DEF TypeOK
<1>3. PathsAreHeld
  BY <1>1 DEF PathsAreHeld, Counted
<1>4. LinkTold
  <2>1. (p.link = "on") = p.fd
    BY <1>1 DEF Tied, Provider
  <2>2. ASSUME ~p.fd
        PROVE  Instances(p) = {} /\ \A a \in Addrs : p.conn[a] = 0
    <3>1. \A i \in Items : p.it[i].st # "live" /\ p.it[i].paths = 0
      BY <1>1, <2>2, NoItemFields DEF Tied, Sane
    <3>2. ASSUME NEW a \in Addrs PROVE p.conn[a] = 0
      <4>1. Entries(p, Items, a) = {}
        BY <3>1 DEF Entries
      <4> QED
        BY <1>1, <4>1, FS_EmptySet DEF Counted
    <3> QED
      BY <3>1, <3>2 DEF Instances, InstanceFind
  <2> QED
    BY <2>1, <2>2 DEF LinkTold
<1> QED
  BY <1>2, <1>3, <1>4 DEF LinksAreHeld

LEMMA InvTold == Inv(p) => RunStateTold
<1> SUFFICES ASSUME Inv(p) PROVE RunStateTold
  OBVIOUS
<1>1. Paused(p) /\ p \in Provider
  BY DEF Inv, Good, Links
<1>2. ASSUME NEW i \in Items
      PROVE  LET x == p.it[i] runs == x.state = "resumed" /\ p.state = "resumed" IN
             /\ runs = (x.told = "resumed") /\ ~x.twice
             /\ runs => x.timer # "frozen"
  BY <1>1 DEF Paused, ToldRight
<1> QED
  BY <1>1, <1>2 DEF RunStateTold, Paused

(* connection.c and client.c keep the references to connections: exactly   *)
(* one for each entry of a list, whatever breaks, leaves or ends, and      *)
(* nothing is left of a provider without a master.                         *)
THEOREM LinksHeld == Spec => []LinksAreHeld
BY SpecInv, InvLinks, PTL

(* method_pause, method_resume and their widget twins, in every order:     *)
(* the app was told what holds of each instance, and never twice.          *)
THEOREM AppIsTold == Spec => []RunStateTold
BY SpecInv, InvTold, PTL

(* widget_provider_app_send_updated_event: the viewer an instance was made *)
(* for gets every update.                                                  *)
THEOREM OwnersServed == Spec => []OwnerServed
<1>1. Inv(p) => OwnerServed
  BY DEF Inv, Good, Served, OwnerServed
<1> QED
  BY <1>1, SpecInv, PTL
=============================================================================
