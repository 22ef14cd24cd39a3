-------------------------- MODULE SlaveRequestProofs --------------------------
(***************************************************************************)
(* RequestsAreSafe for every value of the constants: requests wait where   *)
(* somebody looks, a faulty package has no instance left, and a destroyed  *)
(* instance stays only while a request holds it.                           *)
(*                                                                         *)
(* Every C function that changes the slave is shown to take a state that   *)
(* is Neat to one that is.  A slave that was destroyed owes nothing to its *)
(* queues: that they are empty then is what the reference count tells.     *)
(***************************************************************************)
EXTENDS SlaveProofs

Follows(s) == IF s.handle = NoPid THEN s.cmds = <<>> ELSE s.pend = <<>>
Emptied(s) == s.fault => s.live = {}
Clean(s)   == \A i \in s.doomed : Held(s, i)

(* The inductive invariant *)
Neat(s) == Emptied(s) /\ Clean(s) /\ (s.alive => Follows(s))

\* The requests, the instances and the fault mark are left alone.
SameRequests(s, t) ==
  /\ t.pend = s.pend /\ t.cmds = s.cmds /\ t.sent = s.sent
  /\ t.live = s.live /\ t.doomed = s.doomed /\ t.fault = s.fault
  /\ t.alive => s.alive /\ t.handle = s.handle
-----------------------------------------------------------------------------
(* Functions that touch neither requests nor instances *)

LEMMA HeldSame ==
  ASSUME NEW s, NEW t, t.pend = s.pend, t.cmds = s.cmds, t.sent = s.sent
  PROVE  \A i : Held(t, i) <=> Held(s, i)
BY DEF Held

LEMMA SameRequestsNeat ==
  ASSUME NEW s, NEW t, SameRequests(s, t), Neat(s)
  PROVE  Neat(t)
<1>1. \A i : Held(t, i) <=> Held(s, i)
  BY HeldSame DEF SameRequests
<1> QED
  BY <1>1 DEF SameRequests, Neat, Emptied, Clean, Follows

LEMMA SameRequestsTrans ==
  ASSUME NEW s, NEW t, NEW u, SameRequests(s, t), SameRequests(t, u)
  PROVE  SameRequests(s, u)
BY DEF SameRequests

LEMMA DestroySame ==
  ASSUME NEW s \in Master
  PROVE  SameRequests(s, Destroy(s))
BY DEF SameRequests, Destroy, Master

LEMMA UnrefsSame ==
  ASSUME NEW s \in Master, NEW n \in Nat
  PROVE  SameRequests(s, Unrefs(s, n))
<1> DEFINE a == [s EXCEPT !.refcnt = @ - n]
           b == [s EXCEPT !.refcnt = 0]
           c == [s EXCEPT !.refcnt = 0, !.uaf = TRUE]
<1>1. SameRequests(s, s)
  BY DEF SameRequests
<1>2. SameRequests(s, a) /\ SameRequests(s, b) /\ SameRequests(s, c)
  BY DEF SameRequests, Master
<1>3. b \in Master
  BY SetRefcnt
<1> HIDE DEF a, b, c
<1>4. SameRequests(s, Destroy(b))
  BY <1>2, <1>3, DestroySame, SameRequestsTrans
<1>5. Unrefs(s, n) \in {s, a, Destroy(b), c}
  BY Zenon DEF Unrefs, a, b, c
<1> QED
  BY <1>1, <1>2, <1>4, <1>5

LEMMA UnrefSame ==
  ASSUME NEW s \in Master
  PROVE  SameRequests(s, Unref(s))
BY UnrefsSame DEF Unref

LEMMA ReleasePackageSame ==
  ASSUME NEW s \in Master
  PROVE  SameRequests(s, ReleasePackage(s))
<1> DEFINE t == [s EXCEPT !.pkg = FALSE]
<1>1. t \in Master
  BY ZenonT(40) DEF Master
<1>2. SameRequests(s, t)
  BY DEF SameRequests, Master
<1> HIDE DEF t
<1>3. SameRequests(s, Unref(t))
  BY <1>1, <1>2, UnrefSame, SameRequestsTrans
<1> QED
  BY <1>3 DEF ReleasePackage, t

LEMMA ActivateSame ==
  ASSUME NEW s \in Master, NEW launch
  PROVE  SameRequests(s, Activate(s, launch)) /\ (Activate(s, launch).alive <=> s.alive)
         /\ Activate(s, launch).handle = s.handle
<1> DEFINE a == [s EXCEPT !.termT = FALSE]
           b == [s EXCEPT !.reactivate = TRUE]
           c == [s EXCEPT !.pid = launch, !.relT = (launch = RetryPid), !.actT = TRUE,
                 !.relaunch = RelaunchCount, !.state = "LAUNCH",
                 !.refcnt = @ + 1, !.active = @ + 1,
                 !.mine = IF launch \in Procs THEN @ \cup {launch} ELSE @]
           P(t) == SameRequests(s, t) /\ t.alive = s.alive /\ t.handle = s.handle
<1>1. P(s) /\ P(a) /\ P(b) /\ P(c)
  BY DEF SameRequests, Master
<1>2. Activate(s, launch) \in {s, a, b, c}
  BY Zenon DEF Activate
<1> HIDE DEF a, b, c
<1> QED
  BY <1>1, <1>2

LEMMA TerminatePidSame ==
  ASSUME NEW s \in Master, NEW x
  PROVE  SameRequests(s, TerminatePid(s, x))
BY DEF TerminatePid, SameRequests, Master

LEMMA StopTimersSame ==
  ASSUME NEW s \in Master
  PROVE  SameRequests(s, StopTimers(s))
BY DEF StopTimers, SameRequests, Master
-----------------------------------------------------------------------------
(* Functions that queue requests *)

LEMMA InsertRange ==
  ASSUME NEW q \in Seq(Requests), NEW c \in Requests
  PROVE  /\ RangeOf(q) \subseteq RangeOf(<<c>> \o q)
         /\ RangeOf(q) \subseteq RangeOf(Append(q, c))
<1>1. \A k \in DOMAIN q : /\ (<<c>> \o q)[k + 1] = q[k]
                          /\ k + 1 \in DOMAIN (<<c>> \o q)
                          /\ Append(q, c)[k] = q[k] /\ k \in DOMAIN Append(q, c)
  OBVIOUS
<1> QED
  BY <1>1 DEF RangeOf

LEMMA HeldMore ==
  ASSUME NEW s, NEW t, t.sent = s.sent,
         RangeOf(s.pend) \cup RangeOf(s.cmds) \subseteq RangeOf(t.pend) \cup RangeOf(t.cmds)
  PROVE  \A i : Held(s, i) => Held(t, i)
BY DEF Held

\* What a function that queues a request c for s makes of it
Queued(s, t) ==
  /\ t.sent = s.sent /\ t.live = s.live /\ t.doomed = s.doomed /\ t.fault = s.fault
  /\ t.handle = s.handle /\ (t.alive <=> s.alive)
  /\ IF s.handle = NoPid THEN t.cmds = s.cmds ELSE t.pend = s.pend
  /\ RangeOf(s.pend) \cup RangeOf(s.cmds) \subseteq RangeOf(t.pend) \cup RangeOf(t.cmds)

LEMMA QueuedNeat ==
  ASSUME NEW s, NEW t, Queued(s, t), Neat(s)
  PROVE  Neat(t)
<1>1. \A i : Held(s, i) => Held(t, i)
  BY HeldMore DEF Queued
<1> QED
  BY <1>1 DEF Queued, Neat, Emptied, Clean, Follows

LEMMA EnqueueQueued ==
  ASSUME NEW s \in Master, NEW c \in Requests, NEW urgent \in BOOLEAN, NEW launch,
         launch \in LaunchResults \/ IsActivated(s) \/ s.pid # NoPid
  PROVE  Queued(s, Enqueue(s, c, urgent, launch))
<1> DEFINE Put(q) == IF urgent THEN <<c>> \o q ELSE Append(q, c)
           t == IF s.handle = NoPid /\ ForcesActivation(s) /\ ~IsActivated(s)
                THEN Activate(s, launch) ELSE s
           u == Enqueue(s, c, urgent, launch)
<1>1. /\ SameRequests(s, t) /\ (t.alive <=> s.alive) /\ t.handle = s.handle
  <2>1. SameRequests(s, s)
    BY DEF SameRequests
  <2> QED
    BY <2>1, ActivateSame, Zenon
<1>2. t \in Master
  <2>1. launch \in LaunchResults => Activate(s, launch) \in Master
    BY ActivateType
  <2>2. s.pid # NoPid => Activate(s, launch) \in Master
    <3>1. [s EXCEPT !.termT = FALSE] \in Master /\ [s EXCEPT !.reactivate = TRUE] \in Master
      <4>1. [s EXCEPT !.termT = FALSE] \in Master
        BY ZenonT(40) DEF Master
      <4>2. [s EXCEPT !.reactivate = TRUE] \in Master
        BY ZenonT(40) DEF Master
      <4> QED
        BY <4>1, <4>2
    <3> QED
      BY <3>1, Zenon DEF Activate
  <2> QED
    BY <2>1, <2>2, Zenon
<1>3. u = IF s.handle = NoPid THEN [t EXCEPT !.refcnt = @ + 1, !.pend = Put(@)]
          ELSE [t EXCEPT !.refcnt = @ + 1, !.cmds = Put(@)]
  BY Zenon DEF Enqueue
<1> HIDE DEF t, u
<1>4. s.pend \in Seq(Requests) /\ s.cmds \in Seq(Requests)
  BY QueueFacts
<1>5. \A q \in Seq(Requests) : RangeOf(q) \subseteq RangeOf(Put(q))
  BY InsertRange
<1>6. t.pend = s.pend /\ t.cmds = s.cmds /\ t.sent = s.sent /\ t.live = s.live
      /\ t.doomed = s.doomed /\ t.fault = s.fault
  BY <1>1 DEF SameRequests
<1> HIDE DEF Put
<1>7. Queued(s, u)
  <2>1. CASE s.handle = NoPid
    <3>1. /\ u.pend = Put(t.pend) /\ u.cmds = t.cmds /\ u.sent = t.sent
          /\ u.live = t.live /\ u.doomed = t.doomed /\ u.fault = t.fault
          /\ u.handle = t.handle /\ u.alive = t.alive
      BY <1>2, <1>3, <2>1 DEF Master
    <3> QED
      BY <1>1, <1>4, <1>5, <1>6, <2>1, <3>1 DEF Queued
  <2>2. CASE s.handle # NoPid
    <3>1. /\ u.pend = t.pend /\ u.cmds = Put(t.cmds) /\ u.sent = t.sent
          /\ u.live = t.live /\ u.doomed = t.doomed /\ u.fault = t.fault
          /\ u.handle = t.handle /\ u.alive = t.alive
      BY <1>2, <1>3, <2>2 DEF Master
    <3> QED
      BY <1>1, <1>4, <1>5, <1>6, <2>2, <3>1 DEF Queued
  <2> QED
    BY <2>1, <2>2
<1> QED
  BY <1>7 DEF u

LEMMA QueuedTrans ==
  ASSUME NEW s, NEW t, NEW u, Queued(s, t), Queued(t, u)
  PROVE  Queued(s, u)
BY DEF Queued

LEMMA StateQueued ==
  ASSUME NEW s \in Master, NEW st
  PROVE  Queued(s, [s EXCEPT !.state = st])
BY DEF Queued, Master

LEMMA PauseQueued ==
  ASSUME NEW s \in Master, NEW launch \in LaunchResults
  PROVE  Queued(s, Pause(s, launch)) /\ Queued(s, Resume(s, launch))
<1> DEFINE a == [s EXCEPT !.state = "REQ_PAUSE"]
           b == [s EXCEPT !.state = "REQ_RESUME"]
<1>1. a \in Master /\ b \in Master
  BY SetState DEF States
<1>2. "pause" \in Requests /\ "resume" \in Requests
  BY DEF Requests
<1>3. Queued(s, a) /\ Queued(s, b) /\ Queued(s, s)
  <2>1. Queued(s, s)
    BY DEF Queued
  <2> QED
    BY <2>1, StateQueued
<1> HIDE DEF a, b
<1>4. /\ Queued(a, Enqueue(a, "pause", FALSE, launch))
      /\ Queued(b, Enqueue(b, "resume", FALSE, launch))
  BY <1>1, <1>2, EnqueueQueued
<1>5. /\ Queued(s, Enqueue(a, "pause", FALSE, launch))
      /\ Queued(s, Enqueue(b, "resume", FALSE, launch))
  BY <1>3, <1>4, QueuedTrans
<1> QED
  BY <1>3, <1>5, Zenon DEF Pause, Resume, a, b
-----------------------------------------------------------------------------
(* Functions that free instances *)

\* The instances S leave s; nothing else about requests changes.
Freed(s, t, S) ==
  /\ t.pend = s.pend /\ t.cmds = s.cmds /\ t.sent = s.sent /\ t.fault = s.fault
  /\ t.live = s.live \ S /\ t.doomed = s.doomed \ S
  /\ t.alive => s.alive /\ t.handle = s.handle

LEMMA UnlinkFreed ==
  ASSUME NEW s \in Master, NEW S
  PROVE  Freed(s, Unlink(s, S), S)
<1> DEFINE left  == [s EXCEPT !.live = @ \ S, !.doomed = @ \ S]
           last  == S # {} /\ Loaded(left) = {}
           freed == ReleasePackage(left)
           quiet == [freed EXCEPT !.reactivate = FALSE, !.reactInst = FALSE]
           lost  == [freed EXCEPT !.uaf = TRUE]
<1>1. left \in Master
  <2>1. s.live \ S \in SUBSET Insts /\ s.doomed \ S \in SUBSET Insts
    BY SetFields
  <2> QED
    BY <2>1, SetLoaded, Zenon
<1>2. Freed(s, left, S)
  BY DEF Freed, Master
<1>3. Unlink(s, S) \in {left, freed, quiet, lost}
  <2>1. CASE ~last
    BY <2>1, Zenon DEF Unlink
  <2>2. CASE last /\ ~freed.alive
    BY <2>2, Zenon DEF Unlink
  <2>3. CASE last /\ freed.alive
    BY <2>3, Zenon DEF Unlink
  <2> QED
    BY <2>1, <2>2, <2>3, Zenon
<1> HIDE DEF left
<1>4. freed \in Master /\ SameRequests(left, freed)
  BY <1>1, ReleasePackageType, ReleasePackageSame
<1> HIDE DEF freed
<1>5. SameRequests(freed, quiet) /\ SameRequests(freed, lost)
  BY <1>4 DEF SameRequests, Master
<1> HIDE DEF quiet, lost
<1> QED
  BY <1>2, <1>3, <1>4, <1>5 DEF Freed, SameRequests

LEMMA DoomFreed ==
  ASSUME NEW s \in Master, NEW D \in SUBSET Insts
  PROVE  LET t == Doom(s, D)
         IN  /\ t.pend = s.pend /\ t.cmds = s.cmds /\ t.sent = s.sent
             /\ t.fault = s.fault /\ t.live = s.live \ D
             /\ t.doomed \subseteq s.doomed \cup {i \in D : Held(s, i)}
             /\ (t.alive => s.alive /\ t.handle = s.handle)
<1> DEFINE a == [s EXCEPT !.live = @ \ D, !.doomed = @ \cup D]
           S == D \ {i \in D : Held(s, i)}
           t == Unlink(a, S)
<1>1. a \in Master
  <2>1. s.live \ D \in SUBSET Insts /\ s.doomed \cup D \in SUBSET Insts
    BY SetFields
  <2> QED
    BY <2>1, SetLoaded, Zenon
<1>2. /\ a.pend = s.pend /\ a.cmds = s.cmds /\ a.sent = s.sent /\ a.fault = s.fault
      /\ a.live = s.live \ D /\ a.doomed = s.doomed \cup D
      /\ a.alive = s.alive /\ a.handle = s.handle
  BY DEF Master
<1>3. Doom(s, D) = t
  BY Zenon DEF Doom
<1> HIDE DEF a
<1>4. Freed(a, t, S)
  BY <1>1, UnlinkFreed
<1> HIDE DEF t
<1> QED
  BY <1>2, <1>3, <1>4 DEF Freed

LEMMA DoomNeat ==
  ASSUME NEW s \in Master, NEW D \in SUBSET Insts, Clean(s), s.alive => Follows(s),
         Emptied(s) \/ s.live \subseteq D
  PROVE  Neat(Doom(s, D))
<1> DEFINE t == Doom(s, D)
<1>1. /\ t.pend = s.pend /\ t.cmds = s.cmds /\ t.sent = s.sent
      /\ t.fault = s.fault /\ t.live = s.live \ D
      /\ t.doomed \subseteq s.doomed \cup {i \in D : Held(s, i)}
      /\ (t.alive => s.alive /\ t.handle = s.handle)
  BY DoomFreed, Zenon
<1> HIDE DEF t
<1>2. \A i : Held(t, i) <=> Held(s, i)
  BY <1>1, HeldSame
<1>3. Neat(t)
  BY <1>1, <1>2 DEF Neat, Emptied, Clean, Follows
<1> QED
  BY <1>3 DEF t

\* The last callback frees every destroyed instance that nothing holds.
LEMMA UnlinkNeat ==
  ASSUME NEW s \in Master, Emptied(s), s.alive => Follows(s)
  PROVE  Neat(Unlink(s, {i \in s.doomed : ~Held(s, i)}))
<1> DEFINE S == {i \in s.doomed : ~Held(s, i)}
           t == Unlink(s, S)
<1>1. Freed(s, t, S)
  BY UnlinkFreed
<1> HIDE DEF t
<1>2. \A i : Held(t, i) <=> Held(s, i)
  BY <1>1, HeldSame DEF Freed
<1>3. Neat(t)
  BY <1>1, <1>2 DEF Freed, Neat, Emptied, Clean, Follows
<1> QED
  BY <1>3 DEF t

LEMMA AnswerNullNeat ==
  ASSUME NEW s \in Master, NEW q \in Seq(Requests), Emptied(s), s.alive => Follows(s)
  PROVE  /\ Neat(AnswerNull(s, q))
         /\ AnswerNull(s, q).cmds = s.cmds /\ AnswerNull(s, q).pend = s.pend
         /\ (AnswerNull(s, q).alive => s.alive)
<1> DEFINE own  == {k \in DOMAIN q : q[k] \in {"pause", "resume"}}
           last == CHOOSE k \in own : \A j \in own : j <= k
           st   == IF own = {} \/ s.state \in Leaving THEN s.state
                   ELSE IF q[last] = "pause" THEN "RESUMED" ELSE "PAUSED"
           t    == [s EXCEPT !.state = st]
           S    == {i \in t.doomed : ~Held(t, i)}
           u    == Unlink(t, S)
<1>1. t \in Master
  <2>1. s.state \in States /\ "RESUMED" \in States /\ "PAUSED" \in States
    BY ZenonT(40) DEF Master, States
  <2>2. st \in States
    BY <2>1, Zenon
  <2> QED
    BY <2>2, SetState, Zenon
<1>2. AnswerNull(s, q) = Unrefs(u, Len(q))
  BY Zenon DEF AnswerNull
<1> HIDE DEF st
<1>3. SameRequests(s, t)
  BY DEF SameRequests, Master
<1> HIDE DEF t
<1>4. Emptied(t) /\ (t.alive => Follows(t))
  BY <1>3 DEF SameRequests, Emptied, Follows
<1>5. u \in Master /\ Neat(u)
  BY <1>1, <1>4, UnlinkType, UnlinkNeat
<1>6. Freed(t, u, S)
  BY <1>1, UnlinkFreed
<1> HIDE DEF u
<1>7. SameRequests(u, Unrefs(u, Len(q)))
  <2>1. Len(q) \in Nat
    OBVIOUS
  <2> QED
    BY <1>5, <2>1, UnrefsSame
<1>8. Neat(Unrefs(u, Len(q)))
  BY <1>5, <1>7, SameRequestsNeat
<1> QED
  BY <1>2, <1>3, <1>6, <1>7, <1>8 DEF SameRequests, Freed

LEMMA RpcDeactivateNeat ==
  ASSUME NEW s \in Master, Emptied(s), s.alive => Follows(s)
  PROVE  Neat(RpcDeactivate(s))
<1> DEFINE q == IF s.handle = NoPid THEN s.pend ELSE s.cmds
           t == IF s.handle = NoPid THEN [s EXCEPT !.pend = <<>>]
                ELSE [s EXCEPT !.cmds = <<>>]
           u == [t EXCEPT !.pong = "off"]
           v == AnswerNull(u, q)
           w == [v EXCEPT !.handle = NoPid]
<1>1. q \in Seq(Requests)
  BY ZenonT(40) DEF Master
<1>2. t \in Master
  <2>1. <<>> \in Seq(Requests)
    OBVIOUS
  <2>2. [s EXCEPT !.pend = <<>>] \in Master /\ [s EXCEPT !.cmds = <<>>] \in Master
    BY <2>1, ZenonT(40) DEF Master
  <2> QED
    BY <2>2, Zenon
<1>3. /\ t.live = s.live /\ t.fault = s.fault /\ t.alive = s.alive
      /\ t.handle = s.handle
      /\ (s.handle = NoPid => t.pend = <<>> /\ t.cmds = s.cmds)
      /\ (s.handle # NoPid => t.cmds = <<>> /\ t.pend = s.pend)
  BY DEF Master
<1> HIDE DEF t, q
<1>4. /\ u \in Master /\ u.live = t.live /\ u.fault = t.fault /\ u.alive = t.alive
      /\ u.handle = t.handle /\ u.pend = t.pend /\ u.cmds = t.cmds
  BY <1>2 DEF Master
<1> HIDE DEF u
<1>5. Emptied(u) /\ (u.alive => Follows(u) /\ u.cmds = <<>>)
  BY <1>3, <1>4 DEF Emptied, Follows
<1>6. v \in Master /\ Neat(v) /\ v.cmds = u.cmds /\ (v.alive => u.alive)
  BY <1>1, <1>4, <1>5, AnswerNullType, AnswerNullNeat
<1> HIDE DEF v
<1>7. /\ w.pend = v.pend /\ w.cmds = v.cmds /\ w.sent = v.sent /\ w.live = v.live
      /\ w.doomed = v.doomed /\ w.fault = v.fault /\ w.alive = v.alive
      /\ w.handle = NoPid
  BY <1>6 DEF Master
<1> HIDE DEF w
<1>8. \A i : Held(w, i) <=> Held(v, i)
  BY <1>7, HeldSame
<1>9. Neat(w)
  BY <1>5, <1>6, <1>7, <1>8 DEF Neat, Emptied, Clean, Follows
<1>10. RpcDeactivate(s) = w
  BY Zenon DEF RpcDeactivate, q, t, u, v, w
<1> QED
  BY <1>9, <1>10
-----------------------------------------------------------------------------
(* Deactivation *)

LEMMA DeactivatedNeat ==
  ASSUME NEW s \in Master, NEW x \in Inputs, Neat(s)
  PROVE  Neat(Deactivated(s, x))
<1> DEFINE a0 == StopTimers(s)
           a == [a0 EXCEPT !.pid = NoPid, !.state = "TERMINATED", !.refcnt = @ + 1]
           D == IF a.fault THEN a.live ELSE a.live \cap x.dooms
           b == Doom(a, D)
           b1 == RpcDeactivate(b)
           c == Unref(b1)
           c1 == [c EXCEPT !.active = @ - 1]
           d == Unref(c1)
           e == [d EXCEPT !.create = @ - 1]
           f == Unref(e)
           g == Activate(d, x.launch)
<1>1. a0 \in Master /\ SameRequests(s, a0)
  BY StopTimersType, StopTimersSame
<1> HIDE DEF a0
<1>2. a \in Master /\ SameRequests(a0, a)
  <2>1. a0.refcnt + 1 \in Nat /\ NoPid \in Procs \cup {NoPid, RetryPid}
        /\ "TERMINATED" \in States
    BY <1>1, NumberFields DEF States
  <2>2. a \in Master
    BY <1>1, <2>1, ZenonT(40) DEF Master
  <2>3. SameRequests(a0, a)
    BY <1>1 DEF SameRequests, Master
  <2> QED
    BY <2>2, <2>3
<1> HIDE DEF a
<1>3. Neat(a)
  BY <1>1, <1>2, SameRequestsNeat
<1>4. D \in SUBSET Insts
  BY <1>2, SetFields
<1> HIDE DEF D
<1>5. b \in Master /\ Neat(b)
  BY <1>2, <1>3, <1>4, DoomType, DoomNeat DEF Neat
<1> HIDE DEF b
<1>6. b1 \in Master /\ Neat(b1)
  BY <1>5, RpcDeactivateType, RpcDeactivateNeat DEF Neat
<1> HIDE DEF b1
<1>7. c \in Master /\ Neat(c)
  BY <1>6, UnrefType, UnrefSame, SameRequestsNeat
<1> HIDE DEF c
<1>8. c1 \in Master /\ SameRequests(c, c1)
  <2>1. c.active - 1 \in Int
    BY <1>7, NumberFields
  <2>2. c1 \in Master
    BY <1>7, <2>1, ZenonT(40) DEF Master
  <2>3. SameRequests(c, c1)
    BY <1>7 DEF SameRequests, Master
  <2> QED
    BY <2>2, <2>3
<1> HIDE DEF c1
<1>9. d \in Master /\ Neat(d)
  BY <1>7, <1>8, UnrefType, UnrefSame, SameRequestsNeat
<1> HIDE DEF d
<1>10. e \in Master /\ SameRequests(d, e)
  <2>1. d.create - 1 \in Int
    BY <1>9, NumberFields
  <2>2. e \in Master
    BY <1>9, <2>1, ZenonT(40) DEF Master
  <2>3. SameRequests(d, e)
    BY <1>9 DEF SameRequests, Master
  <2> QED
    BY <2>2, <2>3
<1> HIDE DEF e
<1>11. Neat(f)
  BY <1>9, <1>10, UnrefSame, SameRequestsNeat
<1> HIDE DEF f
<1>12. Neat(g)
  BY <1>9, ActivateSame, SameRequestsNeat
<1> HIDE DEF g
<1>13. Deactivated(s, x) \in {c, d, g, f}
  BY Zenon DEF Deactivated, a0, a, D, b, b1, c, c1, d, e, f, g
<1> QED
  BY <1>7, <1>9, <1>11, <1>12, <1>13

LEMMA DeactivateNeat ==
  ASSUME NEW s \in Master, NEW noTimer, NEW x \in Inputs, Neat(s)
  PROVE  Neat(Deactivate(s, noTimer, x))
<1> DEFINE a == [s EXCEPT !.ttlT = FALSE]
           a1 == [a EXCEPT !.state = "TERMINATE"]
           b == TerminatePid(a1, x)
           c == [a EXCEPT !.state = "DISCONNECT"]
           d == [a EXCEPT !.termT = TRUE]
           e == Enqueue(c, "disconnect", FALSE, x.launch)
<1>1. a \in Master /\ SameRequests(s, a)
  <2>1. a \in Master
    BY ZenonT(40) DEF Master
  <2>2. SameRequests(s, a)
    BY DEF SameRequests, Master
  <2> QED
    BY <2>1, <2>2
<1> HIDE DEF a
<1>2. a1 \in Master /\ c \in Master
  BY <1>1, SetState, Zenon DEF States
<1>3. SameRequests(a, a1) /\ SameRequests(a, c) /\ SameRequests(a, d)
      /\ c.state = "DISCONNECT"
  BY <1>1 DEF SameRequests, Master
<1> HIDE DEF a1, c, d
<1>4. Neat(a) /\ Neat(a1) /\ Neat(c) /\ Neat(d)
  BY <1>1, <1>3, SameRequestsNeat
<1>5. b \in Master /\ Neat(b)
  BY <1>2, <1>4, TerminatePidType, TerminatePidSame, SameRequestsNeat
<1> HIDE DEF b
<1>6. Neat(e)
  <2>1. IsActivated(c)
    BY <1>3 DEF IsActivated
  <2>2. "disconnect" \in Requests /\ FALSE \in BOOLEAN
    BY DEF Requests
  <2> QED
    BY <1>2, <1>4, <2>1, <2>2, EnqueueQueued, QueuedNeat
<1> HIDE DEF e
<1>7. Neat(Deactivated(b, x))
  BY <1>5, DeactivatedNeat
<1>8. Deactivate(s, noTimer, x) \in {s, e, a, d, b, Deactivated(b, x)}
  BY Zenon DEF Deactivate, a, a1, b, c, d, e
<1> QED
  BY <1>4, <1>5, <1>6, <1>7, <1>8

LEMMA DeactivateIfEmptiedNeat ==
  ASSUME NEW s, NEW t \in Master, NEW x \in Inputs, Neat(t)
  PROVE  Neat(DeactivateIfEmptied(s, t, x))
BY DeactivateNeat, Zenon DEF DeactivateIfEmptied

LEMMA FaultCbNeat ==
  ASSUME NEW s \in Master, NEW x \in Inputs, Neat(s)
  PROVE  Neat(FaultCb(s, x))
<1> DEFINE a == [s EXCEPT !.refcnt = @ + 1]
           b == [a EXCEPT !.fault = (x.fault = "last")]
           t == Doom(b, b.live)
           u == DeactivateIfEmptied(b, t, x)
           c == IF ~a.pkg \/ a.fault THEN a ELSE u
<1>1. a \in Master /\ SameRequests(s, a)
  <2>1. SameRequests(s, a)
    BY DEF SameRequests, Master
  <2> QED
    BY <2>1, RefType
<1> HIDE DEF a
<1>2. Neat(a)
  BY <1>1, SameRequestsNeat
<1>3. b \in Master
  <2>1. (x.fault = "last") \in BOOLEAN
    OBVIOUS
  <2> QED
    BY <1>1, <2>1, SetFlags
<1>4. /\ b.pend = a.pend /\ b.cmds = a.cmds /\ b.sent = a.sent
      /\ b.live = a.live /\ b.doomed = a.doomed
      /\ b.alive = a.alive /\ b.handle = a.handle
  BY <1>1 DEF Master
<1> HIDE DEF b
<1>5. Clean(b) /\ (b.alive => Follows(b))
  <2>1. \A i : Held(b, i) <=> Held(a, i)
    BY <1>4, HeldSame
  <2> QED
    BY <1>2, <1>4, <2>1 DEF Neat, Clean, Follows
<1>6. t \in Master /\ Neat(t)
  <2>1. b.live \in SUBSET Insts
    BY <1>3, ZenonT(40) DEF Master
  <2> QED
    BY <1>3, <1>5, <2>1, DoomType, DoomNeat
<1> HIDE DEF t
<1>7. u \in Master /\ Neat(u)
  BY <1>6, DeactivateIfEmptiedType, DeactivateIfEmptiedNeat
<1> HIDE DEF u
<1>8. c \in Master /\ Neat(c)
  BY <1>1, <1>2, <1>7, Zenon
<1> HIDE DEF c
<1>9. Neat(Unref(c))
  BY <1>8, UnrefSame, SameRequestsNeat
<1> QED
  BY <1>9, Zenon DEF FaultCb, a, b, c, t, u

LEMMA FlagsSame ==
  ASSUME NEW s \in Master, NEW v, NEW w
  PROVE  /\ SameRequests(s, [s EXCEPT !.reactivate = v, !.reactInst = w])
         /\ SameRequests(s, [s EXCEPT !.relT = v, !.actT = w])
         /\ SameRequests(s, [s EXCEPT !.crit = v, !.streak = w])
BY DEF SameRequests, Master

LEMMA DeactivatedByFaultNeat ==
  ASSUME NEW s \in Master, NEW x \in Inputs, Neat(s)
  PROVE  Neat(DeactivatedByFault(s, x))
<1> DEFINE a    == TerminatePid(s, x)
           soon == x.fault # "slow"
           stop == soon /\ (Loaded(s) = {} \/ s.crit + 1 >= MaxLoad)
           a1   == [a EXCEPT !.crit = 0, !.streak = 0]
           a2   == [a EXCEPT !.crit = 0,
                             !.streak = IF @ < MaxLoad THEN @ + 1 ELSE @]
           a3   == [a EXCEPT !.streak = 0]
           b    == IF stop THEN FaultCb(a1, x) ELSE IF soon THEN a2 ELSE a3
           c    == IF stop THEN [b EXCEPT !.reactivate = FALSE, !.reactInst = FALSE]
                   ELSE [b EXCEPT !.reactivate = TRUE, !.reactInst = TRUE]
           e    == [s EXCEPT !.create = @ - 1]
<1>1. a \in Master /\ Neat(a)
  BY TerminatePidType, TerminatePidSame, SameRequestsNeat
<1> HIDE DEF a
<1>2. a1 \in Master /\ a2 \in Master /\ a3 \in Master
  <2>1. 0 \in 0 .. MaxLoad
    BY ConstantsAssumption
  <2>2. (IF a.streak < MaxLoad THEN a.streak + 1 ELSE a.streak) \in 0 .. MaxLoad
    <3>1. a.streak \in 0 .. MaxLoad
      BY <1>1, ZenonT(40) DEF Master
    <3> QED
      BY <3>1, ConstantsAssumption
  <2>3. a1 \in Master
    BY <1>1, <2>1, ZenonT(40) DEF Master
  <2>4. a2 \in Master
    BY <1>1, <2>1, <2>2, ZenonT(40) DEF Master
  <2>5. a3 \in Master
    BY <1>1, <2>1, ZenonT(40) DEF Master
  <2> QED
    BY <2>3, <2>4, <2>5, Zenon
<1>3. SameRequests(a, a1) /\ SameRequests(a, a2) /\ SameRequests(a, a3)
  BY <1>1 DEF SameRequests, Master
<1> HIDE DEF a1, a2, a3, stop
<1>4. b \in Master /\ Neat(b)
  <2>1. Neat(a1) /\ Neat(a2) /\ Neat(a3)
    BY <1>1, <1>3, SameRequestsNeat
  <2>2. FaultCb(a1, x) \in Master /\ Neat(FaultCb(a1, x))
    BY <1>2, <2>1, FaultCbType, FaultCbNeat
  <2> QED
    BY <1>2, <2>1, <2>2, Zenon
<1> HIDE DEF b
<1>5. c \in Master /\ Neat(c)
  <2>1. TRUE \in BOOLEAN /\ FALSE \in BOOLEAN
    OBVIOUS
  <2>2. c \in Master
    BY <1>4, <2>1, SetFlags, Zenon
  <2>3. SameRequests(b, c)
    BY <1>4, FlagsSame, Zenon
  <2> QED
    BY <1>4, <2>2, <2>3, SameRequestsNeat
<1> HIDE DEF c
<1>6. Neat(Deactivated(c, x))
  BY <1>5, DeactivatedNeat
<1>7. Neat(Unref(e))
  <2>1. s.create - 1 \in Int
    BY NumberFields
  <2>2. e \in Master
    BY <2>1, ZenonT(40) DEF Master
  <2>3. SameRequests(s, e)
    BY DEF SameRequests, Master
  <2> HIDE DEF e
  <2> QED
    BY <2>2, <2>3, UnrefSame, SameRequestsNeat
<1>8. DeactivatedByFault(s, x) \in {b, Deactivated(c, x), Unref(e), s}
  BY Zenon DEF DeactivatedByFault, a, a1, a2, a3, b, stop, c
<1> QED
  BY <1>4, <1>6, <1>7, <1>8

LEMMA SlaveFaultNeat ==
  ASSUME NEW s \in Master, NEW x \in Inputs, Neat(s)
  PROVE  Neat(SlaveFault(s, x))
<1> DEFINE a == FaultCb(s, x)
           b == [a EXCEPT !.reactivate = FALSE, !.reactInst = FALSE]
           c == IF b.pid \in Procs /\ "term" \in b.ctrl
                THEN Enqueue(b, "disconnect", FALSE, x.launch)
                ELSE TerminatePid(b, x)
<1>1. a \in Master /\ Neat(a)
  BY FaultCbType, FaultCbNeat
<1> HIDE DEF a
<1>2. b \in Master /\ Neat(b)
  <2>1. b \in Master
    BY <1>1, ZenonT(40) DEF Master
  <2> QED
    BY <1>1, <2>1, FlagsSame, SameRequestsNeat
<1> HIDE DEF b
<1>3. c \in Master /\ Neat(c)
  <2>1. CASE b.pid \in Procs /\ "term" \in b.ctrl
    <3>1. b.pid # NoPid
      BY <2>1, ConstantsAssumption DEF NoPid
    <3>2. "disconnect" \in Requests /\ FALSE \in BOOLEAN
      BY DEF Requests
    <3>3. LET e == Enqueue(b, "disconnect", FALSE, x.launch)
          IN  e \in Master /\ Neat(e)
      BY <1>2, <3>1, <3>2, EnqueueType, EnqueueQueued, QueuedNeat
    <3> QED
      BY <2>1, <3>3, Zenon
  <2>2. CASE ~(b.pid \in Procs /\ "term" \in b.ctrl)
    <3>1. TerminatePid(b, x) \in Master /\ Neat(TerminatePid(b, x))
      BY <1>2, TerminatePidType, TerminatePidSame, SameRequestsNeat
    <3> QED
      BY <2>2, <3>1, Zenon
  <2> QED
    BY <2>1, <2>2, Zenon
<1> HIDE DEF c
<1>4. Neat(Deactivated(c, x))
  BY <1>3, DeactivatedNeat
<1>5. SlaveFault(s, x) \in {a, c, Deactivated(c, x)}
  BY Zenon DEF SlaveFault, a, b, c
<1> QED
  BY <1>1, <1>3, <1>4, <1>5
-----------------------------------------------------------------------------
(* Activation *)

LEMMA ConcatRange ==
  ASSUME NEW p \in Seq(Requests), NEW q \in Seq(Requests)
  PROVE  RangeOf(p) \subseteq RangeOf(p \o q) /\ RangeOf(q) \subseteq RangeOf(p \o q)
<1>1. \A k \in DOMAIN p : (p \o q)[k] = p[k] /\ k \in DOMAIN (p \o q)
  OBVIOUS
<1>2. \A k \in DOMAIN q : (p \o q)[Len(p) + k] = q[k] /\ Len(p) + k \in DOMAIN (p \o q)
  OBVIOUS
<1> QED
  BY <1>1, <1>2 DEF RangeOf

LEMMA SameQueued ==
  ASSUME NEW s, NEW t, SameRequests(s, t), t.alive <=> s.alive, t.handle = s.handle
  PROVE  Queued(s, t)
BY DEF SameRequests, Queued

LEMMA ActivatedQueued ==
  ASSUME NEW s \in Master, NEW x \in Inputs, x.launch \in LaunchResults,
         s.handle # NoPid
  PROVE  Queued(s, Activated(s, x))
<1> DEFINE a == IF s.xpaused THEN Pause(s, x.launch) ELSE Resume(s, x.launch)
           b == IF UsesTtl THEN [a EXCEPT !.ttlT = TRUE] ELSE a
           q == RecoverList(b)
           b1 == Activate(b, x.launch)
           b2 == [b1 EXCEPT !.cmds = q \o @, !.refcnt = @ + Len(q)]
           c == IF b.reactInst /\ q # <<>> THEN b2 ELSE b
           t == [c EXCEPT !.reactivate = FALSE, !.reactInst = FALSE,
                          !.actT = FALSE, !.relT = FALSE]
<1>1. a \in Master /\ Queued(s, a)
  BY PauseType, PauseQueued, Zenon
<1> HIDE DEF a
<1>2. b \in Master /\ Queued(a, b)
  <2> DEFINE a1 == [a EXCEPT !.ttlT = TRUE]
  <2>1. a1 \in Master
    BY <1>1, ZenonT(40) DEF Master
  <2>2. Queued(a, a1) /\ Queued(a, a)
    BY <1>1 DEF Queued, Master
  <2> HIDE DEF a1
  <2>3. b = a1 \/ b = a
    BY Zenon DEF a1
  <2> QED
    BY <1>1, <2>1, <2>2, <2>3
<1> HIDE DEF b
<1>3. Queued(s, b)
  BY <1>1, <1>2, QueuedTrans
<1>4. q \in Seq(Requests)
  BY <1>2, RecoverListType
<1>5. b1 \in Master /\ Queued(b, b1)
  BY <1>2, ActivateType, ActivateSame, SameQueued
<1> HIDE DEF b1, q
<1>6. b2 \in Master /\ Queued(b1, b2)
  <2>1. b1.cmds \in Seq(Requests) /\ b1.refcnt \in Nat
    BY <1>5, ZenonT(40) DEF Master
  <2>2. q \o b1.cmds \in Seq(Requests) /\ b1.refcnt + Len(q) \in Nat
    BY <1>4, <2>1
  <2>3. b2 \in Master
    BY <1>5, <2>2, ZenonT(40) DEF Master
  <2>4. RangeOf(b1.cmds) \subseteq RangeOf(q \o b1.cmds)
    BY <1>4, <2>1, ConcatRange
  <2>5. /\ b2.pend = b1.pend /\ b2.cmds = q \o b1.cmds /\ b2.sent = b1.sent
        /\ b2.live = b1.live /\ b2.doomed = b1.doomed /\ b2.fault = b1.fault
        /\ b2.handle = b1.handle /\ b2.alive = b1.alive
    BY <1>5 DEF Master
  <2>6. b1.handle # NoPid
    BY <1>3, <1>5 DEF Queued
  <2> HIDE DEF b2
  <2> QED
    BY <2>3, <2>4, <2>5, <2>6 DEF Queued
<1> HIDE DEF b2
<1>7. c \in Master /\ Queued(s, c)
  <2>1. Queued(s, b2)
    BY <1>3, <1>5, <1>6, QueuedTrans
  <2>2. c = b2 \/ c = b
    BY Zenon
  <2> HIDE DEF c
  <2> QED
    BY <1>2, <1>3, <1>6, <2>1, <2>2
<1> HIDE DEF c
<1>8. Queued(c, t)
  BY <1>7 DEF Queued, Master
<1>9. Activated(s, x) = t
  BY Zenon DEF Activated, a, b, q, b1, b2, c, t
<1> QED
  BY <1>7, <1>8, <1>9, QueuedTrans

LEMMA UpdateHandleNeat ==
  ASSUME NEW s \in Master, NEW h \in Procs, NEW x \in Inputs,
         x.launch \in LaunchResults, Neat(s)
  PROVE  Neat(UpdateHandle(s, h, x))
<1> DEFINE s1 == [s EXCEPT !.handle = h, !.pong = "on"]
           a == Activated(s1, x)
           t == [a EXCEPT !.cmds = @ \o a.pend, !.pend = <<>>]
<1>1. s1 \in Master
  <2>1. h \in Procs \cup {NoPid}
    OBVIOUS
  <2> QED
    BY <2>1, ZenonT(40) DEF Master
<1>2. /\ s1.pend = s.pend /\ s1.cmds = s.cmds /\ s1.sent = s.sent
      /\ s1.live = s.live /\ s1.doomed = s.doomed /\ s1.fault = s.fault
      /\ s1.handle = h
  BY DEF Master
<1> HIDE DEF s1
<1>3. h # NoPid
  BY ConstantsAssumption DEF NoPid
<1>4. a \in Master /\ Queued(s1, a)
  BY <1>1, <1>2, <1>3, ActivatedType, ActivatedQueued
<1> HIDE DEF a
<1>5. /\ t.cmds = a.cmds \o a.pend /\ t.pend = <<>> /\ t.sent = a.sent
      /\ t.live = a.live /\ t.doomed = a.doomed /\ t.fault = a.fault
      /\ t.handle = a.handle
  BY <1>4 DEF Master
<1>6. a.cmds \in Seq(Requests) /\ a.pend \in Seq(Requests)
  BY <1>4, QueueFacts
<1> HIDE DEF t
<1>7. RangeOf(a.pend) \cup RangeOf(a.cmds) \subseteq RangeOf(t.pend) \cup RangeOf(t.cmds)
  BY <1>5, <1>6, ConcatRange
<1>8. \A i : Held(s, i) => Held(t, i)
  <2>1. RangeOf(s.pend) \cup RangeOf(s.cmds) \subseteq RangeOf(t.pend) \cup RangeOf(t.cmds)
    BY <1>2, <1>4, <1>7 DEF Queued
  <2>2. t.sent = s.sent
    BY <1>2, <1>4, <1>5 DEF Queued
  <2> QED
    BY <2>1, <2>2, HeldMore
<1>9. Neat(t)
  BY <1>2, <1>3, <1>4, <1>5, <1>8 DEF Queued, Neat, Emptied, Clean, Follows
<1>10. UpdateHandle(s, h, x) = t
  BY Zenon DEF UpdateHandle, s1, a, t
<1> QED
  BY <1>9, <1>10

LEMMA DeadMonitorNeat ==
  ASSUME NEW s \in Master, NEW p, NEW x \in Inputs, Neat(s)
  PROVE  Neat(DeadMonitor(s, p, x))
<1> DEFINE a == [s EXCEPT !.wait = FALSE, !.reactivate = FALSE, !.reactInst = TRUE]
<1>1. a \in Master
  BY ZenonT(40) DEF Master
<1>2. SameRequests(s, a)
  BY DEF SameRequests, Master
<1> HIDE DEF a
<1>3. Neat(Deactivated(s, x)) /\ Neat(Deactivated(a, x)) /\ Neat(DeactivatedByFault(s, x))
  BY <1>1, <1>2, SameRequestsNeat, DeactivatedNeat, DeactivatedByFaultNeat
<1>4. DeadMonitor(s, p, x) \in
        {s, Deactivated(s, x), Deactivated(a, x), DeactivatedByFault(s, x)}
  BY Zenon DEF DeadMonitor, a
<1> QED
  BY <1>3, <1>4
-----------------------------------------------------------------------------
(* The main loop *)

LEMMA NeatRun ==
  ASSUME NEW t, Step(t), Neat(t)
  PROVE  Neat(m')
BY DEF Step

\* A run that sets fields that requests and instances do not depend on
LEMMA SameRun ==
  ASSUME NEW t, Step(t), SameRequests(m, t), Neat(m)
  PROVE  Neat(m')
BY SameRequestsNeat, NeatRun

LEMMA CreateInstanceNeat ==
  ASSUME TypeOK, Books, Sound, Neat(m), NEW i \in Insts, NEW x \in Launching,
         CreateInstance(i, x)
  PROVE  Neat(m')
<1> DEFINE v == NewSlave(m)
           s == IF m.alive THEN m ELSE v
           s1 == [s EXCEPT !.pkg = TRUE, !.refcnt = @ + 1]
           t == IF s.pkg THEN s ELSE s1
           u == [t EXCEPT !.live = @ \cup {i}]
           a == Activate(u, x.launch)
           b == Enqueue(a, i, TRUE, x.launch)
<1>1. m \in Master /\ x.launch \in LaunchResults /\ i \in Requests /\ ~m.fault
  BY InputsOfRuns DEF TypeOK, Requests, CreateInstance, Creatable
<1>2. Step(b)
  BY Zenon DEF CreateInstance
<1>3. s \in Master /\ Neat(s) /\ ~s.fault
  <2>1. CASE m.alive
    BY <1>1, <2>1
  <2>2. CASE ~m.alive
    <3>1. v \in Master
      BY <1>1, NewSlaveType
    <3>2. /\ v.handle = NoPid /\ v.pend = m.pend /\ v.cmds = m.cmds /\ v.sent = m.sent
          /\ v.live = m.live /\ v.doomed = m.doomed /\ v.fault = m.fault
      BY <1>1 DEF NewSlave, Master
    <3> HIDE DEF v
    <3>3. m.cmds = <<>>
      BY <2>2, NothingLeft
    <3>4. \A j : Held(v, j) <=> Held(m, j)
      BY <3>2, HeldSame
    <3>5. Neat(v)
      BY <3>2, <3>3, <3>4 DEF Neat, Emptied, Clean, Follows
    <3> QED
      BY <1>1, <2>2, <3>1, <3>2, <3>5
  <2> QED
    BY <2>1, <2>2
<1> HIDE DEF s
<1>4. t \in Master /\ SameRequests(s, t)
  <2>1. s.refcnt + 1 \in Nat
    BY <1>3, NumberFields
  <2>2. s1 \in Master
    BY <1>3, <2>1, ZenonT(40) DEF Master
  <2>3. SameRequests(s, s1) /\ SameRequests(s, s)
    BY <1>3 DEF SameRequests, Master
  <2> HIDE DEF s1
  <2>4. t = s \/ t = s1
    BY Zenon
  <2> HIDE DEF t
  <2> QED
    BY <1>3, <2>2, <2>3, <2>4
<1> HIDE DEF t
<1>5. Neat(t) /\ ~t.fault
  BY <1>3, <1>4, SameRequestsNeat DEF SameRequests
<1>6. u \in Master
  <2>1. t.live \cup {i} \in SUBSET Insts
    BY <1>4, SetFields
  <2> QED
    BY <1>4, <2>1, ZenonT(40) DEF Master
<1>7. Neat(u)
  <2>1. /\ u.pend = t.pend /\ u.cmds = t.cmds /\ u.sent = t.sent
        /\ u.doomed = t.doomed /\ u.fault = t.fault
        /\ u.alive = t.alive /\ u.handle = t.handle
    BY <1>4 DEF Master
  <2> HIDE DEF u
  <2>2. \A j : Held(u, j) <=> Held(t, j)
    BY <2>1, HeldSame
  <2> QED
    BY <1>5, <2>1, <2>2 DEF Neat, Emptied, Clean, Follows
<1> HIDE DEF u
<1>8. a \in Master /\ Neat(a)
  BY <1>1, <1>6, <1>7, ActivateType, ActivateSame, SameRequestsNeat
<1> HIDE DEF a
<1>9. Neat(b)
  BY <1>1, <1>8, EnqueueQueued, QueuedNeat
<1> QED
  BY <1>2, <1>9, NeatRun

LEMMA RequestInstanceNeat ==
  ASSUME TypeOK, Neat(m), NEW i \in Insts, NEW x \in Launching,
         RequestInstance(i, x) \/ ReactivateInstance(i, x)
  PROVE  Neat(m')
<1> DEFINE a == Activate(m, x.launch)
<1>1. x.launch \in LaunchResults /\ i \in Requests /\ m \in Master
  BY InputsOfRuns DEF Requests, TypeOK
<1>2. a \in Master /\ Neat(a)
  BY <1>1, ActivateType, ActivateSame, SameRequestsNeat
<1>3. Step(Enqueue(m, i, FALSE, x.launch)) \/ Step(Enqueue(a, i, TRUE, x.launch))
  BY Zenon DEF RequestInstance, ReactivateInstance
<1> HIDE DEF a
<1>4. Neat(Enqueue(m, i, FALSE, x.launch)) /\ Neat(Enqueue(a, i, TRUE, x.launch))
  BY <1>1, <1>2, EnqueueQueued, QueuedNeat
<1> QED
  BY <1>3, <1>4, NeatRun

LEMMA InstanceDeletedNeat ==
  ASSUME TypeOK, Neat(m), NEW i \in Insts, NEW x \in Stopping, InstanceDeleted(i, x)
  PROVE  Neat(m')
<1>1. x \in Inputs /\ {i} \in SUBSET Insts /\ m \in Master
  BY InputsOfRuns DEF TypeOK
<1>2. Doom(m, {i}) \in Master /\ Neat(Doom(m, {i}))
  BY <1>1, DoomType, DoomNeat DEF Neat
<1>3. Neat(DeactivateIfEmptied(m, Doom(m, {i}), x))
  BY <1>1, <1>2, DeactivateIfEmptiedNeat
<1> QED
  BY <1>3, NeatRun, Zenon DEF InstanceDeleted

LEMMA PackageActionsNeat ==
  ASSUME TypeOK, Neat(m),
         \/ ClearFault
         \/ \E b \in BOOLEAN : WaitDeactivation(b)
         \/ \E i \in Insts : UninstallInstance(i)
  PROVE  Neat(m')
<1>1. m \in Master
  BY DEF TypeOK
<1>2. CASE ClearFault
  <2> DEFINE t == [m EXCEPT !.fault = FALSE]
  <2>1. /\ t.pend = m.pend /\ t.cmds = m.cmds /\ t.sent = m.sent
        /\ t.live = m.live /\ t.doomed = m.doomed /\ ~t.fault
        /\ t.alive = m.alive /\ t.handle = m.handle
    BY <1>1 DEF Master
  <2>2. Step(t)
    BY <1>2 DEF ClearFault
  <2> HIDE DEF t
  <2>3. \A j : Held(t, j) <=> Held(m, j)
    BY <2>1, HeldSame
  <2>4. Neat(t)
    BY <2>1, <2>3 DEF Neat, Emptied, Clean, Follows
  <2> QED
    BY <2>2, <2>4, NeatRun
<1>3. ASSUME NEW b \in BOOLEAN, WaitDeactivation(b)
      PROVE  Neat(m')
  <2>1. SameRequests(m, [m EXCEPT !.wait = b])
    BY <1>1 DEF SameRequests, Master
  <2> QED
    BY <1>3, <2>1, SameRun, Zenon DEF WaitDeactivation
<1>4. ASSUME NEW i \in Insts, UninstallInstance(i)
      PROVE  Neat(m')
  <2>1. Neat(Doom(m, {i}))
    BY <1>1, DoomNeat DEF Neat
  <2> QED
    BY <1>4, <2>1, NeatRun, Zenon DEF UninstallInstance
<1> QED
  BY <1>2, <1>3, <1>4

LEMMA DeactivateAllNeat ==
  ASSUME TypeOK, Neat(m), NEW x \in Stopping, DeactivateAll(x)
  PROVE  Neat(m')
<1> DEFINE s == [m EXCEPT !.signals = @ + 1]
           a == [s EXCEPT !.reactInst = TRUE, !.reactivate = FALSE]
<1>1. s \in Master /\ SameRequests(m, s)
  <2>1. m \in Master /\ m.signals < MaxSignals
    BY DEF TypeOK, DeactivateAll
  <2>2. m.signals \in 0 .. MaxSignals
    BY <2>1, ZenonT(40) DEF Master
  <2>3. m.signals + 1 \in 0 .. MaxSignals
    BY <2>1, <2>2, ConstantsAssumption
  <2>4. s \in Master
    BY <2>1, <2>3, ZenonT(40) DEF Master
  <2>5. SameRequests(m, s)
    BY <2>1 DEF SameRequests, Master
  <2> QED
    BY <2>4, <2>5
<1>2. Step(s) \/ Step(Deactivate(a, TRUE, x))
  BY Zenon DEF DeactivateAll, s, a
<1> HIDE DEF s
<1>3. Neat(s)
  BY <1>1, SameRequestsNeat
<1>4. a \in Master /\ SameRequests(s, a)
  <2>1. a \in Master
    BY <1>1, ZenonT(40) DEF Master
  <2>2. SameRequests(s, a)
    BY <1>1 DEF SameRequests, Master
  <2> QED
    BY <2>1, <2>2
<1> HIDE DEF a
<1>5. Neat(Deactivate(a, TRUE, x))
  <2>1. Neat(a) /\ x \in Inputs
    BY <1>3, <1>4, SameRequestsNeat, InputsOfRuns
  <2> QED
    BY <1>4, <2>1, DeactivateNeat
<1> QED
  BY <1>2, <1>3, <1>5, NeatRun

LEMMA ActivateAllNeat ==
  ASSUME TypeOK, Neat(m), NEW x \in Launching, ActivateAll(x)
  PROVE  Neat(m')
<1> DEFINE s == [m EXCEPT !.signals = @ - 1]
<1>1. s \in Master /\ SameRequests(m, s)
  <2>1. m \in Master /\ m.signals > 0
    BY DEF TypeOK, ActivateAll
  <2>2. m.signals \in 0 .. MaxSignals
    BY <2>1, ZenonT(40) DEF Master
  <2>3. m.signals - 1 \in 0 .. MaxSignals
    BY <2>1, <2>2, ConstantsAssumption
  <2>4. s \in Master
    BY <2>1, <2>3, ZenonT(40) DEF Master
  <2>5. SameRequests(m, s)
    BY <2>1 DEF SameRequests, Master
  <2> QED
    BY <2>4, <2>5
<1>2. Step(s) \/ Step(Activate(s, x.launch))
  BY Zenon DEF ActivateAll, s
<1> HIDE DEF s
<1>3. Neat(s)
  BY <1>1, SameRequestsNeat
<1>4. Neat(Activate(s, x.launch))
  BY <1>1, <1>3, ActivateSame, SameRequestsNeat
<1> QED
  BY <1>2, <1>3, <1>4, NeatRun

LEMMA XMonitorNeat ==
  ASSUME TypeOK, Neat(m), NEW x \in Launching, XMonitor(x)
  PROVE  Neat(m')
<1> DEFINE v == IF m.xpaused THEN FALSE ELSE TRUE
           s == [m EXCEPT !.xpaused = v]
<1>1. m \in Master /\ v \in BOOLEAN /\ x.launch \in LaunchResults
  BY InputsOfRuns, Zenon DEF TypeOK
<1>2. ~m.xpaused = v
  <2>1. m.xpaused \in BOOLEAN
    BY <1>1, ZenonT(40) DEF Master
  <2> QED
    BY <2>1
<1>3. [m EXCEPT !.xpaused = ~@] = s
  BY <1>2, Zenon
<1> HIDE DEF v
<1>4. s \in Master /\ SameRequests(m, s)
  <2>1. s \in Master
    BY <1>1, ZenonT(40) DEF Master
  <2>2. SameRequests(m, s)
    BY <1>1 DEF SameRequests, Master
  <2> QED
    BY <2>1, <2>2
<1>5. Step(s) \/ Step(Pause(s, x.launch)) \/ Step(Resume(s, x.launch))
  <2>1. s.alive \in BOOLEAN /\ s.xpaused \in BOOLEAN
    BY <1>4, ZenonT(40) DEF Master
  <2>2. Step(CASE ~s.alive             -> s
               [] s.alive /\ s.xpaused  -> Pause(s, x.launch)
               [] s.alive /\ ~s.xpaused -> Resume(s, x.launch))
    BY <1>3, Zenon DEF XMonitor
  <2> HIDE DEF s
  <2>3. CASE ~s.alive
    BY <2>2, <2>3
  <2>4. CASE s.alive /\ s.xpaused
    BY <2>2, <2>4
  <2>5. CASE s.alive /\ ~s.xpaused
    BY <2>2, <2>5
  <2> QED
    BY <2>3, <2>4, <2>5
<1> HIDE DEF s
<1>6. Neat(s)
  BY <1>4, SameRequestsNeat
<1>7. Neat(Pause(s, x.launch)) /\ Neat(Resume(s, x.launch))
  BY <1>1, <1>4, <1>6, PauseQueued, QueuedNeat
<1> QED
  BY <1>5, <1>6, <1>7, NeatRun
-----------------------------------------------------------------------------
(* Timers of the slave *)

LEMMA TerminateTimerNeat ==
  ASSUME TypeOK, Neat(m), NEW x \in Stopping, TerminateTimer(x)
  PROVE  Neat(m')
<1> DEFINE s == [m EXCEPT !.state = "TERMINATE", !.termT = FALSE]
           a == TerminatePid(s, x)
<1>1. s \in Master /\ SameRequests(m, s)
  <2>1. m \in Master /\ "TERMINATE" \in States
    BY DEF TypeOK, States
  <2>2. s \in Master
    BY <2>1, ZenonT(40) DEF Master
  <2>3. SameRequests(m, s)
    BY <2>1 DEF SameRequests, Master
  <2> QED
    BY <2>2, <2>3
<1>2. Step(a) \/ Step(Deactivated(a, x))
  BY Zenon DEF TerminateTimer
<1> HIDE DEF s
<1>3. x \in Inputs
  BY InputsOfRuns
<1>4. a \in Master /\ SameRequests(s, a)
  BY <1>1, <1>3, TerminatePidType, TerminatePidSame
<1> HIDE DEF a
<1>5. Neat(a)
  BY <1>1, <1>4, SameRequestsNeat
<1>6. Neat(Deactivated(a, x))
  BY <1>3, <1>4, <1>5, DeactivatedNeat
<1> QED
  BY <1>2, <1>5, <1>6, NeatRun

LEMMA TtlTimerNeat ==
  ASSUME TypeOK, Neat(m), NEW x \in Stopping, TtlTimer(x)
  PROVE  Neat(m')
<1> DEFINE a == [m EXCEPT !.ttlT = FALSE]
           b == [a EXCEPT !.reactivate = FALSE, !.reactInst = TRUE]
<1>1. a \in Master /\ SameRequests(m, a)
  <2>1. m \in Master
    BY DEF TypeOK
  <2>2. a \in Master
    BY <2>1, ZenonT(40) DEF Master
  <2>3. SameRequests(m, a)
    BY <2>1 DEF SameRequests, Master
  <2> QED
    BY <2>2, <2>3
<1>2. Step(a) \/ Step(Deactivate(b, TRUE, x))
  BY Zenon DEF TtlTimer
<1> HIDE DEF a
<1>3. b \in Master /\ SameRequests(a, b)
  <2>1. b \in Master
    BY <1>1, ZenonT(40) DEF Master
  <2> QED
    BY <1>1, <2>1, FlagsSame
<1> HIDE DEF b
<1>4. Neat(a) /\ Neat(b)
  BY <1>1, <1>3, SameRequestsNeat
<1>5. Neat(Deactivate(b, TRUE, x))
  BY <1>3, <1>4, InputsOfRuns, DeactivateNeat
<1> QED
  BY <1>2, <1>4, <1>5, NeatRun

LEMMA ActivateTimerNeat ==
  ASSUME TypeOK, Neat(m), NEW x \in Failing, ActivateTimer(x)
  PROVE  Neat(m')
<1> DEFINE s == [m EXCEPT !.relT = FALSE, !.actT = FALSE]
           a == FaultCb(s, x)
           b == [a EXCEPT !.reactivate = FALSE, !.reactInst = FALSE]
           c == TerminatePid(b, x)
<1>1. s \in Master /\ SameRequests(m, s)
  <2>1. m \in Master
    BY DEF TypeOK
  <2>2. s \in Master
    BY <2>1, ZenonT(40) DEF Master
  <2> QED
    BY <2>1, <2>2, FlagsSame
<1>2. Step(a) \/ Step(Deactivated(c, x))
  BY Zenon DEF ActivateTimer
<1> HIDE DEF s
<1>3. x \in Inputs
  BY InputsOfRuns
<1>4. a \in Master /\ Neat(a)
  BY <1>1, <1>3, SameRequestsNeat, FaultCbType, FaultCbNeat
<1> HIDE DEF a
<1>5. b \in Master /\ SameRequests(a, b)
  <2>1. b \in Master
    BY <1>4, SetFlags, Zenon
  <2> QED
    BY <1>4, <2>1, FlagsSame
<1> HIDE DEF b
<1>6. c \in Master /\ SameRequests(b, c)
  BY <1>3, <1>5, TerminatePidType, TerminatePidSame
<1> HIDE DEF c
<1>7. Neat(c)
  BY <1>4, <1>5, <1>6, SameRequestsNeat
<1>8. Neat(Deactivated(c, x))
  BY <1>3, <1>6, <1>7, DeactivatedNeat
<1> QED
  BY <1>2, <1>4, <1>8, NeatRun

LEMMA RelaunchTimerNeat ==
  ASSUME TypeOK, Neat(m), NEW x \in Relaunching, RelaunchTimer(x)
  PROVE  Neat(m')
<1> DEFINE a == [m EXCEPT !.relT = FALSE, !.actT = FALSE]
           b == [a EXCEPT !.pid = NoPid]
           c == [m EXCEPT !.relaunch = @ - 1, !.pid = NoPid]
           d == [m EXCEPT !.pid = x.launch, !.relT = FALSE, !.mine = @ \cup {x.launch}]
<1>1. m \in Master /\ x \in Inputs
  BY InputsOfRuns DEF TypeOK
<1>2. Step(SlaveFault(a, x)) \/ Step(SlaveFault(b, x)) \/ Step(c) \/ Step(d)
  BY Zenon DEF RelaunchTimer
<1>3. SameRequests(m, c) /\ SameRequests(m, d)
  BY <1>1 DEF SameRequests, Master
<1> HIDE DEF c, d
<1>4. a \in Master /\ SameRequests(m, a)
  <2>1. a \in Master
    BY <1>1, ZenonT(40) DEF Master
  <2> QED
    BY <1>1, <2>1, FlagsSame
<1> HIDE DEF a
<1>5. b \in Master /\ SameRequests(a, b)
  <2>1. NoPid \in Procs \cup {NoPid, RetryPid}
    OBVIOUS
  <2>2. b \in Master
    BY <1>4, <2>1, ZenonT(40) DEF Master
  <2>3. SameRequests(a, b)
    BY <1>4 DEF SameRequests, Master
  <2> QED
    BY <2>2, <2>3
<1> HIDE DEF b
<1>6. Neat(a) /\ Neat(b)
  BY <1>4, <1>5, SameRequestsNeat
<1>7. Neat(SlaveFault(a, x)) /\ Neat(SlaveFault(b, x))
  BY <1>1, <1>4, <1>5, <1>6, SlaveFaultNeat
<1> QED
  BY <1>2, <1>3, <1>7, NeatRun, SameRun

LEMMA PingTimeoutNeat ==
  ASSUME TypeOK, Neat(m), NEW x \in Failing, PingTimeout(x)
  PROVE  Neat(m')
<1> DEFINE a == [m EXCEPT !.pong = "off"]
<1>1. a \in Master /\ SameRequests(m, a)
  <2>1. m \in Master
    BY DEF TypeOK
  <2>2. a \in Master
    BY <2>1, ZenonT(40) DEF Master
  <2>3. SameRequests(m, a)
    BY <2>1 DEF SameRequests, Master
  <2> QED
    BY <2>2, <2>3
<1>2. Step(a) \/ Step(DeactivatedByFault(a, x))
  BY Zenon DEF PingTimeout
<1> HIDE DEF a
<1>3. Neat(a)
  BY <1>1, SameRequestsNeat
<1>4. Neat(DeactivatedByFault(a, x))
  BY <1>1, <1>3, InputsOfRuns, DeactivatedByFaultNeat
<1> QED
  BY <1>2, <1>3, <1>4, NeatRun
-----------------------------------------------------------------------------
(* Requests on their way to the provider and back *)

LEMMA TailRange ==
  ASSUME NEW q \in Seq(Requests), q # <<>>
  PROVE  RangeOf(q) \subseteq {Head(q)} \cup RangeOf(Tail(q))
<1>1. ASSUME NEW k \in DOMAIN q
      PROVE  q[k] = Head(q) \/ (k - 1 \in DOMAIN Tail(q) /\ q[k] = Tail(q)[k - 1])
  <2>1. k = 1 \/ k - 1 \in 1 .. Len(q) - 1
    BY <1>1
  <2>2. DOMAIN Tail(q) = 1 .. Len(q) - 1
    OBVIOUS
  <2> QED
    BY <2>1, <2>2
<1> QED
  BY <1>1 DEF RangeOf

LEMMA AppendRange ==
  ASSUME NEW q \in Seq(Requests), NEW c \in Requests
  PROVE  RangeOf(q) \cup {c} \subseteq RangeOf(Append(q, c))
<1>1. RangeOf(q) \subseteq RangeOf(Append(q, c))
  BY InsertRange
<1>2. Len(q) + 1 \in DOMAIN Append(q, c) /\ Append(q, c)[Len(q) + 1] = c
  OBVIOUS
<1> QED
  BY <1>1, <1>2 DEF RangeOf

LEMMA ConsumeNeat ==
  ASSUME TypeOK, Books, Sound, Neat(m), Consume
  PROVE  Neat(m')
<1> DEFINE c == Head(m.cmds)
           a == [m EXCEPT !.cmds = Tail(@)]
           b == [a EXCEPT !.asked = @ \cup {a.handle}]
           d == [a EXCEPT !.sent[a.handle] = Append(@, c)]
<1>1. m \in Master /\ m.cmds # <<>> /\ m.alive /\ m.doomed \subseteq Insts
  <2>1. m \in Master /\ m.cmds # <<>>
    BY DEF TypeOK, Consume
  <2> QED
    BY <2>1, AliveWhenUsed, SetFields
<1>2. \/ Step(AnswerNull(a, <<c>>))
      \/ a.handle # NoPid /\ c = "disconnect" /\ Step(Unref(b))
      \/ a.handle # NoPid /\ Step(d)
  BY Zenon DEF Consume
<1>3. /\ m.cmds \in Seq(Requests) /\ c \in Requests /\ Tail(m.cmds) \in Seq(Requests)
      /\ RangeOf(m.cmds) \subseteq {c} \cup RangeOf(Tail(m.cmds))
  <2>1. m.cmds \in Seq(Requests)
    BY <1>1, QueueFacts
  <2> QED
    BY <1>1, <2>1, TailRange
<1>4. m.handle # NoPid /\ m.pend = <<>>
  BY <1>1 DEF Neat, Follows
<1>5. /\ a.pend = m.pend /\ a.cmds = Tail(m.cmds) /\ a.sent = m.sent
      /\ a.live = m.live /\ a.doomed = m.doomed /\ a.fault = m.fault
      /\ a.handle = m.handle /\ a.alive = m.alive
  BY <1>1 DEF Master
<1>6. a \in Master
  BY <1>1, <1>3, ZenonT(40) DEF Master
<1> HIDE DEF a, c
<1>7. Emptied(a) /\ (a.alive => Follows(a))
  BY <1>4, <1>5 DEF Neat, Emptied, Follows
<1>8. CASE Step(AnswerNull(a, <<c>>))
  <2>1. <<c>> \in Seq(Requests)
    BY <1>3
  <2>2. Neat(AnswerNull(a, <<c>>))
    BY <1>6, <1>7, <2>1, AnswerNullNeat
  <2> QED
    BY <1>8, <2>2, NeatRun
<1>9. a.handle \in Procs
  <2>1. a.handle \in Procs \cup {NoPid}
    BY <1>6, ZenonT(40) DEF Master
  <2> QED
    BY <1>4, <1>5, <2>1
<1>10. CASE c = "disconnect" /\ Step(Unref(b))
  <2>1. c \notin Insts
    BY <1>10, ConstantsAssumption
  <2>2. Clean(a)
    BY <1>1, <1>3, <1>5, <2>1 DEF Neat, Clean, Held
  <2>3. b \in Master
    <3>1. a.asked \cup {a.handle} \in SUBSET Procs
      BY <1>6, <1>9, SetFields
    <3> QED
      BY <1>6, <3>1, ZenonT(40) DEF Master
  <2>4. SameRequests(a, b)
    BY <1>6 DEF SameRequests, Master
  <2> HIDE DEF b
  <2>5. Neat(Unref(b))
    BY <1>7, <2>2, <2>3, <2>4, UnrefSame, SameRequestsNeat DEF Neat
  <2> QED
    BY <1>10, <2>5, NeatRun
<1>11. CASE Step(d)
  <2>1. a.sent \in [Procs -> Seq(Requests)]
    BY <1>6, ZenonT(40) DEF Master
  <2>2. /\ d.pend = a.pend /\ d.cmds = a.cmds
        /\ d.sent = [a.sent EXCEPT ![a.handle] = Append(@, c)]
        /\ d.live = a.live /\ d.doomed = a.doomed /\ d.fault = a.fault
        /\ d.handle = a.handle /\ d.alive = a.alive
    BY <1>6 DEF Master
  <2> HIDE DEF d
  <2>3. RangeOf(a.sent[a.handle]) \cup {c} \subseteq RangeOf(d.sent[a.handle])
    <3>1. a.sent[a.handle] \in Seq(Requests)
      BY <1>9, <2>1
    <3>2. d.sent[a.handle] = Append(a.sent[a.handle], c)
      BY <1>9, <2>1, <2>2
    <3> QED
      BY <1>3, <3>1, <3>2, AppendRange
  <2>4. \A p \in Procs : RangeOf(a.sent[p]) \subseteq RangeOf(d.sent[p])
    BY <1>9, <2>1, <2>2, <2>3
  <2>5. \A i : Held(m, i) => Held(d, i)
    BY <1>3, <1>5, <1>9, <2>2, <2>3, <2>4 DEF Held
  <2>6. Neat(d)
    BY <1>4, <1>5, <2>2, <2>5 DEF Neat, Emptied, Clean, Follows
  <2> QED
    BY <1>11, <2>6, NeatRun
<1> QED
  BY <1>2, <1>8, <1>10, <1>11

LEMMA HelloNeat ==
  ASSUME TypeOK, Neat(m), NEW p \in Procs, NEW known \in BOOLEAN,
         NEW x \in Launching, Hello(p, known, x)
  PROVE  Neat(m')
<1> DEFINE a == [m EXCEPT !.asked = @ \cup {p}]
           b == [m EXCEPT !.pid = p]
<1>1. m \in Master /\ x \in Inputs /\ x.launch \in LaunchResults
  BY InputsOfRuns DEF TypeOK
<1>2. Step(m) \/ Step(a) \/ Step(UpdateHandle(b, p, x))
  BY Zenon DEF Hello
<1>3. SameRequests(m, a) /\ SameRequests(m, b)
  BY <1>1 DEF SameRequests, Master
<1>4. b \in Master
  <2>1. p \in Procs \cup {NoPid, RetryPid}
    OBVIOUS
  <2> QED
    BY <1>1, <2>1, ZenonT(40) DEF Master
<1> HIDE DEF a, b
<1>5. Neat(UpdateHandle(b, p, x))
  BY <1>1, <1>3, <1>4, SameRequestsNeat, UpdateHandleNeat
<1> QED
  BY <1>2, <1>3, <1>5, SameRun, NeatRun

LEMMA CtrlNeat ==
  ASSUME TypeOK, Neat(m), NEW p \in Procs,
         NEW options \in SUBSET (Rare \cap {"term", "react"}), Ctrl(p, options)
  PROVE  Neat(m')
<1>1. m \in Master
  BY DEF TypeOK
<1>2. SameRequests(m, [m EXCEPT !.ctrl = options])
  BY <1>1 DEF SameRequests, Master
<1> QED
  BY <1>2, SameRun, Zenon DEF Ctrl

\* The callback of an instance drops its reference, and frees what was waiting.
LEMMA AnswerNeat ==
  ASSUME TypeOK, Neat(m), NEW p \in Procs, NEW ok \in BOOLEAN,
         NEW x \in Stopping, Answer(p, ok, x)
  PROVE  Neat(m')
<1> DEFINE r == Head(m.sent[p])
           a == [m EXCEPT !.sent[p] = Tail(@)]
           own == r \in {"pause", "resume"}
           st == IF r = "pause" THEN "PAUSED" ELSE "RESUMED"
           b1 == [a EXCEPT !.state = st,
                           !.pong = IF @ = "off" THEN "off"
                                    ELSE IF r = "pause" THEN "frozen" ELSE "on"]
           D == IF ok THEN {} ELSE {r} \cap a.live
           c == Doom(a, D)
           d == Unlink(c, {i \in c.doomed : ~Held(c, i)})
           e == DeactivateIfEmptied(a, d, x)
<1>1. m \in Master /\ x \in Inputs /\ m.doomed \subseteq Insts
  BY InputsOfRuns, SetFields DEF TypeOK
<1>2. \/ own /\ (Step(Unref(a)) \/ Step(Unref(b1)))
      \/ Step(Unref(e))
  BY Zenon DEF Answer
<1>3. /\ m.sent[p] \in Seq(Requests) /\ Tail(m.sent[p]) \in Seq(Requests)
      /\ RangeOf(m.sent[p]) \subseteq {r} \cup RangeOf(Tail(m.sent[p]))
  <2>1. m.sent[p] \in Seq(Requests) /\ m.sent[p] # <<>>
    BY <1>1, QueueFacts DEF Answer
  <2> QED
    BY <2>1, TailRange
<1>4. a \in Master
  BY <1>1, <1>3, SetSent, Zenon
<1>5. /\ a.pend = m.pend /\ a.cmds = m.cmds
      /\ a.sent = [m.sent EXCEPT ![p] = Tail(m.sent[p])]
      /\ a.live = m.live /\ a.doomed = m.doomed /\ a.fault = m.fault
      /\ a.handle = m.handle /\ a.alive = m.alive
  BY <1>1 DEF Master
<1> HIDE DEF a, r
<1>6. Emptied(a) /\ (a.alive => Follows(a))
  BY <1>5 DEF Neat, Emptied, Follows
<1>7. CASE own /\ (Step(Unref(a)) \/ Step(Unref(b1)))
  <2>1. r \notin Insts
    BY <1>7, ConstantsAssumption
  <2>2. \A i \in Insts : Held(m, i) => Held(a, i)
    <3>1. m.sent \in [Procs -> Seq(Requests)]
      BY <1>1, ZenonT(40) DEF Master
    <3>2. \A k \in Procs : RangeOf(m.sent[k]) \subseteq {r} \cup RangeOf(a.sent[k])
      BY <1>3, <1>5, <3>1
    <3> QED
      BY <1>5, <2>1, <3>2 DEF Held
  <2>3. Neat(a)
    BY <1>1, <1>5, <1>6, <2>2 DEF Neat, Clean
  <2>4. b1 \in Master /\ SameRequests(a, b1)
    <3> DEFINE pg == IF a.pong = "off" THEN "off"
                     ELSE IF r = "pause" THEN "frozen" ELSE "on"
    <3>1. st \in States /\ pg \in {"off", "on", "frozen"}
      BY DEF States
    <3>2. b1 = [a EXCEPT !.state = st, !.pong = pg]
      OBVIOUS
    <3> HIDE DEF b1, st, pg
    <3>3. b1 \in Master
      BY <1>4, <3>1, <3>2, ZenonT(40) DEF Master
    <3>4. SameRequests(a, b1)
      BY <1>4, <3>2 DEF SameRequests, Master
    <3> QED
      BY <3>3, <3>4
  <2> HIDE DEF b1
  <2>5. Neat(Unref(a)) /\ Neat(Unref(b1))
    BY <1>4, <2>3, <2>4, UnrefSame, SameRequestsNeat
  <2> QED
    BY <1>7, <2>5, NeatRun
<1>8. CASE Step(Unref(e))
  <2>1. D \in SUBSET Insts
    BY <1>4, SetFields
  <2> HIDE DEF D
  <2>2. /\ c \in Master
        /\ c.pend = a.pend /\ c.cmds = a.cmds /\ c.fault = a.fault
        /\ c.live = a.live \ D /\ (c.alive => a.alive /\ c.handle = a.handle)
    BY <1>4, <2>1, DoomType, DoomFreed, Zenon
  <2> HIDE DEF c
  <2>3. Emptied(c) /\ (c.alive => Follows(c))
    BY <1>6, <2>2 DEF Emptied, Follows
  <2>4. d \in Master /\ Neat(d)
    BY <2>2, <2>3, UnlinkType, UnlinkNeat
  <2> HIDE DEF d
  <2>5. e \in Master /\ Neat(e)
    BY <1>1, <2>4, DeactivateIfEmptiedType, DeactivateIfEmptiedNeat
  <2> HIDE DEF e
  <2>6. Neat(Unref(e))
    BY <2>5, UnrefSame, SameRequestsNeat
  <2> QED
    BY <1>8, <2>6, NeatRun
<1> QED
  BY <1>2, <1>7, <1>8

LEMMA DisconnectNeat ==
  ASSUME TypeOK, Neat(m), NEW p \in Procs, NEW x \in Failing, Disconnect(p, x)
  PROVE  Neat(m')
<1> DEFINE a == DeadMonitor(m, p, x)
           lost == a.sent[p]
           b == [a EXCEPT !.sent[p] = <<>>]
           c == AnswerNull(b, lost)
           d == DeactivateIfEmptied(b, c, x)
<1>1. m \in Master /\ x \in Inputs
  BY InputsOfRuns DEF TypeOK
<1>2. Step(a) \/ Step(d)
  BY Zenon DEF Disconnect
<1>3. a \in Master /\ Neat(a)
  BY <1>1, DeadMonitorType, DeadMonitorNeat
<1> HIDE DEF a
<1>4. lost \in Seq(Requests) /\ <<>> \in Seq(Requests)
  BY <1>3, QueueFacts
<1>5. b \in Master
  BY <1>3, <1>4, SetSent, Zenon
<1>6. /\ b.pend = a.pend /\ b.cmds = a.cmds /\ b.live = a.live /\ b.fault = a.fault
      /\ b.handle = a.handle /\ b.alive = a.alive
  BY <1>3 DEF Master
<1> HIDE DEF b, lost
<1>7. Emptied(b) /\ (b.alive => Follows(b))
  BY <1>3, <1>6 DEF Neat, Emptied, Follows
<1>8. c \in Master /\ Neat(c)
  BY <1>4, <1>5, <1>7, AnswerNullType, AnswerNullNeat
<1> HIDE DEF c
<1>9. Neat(d)
  BY <1>1, <1>8, DeactivateIfEmptiedNeat
<1> QED
  BY <1>2, <1>3, <1>9, NeatRun

LEMMA ProcessActionsNeat ==
  ASSUME TypeOK, Neat(m), NEW p \in Procs, SendHello(p) \/ Die(p) \/ Reuse(p)
  PROVE  Neat(m')
<1> DEFINE t == [m EXCEPT !.mine = @ \ {p}, !.asked = @ \ {p}]
<1>1. m \in Master
  BY DEF TypeOK
<1>2. SameRequests(m, m) /\ SameRequests(m, t)
  BY <1>1 DEF SameRequests, Master
<1>3. m' = m \/ m' = t
  BY DEF SendHello, Die, Reuse
<1> HIDE DEF t
<1> QED
  BY <1>2, <1>3, SameRequestsNeat
-----------------------------------------------------------------------------
(* The theorem *)

LEMMA InitNeat == Init => Neat(m)
<1> SUFFICES ASSUME Init PROVE Neat(m)
  OBVIOUS
<1>1. ~m.alive /\ ~m.fault /\ m.doomed = {}
  BY DEF Init
<1> QED
  BY <1>1 DEF Neat, Emptied, Clean

LEMMA NextNeat == TypeOK /\ Books /\ Neat(m) /\ [Next]_vars => Neat(m)'
<1> SUFFICES ASSUME TypeOK, Books, Neat(m), [Next]_vars PROVE Neat(m')
  OBVIOUS
<1>1. CASE UNCHANGED vars
  <2>1. m' = m
    BY <1>1 DEF vars
  <2> QED
    BY <2>1, Zenon
<1>2. CASE Next
  <2> Sound
    BY <1>2, Zenon DEF Next
  <2>2. ASSUME NEW x \in Launching, NEW i \in Insts, CreateInstance(i, x)
        PROVE  Neat(m')
    BY <2>2, CreateInstanceNeat
  <2>3. ASSUME NEW x \in Launching, NEW i \in Insts,
               RequestInstance(i, x) \/ ReactivateInstance(i, x) PROVE Neat(m')
    BY <2>3, RequestInstanceNeat
  <2>4. ASSUME NEW x \in Launching, ActivateAll(x) PROVE Neat(m')
    BY <2>4, ActivateAllNeat
  <2>5. ASSUME NEW x \in Launching, XMonitor(x) PROVE Neat(m')
    BY <2>5, XMonitorNeat
  <2>6. ASSUME NEW x \in Launching, NEW p \in Procs, NEW known \in BOOLEAN,
               Hello(p, known, x) PROVE Neat(m')
    BY <2>6, HelloNeat
  <2>7. ASSUME NEW x \in Stopping, NEW i \in Insts, InstanceDeleted(i, x)
        PROVE  Neat(m')
    BY <2>7, InstanceDeletedNeat
  <2>8. ASSUME NEW x \in Stopping, DeactivateAll(x) PROVE Neat(m')
    BY <2>8, DeactivateAllNeat
  <2>9. ASSUME NEW x \in Stopping, TerminateTimer(x) PROVE Neat(m')
    BY <2>9, TerminateTimerNeat
  <2>10. ASSUME NEW x \in Stopping, TtlTimer(x) PROVE Neat(m')
    BY <2>10, TtlTimerNeat
  <2>11. ASSUME NEW x \in Stopping, NEW p \in Procs, NEW ok \in BOOLEAN,
                Answer(p, ok, x) PROVE Neat(m')
    BY <2>11, AnswerNeat
  <2>12. ASSUME NEW x \in Expiring, ActivateTimer(x) PROVE Neat(m')
    BY <2>12, ActivateTimerNeat DEF Expiring
  <2>13. ASSUME NEW x \in Failing, PingTimeout(x) PROVE Neat(m')
    BY <2>13, PingTimeoutNeat
  <2>14. ASSUME NEW x \in Failing, NEW p \in Procs, Disconnect(p, x) PROVE Neat(m')
    BY <2>14, DisconnectNeat
  <2>15. ASSUME NEW x \in Relaunching, RelaunchTimer(x) PROVE Neat(m')
    BY <2>15, RelaunchTimerNeat
  <2>16. ASSUME \/ ClearFault
                \/ \E b \in BOOLEAN : WaitDeactivation(b)
                \/ \E i \in Insts : UninstallInstance(i) PROVE Neat(m')
    BY <2>16, PackageActionsNeat
  <2>17. ASSUME Consume PROVE Neat(m')
    BY <2>17, ConsumeNeat
  <2>18. ASSUME NEW p \in Procs, NEW options \in SUBSET (Rare \cap {"term", "react"}),
                Ctrl(p, options) PROVE Neat(m')
    BY <2>18, CtrlNeat
  <2>19. ASSUME NEW p \in Procs, SendHello(p) \/ Die(p) \/ Reuse(p) PROVE Neat(m')
    BY <2>19, ProcessActionsNeat
  <2> QED
    BY <1>2, <2>2, <2>3, <2>4, <2>5, <2>6, <2>7, <2>8, <2>9, <2>10, <2>11, <2>12,
       <2>13, <2>14, <2>15, <2>16, <2>17, <2>18, <2>19, Zenon DEF Next
<1> QED
  BY <1>1, <1>2

LEMMA NeatSafe == TypeOK /\ Books /\ Neat(m) => RequestsAreSafe
<1> SUFFICES ASSUME TypeOK, Books, Neat(m) PROVE RequestsAreSafe
  OBVIOUS
<1>1. QueueFollowsHandle
  <2> SUFFICES ASSUME Sound
               PROVE  IF m.handle = NoPid THEN m.cmds = <<>> ELSE m.pend = <<>>
    BY DEF QueueFollowsHandle
  <2>1. CASE m.alive
    BY <2>1 DEF Neat, Follows
  <2>2. CASE ~m.alive
    <3>1. m.handle = NoPid /\ m.cmds = <<>>
      BY <2>2, NothingLeft DEF Destroyed
    <3> QED
      BY <3>1
  <2> QED
    BY <2>1, <2>2
<1>2. FaultyPackageIsEmpty /\ DoomedInstanceIsHeld
  BY DEF Neat, Emptied, Clean, FaultyPackageIsEmpty, DoomedInstanceIsHeld
<1> QED
  BY <1>1, <1>2 DEF RequestsAreSafe

(* No request of slave_rpc.c is left in the list nobody looks at, however  *)
(* the hello, the deactivation and the callbacks of package.c and          *)
(* instance.c nest; nor do they leave an instance of a faulty package, or  *)
(* a destroyed one that no callback will free.                             *)
THEOREM RequestsSafe == Spec => []RequestsAreSafe
BY InitType, NextType, InitBooks, NextBooks, InitNeat, NextNeat, NeatSafe, PTL DEF Spec
=============================================================================
