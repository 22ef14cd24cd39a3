-------------------------- MODULE SlaveProcessProofs --------------------------
(***************************************************************************)
(* ProcessIsOwned and ReleasedOnce for every value of the constants:       *)
(* process, connection, watchdog and timers of a slave belong to one       *)
(* activation, whose reference is released once.                           *)
(*                                                                         *)
(* A C function that changes the slave either Rests, that is, it starts    *)
(* and ends no activation, or it Ends one: slave_deactivated, after which  *)
(* the slave is down or was launched again.  What it does to the           *)
(* references is in Passes and Follows.                                    *)
(***************************************************************************)
EXTENDS SlaveProofs

\* What holds of process, connection and timers, whatever the activation is
Tied(s) ==
  /\ s.handle # NoPid => s.pid = s.handle
  /\ s.handle = NoPid => s.pong = "off"
  /\ s.termT \/ s.ttlT => s.pid \in Procs
  /\ s.relT => s.actT /\ s.handle = NoPid /\ s.pid \notin Procs

\* Nothing is said of a slave destroyed, released twice or revived by a late hello.
Live(s) == ~LateHello /\ s.alive /\ ~s.uaf /\ s.create >= 0 /\ s.active >= 0

\* The activation there is, and what belongs to it
Owned(s) ==
  /\ s.active <= 1
  /\ s.active > 0 => s.actT \/ s.handle # NoPid
  /\ s.active = 0 => s.pid = NoPid /\ ~s.actT
  /\ s.state = "TERMINATED" => s.active = 0
  /\ s.handle # NoPid /\ IsActivated(s) => s.pong # "off"

\* Every process that runs is the slave's, or was asked to end.
Watched(s) == \A p \in Procs : proc[p] = "up" /\ p \notin s.asked => s.pid = p

(* The inductive invariant *)
Fit(s) == Tied(s) /\ (Live(s) => Owned(s)) /\ Watched(s)

\* What no function undoes
Onward(s, t) ==
  /\ s.uaf => t.uaf
  /\ t.create >= 0 => s.create >= 0
  /\ t.alive => s.alive
  /\ t.live \subseteq s.live
  /\ s.asked \subseteq t.asked

\* The activation goes on; only a slave without a process may be destroyed.
Rests(s, t) ==
  /\ Onward(s, t)
  /\ t.pid = s.pid /\ t.active = s.active
  /\ t.termT \/ t.ttlT => s.termT \/ s.ttlT \/ s.pid \in Procs
  /\ \/ t.handle = s.handle /\ t.pong = s.pong /\ t.actT = s.actT /\ t.relT = s.relT
     \/ ~t.alive /\ t.handle = NoPid /\ t.pong = "off" /\ ~t.actT /\ ~t.relT
  /\ t.state = "TERMINATED" => s.state = "TERMINATED"
  /\ IsActivated(t) => IsActivated(s) \/ s.state = "TERMINATED"

\* It is over; the slave is down, or launched again for its instances.
Ends(s, t) ==
  /\ Onward(s, t)
  /\ t.handle = NoPid /\ t.pong = "off"
  /\ t.termT \/ t.ttlT => t.pid \in Procs
  /\ t.relT => t.actT /\ t.pid \notin Procs
  /\ t.pid \in Procs => proc[t.pid] = "idle"
  /\ t.alive /\ ~t.uaf =>
       \/ t.pid = NoPid /\ ~t.actT /\ t.active = s.active - 1
       \/ t.actT /\ t.active = s.active /\ s.live # {} /\ t.state # "TERMINATED"

\* Whether a process of s is on its way out
Lost(s) == s.pid \in Procs => s.pid \in s.asked \/ proc[s.pid] # "up"

\* aul_terminate_pid fails on a process that is not there only.
Killable(s, x) == x.killOk \/ (s.pid \in Procs => proc[s.pid] # "up")

\* Only a process that is not there is launched.
Fresh(x) == x.launch \in Procs => proc[x.launch] = "idle"
-----------------------------------------------------------------------------
(* The two contracts *)

LEMMA OnwardTrans ==
  ASSUME NEW s, NEW t, NEW u, Onward(s, t), Onward(t, u)
  PROVE  Onward(s, u)
BY DEF Onward

LEMMA RestsTrans ==
  ASSUME NEW s, NEW t, NEW u, Rests(s, t), Rests(t, u)
  PROVE  Rests(s, u)
<1>1. Onward(s, u)
  BY OnwardTrans DEF Rests
<1> QED
  BY <1>1 DEF Rests, IsActivated, Onward

LEMMA RestsEnds ==
  ASSUME NEW s, NEW t, NEW u, Rests(s, t), Ends(t, u)
  PROVE  Ends(s, u)
<1>1. Onward(s, u)
  BY OnwardTrans DEF Rests, Ends
<1> QED
  BY <1>1 DEF Rests, Ends, Onward

LEMMA EndsRests ==
  ASSUME NEW s, NEW t, NEW u, Ends(s, t), Rests(t, u)
  PROVE  Ends(s, u)
<1>1. Onward(s, u)
  BY OnwardTrans DEF Rests, Ends
<1> QED
  BY <1>1 DEF Rests, Ends, Onward

LEMMA RestsFit ==
  ASSUME NEW s \in Master, NEW t \in Master, Rests(s, t), Fit(s)
  PROVE  Fit(t)
<1>1. Tied(t)
  BY DEF Rests, Fit, Tied
<1>2. Watched(t)
  BY DEF Rests, Onward, Fit, Watched
<1>3. ASSUME Live(t) PROVE Owned(t)
  <2>1. Live(s) /\ Owned(s)
    BY <1>3 DEF Rests, Onward, Live, Fit
  <2>2. s.active \in Int
    BY NumberFields
  <2>3. s.state = "TERMINATED" => s.handle = NoPid
    BY <2>1, ConstantsAssumption DEF Owned, Fit, Tied, NoPid
  <2> QED
    BY <1>3, <2>1, <2>2, <2>3 DEF Rests, Owned, Live, IsActivated
<1> QED
  BY <1>1, <1>2, <1>3 DEF Fit

LEMMA EndsFit ==
  ASSUME NEW s \in Master, NEW t \in Master, Ends(s, t), Watched(s), Lost(s),
         Live(s) => s.active = 1 \/ (s.active <= 1 /\ s.live = {})
  PROVE  Fit(t)
<1>1. Tied(t)
  BY DEF Ends, Tied
<1>2. Watched(t)
  BY DEF Ends, Onward, Watched, Lost
<1>3. ASSUME Live(t) PROVE Owned(t)
  <2>1. s.active \in Int /\ t.active \in Int
    BY NumberFields
  <2>2. Live(s)
    BY <1>3, <2>1 DEF Ends, Onward, Live
  <2> QED
    BY <1>3, <2>1, <2>2 DEF Ends, Owned, Live
<1> QED
  BY <1>1, <1>2, <1>3 DEF Fit

LEMMA RestsLost ==
  ASSUME NEW s, NEW t, Rests(s, t)
  PROVE  /\ Lost(s) => Lost(t)
         /\ \A x : Killable(s, x) => Killable(t, x)
         /\ Watched(s) => Watched(t)
BY DEF Rests, Onward, Lost, Killable, Watched
-----------------------------------------------------------------------------
(* Functions that start and end no activation *)

LEMMA RestsSame ==
  ASSUME NEW s
  PROVE  Rests(s, s)
BY DEF Rests, Onward

LEMMA DestroyRests ==
  ASSUME NEW s \in Master
  PROVE  Rests(s, Destroy(s))
<1> DEFINE t == [s EXCEPT !.alive = FALSE, !.ttlT = FALSE, !.actT = FALSE,
                 !.relT = FALSE, !.pong = "off", !.handle = NoPid,
                 !.mine = {}]
<1>1. Rests(s, t)
  BY DEF Rests, Onward, IsActivated, Master
<1>2. Rests(s, s)
  BY RestsSame
<1> QED
  BY <1>1, <1>2, Zenon DEF Destroy

\* A count that came to 0 is that of an object that is gone.
LEMMA UnrefsRests ==
  ASSUME NEW s \in Master, NEW n \in Nat
  PROVE  /\ Rests(s, Unrefs(s, n))
         /\ n > 0 /\ s.pid = NoPid /\ Unrefs(s, n).refcnt = 0 =>
              ~Unrefs(s, n).alive \/ Unrefs(s, n).uaf
<1> DEFINE a == [s EXCEPT !.refcnt = @ - n]
           b == [s EXCEPT !.refcnt = 0]
           c == [s EXCEPT !.refcnt = 0, !.uaf = TRUE]
<1>1. Rests(s, s)
  BY RestsSame
<1>2. Rests(s, a) /\ Rests(s, b) /\ Rests(s, c)
  BY DEF Rests, Onward, IsActivated, Master
<1>3. b \in Master
  BY SetRefcnt
<1>4. b.pid = s.pid /\ a.refcnt = s.refcnt - n /\ c.uaf
  BY DEF Master
<1>5. \/ n = 0 /\ Unrefs(s, n) = s
      \/ s.refcnt > n /\ Unrefs(s, n) = a
      \/ Unrefs(s, n) = Destroy(b)
      \/ Unrefs(s, n) = c
  BY Zenon DEF Unrefs, a, b, c
<1> HIDE DEF a, b, c
<1>6. Rests(s, Destroy(b))
  BY <1>2, <1>3, DestroyRests, RestsTrans
<1>7. s.pid = NoPid => ~Destroy(b).alive
  BY <1>3, <1>4 DEF Destroy, Master
<1>8. s.refcnt \in Nat
  BY NumberFields
<1> QED
  BY <1>1, <1>2, <1>4, <1>5, <1>6, <1>7, <1>8

LEMMA UnrefRests ==
  ASSUME NEW s \in Master
  PROVE  /\ Rests(s, Unref(s))
         /\ s.pid = NoPid /\ Unref(s).refcnt = 0 => ~Unref(s).alive \/ Unref(s).uaf
BY UnrefsRests DEF Unref

LEMMA ReleasePackageRests ==
  ASSUME NEW s \in Master
  PROVE  Rests(s, ReleasePackage(s))
<1> DEFINE t == [s EXCEPT !.pkg = FALSE]
<1>1. t \in Master
  BY ZenonT(40) DEF Master
<1>2. Rests(s, t)
  BY DEF Rests, Onward, IsActivated, Master
<1> HIDE DEF t
<1>3. Rests(s, Unref(t))
  BY <1>1, <1>2, UnrefRests, RestsTrans
<1> QED
  BY <1>3 DEF ReleasePackage, t

LEMMA TerminatePidRests ==
  ASSUME NEW s \in Master, NEW x \in Inputs
  PROVE  /\ Rests(s, TerminatePid(s, x))
         /\ Killable(s, x) => Lost(TerminatePid(s, x))
<1> DEFINE t == [s EXCEPT !.asked = @ \cup {s.pid}]
<1>1. Rests(s, t) /\ Rests(s, s)
  BY RestsSame DEF Rests, Onward, IsActivated, Master
<1>2. t.pid = s.pid /\ t.asked = s.asked \cup {s.pid}
  BY DEF Master
<1>3. TerminatePid(s, x) = IF s.pid \in Procs /\ x.killOk THEN t ELSE s
  BY Zenon DEF TerminatePid
<1> HIDE DEF t
<1> QED
  BY <1>1, <1>2, <1>3 DEF Killable, Lost

\* Fields that no activation depends on
LEMMA SetPlain ==
  ASSUME NEW s \in Master, NEW v, NEW w
  PROVE  /\ Rests(s, [s EXCEPT !.reactivate = v, !.reactInst = w])
         /\ Rests(s, [s EXCEPT !.crit = v, !.streak = w])
         /\ Rests(s, [s EXCEPT !.fault = v])
         /\ Rests(s, [s EXCEPT !.refcnt = v])
         /\ Rests(s, [s EXCEPT !.ctrl = v])
         /\ Rests(s, [s EXCEPT !.wait = v])
         /\ Rests(s, [s EXCEPT !.signals = v])
         /\ Rests(s, [s EXCEPT !.xpaused = v])
BY DEF Rests, Onward, IsActivated, Master

LEMMA UnlinkRests ==
  ASSUME NEW s \in Master, NEW S
  PROVE  Rests(s, Unlink(s, S))
<1> DEFINE left  == [s EXCEPT !.live = @ \ S, !.doomed = @ \ S]
           last  == S # {} /\ Loaded(left) = {}
           freed == ReleasePackage(left)
           quiet == [freed EXCEPT !.reactivate = FALSE, !.reactInst = FALSE]
           lost  == [freed EXCEPT !.uaf = TRUE]
<1>1. left \in Master
  <2>1. s.live \ S \in SUBSET Insts /\ s.doomed \ S \in SUBSET Insts
    BY SetFields
  <2> QED
    BY <2>1, SetLoaded, Zenon
<1>2. Rests(s, left)
  BY DEF Rests, Onward, IsActivated, Master
<1>3. Unlink(s, S) \in {left, freed, quiet, lost}
  <2>1. CASE ~last
    BY <2>1, Zenon DEF Unlink
  <2>2. CASE last /\ ~freed.alive
    BY <2>2, Zenon DEF Unlink
  <2>3. CASE last /\ freed.alive
    BY <2>3, Zenon DEF Unlink
  <2> QED
    BY <2>1, <2>2, <2>3, Zenon
<1> HIDE DEF left
<1>4. freed \in Master /\ Rests(left, freed)
  BY <1>1, ReleasePackageType, ReleasePackageRests
<1> HIDE DEF freed
<1>5. Rests(freed, quiet) /\ Rests(freed, lost)
  BY <1>4 DEF Rests, Onward, IsActivated, Master
<1> HIDE DEF quiet, lost
<1>6. Rests(s, freed) /\ Rests(s, quiet) /\ Rests(s, lost)
  BY <1>2, <1>4, <1>5, RestsTrans
<1> QED
  BY <1>2, <1>3, <1>6

LEMMA DoomRests ==
  ASSUME NEW s \in Master, NEW D \in SUBSET Insts
  PROVE  Rests(s, Doom(s, D)) /\ Doom(s, D).live \subseteq s.live \ D
<1> DEFINE a == [s EXCEPT !.live = @ \ D, !.doomed = @ \cup D]
           S == D \ {i \in D : Held(s, i)}
           t == Unlink(a, S)
<1>1. a \in Master
  <2>1. s.live \ D \in SUBSET Insts /\ s.doomed \cup D \in SUBSET Insts
    BY SetFields
  <2> QED
    BY <2>1, SetLoaded, Zenon
<1>2. Rests(s, a) /\ a.live = s.live \ D
  BY DEF Rests, Onward, IsActivated, Master
<1>3. Doom(s, D) = t
  BY Zenon DEF Doom
<1> HIDE DEF a
<1>4. Rests(a, t)
  BY <1>1, UnlinkRests
<1> HIDE DEF t
<1>5. Rests(s, t)
  BY <1>2, <1>4, RestsTrans
<1> QED
  BY <1>2, <1>3, <1>4, <1>5 DEF Rests, Onward

LEMMA AnswerNullRests ==
  ASSUME NEW s \in Master, NEW q \in Seq(Requests)
  PROVE  Rests(s, AnswerNull(s, q))
<1> DEFINE own  == {k \in DOMAIN q : q[k] \in {"pause", "resume"}}
           last == CHOOSE k \in own : \A j \in own : j <= k
           st   == IF own = {} \/ s.state \in Leaving THEN s.state
                   ELSE IF q[last] = "pause" THEN "RESUMED" ELSE "PAUSED"
           t    == [s EXCEPT !.state = st]
           S    == {i \in t.doomed : ~Held(t, i)}
           u    == Unlink(t, S)
<1>1. t \in Master
  <2>1. s.state \in States /\ "RESUMED" \in States /\ "PAUSED" \in States
    BY ZenonT(40) DEF Master, States
  <2>2. st \in States
    BY <2>1, Zenon
  <2> QED
    BY <2>2, SetState, Zenon
<1>2. AnswerNull(s, q) = Unrefs(u, Len(q))
  BY Zenon DEF AnswerNull
<1>3. st = s.state \/ (s.state \notin Leaving /\ st \in {"RESUMED", "PAUSED"})
  BY Zenon
<1> HIDE DEF st
<1>4. Rests(s, t)
  BY <1>3 DEF Rests, Onward, IsActivated, Leaving, Master
<1> HIDE DEF t
<1>5. u \in Master /\ Rests(t, u)
  BY <1>1, UnlinkType, UnlinkRests
<1> HIDE DEF u
<1>6. Rests(u, Unrefs(u, Len(q)))
  <2>1. Len(q) \in Nat
    OBVIOUS
  <2> QED
    BY <1>5, <2>1, UnrefsRests
<1> QED
  BY <1>2, <1>4, <1>5, <1>6, RestsTrans
-----------------------------------------------------------------------------
(* slave_activate *)

\* An activation starts.
Starts(s, t, launch) ==
  /\ Onward(s, t) /\ t.asked = s.asked
  /\ s.pid = NoPid /\ ~s.actT
  /\ t.pid = launch /\ t.actT /\ (t.relT <=> launch = RetryPid)
  /\ t.active = s.active + 1 /\ t.state = "LAUNCH"
  /\ t.handle = s.handle /\ t.pong = s.pong
  /\ t.termT = s.termT /\ t.ttlT = s.ttlT

LEMMA ActivateEither ==
  ASSUME NEW s \in Master, NEW launch
  PROVE  Rests(s, Activate(s, launch)) \/ Starts(s, Activate(s, launch), launch)
<1> DEFINE a == [s EXCEPT !.termT = FALSE]
           b == [s EXCEPT !.reactivate = TRUE]
           c == [s EXCEPT !.pid = launch, !.relT = (launch = RetryPid), !.actT = TRUE,
                 !.relaunch = RelaunchCount, !.state = "LAUNCH",
                 !.refcnt = @ + 1, !.active = @ + 1,
                 !.mine = IF launch \in Procs THEN @ \cup {launch} ELSE @]
<1>1. Rests(s, s) /\ Rests(s, a) /\ Rests(s, b)
  BY RestsSame DEF Rests, Onward, IsActivated, Master
<1>2. s.pid = NoPid /\ ~s.actT => Starts(s, c, launch)
  BY DEF Starts, Onward, Master
<1>3. \/ Activate(s, launch) \in {s, a, b}
      \/ s.pid = NoPid /\ ~s.actT /\ Activate(s, launch) = c
  BY Zenon DEF Activate
<1> HIDE DEF a, b, c
<1> QED
  BY <1>1, <1>2, <1>3

\* The slave of one activation has no second.
LEMMA StartsFit ==
  ASSUME NEW s \in Master, NEW t \in Master, NEW launch \in LaunchResults,
         Starts(s, t, launch), Fit(s), s.active >= 0
  PROVE  Fit(t)
<1>1. s.active \in Int
  BY NumberFields
<1>2. NoPid \notin Procs /\ RetryPid \notin Procs
  BY ConstantsAssumption DEF NoPid, RetryPid
<1>3. s.handle = NoPid /\ ~s.termT /\ ~s.ttlT
  BY <1>2 DEF Starts, Fit, Tied
<1>4. Tied(t)
  BY <1>2, <1>3 DEF Starts, Fit, Tied
<1>5. Watched(t)
  BY <1>2 DEF Starts, Fit, Watched
<1>6. ASSUME Live(t) PROVE Owned(t)
  <2>1. Owned(s)
    BY <1>6, <1>1 DEF Starts, Onward, Live, Fit
  <2>2. s.active = 0
    BY <1>1, <1>3, <2>1 DEF Starts, Owned
  <2> QED
    BY <1>3, <2>2 DEF Starts, Owned
<1> QED
  BY <1>4, <1>5, <1>6 DEF Fit

LEMMA ActivateFit ==
  ASSUME NEW s \in Master, NEW launch \in LaunchResults, Fit(s), s.active >= 0
  PROVE  Fit(Activate(s, launch)) /\ Activate(s, launch).active >= 0
<1> DEFINE t == Activate(s, launch)
<1>1. t \in Master /\ (Rests(s, t) \/ Starts(s, t, launch))
  BY ActivateType, ActivateEither
<1> HIDE DEF t
<1>2. s.active \in Int
  BY NumberFields
<1>3. Fit(t)
  BY <1>1, RestsFit, StartsFit
<1>4. t.active >= 0
  BY <1>1, <1>2 DEF Rests, Starts
<1> QED
  BY <1>3, <1>4 DEF t
-----------------------------------------------------------------------------
(* Requests *)

\* Only a request that forces the activation of a slave that is down starts one.
LEMMA EnqueueEither ==
  ASSUME NEW s \in Master, NEW c, NEW urgent, NEW launch,
         launch \in LaunchResults \/ IsActivated(s) \/ s.pid # NoPid
  PROVE  \/ Rests(s, Enqueue(s, c, urgent, launch))
         \/ Starts(s, Enqueue(s, c, urgent, launch), launch) /\ ~IsActivated(s)
<1> DEFINE t == IF s.handle = NoPid /\ ForcesActivation(s) /\ ~IsActivated(s)
                THEN Activate(s, launch) ELSE s
           Put(q) == IF urgent THEN <<c>> \o q ELSE Append(q, c)
           e == Enqueue(s, c, urgent, launch)
           p == [t EXCEPT !.refcnt = @ + 1, !.pend = Put(@)]
           q == [t EXCEPT !.refcnt = @ + 1, !.cmds = Put(@)]
<1>1. Rests(s, t) \/ (Starts(s, t, launch) /\ ~IsActivated(s))
  BY RestsSame, ActivateEither, Zenon
<1>2. t \in Master
  <2>1. s.pid # NoPid => Activate(s, launch) \in Master
    <3>1. [s EXCEPT !.termT = FALSE] \in Master
      BY ZenonT(40) DEF Master
    <3>2. [s EXCEPT !.reactivate = TRUE] \in Master
      BY ZenonT(40) DEF Master
    <3> QED
      BY <3>1, <3>2, Zenon DEF Activate
  <2> QED
    BY <2>1, ActivateType, Zenon
<1>3. e \in {p, q}
  BY Zenon DEF Enqueue
<1> HIDE DEF t, Put, e
<1>4. e.uaf = t.uaf /\ e.create = t.create /\ e.alive = t.alive /\ e.live = t.live
      /\ e.asked = t.asked /\ e.pid = t.pid /\ e.active = t.active /\ e.termT = t.termT
      /\ e.ttlT = t.ttlT /\ e.handle = t.handle /\ e.pong = t.pong /\ e.actT = t.actT
      /\ e.relT = t.relT /\ e.state = t.state
  <2>1. CASE e = p
    BY <1>2, <2>1, SMTT(30) DEF Master
  <2>2. CASE e = q
    BY <1>2, <2>2, SMTT(30) DEF Master
  <2> QED
    BY <1>3, <2>1, <2>2, Zenon
<1>5. Rests(s, t) => Rests(s, e)
  BY <1>4, Zenon DEF Rests, Onward, IsActivated
<1>6. Starts(s, t, launch) => Starts(s, e, launch)
  BY <1>4, Zenon DEF Starts, Onward
<1> QED
  BY <1>1, <1>5, <1>6, Zenon DEF e

LEMMA EnqueueFit ==
  ASSUME NEW s \in Master, NEW c \in Requests, NEW urgent \in BOOLEAN,
         NEW launch \in LaunchResults, Fit(s), s.active >= 0
  PROVE  Fit(Enqueue(s, c, urgent, launch))
<1> DEFINE t == Enqueue(s, c, urgent, launch)
<1>1. t \in Master /\ (Rests(s, t) \/ Starts(s, t, launch))
  BY EnqueueType, EnqueueEither
<1> HIDE DEF t
<1>2. Fit(t)
  BY <1>1, RestsFit, StartsFit
<1> QED
  BY <1>2 DEF t

LEMMA PauseRests ==
  ASSUME NEW s \in Master, NEW launch \in LaunchResults
  PROVE  Rests(s, Pause(s, launch)) /\ Rests(s, Resume(s, launch))
<1> DEFINE a == [s EXCEPT !.state = "REQ_PAUSE"]
           b == [s EXCEPT !.state = "REQ_RESUME"]
           c == Enqueue(a, "pause", FALSE, launch)
           d == Enqueue(b, "resume", FALSE, launch)
<1>1. a \in Master /\ b \in Master
  BY SetState DEF States
<1>2. a.state = "REQ_PAUSE" /\ b.state = "REQ_RESUME"
  BY DEF Master
<1>3. IsActivated(s) => Rests(s, a) /\ Rests(s, b)
  BY DEF Rests, Onward, IsActivated, Master
<1> HIDE DEF a, b
<1>4. IsActivated(a) /\ IsActivated(b)
  BY <1>2 DEF IsActivated
<1>5. Rests(a, c) /\ Rests(b, d)
  BY <1>1, <1>4, EnqueueEither
<1>6. IsActivated(s) => Rests(s, c) /\ Rests(s, d)
  BY <1>3, <1>5, RestsTrans
<1>7. /\ Pause(s, launch) = s \/ (Pause(s, launch) = c /\ IsActivated(s))
      /\ Resume(s, launch) = s \/ (Resume(s, launch) = d /\ IsActivated(s))
  BY Zenon DEF Pause, Resume, IsActivated, Leaving, a, b
<1> QED
  BY <1>6, <1>7, RestsSame, Zenon
-----------------------------------------------------------------------------
(* slave_deactivated *)

\* The activation is over; what it held may not be released yet.
Halted(s, t) ==
  /\ Onward(s, t)
  /\ t.pid = NoPid /\ t.handle = NoPid /\ t.pong = "off"
  /\ ~t.termT /\ ~t.ttlT /\ ~t.actT /\ ~t.relT

LEMMA HaltedRests ==
  ASSUME NEW s, NEW t, NEW u, Halted(s, t), Rests(t, u)
  PROVE  Halted(s, u) /\ u.active = t.active
<1>1. Onward(s, u)
  BY OnwardTrans DEF Halted, Rests
<1>2. NoPid \notin Procs
  BY ConstantsAssumption DEF NoPid
<1> QED
  BY <1>1, <1>2 DEF Halted, Rests

LEMMA RpcDeactivateHalts ==
  ASSUME NEW s \in Master, s.pid = NoPid, ~s.termT, ~s.ttlT, ~s.actT, ~s.relT
  PROVE  Halted(s, RpcDeactivate(s)) /\ RpcDeactivate(s).active = s.active
<1> DEFINE q == IF s.handle = NoPid THEN s.pend ELSE s.cmds
           t == IF s.handle = NoPid THEN [s EXCEPT !.pend = <<>>]
                ELSE [s EXCEPT !.cmds = <<>>]
           u == [t EXCEPT !.pong = "off"]
           v == AnswerNull(u, q)
           w == [v EXCEPT !.handle = NoPid]
<1>1. q \in Seq(Requests)
  BY ZenonT(40) DEF Master
<1>2. t \in Master
  <2>1. <<>> \in Seq(Requests)
    OBVIOUS
  <2>2. [s EXCEPT !.pend = <<>>] \in Master
    BY <2>1, ZenonT(60) DEF Master
  <2>3. [s EXCEPT !.cmds = <<>>] \in Master
    BY <2>1, ZenonT(60) DEF Master
  <2> QED
    BY <2>2, <2>3, Zenon
<1>3. /\ t.uaf = s.uaf /\ t.create = s.create /\ t.alive = s.alive /\ t.live = s.live
      /\ t.asked = s.asked /\ t.pid = s.pid /\ t.active = s.active /\ t.termT = s.termT
      /\ t.ttlT = s.ttlT /\ t.actT = s.actT /\ t.relT = s.relT
  BY DEF Master
<1> HIDE DEF t, q
<1>4. u \in Master
  BY <1>2, ZenonT(40) DEF Master
<1>5. /\ u.uaf = s.uaf /\ u.create = s.create /\ u.alive = s.alive /\ u.live = s.live
      /\ u.asked = s.asked /\ u.pid = NoPid /\ u.active = s.active /\ ~u.termT
      /\ ~u.ttlT /\ ~u.actT /\ ~u.relT /\ u.pong = "off"
  BY <1>2, <1>3 DEF Master
<1> HIDE DEF u
<1>6. v \in Master /\ Rests(u, v)
  BY <1>1, <1>4, AnswerNullType, AnswerNullRests
<1> HIDE DEF v
<1>7. /\ w.uaf = v.uaf /\ w.create = v.create /\ w.alive = v.alive /\ w.live = v.live
      /\ w.asked = v.asked /\ w.pid = v.pid /\ w.active = v.active /\ w.termT = v.termT
      /\ w.ttlT = v.ttlT /\ w.actT = v.actT /\ w.relT = v.relT
      /\ w.pong = v.pong /\ w.handle = NoPid
  BY <1>6 DEF Master
<1> HIDE DEF w
<1>8. NoPid \notin Procs
  BY ConstantsAssumption DEF NoPid
<1>9. Halted(s, w) /\ w.active = s.active
  BY <1>5, <1>6, <1>7, <1>8 DEF Rests, Onward, Halted
<1>10. RpcDeactivate(s) = w
  BY Zenon DEF RpcDeactivate, q, t, u, v, w
<1> QED
  BY <1>9, <1>10

LEMMA HaltedEnds ==
  ASSUME NEW s, NEW t, Halted(s, t),
         t.active = s.active - 1 \/ ~t.alive \/ t.uaf
  PROVE  Ends(s, t)
<1>1. NoPid \notin Procs
  BY ConstantsAssumption DEF NoPid
<1> QED
  BY <1>1 DEF Halted, Ends

LEMMA DeactivatedEnds ==
  ASSUME NEW s \in Master, NEW x \in Inputs, Fresh(x)
  PROVE  Ends(s, Deactivated(s, x))
<1> DEFINE a0 == StopTimers(s)
           a == [a0 EXCEPT !.pid = NoPid, !.state = "TERMINATED", !.refcnt = @ + 1]
           D == IF a.fault THEN a.live ELSE a.live \cap x.dooms
           b == Doom(a, D)
           b1 == RpcDeactivate(b)
           c == Unref(b1)
           c1 == [c EXCEPT !.active = @ - 1]
           d == Unref(c1)
           e == [d EXCEPT !.create = @ - 1]
           f == Unref(e)
           g == Activate(d, x.launch)
<1>1. a0 \in Master
  BY StopTimersType
<1>2. a \in Master
  <2>1. a0.refcnt + 1 \in Nat /\ NoPid \in Procs \cup {NoPid, RetryPid}
        /\ "TERMINATED" \in States
    BY <1>1, NumberFields DEF States
  <2> HIDE DEF a0
  <2> QED
    BY <1>1, <2>1, ZenonT(40) DEF Master
<1>3. /\ Onward(s, a) /\ a.pid = NoPid /\ a.active = s.active
      /\ ~a.termT /\ ~a.ttlT /\ ~a.actT /\ ~a.relT
  <2>1. /\ a0.uaf = s.uaf /\ a0.create = s.create /\ a0.alive = s.alive
        /\ a0.live = s.live /\ a0.asked = s.asked /\ a0.active = s.active
        /\ ~a0.termT /\ ~a0.ttlT /\ ~a0.actT /\ ~a0.relT
    BY DEF StopTimers, Master
  <2> HIDE DEF a0
  <2>2. /\ a.uaf = a0.uaf /\ a.create = a0.create /\ a.alive = a0.alive
        /\ a.live = a0.live /\ a.asked = a0.asked /\ a.active = a0.active
        /\ ~a.termT /\ ~a.ttlT /\ ~a.actT /\ ~a.relT /\ a.pid = NoPid
    BY <1>1, <2>1 DEF Master
  <2> HIDE DEF a
  <2> QED
    BY <2>1, <2>2 DEF Onward
<1>4. D \in SUBSET Insts
  BY <1>2, SetFields
<1> HIDE DEF a, D
<1>5. b \in Master /\ Rests(a, b)
  BY <1>2, <1>4, DoomType, DoomRests
<1> HIDE DEF b
<1>6. NoPid \notin Procs
  BY ConstantsAssumption DEF NoPid
<1>7. b1 \in Master /\ Halted(b, b1) /\ b1.active = b.active
  BY <1>3, <1>5, <1>6, RpcDeactivateType, RpcDeactivateHalts DEF Rests
<1> HIDE DEF b1
<1>8. Halted(s, b1) /\ b1.active = s.active
  BY <1>3, <1>5, <1>7, OnwardTrans DEF Rests, Halted
<1>9. c \in Master /\ Halted(s, c) /\ c.active = s.active
  BY <1>7, <1>8, UnrefType, UnrefRests, HaltedRests
<1>10. c.refcnt = 0 => Ends(s, c)
  <2>1. c.refcnt = 0 => ~c.alive \/ c.uaf
    BY <1>7, <1>8, UnrefRests DEF Halted
  <2> HIDE DEF c
  <2> QED
    BY <1>9, <2>1, HaltedEnds
<1> HIDE DEF c
<1>11. s.active \in Int /\ c.active - 1 \in Int
  BY <1>9, NumberFields
<1>12. c1 \in Master /\ Halted(s, c1) /\ c1.active = s.active - 1
  <2>1. c1 \in Master
    BY <1>9, <1>11, ZenonT(40) DEF Master
  <2>2. /\ c1.uaf = c.uaf /\ c1.create = c.create /\ c1.alive = c.alive
        /\ c1.live = c.live /\ c1.asked = c.asked /\ c1.active = c.active - 1
        /\ c1.termT = c.termT /\ c1.ttlT = c.ttlT /\ c1.actT = c.actT
        /\ c1.relT = c.relT /\ c1.pid = c.pid /\ c1.handle = c.handle
        /\ c1.pong = c.pong
    BY <1>9 DEF Master
  <2> HIDE DEF c1
  <2> QED
    BY <1>9, <2>1, <2>2 DEF Halted, Onward
<1> HIDE DEF c1
<1>13. d \in Master /\ Halted(s, d) /\ d.active = s.active - 1
  BY <1>12, UnrefType, UnrefRests, HaltedRests
<1> HIDE DEF d
<1>14. Ends(s, d)
  BY <1>13, HaltedEnds
<1>15. e \in Master /\ Halted(s, e) /\ e.active = s.active - 1
  <2>1. d.create - 1 \in Int
    BY <1>13, NumberFields
  <2>2. e \in Master
    BY <1>13, <2>1, ZenonT(40) DEF Master
  <2>3. /\ e.uaf = d.uaf /\ e.create = d.create - 1 /\ e.alive = d.alive
        /\ e.live = d.live /\ e.asked = d.asked /\ e.active = d.active
        /\ e.termT = d.termT /\ e.ttlT = d.ttlT /\ e.actT = d.actT
        /\ e.relT = d.relT /\ e.pid = d.pid /\ e.handle = d.handle
        /\ e.pong = d.pong
    BY <1>13 DEF Master
  <2>4. d.create \in Int
    BY <1>13, NumberFields
  <2> HIDE DEF e
  <2>5. e.create >= 0 => d.create >= 0
    BY <2>3, <2>4
  <2> QED
    BY <1>13, <2>2, <2>3, <2>5 DEF Halted, Onward
<1> HIDE DEF e
<1>16. Ends(s, f)
  BY <1>15, UnrefRests, HaltedRests, HaltedEnds
<1> HIDE DEF f
<1>17. ASSUME d.live # {}
       PROVE  Ends(s, g)
  <2>1. Rests(d, g) \/ Starts(d, g, x.launch)
    BY <1>13, ActivateEither
  <2> HIDE DEF g
  <2>2. CASE Rests(d, g)
    BY <1>13, <2>2, HaltedRests, HaltedEnds
  <2>3. CASE Starts(d, g, x.launch)
    <3>1. g.active = s.active
      <4>1. g.active = (s.active - 1) + 1
        BY <1>13, <2>3, Zenon DEF Starts
      <4> QED
        BY <1>11, <4>1
    <3>2. s.live # {}
      BY <1>13, <1>17 DEF Halted, Onward
    <3>3. RetryPid \notin Procs
      BY ConstantsAssumption DEF RetryPid
    <3>4. Onward(s, g)
      BY <1>13, <2>3, OnwardTrans DEF Halted, Starts
    <3> QED
      BY <1>13, <2>3, <3>1, <3>2, <3>3, <3>4 DEF Ends, Starts, Halted, Fresh
  <2> QED
    BY <2>1, <2>2, <2>3
<1> HIDE DEF g
<1>18. \/ c.refcnt = 0 /\ Deactivated(s, x) = c
       \/ d.live # {} /\ Deactivated(s, x) = g
       \/ Deactivated(s, x) \in {d, f}
  BY Zenon DEF Deactivated, a0, a, D, b, b1, c, c1, d, e, f, g
<1> QED
  BY <1>10, <1>14, <1>16, <1>17, <1>18

\* slave_deactivate ends it itself where the process cannot be asked to.
LEMMA DeactivateEither ==
  ASSUME NEW s \in Master, NEW noTimer, NEW x \in Inputs, Fresh(x), IsActivated(s)
  PROVE  LET t == Deactivate(s, noTimer, x)
         IN  \/ Rests(s, t)
             \/ /\ Ends(s, t) /\ s.pid \in Procs /\ ~x.killOk
                /\ ~DelayedTermination(noTimer)
<1> DEFINE a == [s EXCEPT !.ttlT = FALSE]
           a1 == [a EXCEPT !.state = "TERMINATE"]
           b == TerminatePid(a1, x)
           c == [a EXCEPT !.state = "DISCONNECT"]
           d == Enqueue(c, "disconnect", FALSE, x.launch)
           e == [a EXCEPT !.termT = TRUE]
<1>1. a \in Master /\ Rests(s, a) /\ a.pid = s.pid /\ IsActivated(a) /\ a.termT = s.termT
  <2>1. a \in Master
    BY ZenonT(40) DEF Master
  <2>2. Rests(s, a) /\ a.pid = s.pid /\ a.state = s.state /\ a.termT = s.termT
    BY DEF Rests, Onward, IsActivated, Master
  <2> HIDE DEF a
  <2> QED
    BY <2>1, <2>2 DEF IsActivated
<1>2. Rests(s, s)
  BY RestsSame
<1>3. \/ Deactivate(s, noTimer, x) = s
      \/ /\ s.pid \in Procs
         /\ \/ Deactivate(s, noTimer, x) \in {a, d, e, b}
            \/ /\ Deactivate(s, noTimer, x) = Deactivated(b, x) /\ ~x.killOk
               /\ ~DelayedTermination(noTimer)
  BY Zenon DEF Deactivate
<1> HIDE DEF a
<1>4. a1 \in Master /\ c \in Master
  BY <1>1, SetState, Zenon DEF States
<1>5. /\ Rests(a, a1) /\ Rests(a, c) /\ c.state = "DISCONNECT"
      /\ (s.pid \in Procs => Rests(a, e))
  BY <1>1 DEF Rests, Onward, IsActivated, Master
<1> HIDE DEF a1, c, e
<1>6. b \in Master /\ Rests(a1, b)
  BY <1>4, TerminatePidType, TerminatePidRests
<1> HIDE DEF b
<1>7. Rests(c, d)
  <2>1. IsActivated(c)
    BY <1>5 DEF IsActivated
  <2> QED
    BY <1>4, <2>1, EnqueueEither
<1> HIDE DEF d
<1>8. Rests(s, b) /\ Rests(s, d) /\ (s.pid \in Procs => Rests(s, e))
  BY <1>1, <1>5, <1>6, <1>7, RestsTrans
<1>9. Ends(s, Deactivated(b, x))
  BY <1>6, <1>8, DeactivatedEnds, RestsEnds
<1> QED
  BY <1>1, <1>2, <1>3, <1>8, <1>9

LEMMA DeactivateFit ==
  ASSUME NEW s \in Master, NEW noTimer, NEW x \in Inputs, Fresh(x), IsActivated(s),
         Killable(s, x), Fit(s)
  PROVE  Fit(Deactivate(s, noTimer, x))
<1> DEFINE t == Deactivate(s, noTimer, x)
<1>1. t \in Master /\ (Rests(s, t) \/ (Ends(s, t) /\ s.pid \in Procs /\ ~x.killOk))
  BY DeactivateType, DeactivateEither
<1> HIDE DEF t
<1>2. CASE Ends(s, t) /\ s.pid \in Procs /\ ~x.killOk
  <2>1. Lost(s)
    BY <1>2 DEF Killable, Lost
  <2>2. ASSUME Live(s) PROVE s.active = 1
    <3>1. s.active \in Int /\ s.active >= 0 /\ s.active <= 1
      BY <2>2, NumberFields DEF Live, Fit, Owned
    <3>2. s.active # 0
      BY <1>2, <2>2, ConstantsAssumption DEF Fit, Owned, NoPid
    <3> QED
      BY <3>1, <3>2
  <2>3. Fit(t)
    BY <1>1, <1>2, <2>1, <2>2, EndsFit DEF Fit
  <2> QED
    BY <2>3 DEF t
<1> QED
  BY <1>1, <1>2, RestsFit DEF t

LEMMA DeactivateIfEmptiedFit ==
  ASSUME NEW s, NEW t \in Master, NEW x \in Inputs, Fresh(x), Killable(t, x), Fit(t)
  PROVE  Fit(DeactivateIfEmptied(s, t, x))
BY DeactivateFit, Zenon DEF DeactivateIfEmptied

LEMMA DeactivateIfEmptiedEither ==
  ASSUME NEW s, NEW t \in Master, NEW x \in Inputs, Fresh(x)
  PROVE  LET u == DeactivateIfEmptied(s, t, x)
         IN  Rests(t, u) \/ (Ends(t, u) /\ t.pid \in Procs /\ ~x.killOk /\ Secured)
<1>1. ~DelayedTermination(FALSE) => Secured
  BY Zenon DEF DelayedTermination
<1> QED
  BY <1>1, DeactivateEither, RestsSame, Zenon DEF DeactivateIfEmptied

\* invoke_fault_cb leaves no instance when it ends the activation.
LEMMA FaultCbEither ==
  ASSUME NEW s \in Master, NEW x \in Inputs, Fresh(x)
  PROVE  LET t == FaultCb(s, x)
         IN  \/ Rests(s, t)
             \/ Ends(s, t) /\ t.live = {} /\ s.pid \in Procs /\ ~x.killOk /\ Secured
<1> DEFINE a == [s EXCEPT !.refcnt = @ + 1]
           b == [a EXCEPT !.fault = (x.fault = "last")]
           d == Doom(b, b.live)
           e == DeactivateIfEmptied(b, d, x)
           c == IF ~a.pkg \/ a.fault THEN a ELSE e
<1>1. FaultCb(s, x) = Unref(c)
  BY Zenon DEF FaultCb
<1>2. a \in Master /\ Rests(s, a)
  <2>1. Rests(s, a)
    BY DEF Rests, Onward, IsActivated, Master
  <2> QED
    BY <2>1, RefType
<1> HIDE DEF a
<1>3. a \in Master
  BY <1>2
<1>4. b \in Master /\ Rests(a, b)
  BY <1>3, SetFault, SetPlain, Zenon
<1> HIDE DEF b
<1>5. d \in Master /\ Rests(b, d) /\ d.live = {}
  <2>1. b.live \in SUBSET Insts
    BY <1>4, SetFields
  <2> QED
    BY <1>4, <2>1, DoomType, DoomRests
<1> HIDE DEF d
<1>6. Rests(s, d)
  BY <1>2, <1>4, <1>5, RestsTrans
<1>7. e \in Master /\ (Rests(d, e) \/ (Ends(d, e) /\ d.pid \in Procs /\ ~x.killOk /\ Secured))
  BY <1>5, DeactivateIfEmptiedType, DeactivateIfEmptiedEither
<1> HIDE DEF e
<1>8. \/ c \in Master /\ Rests(s, c)
      \/ /\ c \in Master /\ Ends(s, c) /\ c.live = {} /\ s.pid \in Procs
         /\ ~x.killOk /\ Secured
  <2>1. CASE Rests(d, e)
    BY <1>2, <1>6, <1>7, <2>1, RestsTrans
  <2>2. CASE Ends(d, e) /\ d.pid \in Procs /\ ~x.killOk /\ Secured
    <3>1. Ends(s, e) /\ e.live = {} /\ s.pid \in Procs
      BY <1>5, <1>6, <2>2, RestsEnds DEF Ends, Onward, Rests
    <3> QED
      BY <1>2, <1>7, <2>2, <3>1
  <2> QED
    BY <1>7, <2>1, <2>2
<1> HIDE DEF c
<1>9. Rests(c, Unref(c)) /\ Unref(c).live \subseteq c.live
  BY <1>8, UnrefRests DEF Rests, Onward
<1> QED
  BY <1>1, <1>8, <1>9, RestsTrans, EndsRests
-----------------------------------------------------------------------------
(* Faults *)

\* Without references there is no activation.
LEMMA ZeroCount ==
  ASSUME NEW s \in Master, Off(s) = 0, s.refcnt = 0, s.create >= 0, s.active >= 0
  PROVE  s.active = 0
<1>1. s.create \in Int /\ s.active \in Int /\ Waiting(s) \in Nat /\ Bit(s.pkg) \in Nat
  BY NumberFields, Numbers DEF Bit
<1>2. s.create + s.active + Bit(s.pkg) + Waiting(s) \in Int
  BY <1>1
<1>3. s.create + s.active + Bit(s.pkg) + Waiting(s) = 0
  BY <1>2 DEF Off, Owed
<1> QED
  BY <1>1, <1>3

\* A slave that may be deactivated: there is at most one activation, and with
\* none no instance is left that could start another.
Endable(s) == Live(s) => s.active = 1 \/ (s.active <= 1 /\ s.live = {})

LEMMA RestsEndable ==
  ASSUME NEW s \in Master, NEW t \in Master, Rests(s, t), Endable(s)
  PROVE  Endable(t)
<1>1. Live(t) => Live(s)
  BY DEF Rests, Onward, Live
<1> QED
  BY <1>1 DEF Rests, Onward, Endable

LEMMA DeactivatedFit ==
  ASSUME NEW s \in Master, NEW x \in Inputs, Fresh(x), Watched(s), Lost(s), Endable(s)
  PROVE  Fit(Deactivated(s, x)) /\ Killable(Deactivated(s, x), x)
<1> DEFINE t == Deactivated(s, x)
<1>1. t \in Master /\ Ends(s, t)
  BY DeactivatedType, DeactivatedEnds
<1> HIDE DEF t
<1>2. Fit(t)
  BY <1>1, EndsFit DEF Endable
<1>3. Killable(t, x)
  BY <1>1 DEF Ends, Killable
<1> QED
  BY <1>2, <1>3 DEF t

\* aul_terminate_pid, then slave_deactivated
LEMMA KilledFit ==
  ASSUME NEW s \in Master, NEW x \in Inputs, Fresh(x), Killable(s, x), Watched(s),
         Endable(s)
  PROVE  Fit(Deactivated(TerminatePid(s, x), x))
<1> DEFINE t == TerminatePid(s, x)
<1>1. t \in Master /\ Rests(s, t) /\ Lost(t)
  BY TerminatePidType, TerminatePidRests
<1> HIDE DEF t
<1>2. Watched(t) /\ Endable(t)
  BY <1>1, RestsLost, RestsEndable
<1>3. Fit(Deactivated(t, x))
  BY <1>1, <1>2, DeactivatedFit
<1> QED
  BY <1>3 DEF t

\* The books of a slave that may find itself released by a callback
Kind(s) == s.alive /\ ~s.uaf /\ Kept(s) /\ Off(s) = 0

LEMMA FaultCbFit ==
  ASSUME NEW s \in Master, NEW x \in Inputs, Fresh(x), Killable(s, x), Tied(s),
         Watched(s), Live(s) => s.active = 1, Kind(s)
  PROVE  LET t == FaultCb(s, x)
         IN  /\ t \in Master /\ Tied(t) /\ Watched(t) /\ Killable(t, x) /\ Endable(t)
             /\ Lost(s) => Lost(t)
             /\ t.refcnt = 0 => Fit(t)
             /\ s.pid \notin Procs => Rests(s, t)
<1> DEFINE t == FaultCb(s, x)
<1>1. /\ t \in Master
      /\ Rests(s, t) \/ (Ends(s, t) /\ t.live = {} /\ s.pid \in Procs /\ ~x.killOk)
  BY FaultCbType, FaultCbEither
<1>2. t.uaf \/ Off(t) = 0
  <2>1. Moves(s, t, 0)
    BY FaultCbMoves DEF Kind, Good
  <2>2. t.uaf \/ Off(t) = Off(s) + 0
    BY <2>1 DEF Kind, Moves
  <2> QED
    BY <2>2 DEF Kind
<1> HIDE DEF t
<1>3. Endable(s)
  BY DEF Endable
<1>4. CASE Rests(s, t)
  <2>1. Tied(t)
    BY <1>4 DEF Rests, Tied
  <2>2. Watched(t) /\ Killable(t, x) /\ (Lost(s) => Lost(t)) /\ Endable(t)
    BY <1>1, <1>3, <1>4, RestsLost, RestsEndable
  <2>3. ASSUME t.refcnt = 0 PROVE Fit(t)
    <3>1. ASSUME Live(t) PROVE FALSE
      <4>1. Live(s) /\ t.active = s.active
        BY <1>4, <3>1 DEF Rests, Onward, Live
      <4>2. t.active = 0
        BY <1>1, <1>2, <2>3, <3>1, ZeroCount DEF Live
      <4> QED
        BY <4>1, <4>2
    <3> QED
      BY <2>1, <2>2, <3>1 DEF Fit
  <2> QED
    BY <1>1, <1>4, <2>1, <2>2, <2>3 DEF t
<1>5. CASE Ends(s, t) /\ t.live = {} /\ s.pid \in Procs /\ ~x.killOk
  <2>1. Lost(s)
    BY <1>5 DEF Killable, Lost
  <2>2. Fit(t)
    BY <1>1, <1>3, <1>5, <2>1, EndsFit DEF Endable
  <2>3. Killable(t, x) /\ Lost(t)
    BY <1>5 DEF Ends, Killable, Lost
  <2>4. Endable(t)
    BY <1>5, <2>2 DEF Fit, Endable, Owned
  <2> QED
    BY <1>1, <1>5, <2>2, <2>3, <2>4 DEF Fit, t
<1> QED
  BY <1>1, <1>4, <1>5

\* The book-keeping of a step that changes no reference
LEMMA KindAfter ==
  ASSUME NEW s \in Master, NEW t \in Master, Kind(s), Moves(s, t, 0),
         t.alive = s.alive, t.uaf = s.uaf
  PROVE  Kind(t)
<1>1. Off(t) = Off(s) + 0
  BY DEF Kind, Moves
<1> QED
  BY <1>1 DEF Kind, Moves

LEMMA DeactivatedByFaultFit ==
  ASSUME NEW s \in Master, NEW x \in Inputs, Fresh(x), Killable(s, x), Tied(s),
         Watched(s), Kind(s), IsActivated(s) => (Live(s) => s.active = 1),
         ~IsActivated(s) => Fit(s)
  PROVE  Fit(DeactivatedByFault(s, x)) /\ Killable(DeactivatedByFault(s, x), x)
<1> DEFINE a    == TerminatePid(s, x)
           soon == x.fault # "slow"
           stop == soon /\ (Loaded(s) = {} \/ s.crit + 1 >= MaxLoad)
           k    == IF a.streak < MaxLoad THEN a.streak + 1 ELSE a.streak
           a1   == [a EXCEPT !.crit = 0, !.streak = 0]
           a2   == [a EXCEPT !.crit = 0,
                             !.streak = IF @ < MaxLoad THEN @ + 1 ELSE @]
           a3   == [a EXCEPT !.streak = 0]
           b    == IF stop THEN FaultCb(a1, x) ELSE IF soon THEN a2 ELSE a3
           c1   == [b EXCEPT !.reactivate = FALSE, !.reactInst = FALSE]
           c2   == [b EXCEPT !.reactivate = TRUE, !.reactInst = TRUE]
           c    == IF stop THEN c1 ELSE c2
           e    == [s EXCEPT !.create = @ - 1]
           t    == DeactivatedByFault(s, x)
<1>1. \/ t \in {Unref(e), s} /\ ~IsActivated(s)
      \/ t = b /\ b.refcnt = 0 /\ IsActivated(s)
      \/ t = Deactivated(c, x) /\ b.refcnt # 0 /\ IsActivated(s)
  BY Zenon DEF DeactivatedByFault
<1> HIDE DEF t
<1>2. CASE ~IsActivated(s)
  <2>1. e \in Master /\ Rests(s, e)
    <3>1. s.create \in Int /\ s.create - 1 \in Int
      BY NumberFields
    <3>2. e \in Master
      BY <3>1, ZenonT(40) DEF Master
    <3>3. Rests(s, [s EXCEPT !.create = s.create - 1])
      BY <3>1 DEF Rests, Onward, IsActivated, Master
    <3> QED
      BY <3>2, <3>3
  <2> HIDE DEF e
  <2>2. Unref(e) \in Master /\ Rests(s, Unref(e))
    BY <2>1, UnrefType, UnrefRests, RestsTrans
  <2>3. Fit(Unref(e)) /\ Killable(Unref(e), x)
    BY <1>2, <2>2, RestsFit, RestsLost
  <2> QED
    BY <1>1, <1>2, <2>3 DEF t
<1>3. CASE IsActivated(s)
  <2>1. a \in Master /\ Rests(s, a) /\ Lost(a) /\ Moves(s, a, 0)
        /\ a.alive = s.alive /\ a.uaf = s.uaf
    BY TerminatePidType, TerminatePidRests, TerminatePidMoves
  <2> HIDE DEF a
  <2>2. a1 \in Master /\ a2 \in Master /\ a3 \in Master
    <3>1. 0 \in 0 .. MaxLoad
      BY ConstantsAssumption
    <3>2. (IF a.streak < MaxLoad THEN a.streak + 1 ELSE a.streak) \in 0 .. MaxLoad
      <4>1. a.streak \in 0 .. MaxLoad
        BY <2>1, ZenonT(40) DEF Master
      <4> QED
        BY <4>1, ConstantsAssumption
    <3>3. a \in Master
      BY <2>1, Zenon
    <3>4. a1 \in Master
      BY <3>1, <3>3, ZenonT(40) DEF Master
    <3>5. a2 \in Master
      BY <3>1, <3>2, <3>3, ZenonT(40) DEF Master
    <3>6. a3 \in Master
      BY <3>1, <3>3, ZenonT(40) DEF Master
    <3> QED
      BY <3>4, <3>5, <3>6, Zenon
  <2>3. /\ Rests(a, a1) /\ Rests(a, a2) /\ Rests(a, a3)
        /\ Plain(a, a1)
    BY <2>1 DEF Rests, Onward, IsActivated, Plain, SameBooks, Loaded, Destroyed, Master
  <2> HIDE DEF a1, a2, a3, stop
  <2>4. Rests(s, a1) /\ Rests(s, a2) /\ Rests(s, a3)
    BY <2>1, <2>3, RestsTrans
  <2>5. Lost(a1) /\ Lost(a2) /\ Lost(a3)
    BY <2>1, <2>3, RestsLost
  <2>6. Kind(a1)
    <3>1. Moves(a, a1, 0) /\ a1.alive = a.alive /\ a1.uaf = a.uaf
      BY <2>1, <2>2, <2>3, PlainMoves DEF Plain, SameBooks
    <3> QED
      BY <2>1, <2>2, <3>1, KindAfter
  <2>7. Endable(s)
    BY <1>3 DEF Endable
  <2>8. /\ b \in Master /\ Watched(b) /\ Lost(b) /\ Endable(b) /\ Killable(b, x)
        /\ b.refcnt = 0 => (stop => Fit(b))
    <3>1. CASE stop
      <4>1. Tied(a1) /\ Watched(a1) /\ Killable(a1, x)
        BY <2>4, RestsLost DEF Rests, Tied
      <4>2. Live(a1) => a1.active = 1
        BY <1>3, <2>4 DEF Rests, Onward, Live
      <4>3. b = FaultCb(a1, x)
        BY <3>1
      <4> HIDE DEF b
      <4> QED
        BY <2>2, <2>5, <2>6, <4>1, <4>2, <4>3, FaultCbFit, Zenon
    <3>2. CASE ~stop
      BY <2>2, <2>4, <2>5, <2>7, <3>2, RestsLost, RestsEndable
    <3> QED
      BY <3>1, <3>2
  <2>9. b.refcnt = 0 /\ ~stop => Fit(b)
    <3> SUFFICES ASSUME b.refcnt = 0, ~stop PROVE Fit(b)
      OBVIOUS
    <3>1. /\ b \in {a2, a3} /\ b.refcnt = a.refcnt /\ b.active = a.active
          /\ b.create = a.create /\ Rests(s, b)
      <4>1. /\ a2.refcnt = a.refcnt /\ a2.active = a.active /\ a2.create = a.create
            /\ a3.refcnt = a.refcnt /\ a3.active = a.active /\ a3.create = a.create
        BY <2>1 DEF a2, a3, Master
      <4> QED
        BY <2>4, <4>1
    <3> HIDE DEF b
    <3>2. Tied(b)
      BY <3>1 DEF Rests, Tied
    <3>3. ASSUME Live(b) PROVE FALSE
      <4>1. a.active = 1
        BY <1>3, <3>1, <3>3 DEF Rests, Onward, Live
      <4>2. Off(a) = 0
        BY <2>1, KindAfter DEF Kind
      <4>3. a.active = 0
        BY <2>1, <3>1, <3>3, <4>2, ZeroCount DEF Live
      <4> QED
        BY <4>1, <4>3
    <3> QED
      BY <2>8, <3>2, <3>3 DEF Fit
  <2> HIDE DEF b
  <2>10. Fit(Deactivated(c, x)) /\ Killable(Deactivated(c, x), x)
    <3>1. c1 \in Master /\ c2 \in Master
      <4>1. TRUE \in BOOLEAN /\ FALSE \in BOOLEAN
        OBVIOUS
      <4> QED
        BY <2>8, <4>1, SetFlags, Zenon
    <3>2. Rests(b, c1) /\ Rests(b, c2)
      BY <2>8, SetPlain
    <3> HIDE DEF c1, c2
    <3>3. c \in Master /\ Rests(b, c)
      BY <3>1, <3>2, Zenon
    <3> HIDE DEF c
    <3> QED
      BY <2>8, <3>3, RestsLost, RestsEndable, DeactivatedFit
  <2> QED
    BY <1>1, <1>3, <2>8, <2>9, <2>10 DEF t
<1> QED
  BY <1>2, <1>3

\* The fault handler of a launch that failed: there is no process.
LEMMA SlaveFaultFit ==
  ASSUME NEW s \in Master, NEW x \in Inputs, Fresh(x), Tied(s), Watched(s), Kind(s),
         s.pid \notin Procs, Live(s) => s.active = 1 /\ s.state # "TERMINATED"
  PROVE  Fit(SlaveFault(s, x))
<1> DEFINE a == FaultCb(s, x)
           b == [a EXCEPT !.reactivate = FALSE, !.reactInst = FALSE]
           d == Enqueue(b, "disconnect", FALSE, x.launch)
           c == IF b.pid \in Procs /\ "term" \in b.ctrl THEN d ELSE TerminatePid(b, x)
           t == SlaveFault(s, x)
<1>1. \/ t = a /\ a.refcnt = 0
      \/ t = c /\ c.state = "TERMINATED"
      \/ t = Deactivated(c, x)
  BY Zenon DEF SlaveFault
<1> HIDE DEF t
<1>2. Killable(s, x) /\ Lost(s)
  BY DEF Killable, Lost
<1>3. /\ a \in Master /\ Tied(a) /\ Watched(a) /\ Endable(a) /\ Rests(s, a)
      /\ a.refcnt = 0 => Fit(a)
  BY <1>2, FaultCbFit
<1> HIDE DEF a
<1>4. b \in Master /\ Rests(a, b)
  <2>1. FALSE \in BOOLEAN
    OBVIOUS
  <2> QED
    BY <1>3, <2>1, SetFlags, SetPlain, Zenon
<1> HIDE DEF b
<1>5. Rests(s, b) /\ b.pid \notin Procs
  BY <1>3, <1>4, RestsTrans DEF Rests
<1>6. c \in Master /\ Rests(b, c)
  <2>1. c = TerminatePid(b, x)
    BY <1>5, Zenon
  <2> HIDE DEF c
  <2> QED
    BY <1>4, <2>1, TerminatePidType, TerminatePidRests
<1> HIDE DEF c
<1>7. Rests(s, c) /\ Lost(c) /\ Watched(c) /\ Endable(c)
  BY <1>2, <1>3, <1>4, <1>5, <1>6, RestsTrans, RestsLost, RestsEndable
<1>8. Fit(Deactivated(c, x))
  BY <1>6, <1>7, DeactivatedFit
<1>9. ASSUME c.state = "TERMINATED" PROVE Fit(c)
  <2>1. Tied(c)
    BY <1>7 DEF Rests, Tied
  <2>2. ~Live(c)
    BY <1>7, <1>9 DEF Rests, Onward, Live
  <2> QED
    BY <1>7, <2>1, <2>2 DEF Fit
<1> QED
  BY <1>1, <1>3, <1>8, <1>9 DEF t
-----------------------------------------------------------------------------
(* A provider says hello *)

\* The activation goes on without its timers.
Settled(s, t) ==
  /\ Onward(s, t)
  /\ t.pid = s.pid /\ t.active = s.active /\ ~t.actT /\ ~t.relT
  /\ \/ t.handle = s.handle /\ t.pong = s.pong
     \/ ~t.alive /\ t.handle = NoPid /\ t.pong = "off"
  /\ t.state = "TERMINATED" => s.state = "TERMINATED"

LEMMA ActivatedSettles ==
  ASSUME NEW s \in Master, NEW x \in Inputs, x.launch \in LaunchResults,
         s.pid \in Procs
  PROVE  Settled(s, Activated(s, x))
<1> DEFINE a == IF s.xpaused THEN Pause(s, x.launch) ELSE Resume(s, x.launch)
           a1 == [a EXCEPT !.ttlT = TRUE]
           b == IF UsesTtl THEN a1 ELSE a
           q == RecoverList(b)
           b1 == Activate(b, x.launch)
           b2 == [b1 EXCEPT !.cmds = q \o @, !.refcnt = @ + Len(q)]
           c == IF b.reactInst /\ q # <<>> THEN b2 ELSE b
           t == [c EXCEPT !.reactivate = FALSE, !.reactInst = FALSE,
                          !.actT = FALSE, !.relT = FALSE]
<1>1. a \in Master /\ Rests(s, a)
  BY PauseType, PauseRests, Zenon
<1> HIDE DEF a
<1>2. b \in Master /\ Rests(s, b)
  <2>1. a1 \in Master
    BY <1>1, ZenonT(40) DEF Master
  <2>2. a.pid \in Procs
    BY <1>1 DEF Rests
  <2>3. Rests(a, a1)
    BY <1>1, <2>2 DEF Rests, Onward, IsActivated, Master
  <2> HIDE DEF a1
  <2>4. Rests(s, a1)
    BY <1>1, <2>3, RestsTrans
  <2> QED
    BY <1>1, <2>1, <2>4, Zenon
<1> HIDE DEF b
<1>3. b1 \in Master /\ Rests(b, b1)
  <2>1. b.pid # NoPid
    BY <1>2, ConstantsAssumption DEF Rests, NoPid
  <2>2. ~Starts(b, b1, x.launch)
    BY <2>1 DEF Starts
  <2> QED
    BY <1>2, <2>2, ActivateType, ActivateEither
<1> HIDE DEF b1
<1>4. q \in Seq(Requests)
  BY <1>2, RecoverListType
<1> HIDE DEF q
<1>5. b2 \in Master
  <2>1. b1.cmds \in Seq(Requests) /\ b1.refcnt \in Nat
    BY <1>3, ZenonT(40) DEF Master
  <2>2. q \o b1.cmds \in Seq(Requests) /\ b1.refcnt + Len(q) \in Nat
    BY <1>4, <2>1
  <2> QED
    BY <1>3, <2>2, ZenonT(40) DEF Master
<1>6. Rests(b1, b2)
  <2>1. /\ b2.uaf = b1.uaf /\ b2.create = b1.create /\ b2.alive = b1.alive
        /\ b2.live = b1.live /\ b2.asked = b1.asked /\ b2.pid = b1.pid
        /\ b2.active = b1.active /\ b2.termT = b1.termT /\ b2.ttlT = b1.ttlT
        /\ b2.handle = b1.handle /\ b2.pong = b1.pong /\ b2.actT = b1.actT
        /\ b2.relT = b1.relT /\ b2.state = b1.state
    BY <1>3 DEF Master
  <2> HIDE DEF b2
  <2> QED
    BY <2>1, Zenon DEF Rests, Onward, IsActivated
<1> HIDE DEF b2
<1>7. c \in Master /\ Rests(s, c)
  <2>1. Rests(s, b2)
    BY <1>2, <1>3, <1>6, RestsTrans
  <2> QED
    BY <1>2, <1>5, <2>1
<1> HIDE DEF c
<1>8. /\ t.uaf = c.uaf /\ t.create = c.create /\ t.alive = c.alive
      /\ t.live = c.live /\ t.asked = c.asked /\ t.pid = c.pid
      /\ t.active = c.active /\ t.handle = c.handle /\ t.pong = c.pong
      /\ ~t.actT /\ ~t.relT /\ t.state = c.state
  BY <1>7 DEF Master
<1>9. t = Activated(s, x)
  BY Zenon DEF Activated, a, a1, b, q, b1, b2, c
<1> HIDE DEF t
<1>10. Settled(s, t)
  BY <1>7, <1>8 DEF Rests, Onward, Settled
<1> QED
  BY <1>9, <1>10

\* p becomes the provider of the activation the slave waits in.
LEMMA UpdateHandleFit ==
  ASSUME NEW s \in Master, NEW p \in Procs, NEW x \in Inputs,
         x.launch \in LaunchResults, Fit(s), s.pid \in Procs => s.pid = p,
         Live(s) => s.active # 0
  PROVE  Fit(UpdateHandle([s EXCEPT !.pid = p], p, x))
<1> DEFINE b == [s EXCEPT !.pid = p]
           b1 == [b EXCEPT !.handle = p, !.pong = "on"]
           a == Activated(b1, x)
           t == [a EXCEPT !.cmds = @ \o a.pend, !.pend = <<>>]
<1>1. b \in Master
  <2>1. p \in Procs \cup {NoPid, RetryPid}
    OBVIOUS
  <2> QED
    BY <2>1, ZenonT(40) DEF Master
<1>2. b1 \in Master
  <2>1. p \in Procs \cup {NoPid}
    OBVIOUS
  <2> HIDE DEF b
  <2> QED
    BY <1>1, <2>1, ZenonT(40) DEF Master
<1>3. /\ b1.pid = p /\ b1.handle = p /\ b1.pong = "on" /\ b1.uaf = s.uaf
      /\ b1.create = s.create /\ b1.alive = s.alive /\ b1.active = s.active
      /\ b1.asked = s.asked /\ b1.state = s.state
  BY DEF Master
<1>4. UpdateHandle(b, p, x) = t
  BY Zenon DEF UpdateHandle
<1> HIDE DEF b, b1
<1>5. a \in Master /\ Settled(b1, a)
  BY <1>2, <1>3, ActivatedType, ActivatedSettles
<1> HIDE DEF a
<1>6. /\ t.uaf = a.uaf /\ t.create = a.create /\ t.alive = a.alive
      /\ t.asked = a.asked /\ t.pid = a.pid /\ t.active = a.active
      /\ t.handle = a.handle /\ t.pong = a.pong /\ t.actT = a.actT
      /\ t.relT = a.relT /\ t.state = a.state
  BY <1>5 DEF Master
<1> HIDE DEF t
<1>7. p # NoPid
  BY ConstantsAssumption DEF NoPid
<1>8. Tied(t)
  BY <1>3, <1>5, <1>6, <1>7 DEF Settled, Tied
<1>9. Watched(t)
  BY <1>3, <1>5, <1>6 DEF Settled, Onward, Fit, Watched
<1>10. ASSUME Live(t) PROVE Owned(t)
  <2>1. /\ Live(s) /\ t.active = s.active /\ t.handle = p /\ t.pong = "on"
        /\ t.state = "TERMINATED" => s.state = "TERMINATED"
    BY <1>3, <1>5, <1>6, <1>10 DEF Settled, Onward, Live
  <2>2. Owned(s) /\ s.active # 0
    BY <2>1 DEF Fit
  <2> QED
    BY <1>7, <2>1, <2>2 DEF Owned
<1> QED
  BY <1>4, <1>8, <1>9, <1>10 DEF Fit, b
-----------------------------------------------------------------------------
(* The runs of the main loop *)

\* A process that a run launched is the slave's.
LEMMA FitRun ==
  ASSUME TypeOK, NEW t \in Master, Fit(t), Step(t)
  PROVE  Fit(m)'
<1>1. m' = t
  BY DEF Step
<1>2. Watched(m)'
  BY <1>1 DEF Fit, Watched, Step
<1>3. Tied(m)' /\ (Live(m)' => Owned(m)')
  BY <1>1 DEF Fit, Tied, Live, Owned, IsActivated
<1> QED
  BY <1>2, <1>3 DEF Fit

LEMMA RestsRun ==
  ASSUME TypeOK, NEW t \in Master, Rests(m, t), Fit(m), Step(t)
  PROVE  Fit(m)'
<1>1. m \in Master
  BY DEF TypeOK
<1> QED
  BY <1>1, RestsFit, FitRun

LEMMA InputsOfProcess ==
  ASSUME TypeOK
  PROVE  /\ \A x \in Launching : x \in Inputs /\ x.launch \in LaunchResults /\ Fresh(x)
         /\ \A x \in Stopping \cup Failing :
              x \in Inputs /\ Fresh(x) /\ Killable(m, x)
         /\ \A x \in Relaunching : x \in Inputs /\ x.launch \in LaunchResults /\ Fresh(x)
<1>1. NoPid \notin Procs /\ RetryPid \notin Procs /\ Asleep \notin Procs
  BY ConstantsAssumption DEF NoPid, RetryPid, Asleep
<1>2. \A x \in Launching : Fresh(x)
  BY <1>1 DEF Launching, Launches, Fresh
<1>3. \A x \in Relaunching : Fresh(x)
  BY <1>1 DEF Relaunching, Launches, Fresh
<1>4. \A x \in Ending : x \in Inputs /\ Fresh(x) /\ Killable(m, x)
  <2>1. \A x \in Ending : Fresh(x) /\ Killable(m, x)
    BY <1>1 DEF Ending, Launches, Fresh, Killable
  <2>2. Ending \subseteq Failing
    BY DEF Failing
  <2> QED
    BY <2>1, <2>2, InputsOfRuns
<1>5. \A x \in Stopping : Fresh(x) /\ Killable(m, x)
  BY <1>4 DEF Stopping
<1>6. \A x \in Failing : Fresh(x) /\ Killable(m, x)
  <2>1. TAKE x \in Failing
  <2>2. CASE x \in Ending
    BY <1>4, <2>2
  <2>3. CASE x \notin Ending
    <3>1. PICK y \in Ending, f \in {"slow", "excused", "last"} : x = [y EXCEPT !.fault = f]
      BY <2>3 DEF Failing
    <3>2. x.launch = y.launch /\ x.killOk = y.killOk
      BY <1>4, <3>1 DEF Inputs
    <3> QED
      BY <1>4, <3>2 DEF Fresh, Killable
  <2> QED
    BY <2>2, <2>3
<1> QED
  BY <1>2, <1>3, <1>5, <1>6, InputsOfRuns

LEMMA NewSlaveFit ==
  ASSUME NEW s \in Master, Watched(s), s.pid = NoPid
  PROVE  Fit(NewSlave(s)) /\ NewSlave(s).active = 0
<1> DEFINE v == NewSlave(s)
<1>1. /\ v.pid = NoPid /\ v.handle = NoPid /\ v.pong = "off" /\ ~v.termT /\ ~v.ttlT
      /\ ~v.relT /\ ~v.actT /\ v.active = 0 /\ v.state = "TERMINATED"
      /\ v.asked = s.asked
  BY DEF NewSlave, Master
<1> HIDE DEF v
<1>2. NoPid \notin Procs
  BY ConstantsAssumption DEF NoPid
<1>3. Tied(v) /\ Owned(v) /\ Watched(v)
  BY <1>1, <1>2 DEF Tied, Owned, Watched
<1> QED
  BY <1>1, <1>3 DEF Fit, v

LEMMA SetLiveFit ==
  ASSUME NEW s \in Master, NEW S, Fit(s)
  PROVE  Fit([s EXCEPT !.live = S]) /\ [s EXCEPT !.live = S].active = s.active
<1> DEFINE t == [s EXCEPT !.live = S]
<1>1. /\ t.pid = s.pid /\ t.handle = s.handle /\ t.pong = s.pong /\ t.termT = s.termT
      /\ t.ttlT = s.ttlT /\ t.relT = s.relT /\ t.actT = s.actT /\ t.active = s.active
      /\ t.state = s.state /\ t.asked = s.asked /\ t.alive = s.alive
      /\ t.uaf = s.uaf /\ t.create = s.create
  BY DEF Master
<1> HIDE DEF t
<1>2. Fit(t)
  BY <1>1 DEF Fit, Tied, Live, Owned, Watched, IsActivated
<1> QED
  BY <1>1, <1>2 DEF t

LEMMA CreateInstanceFit ==
  ASSUME TypeOK, Books, Sound, Fit(m), NEW i \in Insts, NEW x \in Launching,
         CreateInstance(i, x)
  PROVE  Fit(m)'
<1> DEFINE v == NewSlave(m)
           s == IF m.alive THEN m ELSE v
           s1 == [s EXCEPT !.pkg = TRUE, !.refcnt = @ + 1]
           t == IF s.pkg THEN s ELSE s1
           u == [t EXCEPT !.live = @ \cup {i}]
           a == Activate(u, x.launch)
           b == Enqueue(a, i, TRUE, x.launch)
<1>1. /\ m \in Master /\ x.launch \in LaunchResults /\ i \in Requests
      /\ TRUE \in BOOLEAN
  BY InputsOfRuns DEF TypeOK, Requests
<1>2. Step(b)
  BY Zenon DEF CreateInstance
<1>3. s \in Master /\ Fit(s) /\ s.active >= 0
  <2>1. CASE m.alive
    BY <1>1, <2>1 DEF Sound
  <2>2. CASE ~m.alive
    <3>1. m.pid = NoPid
      BY <2>2, NothingLeft DEF Destroyed
    <3>2. v \in Master /\ Fit(v) /\ v.active = 0
      BY <1>1, <3>1, NewSlaveType, NewSlaveFit DEF Fit
    <3> HIDE DEF v
    <3> QED
      BY <2>2, <3>2
  <2> QED
    BY <2>1, <2>2
<1> HIDE DEF s
<1>4. t \in Master /\ Fit(t) /\ t.active >= 0
  <2>1. s.refcnt + 1 \in Nat
    BY <1>3, NumberFields
  <2>2. s1 \in Master
    BY <1>3, <2>1, ZenonT(40) DEF Master
  <2>3. Rests(s, s1) /\ s1.active = s.active
    BY <1>3 DEF Rests, Onward, IsActivated, Master
  <2> HIDE DEF s1
  <2>4. Fit(s1)
    BY <1>3, <2>2, <2>3, RestsFit
  <2> QED
    BY <1>3, <2>2, <2>3, <2>4
<1> HIDE DEF t
<1>5. u \in Master
  <2>1. t.live \cup {i} \in SUBSET Insts
    BY <1>4, SetFields
  <2> QED
    BY <1>4, <2>1, ZenonT(40) DEF Master
<1>6. Fit(u) /\ u.active >= 0
  <2> DEFINE L == t.live \cup {i}
  <2>1. u = [t EXCEPT !.live = L]
    OBVIOUS
  <2> HIDE DEF u, L
  <2> QED
    BY <1>4, <2>1, SetLiveFit
<1> HIDE DEF u
<1>7. a \in Master /\ Fit(a) /\ a.active >= 0
  BY <1>1, <1>5, <1>6, ActivateType, ActivateFit
<1> HIDE DEF a
<1>8. b \in Master /\ Fit(b)
  BY <1>1, <1>7, EnqueueType, EnqueueFit
<1> QED
  BY <1>2, <1>8, FitRun

LEMMA RequestInstanceFit ==
  ASSUME TypeOK, Sound, Fit(m), NEW i \in Insts, NEW x \in Launching,
         RequestInstance(i, x) \/ ReactivateInstance(i, x)
  PROVE  Fit(m)'
<1> DEFINE a == Activate(m, x.launch)
           b == Enqueue(m, i, FALSE, x.launch)
           c == Enqueue(a, i, TRUE, x.launch)
<1>1. /\ x.launch \in LaunchResults /\ i \in Requests /\ m \in Master /\ m.active >= 0
      /\ TRUE \in BOOLEAN /\ FALSE \in BOOLEAN
  BY InputsOfRuns DEF Requests, TypeOK, Sound
<1>2. a \in Master /\ Fit(a) /\ a.active >= 0
  BY <1>1, ActivateType, ActivateFit
<1>3. Step(b) \/ Step(c)
  BY Zenon DEF RequestInstance, ReactivateInstance
<1> HIDE DEF a
<1>4. b \in Master /\ Fit(b) /\ c \in Master /\ Fit(c)
  BY <1>1, <1>2, EnqueueType, EnqueueFit
<1> HIDE DEF b, c
<1> QED
  BY <1>3, <1>4, FitRun

LEMMA InstanceDeletedFit ==
  ASSUME TypeOK, Fit(m), NEW i \in Insts, NEW x \in Stopping, InstanceDeleted(i, x)
  PROVE  Fit(m)'
<1> DEFINE t == Doom(m, {i})
           u == DeactivateIfEmptied(m, t, x)
<1>1. m \in Master /\ x \in Inputs /\ Fresh(x) /\ Killable(m, x)
  BY InputsOfProcess DEF TypeOK
<1>2. Step(u)
  BY Zenon DEF InstanceDeleted
<1>3. t \in Master /\ Rests(m, t)
  <2>1. {i} \in SUBSET Insts
    OBVIOUS
  <2> QED
    BY <1>1, <2>1, DoomType, DoomRests
<1> HIDE DEF t
<1>4. Fit(t) /\ Killable(t, x)
  BY <1>1, <1>3, RestsFit, RestsLost
<1>5. u \in Master /\ Fit(u)
  BY <1>1, <1>3, <1>4, DeactivateIfEmptiedType, DeactivateIfEmptiedFit
<1> HIDE DEF u
<1> QED
  BY <1>2, <1>5, FitRun

LEMMA PackageActionsFit ==
  ASSUME TypeOK, Fit(m),
         \/ ClearFault
         \/ \E b \in BOOLEAN : WaitDeactivation(b)
         \/ \E i \in Insts : UninstallInstance(i)
  PROVE  Fit(m)'
<1>1. m \in Master
  BY DEF TypeOK
<1>2. CASE ClearFault
  <2>1. [m EXCEPT !.fault = FALSE] \in Master
    BY <1>1, SetFlags
  <2> QED
    BY <1>1, <1>2, <2>1, SetPlain, RestsRun DEF ClearFault
<1>3. ASSUME NEW b \in BOOLEAN, WaitDeactivation(b) PROVE Fit(m)'
  <2>1. [m EXCEPT !.wait = b] \in Master
    BY <1>1, ZenonT(40) DEF Master
  <2> QED
    BY <1>1, <1>3, <2>1, SetPlain, RestsRun DEF WaitDeactivation
<1>4. ASSUME NEW i \in Insts, UninstallInstance(i) PROVE Fit(m)'
  <2>1. {i} \in SUBSET Insts
    OBVIOUS
  <2>2. Doom(m, {i}) \in Master /\ Rests(m, Doom(m, {i}))
    BY <1>1, <2>1, DoomType, DoomRests
  <2> QED
    BY <1>4, <2>2, RestsRun DEF UninstallInstance
<1> QED
  BY <1>2, <1>3, <1>4

LEMMA DeactivateAllFit ==
  ASSUME TypeOK, Fit(m), NEW x \in Stopping, DeactivateAll(x)
  PROVE  Fit(m)'
<1> DEFINE s == [m EXCEPT !.signals = @ + 1]
           a == [s EXCEPT !.reactInst = TRUE, !.reactivate = FALSE]
           t == Deactivate(a, TRUE, x)
<1>1. m \in Master /\ x \in Inputs /\ Fresh(x) /\ Killable(m, x)
  BY InputsOfProcess DEF TypeOK
<1>2. s \in Master /\ Rests(m, s)
  <2>1. m.signals < MaxSignals
    BY DEF DeactivateAll
  <2>2. m.signals \in 0 .. MaxSignals
    BY <1>1, ZenonT(40) DEF Master
  <2>3. m.signals + 1 \in 0 .. MaxSignals
    BY <2>1, <2>2, ConstantsAssumption
  <2>4. s \in Master
    BY <1>1, <2>3, ZenonT(40) DEF Master
  <2>5. Rests(m, s)
    BY <1>1, SetPlain
  <2> QED
    BY <2>4, <2>5
<1>3. Step(s) \/ (Step(t) /\ IsActivated(s))
  BY Zenon DEF DeactivateAll, s, a
<1> HIDE DEF s
<1>4. a \in Master /\ Rests(s, a) /\ a.state = s.state
  <2>1. a \in Master
    BY <1>2, ZenonT(40) DEF Master
  <2>2. Rests(s, a) /\ a.state = s.state
    BY <1>2 DEF Rests, Onward, IsActivated, Master
  <2> QED
    BY <2>1, <2>2
<1> HIDE DEF a
<1>5. Fit(s) /\ Fit(a) /\ Killable(a, x)
  BY <1>1, <1>2, <1>4, RestsFit, RestsLost
<1>6. IsActivated(s) => t \in Master /\ Fit(t)
  <2>1. IsActivated(s) => IsActivated(a)
    BY <1>4 DEF IsActivated
  <2> QED
    BY <1>1, <1>4, <1>5, <2>1, DeactivateType, DeactivateFit
<1> HIDE DEF t
<1> QED
  BY <1>2, <1>3, <1>5, <1>6, FitRun

LEMMA ActivateAllFit ==
  ASSUME TypeOK, Sound, Fit(m), NEW x \in Launching, ActivateAll(x)
  PROVE  Fit(m)'
<1> DEFINE s == [m EXCEPT !.signals = @ - 1]
           t == Activate(s, x.launch)
<1>1. m \in Master /\ x.launch \in LaunchResults /\ m.active >= 0
  BY InputsOfRuns DEF TypeOK, Sound
<1>2. s \in Master /\ Rests(m, s)
  <2>1. m.signals > 0
    BY DEF ActivateAll
  <2>2. m.signals \in 0 .. MaxSignals
    BY <1>1, ZenonT(40) DEF Master
  <2>3. m.signals - 1 \in 0 .. MaxSignals
    BY <2>1, <2>2, ConstantsAssumption
  <2>4. s \in Master
    BY <1>1, <2>3, ZenonT(40) DEF Master
  <2>5. Rests(m, s)
    BY <1>1, SetPlain
  <2> QED
    BY <2>4, <2>5
<1>3. Step(s) \/ Step(t)
  BY Zenon DEF ActivateAll
<1> HIDE DEF s
<1>4. Fit(s) /\ s.active >= 0
  BY <1>1, <1>2, RestsFit DEF Rests
<1>5. t \in Master /\ Fit(t)
  BY <1>1, <1>2, <1>4, ActivateType, ActivateFit
<1> HIDE DEF t
<1> QED
  BY <1>2, <1>3, <1>4, <1>5, FitRun

LEMMA XMonitorFit ==
  ASSUME TypeOK, Fit(m), NEW x \in Launching, XMonitor(x)
  PROVE  Fit(m)'
<1> DEFINE v == IF m.xpaused THEN FALSE ELSE TRUE
           s == [m EXCEPT !.xpaused = v]
           a == Pause(s, x.launch)
           b == Resume(s, x.launch)
<1>1. m \in Master /\ v \in BOOLEAN /\ x.launch \in LaunchResults
  BY InputsOfRuns, Zenon DEF TypeOK
<1>2. ~m.xpaused = v
  <2>1. m.xpaused \in BOOLEAN
    BY <1>1, ZenonT(40) DEF Master
  <2> QED
    BY <2>1
<1>3. [m EXCEPT !.xpaused = ~@] = s
  BY <1>2, Zenon
<1> HIDE DEF v
<1>4. s \in Master /\ Rests(m, s)
  <2>1. s \in Master
    BY <1>1, ZenonT(40) DEF Master
  <2> QED
    BY <1>1, <2>1, SetPlain
<1>5. Step(s) \/ Step(a) \/ Step(b)
  <2>1. s.alive \in BOOLEAN /\ s.xpaused \in BOOLEAN
    BY <1>4, ZenonT(40) DEF Master
  <2>2. Step(CASE ~s.alive             -> s
               [] s.alive /\ s.xpaused  -> Pause(s, x.launch)
               [] s.alive /\ ~s.xpaused -> Resume(s, x.launch))
    BY <1>3, Zenon DEF XMonitor
  <2> HIDE DEF s
  <2>3. CASE ~s.alive
    BY <2>2, <2>3
  <2>4. CASE s.alive /\ s.xpaused
    BY <2>2, <2>4
  <2>5. CASE s.alive /\ ~s.xpaused
    BY <2>2, <2>5
  <2> QED
    BY <2>3, <2>4, <2>5
<1> HIDE DEF s
<1>6. a \in Master /\ b \in Master /\ Rests(s, a) /\ Rests(s, b)
  BY <1>1, <1>4, PauseType, PauseRests
<1> HIDE DEF a, b
<1>7. Rests(m, a) /\ Rests(m, b)
  BY <1>4, <1>6, RestsTrans
<1> QED
  BY <1>4, <1>5, <1>6, <1>7, RestsRun
-----------------------------------------------------------------------------
(* Timers of the slave *)

\* A process or an activate timer is that of an activation.
LEMMA OneActivation ==
  ASSUME NEW s \in Master, Fit(s), s.actT \/ s.pid # NoPid
  PROVE  Live(s) => s.active = 1
<1> SUFFICES ASSUME Live(s) PROVE s.active = 1
  OBVIOUS
<1>1. s.active \in Int /\ s.active >= 0 /\ s.active <= 1
  BY NumberFields DEF Live, Fit, Owned
<1>2. s.active # 0
  BY DEF Fit, Owned
<1> QED
  BY <1>1, <1>2

LEMMA TerminateTimerFit ==
  ASSUME TypeOK, Fit(m), NEW x \in Stopping, TerminateTimer(x)
  PROVE  Fit(m)'
<1> DEFINE s == [m EXCEPT !.state = "TERMINATE", !.termT = FALSE]
           a == TerminatePid(s, x)
           t == Deactivated(a, x)
<1>1. m \in Master /\ x \in Inputs /\ Fresh(x) /\ Killable(m, x) /\ m.termT
  BY InputsOfProcess DEF TypeOK, TerminateTimer
<1>2. Step(a) \/ (Step(t) /\ ~x.killOk)
  BY Zenon DEF TerminateTimer
<1>3. s \in Master /\ Rests(m, s)
  <2>1. "TERMINATE" \in States
    BY DEF States
  <2>2. s \in Master
    BY <1>1, <2>1, ZenonT(40) DEF Master
  <2>3. Rests(m, s)
    BY <1>1 DEF Rests, Onward, IsActivated, Master
  <2> QED
    BY <2>2, <2>3
<1> HIDE DEF s
<1>4. a \in Master /\ Rests(m, a)
  BY <1>1, <1>3, TerminatePidType, TerminatePidRests, RestsTrans
<1> HIDE DEF a
<1>5. t \in Master /\ (~x.killOk => Fit(t))
  <2>1. ASSUME ~x.killOk PROVE Lost(m)
    BY <1>1, <2>1 DEF Killable, Lost
  <2>2. m.pid # NoPid
    BY <1>1, ConstantsAssumption DEF Fit, Tied, NoPid
  <2>3. Endable(m)
    BY <1>1, <2>2, OneActivation DEF Endable
  <2>4. Watched(a) /\ Endable(a) /\ (~x.killOk => Lost(a))
    BY <1>1, <1>4, <2>1, <2>3, RestsLost, RestsEndable DEF Fit
  <2> QED
    BY <1>1, <1>4, <2>4, DeactivatedType, DeactivatedFit
<1> HIDE DEF t
<1> QED
  BY <1>2, <1>4, <1>5, RestsRun, FitRun

LEMMA TtlTimerFit ==
  ASSUME TypeOK, Fit(m), NEW x \in Stopping, TtlTimer(x)
  PROVE  Fit(m)'
<1> DEFINE a == [m EXCEPT !.ttlT = FALSE]
           b == [a EXCEPT !.reactivate = FALSE, !.reactInst = TRUE]
           t == Deactivate(b, TRUE, x)
<1>1. m \in Master /\ x \in Inputs /\ Fresh(x) /\ Killable(m, x)
  BY InputsOfProcess DEF TypeOK
<1>2. a \in Master /\ Rests(m, a)
  <2>1. a \in Master
    BY <1>1, ZenonT(40) DEF Master
  <2>2. Rests(m, a)
    BY <1>1 DEF Rests, Onward, IsActivated, Master
  <2> QED
    BY <2>1, <2>2
<1>3. Step(a) \/ (Step(t) /\ IsActivated(a))
  BY Zenon DEF TtlTimer
<1> HIDE DEF a
<1>4. b \in Master /\ Rests(a, b) /\ b.state = a.state
  <2>1. b \in Master
    BY <1>2, ZenonT(40) DEF Master
  <2>2. Rests(a, b) /\ b.state = a.state
    BY <1>2 DEF Rests, Onward, IsActivated, Master
  <2> QED
    BY <2>1, <2>2
<1> HIDE DEF b
<1>5. Fit(a) /\ Fit(b) /\ Killable(b, x)
  BY <1>1, <1>2, <1>4, RestsFit, RestsLost
<1>6. IsActivated(a) => t \in Master /\ Fit(t)
  <2>1. IsActivated(a) => IsActivated(b)
    BY <1>4 DEF IsActivated
  <2> QED
    BY <1>1, <1>4, <1>5, <2>1, DeactivateType, DeactivateFit
<1> HIDE DEF t
<1> QED
  BY <1>2, <1>3, <1>5, <1>6, FitRun

LEMMA KindNow ==
  ASSUME TypeOK, Books, Sound, m.alive
  PROVE  Kind(m)
BY NothingLeft DEF Kind

LEMMA PlainKind ==
  ASSUME TypeOK, Books, Sound, m.alive, NEW s \in Master, Plain(m, s)
  PROVE  Kind(s)
<1>1. m \in Master /\ Kind(m) /\ Moves(m, s, 0)
  BY KindNow, PlainMoves DEF TypeOK
<1>2. s.alive = m.alive /\ s.uaf = m.uaf
  BY DEF Plain, SameBooks
<1> QED
  BY <1>1, <1>2, KindAfter

LEMMA ActivateTimerFit ==
  ASSUME TypeOK, Books, Sound, Fit(m), NEW x \in Failing, ActivateTimer(x)
  PROVE  Fit(m)'
<1> DEFINE s == [m EXCEPT !.relT = FALSE, !.actT = FALSE]
           a == FaultCb(s, x)
           b == [a EXCEPT !.reactivate = FALSE, !.reactInst = FALSE]
           c == TerminatePid(b, x)
           t == Deactivated(c, x)
<1>1. /\ m \in Master /\ x \in Inputs /\ Fresh(x) /\ Killable(m, x) /\ m.actT
      /\ m.alive
  BY InputsOfProcess, AliveWhenUsed DEF TypeOK, ActivateTimer
<1>2. (Step(a) /\ a.refcnt = 0) \/ Step(t)
  BY Zenon DEF ActivateTimer
<1>3. s \in Master
  BY <1>1, ZenonT(40) DEF Master
<1>4. Plain(m, s)
  BY <1>1 DEF Plain, SameBooks, Loaded, Destroyed, Master
<1>5. /\ s.pid = m.pid /\ s.handle = m.handle /\ s.pong = m.pong /\ s.termT = m.termT
      /\ s.ttlT = m.ttlT /\ ~s.relT /\ s.asked = m.asked
      /\ s.alive = m.alive /\ s.uaf = m.uaf /\ s.create = m.create
      /\ s.active = m.active
  BY <1>1 DEF Master
<1> HIDE DEF s
<1>6. Kind(s)
  BY <1>1, <1>3, <1>4, PlainKind
<1>7. Tied(s) /\ Watched(s) /\ Killable(s, x)
  BY <1>1, <1>5 DEF Fit, Tied, Watched, Killable
<1>8. Live(s) => s.active = 1
  <2>1. Live(m) => m.active = 1
    BY <1>1, OneActivation
  <2> QED
    BY <1>5, <2>1 DEF Live
<1>9. /\ a \in Master /\ Watched(a) /\ Killable(a, x) /\ Endable(a)
      /\ a.refcnt = 0 => Fit(a)
  BY <1>1, <1>3, <1>6, <1>7, <1>8, FaultCbFit, Zenon
<1> HIDE DEF a
<1>10. b \in Master /\ Rests(a, b)
  <2>1. FALSE \in BOOLEAN
    OBVIOUS
  <2> QED
    BY <1>9, <2>1, SetFlags, SetPlain, Zenon
<1> HIDE DEF b
<1>11. Watched(b) /\ Killable(b, x) /\ Endable(b)
  BY <1>9, <1>10, RestsLost, RestsEndable
<1>12. t \in Master /\ Fit(t)
  BY <1>1, <1>10, <1>11, TerminatePidType, DeactivatedType, KilledFit
<1> HIDE DEF t
<1> QED
  BY <1>2, <1>9, <1>12, FitRun

LEMMA RelaunchTimerFit ==
  ASSUME TypeOK, Books, Sound, Fit(m), NEW x \in Relaunching, RelaunchTimer(x)
  PROVE  Fit(m)'
<1> DEFINE a == [m EXCEPT !.relT = FALSE, !.actT = FALSE]
           b == [a EXCEPT !.pid = NoPid]
           c == [m EXCEPT !.relaunch = @ - 1, !.pid = NoPid]
           d == [m EXCEPT !.pid = x.launch, !.relT = FALSE, !.mine = @ \cup {x.launch}]
           t == SlaveFault(a, x)
           u == SlaveFault(b, x)
<1>1. /\ m \in Master /\ x \in Inputs /\ x.launch \in LaunchResults /\ Fresh(x)
      /\ m.relT /\ m.alive
  BY InputsOfProcess, AliveWhenUsed DEF TypeOK, RelaunchTimer
<1>2. \/ Step(t) \/ Step(u)
      \/ Step(c) /\ m.relaunch # 0
      \/ Step(d) /\ x.launch \notin {NoPid, RetryPid}
  BY Zenon DEF RelaunchTimer, Exhausted
<1>3. NoPid \notin Procs
  BY ConstantsAssumption DEF NoPid
<1>4. /\ m.actT /\ m.handle = NoPid /\ m.pong = "off" /\ m.pid \notin Procs
      /\ ~m.termT /\ ~m.ttlT
      /\ \A p \in Procs : proc[p] = "up" => p \in m.asked
      /\ Live(m) => m.active = 1 /\ m.state # "TERMINATED"
  <2>1. /\ m.actT /\ m.handle = NoPid /\ m.pong = "off" /\ m.pid \notin Procs
        /\ ~m.termT /\ ~m.ttlT
    BY <1>1 DEF Fit, Tied
  <2>2. \A p \in Procs : proc[p] = "up" => p \in m.asked
    BY <2>1 DEF Fit, Watched
  <2>3. Live(m) => m.active = 1
    BY <1>1, <2>1, OneActivation
  <2>4. Live(m) => m.state # "TERMINATED"
    BY <2>3 DEF Fit, Owned
  <2> QED
    BY <2>1, <2>2, <2>3, <2>4
<1>5. Step(c) /\ m.relaunch # 0 => c \in Master /\ Fit(c)
  <2> SUFFICES ASSUME m.relaunch # 0 PROVE c \in Master /\ Fit(c)
    OBVIOUS
  <2>1. c \in Master
    <3>1. m.relaunch - 1 \in 0 .. RelaunchCount /\ NoPid \in Procs \cup {NoPid, RetryPid}
      BY <1>1, NumberFields, ConstantsAssumption
    <3> QED
      BY <1>1, <3>1, ZenonT(40) DEF Master
  <2>2. /\ c.pid = NoPid /\ c.handle = m.handle /\ c.pong = m.pong /\ c.termT = m.termT
        /\ c.ttlT = m.ttlT /\ c.relT = m.relT /\ c.actT = m.actT /\ c.asked = m.asked
        /\ c.alive = m.alive /\ c.uaf = m.uaf /\ c.create = m.create
        /\ c.active = m.active /\ c.state = m.state
    BY <1>1 DEF Master
  <2> HIDE DEF c
  <2>3. Tied(c) /\ Watched(c)
    BY <1>3, <1>4, <2>2 DEF Tied, Watched
  <2>4. Live(c) => Owned(c)
    BY <1>4, <2>2 DEF Live, Owned
  <2> QED
    BY <2>1, <2>3, <2>4 DEF Fit
<1>6. x.launch \notin {NoPid, RetryPid} => d \in Master /\ Fit(d)
  <2> SUFFICES ASSUME x.launch \notin {NoPid, RetryPid} PROVE d \in Master /\ Fit(d)
    OBVIOUS
  <2>1. x.launch \in Procs
    BY <1>1 DEF LaunchResults
  <2>2. d \in Master
    <3>1. m.mine \cup {x.launch} \in SUBSET Procs /\ x.launch \in Procs \cup {NoPid, RetryPid}
      BY <1>1, <2>1, SetFields
    <3> QED
      BY <1>1, <3>1, ZenonT(40) DEF Master
  <2>3. /\ d.pid = x.launch /\ d.handle = m.handle /\ d.pong = m.pong /\ d.termT = m.termT
        /\ d.ttlT = m.ttlT /\ ~d.relT /\ d.actT = m.actT /\ d.asked = m.asked
        /\ d.alive = m.alive /\ d.uaf = m.uaf /\ d.create = m.create
        /\ d.active = m.active /\ d.state = m.state
    BY <1>1 DEF Master
  <2> HIDE DEF d
  <2>4. Tied(d) /\ Watched(d)
    BY <1>4, <2>3 DEF Tied, Watched
  <2>5. Live(d) => Owned(d)
    BY <1>4, <2>3 DEF Live, Owned
  <2> QED
    BY <2>2, <2>4, <2>5 DEF Fit
<1> HIDE DEF c, d
<1>7. a \in Master
  BY <1>1, ZenonT(40) DEF Master
<1>8. /\ Plain(m, a)
      /\ a.pid = m.pid /\ a.handle = m.handle /\ a.pong = m.pong /\ a.termT = m.termT
      /\ a.ttlT = m.ttlT /\ ~a.relT /\ a.asked = m.asked
      /\ a.alive = m.alive /\ a.uaf = m.uaf /\ a.create = m.create
      /\ a.active = m.active /\ a.state = m.state
  BY <1>1 DEF Plain, SameBooks, Loaded, Destroyed, Master
<1> HIDE DEF a
<1>9. b \in Master
  <2>1. NoPid \in Procs \cup {NoPid, RetryPid}
    OBVIOUS
  <2> QED
    BY <1>7, <2>1, ZenonT(40) DEF Master
<1>10. /\ Plain(a, b)
       /\ b.pid = NoPid /\ b.handle = a.handle /\ b.pong = a.pong /\ b.termT = a.termT
       /\ b.ttlT = a.ttlT /\ ~b.relT /\ b.asked = a.asked
       /\ b.alive = a.alive /\ b.uaf = a.uaf /\ b.create = a.create
       /\ b.active = a.active /\ b.state = a.state
  BY <1>7, <1>8 DEF Plain, SameBooks, Loaded, Destroyed, Master
<1> HIDE DEF b
<1>11. Kind(a)
  BY <1>1, <1>7, <1>8, PlainKind
<1>12. Kind(b)
  BY <1>7, <1>9, <1>10, <1>11, PlainMoves, KindAfter
<1>13. t \in Master /\ Fit(t)
  <2>1. /\ Tied(a) /\ Watched(a) /\ a.pid \notin Procs
        /\ Live(a) => a.active = 1 /\ a.state # "TERMINATED"
    BY <1>4, <1>8 DEF Tied, Watched, Live
  <2> QED
    BY <1>1, <1>7, <1>11, <2>1, SlaveFaultType, SlaveFaultFit
<1>14. u \in Master /\ Fit(u)
  <2>1. /\ Tied(b) /\ Watched(b) /\ b.pid \notin Procs
        /\ Live(b) => b.active = 1 /\ b.state # "TERMINATED"
    BY <1>3, <1>4, <1>8, <1>10 DEF Tied, Watched, Live
  <2> QED
    BY <1>1, <1>9, <1>12, <2>1, SlaveFaultType, SlaveFaultFit
<1> HIDE DEF t, u
<1> QED
  BY <1>2, <1>5, <1>6, <1>13, <1>14, FitRun

LEMMA PingTimeoutFit ==
  ASSUME TypeOK, Books, Sound, Fit(m), NEW x \in Failing, PingTimeout(x)
  PROVE  Fit(m)'
<1> DEFINE a == [m EXCEPT !.pong = "off"]
           t == DeactivatedByFault(a, x)
<1>1. /\ m \in Master /\ x \in Inputs /\ Fresh(x) /\ Killable(m, x) /\ m.pong = "on"
      /\ m.alive
  BY InputsOfProcess, AliveWhenUsed DEF TypeOK, PingTimeout
<1>2. (Step(a) /\ ~IsActivated(a)) \/ Step(t)
  BY Zenon DEF PingTimeout
<1>3. a \in Master
  BY <1>1, ZenonT(40) DEF Master
<1>4. /\ Plain(m, a)
      /\ a.pid = m.pid /\ a.handle = m.handle /\ a.pong = "off" /\ a.termT = m.termT
      /\ a.ttlT = m.ttlT /\ a.relT = m.relT /\ a.actT = m.actT /\ a.asked = m.asked
      /\ a.alive = m.alive /\ a.uaf = m.uaf /\ a.create = m.create
      /\ a.active = m.active /\ a.state = m.state
  BY <1>1 DEF Plain, SameBooks, Loaded, Destroyed, Master
<1> HIDE DEF a
<1>5. Tied(a) /\ Watched(a) /\ Killable(a, x) /\ Kind(a)
  <2>1. Kind(a)
    BY <1>1, <1>3, <1>4, PlainKind
  <2> QED
    BY <1>1, <1>4, <2>1 DEF Fit, Tied, Watched, Killable
<1>6. Live(a) => a.active = 1
  <2>1. m.pid # NoPid
    BY <1>1 DEF Fit, Tied
  <2>2. Live(m) => m.active = 1
    BY <1>1, <2>1, OneActivation
  <2> QED
    BY <1>4, <2>2 DEF Live
<1>7. ~IsActivated(a) => Fit(a)
  BY <1>4, <1>5 DEF Fit, Live, Owned
<1>8. t \in Master /\ Fit(t)
  BY <1>1, <1>3, <1>5, <1>6, <1>7, DeactivatedByFaultType, DeactivatedByFaultFit
<1> HIDE DEF t
<1> QED
  BY <1>2, <1>3, <1>7, <1>8, FitRun
-----------------------------------------------------------------------------
(* Requests, answers and disconnections *)

LEMMA ConsumeFit ==
  ASSUME TypeOK, Fit(m), Consume
  PROVE  Fit(m)'
<1> DEFINE c == Head(m.cmds)
           a == [m EXCEPT !.cmds = Tail(@)]
           b == [a EXCEPT !.asked = @ \cup {a.handle}]
           d == [a EXCEPT !.sent[a.handle] = Append(@, c)]
           e == AnswerNull(a, <<c>>)
<1>1. m \in Master /\ m.cmds # <<>> /\ m.cmds \in Seq(Requests)
  <2>1. m \in Master /\ m.cmds # <<>>
    BY DEF TypeOK, Consume
  <2> QED
    BY <2>1, QueueFacts
<1>2. c \in Requests /\ Tail(m.cmds) \in Seq(Requests)
  BY <1>1
<1>3. \/ Step(e)
      \/ a.handle # NoPid /\ Step(Unref(b))
      \/ a.handle # NoPid /\ Step(d)
  BY Zenon DEF Consume
<1>4. a \in Master
  BY <1>1, <1>2, ZenonT(40) DEF Master
<1>5. Rests(m, a)
  BY <1>1 DEF Rests, Onward, IsActivated, Master
<1> HIDE DEF a, c
<1>6. e \in Master /\ Rests(m, e)
  <2>1. <<c>> \in Seq(Requests)
    BY <1>2
  <2> QED
    BY <1>4, <1>5, <2>1, AnswerNullType, AnswerNullRests, RestsTrans
<1> HIDE DEF e
<1>7. a.handle # NoPid => a.handle \in Procs
  <2>1. a.handle \in Procs \cup {NoPid}
    BY <1>4, ZenonT(40) DEF Master
  <2> QED
    BY <2>1
<1>8. a.handle # NoPid => Unref(b) \in Master /\ Rests(m, Unref(b))
  <2> SUFFICES ASSUME a.handle # NoPid PROVE Unref(b) \in Master /\ Rests(m, Unref(b))
    OBVIOUS
  <2>1. b \in Master
    <3>1. a.asked \cup {a.handle} \in SUBSET Procs
      BY <1>4, <1>7, SetFields
    <3> QED
      BY <1>4, <3>1, ZenonT(40) DEF Master
  <2>2. Rests(a, b)
    BY <1>4 DEF Rests, Onward, IsActivated, Master
  <2> HIDE DEF b
  <2> QED
    BY <1>5, <2>1, <2>2, UnrefType, UnrefRests, RestsTrans
<1>9. a.handle # NoPid => d \in Master /\ Rests(m, d)
  <2> SUFFICES ASSUME a.handle # NoPid PROVE d \in Master /\ Rests(m, d)
    OBVIOUS
  <2> DEFINE q == Append(a.sent[a.handle], c)
  <2>1. a.sent \in [Procs -> Seq(Requests)]
    BY <1>4, ZenonT(40) DEF Master
  <2>2. q \in Seq(Requests)
    <3>1. a.sent[a.handle] \in Seq(Requests)
      BY <1>7, <2>1
    <3> QED
      BY <1>2, <3>1
  <2>3. d = [a EXCEPT !.sent[a.handle] = q]
    BY <1>4, <1>7, <2>1 DEF Master
  <2> HIDE DEF d, q
  <2>4. d \in Master
    BY <1>4, <1>7, <2>2, <2>3, SetSent, Zenon
  <2>5. Rests(a, d)
    BY <1>4, <2>3 DEF Rests, Onward, IsActivated, Master
  <2> QED
    BY <1>5, <2>4, <2>5, RestsTrans
<1> HIDE DEF b, d
<1>10. Unref(b) \in Master \/ a.handle = NoPid
  BY <1>8
<1> QED
  BY <1>3, <1>6, <1>8, <1>9, RestsRun

\* Without late hellos, only a slave that waits for it takes a provider.
LEMMA HelloFit ==
  ASSUME TypeOK, Sound, Fit(m), NEW p \in Procs, NEW known \in BOOLEAN,
         NEW x \in Launching, Hello(p, known, x)
  PROVE  Fit(m)'
<1> DEFINE a == [m EXCEPT !.asked = @ \cup {p}]
           b == [m EXCEPT !.pid = p]
           t == UpdateHandle(b, p, x)
<1>1. m \in Master /\ x \in Inputs /\ x.launch \in LaunchResults
  BY InputsOfRuns DEF TypeOK
<1>2. \/ Step(m) \/ Step(a)
      \/ /\ Step(t) /\ (m.pid \in Procs => m.pid = p)
         /\ m.active # 0 \/ LateHello
  BY Zenon DEF Hello
<1>3. a \in Master /\ Rests(m, a)
  <2>1. m.asked \cup {p} \in SUBSET Procs
    BY <1>1, SetFields
  <2>2. a \in Master
    BY <1>1, <2>1, ZenonT(40) DEF Master
  <2>3. Rests(m, a)
    BY <1>1 DEF Rests, Onward, IsActivated, Master
  <2> QED
    BY <2>2, <2>3
<1> HIDE DEF a
<1>4. t \in Master
  <2>1. b \in Master
    <3>1. p \in Procs \cup {NoPid, RetryPid}
      OBVIOUS
    <3> QED
      BY <1>1, <3>1, ZenonT(40) DEF Master
  <2> HIDE DEF b
  <2> QED
    BY <1>1, <2>1, UpdateHandleType
<1>5. (m.pid \in Procs => m.pid = p) /\ (m.active # 0 \/ LateHello) => Fit(t)
  <2> SUFFICES ASSUME m.pid \in Procs => m.pid = p, m.active # 0 \/ LateHello
               PROVE  Fit(t)
    OBVIOUS
  <2>1. Live(m) => m.active # 0
    BY DEF Live
  <2> QED
    BY <1>1, <2>1, UpdateHandleFit
<1> HIDE DEF t
<1> QED
  BY <1>1, <1>2, <1>3, <1>4, <1>5, RestsRun, RestsSame, FitRun

LEMMA CtrlFit ==
  ASSUME TypeOK, Fit(m), NEW p \in Procs,
         NEW options \in SUBSET (Rare \cap {"term", "react"}), Ctrl(p, options)
  PROVE  Fit(m)'
<1> DEFINE t == [m EXCEPT !.ctrl = options]
<1>1. m \in Master /\ options \in SUBSET {"term", "react"} /\ Step(t)
  BY DEF TypeOK, Ctrl
<1>2. t \in Master
  BY <1>1, ZenonT(40) DEF Master
<1>3. Rests(m, t)
  BY <1>1, SetPlain
<1> QED
  BY <1>1, <1>2, <1>3, RestsRun

LEMMA AnswerFit ==
  ASSUME TypeOK, Fit(m), NEW p \in Procs, NEW ok \in BOOLEAN,
         NEW x \in Stopping, Answer(p, ok, x)
  PROVE  Fit(m)'
<1> DEFINE r == Head(m.sent[p])
           q == Tail(m.sent[p])
           a == [m EXCEPT !.sent[p] = Tail(@)]
           own == r \in {"pause", "resume"}
           st == IF r = "pause" THEN "PAUSED" ELSE "RESUMED"
           pg == IF a.pong = "off" THEN "off" ELSE IF r = "pause" THEN "frozen" ELSE "on"
           b1 == [a EXCEPT !.state = st,
                           !.pong = IF @ = "off" THEN "off"
                                    ELSE IF r = "pause" THEN "frozen" ELSE "on"]
           D == IF ok THEN {} ELSE {r} \cap a.live
           c == Doom(a, D)
           d == Unlink(c, {i \in c.doomed : ~Held(c, i)})
           e == DeactivateIfEmptied(a, d, x)
<1>1. m \in Master /\ x \in Inputs /\ Fresh(x) /\ Killable(m, x)
  BY InputsOfProcess DEF TypeOK
<1>2. \/ Step(Unref(a)) \/ Step(Unref(e))
      \/ Step(Unref(b1)) /\ a.state \notin Leaving
  BY Zenon DEF Answer
<1>3. m.sent[p] \in Seq(Requests) /\ q \in Seq(Requests)
  <2>1. m.sent[p] \in Seq(Requests) /\ m.sent[p] # <<>>
    BY <1>1, QueueFacts DEF Answer
  <2> QED
    BY <2>1
<1>4. a \in Master
  BY <1>1, <1>3, SetSent, Zenon
<1>5. Rests(m, a)
  BY <1>1 DEF Rests, Onward, IsActivated, Master
<1> HIDE DEF a
<1>6. Fit(a) /\ Killable(a, x)
  BY <1>1, <1>4, <1>5, RestsFit, RestsLost
<1>7. ASSUME a.state \notin Leaving PROVE b1 \in Master /\ Fit(b1)
  <2>1. st \in {"PAUSED", "RESUMED"} /\ st \in States /\ pg \in {"off", "on", "frozen"}
        /\ (pg = "off" <=> a.pong = "off")
    BY DEF States
  <2>2. b1 = [a EXCEPT !.state = st, !.pong = pg]
    OBVIOUS
  <2> HIDE DEF b1, st, pg
  <2>3. b1 \in Master
    BY <1>4, <2>1, <2>2, ZenonT(40) DEF Master
  <2>4. /\ b1.pid = a.pid /\ b1.handle = a.handle /\ b1.pong = pg /\ b1.termT = a.termT
        /\ b1.ttlT = a.ttlT /\ b1.relT = a.relT /\ b1.actT = a.actT /\ b1.asked = a.asked
        /\ b1.alive = a.alive /\ b1.uaf = a.uaf /\ b1.create = a.create
        /\ b1.active = a.active /\ b1.state = st
    BY <1>4, <2>2 DEF Master
  <2>5. Tied(b1) /\ Watched(b1)
    BY <1>6, <2>1, <2>4 DEF Fit, Tied, Watched
  <2>6. ASSUME Live(b1) PROVE Owned(b1)
    <3>1. Owned(a)
      BY <1>6, <2>4, <2>6 DEF Fit, Live
    <3>2. ASSUME a.handle # NoPid PROVE IsActivated(a)
      <4>1. a.active # 0
        BY <1>6, <3>1, <3>2 DEF Fit, Tied, Owned
      <4> QED
        BY <1>7, <3>1, <4>1 DEF Owned, IsActivated, Leaving
    <3>3. a.handle # NoPid => a.pong # "off"
      BY <3>1, <3>2 DEF Owned
    <3> QED
      BY <2>1, <2>4, <3>1, <3>3 DEF Owned
  <2> QED
    BY <2>3, <2>5, <2>6 DEF Fit
<1> HIDE DEF b1
<1>8. e \in Master /\ Fit(e)
  <2>1. D \in SUBSET Insts
    BY <1>4, SetFields
  <2> HIDE DEF D
  <2>2. c \in Master /\ Rests(a, c)
    BY <1>4, <2>1, DoomType, DoomRests
  <2> HIDE DEF c
  <2>3. d \in Master /\ Rests(a, d)
    BY <2>2, UnlinkType, UnlinkRests, RestsTrans
  <2> HIDE DEF d
  <2>4. Fit(d) /\ Killable(d, x)
    BY <1>4, <1>6, <2>3, RestsFit, RestsLost
  <2> QED
    BY <1>1, <2>3, <2>4, DeactivateIfEmptiedType, DeactivateIfEmptiedFit
<1> HIDE DEF e
<1>9. \A s \in Master : Fit(s) => Unref(s) \in Master /\ Fit(Unref(s))
  BY UnrefType, UnrefRests, RestsFit
<1> QED
  BY <1>2, <1>4, <1>6, <1>7, <1>8, <1>9, FitRun

LEMMA DeadMonitorFit ==
  ASSUME TypeOK, Books, Sound, Fit(m), NEW p \in Procs, NEW x \in Failing,
         proc[p] = "dead"
  PROVE  Fit(DeadMonitor(m, p, x)) /\ Killable(DeadMonitor(m, p, x), x)
<1> DEFINE a == [m EXCEPT !.wait = FALSE, !.reactivate = FALSE, !.reactInst = TRUE]
           t == DeadMonitor(m, p, x)
<1>1. m \in Master /\ x \in Inputs /\ Fresh(x) /\ Killable(m, x)
  BY InputsOfProcess DEF TypeOK
<1>2. \/ t = m
      \/ /\ m.alive /\ m.handle = p /\ m.pid # NoPid
         /\ t \in {Deactivated(m, x), Deactivated(a, x), DeactivatedByFault(m, x)}
  BY Zenon DEF DeadMonitor
<1> HIDE DEF t
<1>3. CASE /\ m.alive /\ m.handle = p /\ m.pid # NoPid
           /\ t \in {Deactivated(m, x), Deactivated(a, x), DeactivatedByFault(m, x)}
  <2>1. a \in Master /\ Rests(m, a)
    <3>1. a \in Master
      BY <1>1, ZenonT(40) DEF Master
    <3>2. Rests(m, a)
      BY <1>1 DEF Rests, Onward, IsActivated, Master
    <3> QED
      BY <3>1, <3>2
  <2> HIDE DEF a
  <2>2. p # NoPid
    BY ConstantsAssumption DEF NoPid
  <2>3. Lost(m)
    BY <1>3, <2>2 DEF Fit, Tied, Lost
  <2>4. Live(m) => m.active = 1
    BY <1>1, <1>3, OneActivation
  <2>5. Endable(m)
    BY <2>4 DEF Endable
  <2>6. Lost(a) /\ Watched(a) /\ Endable(a)
    BY <1>1, <2>1, <2>3, <2>5, RestsLost, RestsEndable DEF Fit
  <2>7. /\ Fit(Deactivated(m, x)) /\ Killable(Deactivated(m, x), x)
        /\ Fit(Deactivated(a, x)) /\ Killable(Deactivated(a, x), x)
    BY <1>1, <2>1, <2>3, <2>5, <2>6, DeactivatedFit DEF Fit
  <2>8. Fit(DeactivatedByFault(m, x)) /\ Killable(DeactivatedByFault(m, x), x)
    BY <1>1, <1>3, <2>4, KindNow, DeactivatedByFaultFit DEF Fit
  <2> QED
    BY <1>3, <2>7, <2>8 DEF t
<1> QED
  BY <1>1, <1>2, <1>3 DEF t

LEMMA DisconnectFit ==
  ASSUME TypeOK, Books, Sound, Fit(m), NEW p \in Procs, NEW x \in Failing,
         Disconnect(p, x)
  PROVE  Fit(m)'
<1> DEFINE a == DeadMonitor(m, p, x)
           lost == a.sent[p]
           b == [a EXCEPT !.sent[p] = <<>>]
           c == AnswerNull(b, lost)
           d == DeactivateIfEmptied(b, c, x)
<1>1. m \in Master /\ x \in Inputs /\ Fresh(x) /\ proc[p] = "dead"
  BY InputsOfProcess DEF TypeOK, Disconnect
<1>2. Step(a) \/ Step(d)
  BY Zenon DEF Disconnect
<1>3. a \in Master /\ Fit(a) /\ Killable(a, x)
  BY <1>1, DeadMonitorType, DeadMonitorFit
<1> HIDE DEF a
<1>4. lost \in Seq(Requests) /\ <<>> \in Seq(Requests)
  BY <1>3, QueueFacts
<1>5. b \in Master
  BY <1>3, <1>4, SetSent, Zenon
<1>6. Rests(a, b)
  BY <1>3 DEF Rests, Onward, IsActivated, Master
<1> HIDE DEF b, lost
<1>7. c \in Master /\ Rests(a, c)
  BY <1>4, <1>5, <1>6, AnswerNullType, AnswerNullRests, RestsTrans
<1> HIDE DEF c
<1>8. d \in Master /\ Fit(d)
  <2>1. Fit(c) /\ Killable(c, x)
    BY <1>3, <1>7, RestsFit, RestsLost
  <2> QED
    BY <1>1, <1>7, <2>1, DeactivateIfEmptiedType, DeactivateIfEmptiedFit
<1> HIDE DEF d
<1> QED
  BY <1>2, <1>3, <1>8, FitRun

LEMMA ProcessActionsFit ==
  ASSUME TypeOK, Fit(m), NEW p \in Procs, SendHello(p) \/ Die(p) \/ Reuse(p)
  PROVE  Fit(m)'
<1> DEFINE t == [m EXCEPT !.mine = @ \ {p}, !.asked = @ \ {p}]
<1>1. m \in Master /\ proc \in [Procs -> {"idle", "up", "dead"}]
  BY DEF TypeOK
<1>2. CASE SendHello(p) \/ Die(p)
  <2>1. m' = m /\ \A k \in Procs : proc'[k] = "up" => proc[k] = "up"
    BY <1>1, <1>2 DEF SendHello, Die
  <2>2. Tied(m)' /\ (Live(m)' => Owned(m)') /\ Watched(m)'
    BY <2>1 DEF Fit, Tied, Live, Owned, IsActivated, Watched
  <2> QED
    BY <2>2 DEF Fit
<1>3. CASE Reuse(p)
  <2>1. m' = t /\ proc[p] = "dead" /\ proc' = [proc EXCEPT ![p] = "idle"]
    BY <1>3 DEF Reuse
  <2>2. /\ t.pid = m.pid /\ t.handle = m.handle /\ t.pong = m.pong /\ t.termT = m.termT
        /\ t.ttlT = m.ttlT /\ t.relT = m.relT /\ t.actT = m.actT
        /\ t.asked = m.asked \ {p}
        /\ t.alive = m.alive /\ t.uaf = m.uaf /\ t.create = m.create
        /\ t.active = m.active /\ t.state = m.state
    BY <1>1 DEF Master
  <2> HIDE DEF t
  <2>3. Tied(m)' /\ (Live(m)' => Owned(m)')
    BY <2>1, <2>2 DEF Fit, Tied, Live, Owned, IsActivated
  <2>4. Watched(m)'
    BY <1>1, <2>1, <2>2 DEF Fit, Watched
  <2> QED
    BY <2>3, <2>4 DEF Fit
<1> QED
  BY <1>2, <1>3
-----------------------------------------------------------------------------
(* The theorems *)

LEMMA InitFit == Init => Fit(m)
<1> SUFFICES ASSUME Init PROVE Fit(m)
  OBVIOUS
<1>1. /\ m.pid = NoPid /\ m.handle = NoPid /\ m.pong = "off" /\ ~m.termT /\ ~m.ttlT
      /\ ~m.relT /\ ~m.alive
      /\ \A p \in Procs : proc[p] = "idle"
  BY DEF Init
<1> QED
  BY <1>1 DEF Fit, Tied, Live, Watched

LEMMA NextFit == TypeOK /\ Books /\ Fit(m) /\ [Next]_vars => Fit(m)'
<1> SUFFICES ASSUME TypeOK, Books, Fit(m), [Next]_vars PROVE Fit(m)'
  OBVIOUS
<1>1. CASE UNCHANGED vars
  BY <1>1 DEF vars, Fit, Tied, Live, Owned, IsActivated, Watched
<1>2. CASE Next
  <2> Sound
    BY <1>2, Zenon DEF Next
  <2>2. ASSUME NEW x \in Launching, NEW i \in Insts, CreateInstance(i, x)
        PROVE  Fit(m)'
    BY <2>2, CreateInstanceFit
  <2>3. ASSUME NEW x \in Launching, NEW i \in Insts,
               RequestInstance(i, x) \/ ReactivateInstance(i, x) PROVE Fit(m)'
    BY <2>3, RequestInstanceFit
  <2>4. ASSUME NEW x \in Launching, ActivateAll(x) PROVE Fit(m)'
    BY <2>4, ActivateAllFit
  <2>5. ASSUME NEW x \in Launching, XMonitor(x) PROVE Fit(m)'
    BY <2>5, XMonitorFit
  <2>6. ASSUME NEW x \in Launching, NEW p \in Procs, NEW known \in BOOLEAN,
               Hello(p, known, x) PROVE Fit(m)'
    BY <2>6, HelloFit
  <2>7. ASSUME NEW x \in Stopping, NEW i \in Insts, InstanceDeleted(i, x)
        PROVE  Fit(m)'
    BY <2>7, InstanceDeletedFit
  <2>8. ASSUME NEW x \in Stopping, DeactivateAll(x) PROVE Fit(m)'
    BY <2>8, DeactivateAllFit
  <2>9. ASSUME NEW x \in Stopping, TerminateTimer(x) PROVE Fit(m)'
    BY <2>9, TerminateTimerFit
  <2>10. ASSUME NEW x \in Stopping, TtlTimer(x) PROVE Fit(m)'
    BY <2>10, TtlTimerFit
  <2>11. ASSUME NEW x \in Stopping, NEW p \in Procs, NEW ok \in BOOLEAN,
                Answer(p, ok, x) PROVE Fit(m)'
    BY <2>11, AnswerFit
  <2>12. ASSUME NEW x \in Expiring, ActivateTimer(x) PROVE Fit(m)'
    BY <2>12, ActivateTimerFit DEF Expiring
  <2>13. ASSUME NEW x \in Failing, PingTimeout(x) PROVE Fit(m)'
    BY <2>13, PingTimeoutFit
  <2>14. ASSUME NEW x \in Failing, NEW p \in Procs, Disconnect(p, x) PROVE Fit(m)'
    BY <2>14, DisconnectFit
  <2>15. ASSUME NEW x \in Relaunching, RelaunchTimer(x) PROVE Fit(m)'
    BY <2>15, RelaunchTimerFit
  <2>16. ASSUME \/ ClearFault
                \/ \E b \in BOOLEAN : WaitDeactivation(b)
                \/ \E i \in Insts : UninstallInstance(i) PROVE Fit(m)'
    BY <2>16, PackageActionsFit
  <2>17. ASSUME Consume PROVE Fit(m)'
    BY <2>17, ConsumeFit
  <2>18. ASSUME NEW p \in Procs, NEW options \in SUBSET (Rare \cap {"term", "react"}),
                Ctrl(p, options) PROVE Fit(m)'
    BY <2>18, CtrlFit
  <2>19. ASSUME NEW p \in Procs, SendHello(p) \/ Die(p) \/ Reuse(p) PROVE Fit(m)'
    BY <2>19, ProcessActionsFit
  <2> QED
    BY <1>2, <2>2, <2>3, <2>4, <2>5, <2>6, <2>7, <2>8, <2>9, <2>10, <2>11, <2>12,
       <2>13, <2>14, <2>15, <2>16, <2>17, <2>18, <2>19, Zenon DEF Next
<1> QED
  BY <1>1, <1>2

LEMMA FitProcess == Fit(m) => HandleIsPid /\ TimersHaveProcess /\ NoOrphanProcess
BY DEF Fit, Tied, Watched, HandleIsPid, TimersHaveProcess, NoOrphanProcess

LEMMA FitOwned ==
  ASSUME ~LateHello
  PROVE  TypeOK /\ Books /\ Fit(m) => ProcessIsOwned
<1> SUFFICES ASSUME TypeOK, Books, Fit(m) PROVE ProcessIsOwned
  OBVIOUS
<1>1. HandleIsPid /\ TimersHaveProcess /\ NoOrphanProcess
  BY FitProcess
<1>2. ASSUME Sound
      PROVE  /\ m.active = 0 <=> m.pid = NoPid /\ ~m.actT
             /\ m.active > 0 => m.actT \/ m.handle # NoPid
             /\ m.handle # NoPid /\ IsActivated(m) => m.pong # "off"
  <2>1. CASE m.alive
    <3>1. Live(m)
      BY <1>2, <2>1 DEF Sound, Live
    <3>2. Owned(m) /\ Tied(m)
      BY <3>1 DEF Fit
    <3>3. m.active \in Int /\ m.active >= 0
      BY <1>2, NumberFields DEF TypeOK, Sound
    <3>4. m.active # 0 => ~(m.pid = NoPid /\ ~m.actT)
      BY <3>2, <3>3 DEF Owned, Tied
    <3> QED
      BY <3>2, <3>4 DEF Owned
  <2>2. CASE ~m.alive
    <3>1. m.active = 0 /\ m.pid = NoPid /\ ~m.actT /\ m.handle = NoPid
      BY <1>2, <2>2, NothingLeft DEF Destroyed
    <3> QED
      BY <3>1
  <2> QED
    BY <2>1, <2>2
<1> QED
  BY <1>1, <1>2 DEF ProcessIsOwned, ActivationHasProcess, LaunchIsWatched,
                    ProviderIsPinged

(* Whatever the order of hello, timers, deaths and answers, and with hellos *)
(* that come after the master gave up waiting too: the connection of       *)
(* slave_rpc.c is that of slave->pid, slave_life.c's timers that kill have *)
(* a process to kill, and no provider is left running that nobody has asked *)
(* to end.                                                                 *)
THEOREM ProcessIsKnown == Spec => [](HandleIsPid /\ TimersHaveProcess /\ NoOrphanProcess)
BY InitType, NextType, InitBooks, NextBooks, InitFit, NextFit, FitProcess, PTL DEF Spec

(* When no hello comes after the master gave up waiting for it: process,   *)
(* connection, watchdog and timers of a slave (slave_life.c, slave_rpc.c)  *)
(* belong to one activation.                                               *)
THEOREM ProcessOwned == ASSUME ~LateHello PROVE Spec => []ProcessIsOwned
BY InitType, NextType, InitBooks, NextBooks, InitFit, NextFit, FitOwned, PTL DEF Spec
-----------------------------------------------------------------------------
(* One release for one reference                                           *)

\* The parts of the count that Books adds up, each within its bounds
Whole(s) ==
  /\ ~s.uaf /\ Kept(s)
  /\ s.create \in {0, 1} /\ s.active >= 0
  /\ s.pkg => Loaded(s) # {}
  /\ s.create = 0 => s.active = 0 /\ ~s.pkg

\* The run took or gave up references of its own, k of them, and no other.
Passes(s, t, k) ==
  /\ Whole(t) /\ Off(t) = Off(s) + k
  /\ t.create = s.create /\ t.active = s.active

\* Every reference that the count owes is there.
Covered(s, n) == Whole(s) /\ Off(s) >= n

LEMMA WholeGood ==
  ASSUME NEW s, Whole(s)
  PROVE  Good(s) /\ ~s.uaf /\ Kept(s)
BY DEF Whole, Good

LEMMA WholeCount ==
  ASSUME NEW s \in Master, NEW n \in Nat, Covered(s, n)
  PROVE  /\ s.refcnt >= n
         /\ s.create = 1 => s.refcnt > n /\ s.refcnt # 0 /\ s.alive
         /\ s.refcnt # 0 => s.alive
<1>1. /\ s.refcnt \in Nat /\ s.create \in Int /\ s.active \in Int /\ Waiting(s) \in Nat
      /\ Bit(s.pkg) \in {0, 1}
  BY Numbers
<1>2. Off(s) = s.refcnt - (s.create + s.active + Bit(s.pkg) + Waiting(s))
  BY Zenon DEF Off, Owed
<1>3. Off(s) >= n /\ s.create >= 0 /\ s.active >= 0
  BY DEF Covered, Whole
<1>4. s.refcnt >= n /\ (s.create = 1 => s.refcnt > n /\ s.refcnt # 0)
  <2> DEFINE r == s.refcnt
             c == s.create
             a == s.active
             b == Bit(s.pkg)
             w == Waiting(s)
             o == Off(s)
  <2>1. /\ r \in Nat /\ c \in Int /\ a \in Int /\ w \in Nat /\ b \in {0, 1}
        /\ o = r - (c + a + b + w) /\ o >= n /\ c >= 0 /\ a >= 0
    BY <1>1, <1>2, <1>3, Zenon
  <2> HIDE DEF r, c, a, b, w, o
  <2>2. r >= n /\ (c = 1 => r > n /\ r # 0)
    BY <2>1
  <2> QED
    BY <2>2 DEF r, c
<1>5. s.refcnt # 0 => s.alive
  BY DEF Covered, Whole, Kept, Destroyed
<1> QED
  BY <1>4, <1>5, Zenon

LEMMA PassesTrans ==
  ASSUME NEW s \in Master, NEW t \in Master, NEW u \in Master,
         NEW j \in Int, NEW k \in Int, Passes(s, t, j), Passes(t, u, k)
  PROVE  Passes(s, u, j + k)
<1>1. Off(s) \in Int /\ Off(t) \in Int /\ Off(u) \in Int
  BY Numbers
<1>2. Off(u) = Off(s) + (j + k)
  BY <1>1 DEF Passes
<1> QED
  BY <1>2, Zenon DEF Passes

LEMMA PassesCovered ==
  ASSUME NEW s \in Master, NEW t \in Master, NEW k \in Int, NEW n \in Int,
         Passes(s, t, k), Off(s) >= n
  PROVE  Covered(t, n + k)
<1>1. Off(s) \in Int /\ Off(t) \in Int
  BY Numbers
<1> QED
  BY <1>1 DEF Passes, Covered

\* A function that keeps all the parts but the requests and the count
LEMMA LevelPasses ==
  ASSUME NEW s \in Master, NEW t \in Master, NEW k \in Int, Whole(s), Moves(s, t, k),
         ~t.uaf, t.create = s.create, t.active = s.active, t.pkg = s.pkg,
         Loaded(t) = Loaded(s)
  PROVE  Passes(s, t, k)
<1>1. Kept(t) /\ Off(t) = Off(s) + k
  BY DEF Whole, Moves
<1>2. Whole(t)
  BY <1>1, Zenon DEF Whole
<1> QED
  BY <1>1, <1>2, Zenon DEF Passes

LEMMA PlainPasses ==
  ASSUME NEW s \in Master, NEW t \in Master, Whole(s), Plain(s, t)
  PROVE  Passes(s, t, 0)
<1>1. Moves(s, t, 0) /\ 0 \in Int
  BY PlainMoves
<1>2. ~t.uaf /\ t.create = s.create /\ t.active = s.active /\ t.pkg = s.pkg
      /\ Loaded(t) = Loaded(s)
  BY Zenon DEF Plain, SameBooks, Whole
<1> QED
  BY <1>1, <1>2, LevelPasses, Zenon

LEMMA UnrefsPasses ==
  ASSUME NEW s \in Master, NEW n \in Nat, Covered(s, n)
  PROVE  Passes(s, Unrefs(s, n), -n)
<1> DEFINE t == Unrefs(s, n)
<1>1. s.refcnt \in Nat /\ s.refcnt >= n /\ -n \in Int
  BY WholeCount, Numbers
<1>2. t \in Master /\ Moves(s, t, -n)
  BY UnrefsType, UnrefsMoves
<1>3. /\ t.uaf = s.uaf /\ t.create = s.create /\ t.active = s.active /\ t.pkg = s.pkg
      /\ Loaded(t) = Loaded(s)
  <2>1. \/ t = s
        \/ t = [s EXCEPT !.refcnt = @ - n]
        \/ t = Destroy([s EXCEPT !.refcnt = 0])
    BY <1>1 DEF Unrefs
  <2> QED
    BY <2>1 DEF Destroy, Loaded, Master
<1> HIDE DEF t
<1>4. Whole(s) /\ ~s.uaf
  BY DEF Covered, Whole
<1>5. Passes(s, t, -n)
  BY <1>1, <1>2, <1>3, <1>4, LevelPasses, Zenon
<1> QED
  BY <1>5 DEF t

LEMMA UnrefPasses ==
  ASSUME NEW s \in Master, Covered(s, 1)
  PROVE  Unref(s) \in Master /\ Passes(s, Unref(s), -1)
<1>1. 1 \in Nat
  OBVIOUS
<1> QED
  BY <1>1, UnrefType, UnrefsPasses, Zenon DEF Unref

\* slave_ref of the run
LEMMA RefPasses ==
  ASSUME NEW s \in Master, Whole(s), s.alive
  PROVE  [s EXCEPT !.refcnt = @ + 1] \in Master
         /\ Passes(s, [s EXCEPT !.refcnt = @ + 1], 1)
<1> DEFINE t == [s EXCEPT !.refcnt = @ + 1]
<1>1. t \in Master /\ Moves(s, t, 1) /\ 1 \in Int
  BY RefType, RefMoves
<1>2. ~t.uaf /\ t.create = s.create /\ t.active = s.active /\ t.pkg = s.pkg
      /\ Loaded(t) = Loaded(s)
  BY DEF Loaded, Master, Whole
<1> HIDE DEF t
<1>3. Passes(s, t, 1)
  BY <1>1, <1>2, LevelPasses
<1> QED
  BY <1>1, <1>3 DEF t

\* The last instance takes the package's reference along, and the reference of
\* slave_create is still there.
LEMMA UnlinkPasses ==
  ASSUME NEW s \in Master, NEW S, S \subseteq Loaded(s), Covered(s, 0)
  PROVE  Passes(s, Unlink(s, S), 0)
<1> DEFINE left  == [s EXCEPT !.live = @ \ S, !.doomed = @ \ S]
           last  == S # {} /\ Loaded(left) = {}
           a     == [left EXCEPT !.pkg = FALSE]
           freed == Unref(a)
           quiet == [freed EXCEPT !.reactivate = FALSE, !.reactInst = FALSE]
           t     == Unlink(s, S)
<1>1. left \in Master
  <2>1. s.live \ S \in SUBSET Insts /\ s.doomed \ S \in SUBSET Insts
    BY SetFields
  <2> QED
    BY <2>1, SetLoaded, Zenon
<1>2. /\ SameBooks(s, left) /\ Loaded(left) = Loaded(s) \ S
      /\ (Destroyed(s) => Destroyed(left))
  BY DEF SameBooks, Loaded, Master, Destroyed
<1>3. /\ ~last => t = left
      /\ last /\ freed.alive => t = quiet \/ t = freed
  <2>1. freed = ReleasePackage(left)
    BY Zenon DEF ReleasePackage
  <2> QED
    BY <2>1, Zenon DEF Unlink
<1>4. t \in Master
  BY UnlinkType
<1>5. /\ ~s.uaf /\ Kept(s) /\ s.create \in {0, 1} /\ s.active >= 0
      /\ (s.pkg => Loaded(s) # {}) /\ (s.create = 0 => s.active = 0 /\ ~s.pkg)
      /\ Off(s) >= 0 /\ Off(s) \in Int
  BY Numbers DEF Covered, Whole
<1> HIDE DEF t, left
<1>6. Kept(left) /\ Off(left) = Off(s) + 0 /\ ~left.uaf
  <2>1. Moves(s, left, 0)
    BY <1>1, <1>2, <1>5, FrameMoves DEF Kept, SameBooks
  <2> QED
    BY <1>2, <1>5, <2>1 DEF Moves, SameBooks
<1>7. CASE ~last
  <2>1. Loaded(left) = {} => Loaded(s) = {}
    BY <1>2, <1>7
  <2>2. Whole(left)
    BY <1>2, <1>5, <1>6, <2>1 DEF Whole, SameBooks
  <2>3. Passes(s, left, 0)
    BY <1>2, <1>6, <2>2 DEF Passes, SameBooks
  <2> QED
    BY <1>3, <1>7, <2>3 DEF t
<1>8. CASE last
  <2>1. s.pkg /\ s.create = 1
    BY <1>2, <1>5, <1>8 DEF Kept
  <2>2. /\ a \in Master /\ Moves(left, a, 1) /\ Loaded(a) = {}
        /\ a.create = left.create /\ a.active = left.active /\ ~a.pkg /\ ~a.uaf
    <3>1. left.pkg /\ Loaded(left) = {}
      BY <1>2, <1>8, <2>1 DEF SameBooks
    <3> QED
      BY <1>1, <1>6, <3>1, DropPackage
  <2> HIDE DEF a
  <2>3. Kept(a) /\ Off(a) = Off(s) + 1
    BY <1>5, <1>6, <2>2 DEF Moves
  <2>4. Passes(s, a, 1)
    <3>1. Whole(a)
      BY <1>2, <1>5, <2>1, <2>2, <2>3 DEF Whole, SameBooks
    <3> QED
      BY <1>2, <2>2, <2>3, <3>1 DEF Passes, SameBooks
  <2>5. Covered(a, 1)
    BY <1>5, <2>3, <2>4 DEF Covered, Passes
  <2>6. freed \in Master /\ Passes(a, freed, -1)
    BY <2>2, <2>5, UnrefPasses
  <2> HIDE DEF freed
  <2>7. Passes(s, freed, 0)
    <3>1. 1 + -1 = 0 /\ 1 \in Int /\ -1 \in Int
      OBVIOUS
    <3>2. Passes(s, freed, 1 + -1)
      BY <2>2, <2>4, <2>6, <3>1, PassesTrans
    <3> QED
      BY <3>1, <3>2, Zenon
  <2>8. freed.alive
    <3>1. Covered(freed, 0) /\ freed.create = 1
      BY <1>5, <2>1, <2>7 DEF Covered, Passes
    <3>2. 0 \in Nat
      OBVIOUS
    <3> QED
      BY <2>6, <3>1, <3>2, WholeCount
  <2>9. t = quiet => Passes(s, quiet, 0)
    <3>1. Plain(freed, quiet)
      BY <2>6 DEF Plain, SameBooks, Loaded, Master, Destroyed
    <3> HIDE DEF quiet
    <3>2. t = quiet => Passes(freed, quiet, 0)
      BY <1>4, <2>6, <2>7, <3>1, PlainPasses DEF Passes
    <3>3. 0 \in Int /\ 0 + 0 = 0
      OBVIOUS
    <3>4. t = quiet => Passes(s, quiet, 0 + 0)
      BY <1>4, <2>6, <2>7, <3>2, <3>3, PassesTrans
    <3> QED
      BY <3>3, <3>4, Zenon
  <2> QED
    BY <1>3, <1>8, <2>7, <2>8, <2>9 DEF t
<1> QED
  BY <1>7, <1>8

\* A function of which the run keeps the references, after another
LEMMA PassesThen ==
  ASSUME NEW s \in Master, NEW t \in Master, NEW u \in Master, NEW k \in Int,
         Passes(s, t, k), Passes(t, u, 0)
  PROVE  Passes(s, u, k)
<1>1. Passes(s, u, k + 0) /\ k + 0 = k
  BY PassesTrans
<1> QED
  BY <1>1, Zenon

LEMMA DoomPasses ==
  ASSUME NEW s \in Master, NEW D, D \subseteq s.live, Covered(s, 0)
  PROVE  Doom(s, D) \in Master /\ Passes(s, Doom(s, D), 0)
<1> DEFINE a == [s EXCEPT !.live = @ \ D, !.doomed = @ \cup D]
           S == D \ {i \in D : Held(s, i)}
<1>1. s.live \subseteq Insts /\ s.doomed \subseteq Insts
  BY SetFields
<1>2. a \in Master
  <2>1. s.live \ D \in SUBSET Insts /\ s.doomed \cup D \in SUBSET Insts
    BY <1>1
  <2> QED
    BY <2>1, SetLoaded, Zenon
<1>3. Plain(s, a) /\ D \subseteq Loaded(a)
  BY DEF Plain, SameBooks, Loaded, Master, Destroyed
<1>4. Doom(s, D) = Unlink(a, S)
  BY Zenon DEF Doom
<1> HIDE DEF a
<1>5. Passes(s, a, 0)
  BY <1>2, <1>3, PlainPasses DEF Covered
<1>6. Covered(a, 0) /\ S \subseteq Loaded(a)
  BY <1>3, <1>5, Numbers DEF Covered, Passes
<1> HIDE DEF S
<1>7. Unlink(a, S) \in Master /\ Passes(a, Unlink(a, S), 0)
  BY <1>2, <1>6, UnlinkType, UnlinkPasses
<1>8. 0 \in Int
  OBVIOUS
<1>9. Passes(s, Unlink(a, S), 0)
  BY <1>2, <1>5, <1>7, <1>8, PassesThen
<1> QED
  BY <1>4, <1>7, <1>9

\* One reference is released for each of the requests, which the caller counts.
LEMMA AnswerNullPasses ==
  ASSUME NEW s \in Master, NEW q \in Seq(Requests), Covered(s, Len(q))
  PROVE  AnswerNull(s, q) \in Master /\ Passes(s, AnswerNull(s, q), -Len(q))
<1> DEFINE own  == {k \in DOMAIN q : q[k] \in {"pause", "resume"}}
           last == CHOOSE k \in own : \A j \in own : j <= k
           st   == IF own = {} \/ s.state \in Leaving THEN s.state
                   ELSE IF q[last] = "pause" THEN "RESUMED" ELSE "PAUSED"
           t    == [s EXCEPT !.state = st]
           S    == {i \in t.doomed : ~Held(t, i)}
           u    == Unlink(t, S)
           n    == Len(q)
           v    == Unrefs(u, n)
<1>1. t \in Master
  <2>1. s.state \in States /\ "RESUMED" \in States /\ "PAUSED" \in States
    BY ZenonT(40) DEF Master, States
  <2>2. st \in States
    BY <2>1, Zenon
  <2> QED
    BY <2>2, SetState, Zenon
<1>2. AnswerNull(s, q) = v
  BY Zenon DEF AnswerNull
<1>3. n \in Nat /\ -n \in Int /\ 0 \in Int
  OBVIOUS
<1> HIDE DEF st
<1>4. Plain(s, t)
  BY DEF Plain, SameBooks, Loaded, Master, Destroyed
<1> HIDE DEF t
<1>5. Passes(s, t, 0)
  BY <1>1, <1>4, PlainPasses DEF Covered
<1>6. S \subseteq Loaded(t)
  BY DEF Loaded
<1>7. Covered(t, 0) /\ Off(t) >= n
  <2>1. Off(s) >= n /\ Off(t) = Off(s) + 0 /\ Off(s) \in Int
    BY <1>5, Numbers DEF Covered, Passes
  <2> HIDE DEF n
  <2> QED
    BY <1>3, <1>5, <2>1 DEF Covered, Passes
<1> HIDE DEF S
<1>8. u \in Master /\ Passes(t, u, 0)
  BY <1>1, <1>6, <1>7, UnlinkType, UnlinkPasses
<1> HIDE DEF u, n
<1>9. Covered(u, n)
  <2>1. Off(u) = Off(t) + 0 /\ Off(t) \in Int
    BY <1>1, <1>8, Numbers DEF Passes
  <2> QED
    BY <1>3, <1>7, <1>8, <2>1 DEF Covered, Passes
<1>10. v \in Master /\ Passes(u, v, -n)
  BY <1>3, <1>8, <1>9, UnrefsType, UnrefsPasses
<1> HIDE DEF v
<1>11. Passes(s, u, 0)
  BY <1>1, <1>3, <1>5, <1>8, PassesThen
<1>12. Passes(s, v, 0 + -n) /\ 0 + -n = -n
  BY <1>3, <1>8, <1>10, <1>11, PassesTrans
<1> QED
  BY <1>2, <1>10, <1>12, Zenon DEF n

LEMMA RpcDeactivatePasses ==
  ASSUME NEW s \in Master, Covered(s, 0)
  PROVE  RpcDeactivate(s) \in Master /\ Passes(s, RpcDeactivate(s), 0)
<1> DEFINE q == IF s.handle = NoPid THEN s.pend ELSE s.cmds
           t == IF s.handle = NoPid THEN [s EXCEPT !.pend = <<>>]
                ELSE [s EXCEPT !.cmds = <<>>]
           n == Len(q)
           u == [t EXCEPT !.pong = "off"]
           v == AnswerNull(u, q)
           w == [v EXCEPT !.handle = NoPid]
<1>1. RpcDeactivate(s) = w
  BY Zenon DEF RpcDeactivate
<1>2. q \in Seq(Requests) /\ n \in Nat /\ t \in Master /\ Moves(s, t, n)
  BY EmptyQueue
<1>3. /\ t.create = s.create /\ t.active = s.active /\ t.pkg = s.pkg
      /\ t.uaf = s.uaf /\ Loaded(t) = Loaded(s)
  BY EmptyQueue
<1> HIDE DEF t, n
<1>4. n \in Int /\ -n \in Int /\ 0 \in Int /\ n + -n = 0 /\ 0 + n = n
  BY <1>2
<1>5. Passes(s, t, n)
  BY <1>2, <1>3, <1>4, LevelPasses DEF Covered, Whole
<1>6. u \in Master
  BY <1>2, ZenonT(40) DEF Master
<1>7. Plain(t, u)
  BY <1>2 DEF Plain, SameBooks, Loaded, Destroyed, Master
<1> HIDE DEF u
<1>8. Passes(s, u, n)
  <2>1. Passes(t, u, 0)
    BY <1>2, <1>5, <1>6, <1>7, PlainPasses DEF Passes
  <2> QED
    BY <1>2, <1>4, <1>5, <1>6, <2>1, PassesThen
<1>9. Covered(u, n)
  <2>1. Covered(u, 0 + n)
    BY <1>4, <1>6, <1>8, PassesCovered DEF Covered
  <2> QED
    BY <1>4, <2>1, Zenon
<1>10. v \in Master /\ Passes(u, v, -n)
  BY <1>2, <1>6, <1>9, AnswerNullPasses DEF n
<1> HIDE DEF v, q
<1>11. Passes(s, v, 0)
  <2>1. Passes(s, v, n + -n)
    BY <1>4, <1>6, <1>8, <1>10, PassesTrans
  <2> QED
    BY <1>4, <2>1, Zenon
<1>12. w \in Master
  <2>1. NoPid \in Procs \cup {NoPid}
    OBVIOUS
  <2> QED
    BY <1>10, <2>1, ZenonT(40) DEF Master
<1>13. Plain(v, w)
  BY <1>10 DEF Plain, SameBooks, Loaded, Destroyed, Master
<1> HIDE DEF w
<1>14. Passes(v, w, 0)
  BY <1>10, <1>11, <1>12, <1>13, PlainPasses DEF Passes
<1>15. Passes(s, w, 0)
  BY <1>4, <1>10, <1>11, <1>12, <1>14, PassesThen
<1> QED
  BY <1>1, <1>12, <1>15

LEMMA KeepPasses ==
  ASSUME NEW s \in Master, NEW t \in Master, NEW k \in Int, Whole(s), Moves(s, t, k),
         Keeps(s, t), t.active = s.active
  PROVE  Passes(s, t, k)
<1>1. ~t.uaf /\ t.create = s.create /\ t.pkg = s.pkg /\ Loaded(t) = Loaded(s)
  BY Zenon DEF Keeps, Whole
<1> QED
  BY <1>1, LevelPasses

\* An activation needs the slave's first reference.
LEMMA GrowWhole ==
  ASSUME NEW s \in Master, NEW t \in Master, Whole(s), Moves(s, t, 0), Keeps(s, t),
         s.create = 1, t.active >= s.active
  PROVE  Whole(t) /\ Off(t) = Off(s)
<1>1. Kept(t) /\ Off(t) = Off(s) + 0 /\ Off(s) \in Int
  BY Numbers DEF Whole, Moves, Keeps
<1>2. /\ ~t.uaf /\ t.create = 1 /\ t.active >= 0 /\ (t.pkg => Loaded(t) # {})
  BY NumberFields DEF Whole, Keeps
<1>3. Whole(t)
  BY <1>1, <1>2 DEF Whole
<1> QED
  BY <1>1, <1>3

LEMMA ActivateWhole ==
  ASSUME NEW s \in Master, NEW launch \in LaunchResults, Whole(s), s.alive,
         s.create = 1
  PROVE  LET t == Activate(s, launch)
         IN  t \in Master /\ Whole(t) /\ Off(t) = Off(s) /\ t.alive /\ t.create = 1
<1> DEFINE t == Activate(s, launch)
<1>1. t \in Master /\ Moves(s, t, 0) /\ Keeps(s, t)
  BY ActivateType, ActivateMoves
<1>2. t.active = s.active \/ t.active = s.active + 1
  BY ActivateEither DEF Rests, Starts
<1> HIDE DEF t
<1>3. t.active >= s.active
  BY <1>2, NumberFields
<1> QED
  BY <1>1, <1>3, GrowWhole DEF Keeps, t

\* A request to a slave that need not be activated for it
LEMMA EnqueuePasses ==
  ASSUME NEW s \in Master, NEW c \in Requests, NEW urgent \in BOOLEAN, NEW launch,
         Whole(s), s.alive, IsActivated(s) \/ s.pid # NoPid
  PROVE  LET t == Enqueue(s, c, urgent, launch)
         IN  t \in Master /\ Passes(s, t, 0) /\ t.alive
<1> DEFINE t == Enqueue(s, c, urgent, launch)
<1>1. t \in Master /\ Moves(s, t, 0) /\ Keeps(s, t)
  BY EnqueueType, EnqueueMoves
<1>2. t.active = s.active
  BY EnqueueEither DEF Rests, Starts
<1> HIDE DEF t
<1>3. 0 \in Int
  OBVIOUS
<1>4. Passes(s, t, 0)
  BY <1>1, <1>2, <1>3, KeepPasses
<1> QED
  BY <1>1, <1>4 DEF Keeps, t

LEMMA EnqueueWhole ==
  ASSUME NEW s \in Master, NEW c \in Requests, NEW urgent \in BOOLEAN,
         NEW launch \in LaunchResults, Whole(s), s.alive, s.create = 1
  PROVE  LET t == Enqueue(s, c, urgent, launch)
         IN  t \in Master /\ Whole(t) /\ Off(t) = Off(s)
<1> DEFINE t == Enqueue(s, c, urgent, launch)
<1>1. t \in Master /\ Moves(s, t, 0) /\ Keeps(s, t)
  BY EnqueueType, EnqueueMoves
<1>2. t.active = s.active \/ t.active = s.active + 1
  BY EnqueueEither DEF Rests, Starts
<1> HIDE DEF t
<1>3. t.active >= s.active
  BY <1>2, NumberFields
<1> QED
  BY <1>1, <1>3, GrowWhole DEF t

LEMMA TerminatePidPasses ==
  ASSUME NEW s \in Master, NEW x \in Inputs, Whole(s)
  PROVE  LET t == TerminatePid(s, x)
         IN  t \in Master /\ Passes(s, t, 0) /\ t.alive = s.alive
<1> DEFINE t == TerminatePid(s, x)
<1>1. t \in Master
  BY TerminatePidType
<1>2. t = s \/ t = [s EXCEPT !.asked = @ \cup {s.pid}]
  BY Zenon DEF TerminatePid
<1> HIDE DEF t
<1>3. Plain(s, t) /\ t.alive = s.alive
  <2>1. CASE t = s
    BY <2>1 DEF Plain, SameBooks
  <2>2. CASE t = [s EXCEPT !.asked = @ \cup {s.pid}]
    BY <2>2 DEF Plain, SameBooks, Loaded, Master, Destroyed
  <2> QED
    BY <1>2, <2>1, <2>2
<1>4. Passes(s, t, 0)
  BY <1>1, <1>3, PlainPasses
<1> QED
  BY <1>1, <1>3, <1>4 DEF t

\* slave_deactivated gives up one activation, and the first reference with the
\* last instance.
LEMMA DeactivatedWhole ==
  ASSUME NEW s \in Master, NEW x \in Inputs, Covered(s, 0), s.alive, s.active = 1
  PROVE  LET t == Deactivated(s, x)
         IN  t \in Master /\ Whole(t) /\ Off(t) = Off(s)
<1> DEFINE s1 == StopTimers(s)
           a == [s1 EXCEPT !.pid = NoPid, !.state = "TERMINATED", !.refcnt = @ + 1]
           D == IF a.fault THEN a.live ELSE a.live \cap x.dooms
           b == Doom(a, D)
           b1 == RpcDeactivate(b)
           c == Unref(b1)
           c1 == [c EXCEPT !.active = @ - 1]
           d == Unref(c1)
           e == Activate(d, x.launch)
           d1 == [d EXCEPT !.create = @ - 1]
           f == Unref(d1)
           t == Deactivated(s, x)
<1>1. a \in Master
  BY StopMoves, Zenon
<1>2. c.refcnt # 0 /\ d.refcnt # 0 =>
        \/ t = d
        \/ t = e /\ x.launch # Asleep
        \/ t = f /\ Loaded(d) = {}
  BY Zenon DEF Deactivated
<1>3. Passes(s, a, 1)
  <2>1. /\ a.create = s.create /\ a.active = s.active /\ a.pkg = s.pkg
        /\ a.uaf = s.uaf /\ a.alive = s.alive
        /\ Loaded(a) = Loaded(s) /\ Off(a) = Off(s) + 1
    BY StopMoves, Zenon
  <2> HIDE DEF a
  <2>2. Moves(s, a, 1) /\ 1 \in Int /\ Whole(s) /\ ~a.uaf
    BY <2>1 DEF Moves, Kept, Covered, Whole
  <2> QED
    BY <1>1, <2>1, <2>2, LevelPasses
<1>4. t \in Master
  BY DeactivatedType
<1>5. Off(s) \in Int /\ Off(s) >= 0 /\ s.create = 1 /\ 0 \in Int /\ 1 \in Int /\ 0 \in Nat
  BY Numbers DEF Covered, Whole
<1> HIDE DEF a, t
<1>6. Covered(a, 1)
  BY <1>3, <1>5 DEF Covered, Passes
<1>7. b \in Master /\ Passes(a, b, 0)
  <2>1. D \subseteq a.live /\ Covered(a, 0)
    BY <1>1, <1>6, Numbers DEF Covered
  <2> HIDE DEF D
  <2> QED
    BY <1>1, <2>1, DoomPasses
<1> HIDE DEF b, D
<1>8. b1 \in Master /\ Passes(b, b1, 0)
  <2>1. Covered(b, 0)
    BY <1>1, <1>6, <1>7, Numbers DEF Covered, Passes
  <2> QED
    BY <1>7, <2>1, RpcDeactivatePasses
<1> HIDE DEF b1
<1>9. Passes(s, b1, 1)
  <2>1. Passes(s, b, 1)
    BY <1>1, <1>3, <1>5, <1>7, PassesThen
  <2> QED
    BY <1>5, <1>7, <1>8, <2>1, PassesThen
<1>10. c \in Master /\ Whole(c) /\ Off(c) = Off(s) /\ c.create = 1 /\ c.active = 1
  <2>1. Covered(b1, 1)
    BY <1>5, <1>9 DEF Covered, Passes
  <2>2. c \in Master /\ Passes(b1, c, -1)
    BY <1>8, <2>1, UnrefPasses
  <2> QED
    BY <1>5, <1>9, <2>2 DEF Passes
<1> HIDE DEF c
<1>11. c.refcnt # 0 /\ c.alive
  <2>1. Covered(c, 0)
    BY <1>5, <1>10 DEF Covered
  <2> QED
    BY <1>5, <1>10, <2>1, WholeCount
<1>12. /\ c1 \in Master /\ Whole(c1) /\ Off(c1) = Off(s) + 1 /\ c1.create = 1
       /\ c1.active = 0
  <2>1. Good(c)
    BY <1>10, WholeGood
  <2>2. /\ c1 \in Master /\ Moves(c, c1, 1) /\ c1.active = c.active - 1
        /\ c1.create = c.create /\ c1.pkg = c.pkg /\ c1.uaf = c.uaf
        /\ Loaded(c1) = Loaded(c)
    BY <1>10, <2>1, GiveMoves
  <2> HIDE DEF c1
  <2>3. c1.active = 0 /\ Kept(c1) /\ Off(c1) = Off(s) + 1
    BY <1>10, <2>2 DEF Moves, Whole
  <2>4. Whole(c1)
    BY <1>10, <2>2, <2>3 DEF Whole
  <2> QED
    BY <1>10, <2>2, <2>3, <2>4
<1> HIDE DEF c1
<1>13. /\ d \in Master /\ Whole(d) /\ Off(d) = Off(s) /\ d.create = 1 /\ d.active = 0
  <2>1. Covered(c1, 1)
    BY <1>5, <1>12 DEF Covered
  <2>2. d \in Master /\ Passes(c1, d, -1)
    BY <1>12, <2>1, UnrefPasses
  <2> QED
    BY <1>5, <1>12, <2>2 DEF Passes
<1> HIDE DEF d
<1>14. d.refcnt # 0 /\ d.alive
  <2>1. Covered(d, 0)
    BY <1>5, <1>13 DEF Covered
  <2> QED
    BY <1>5, <1>13, <2>1, WholeCount
<1>15. CASE t = d
  BY <1>13, <1>15 DEF t
<1>16. CASE t = e /\ x.launch # Asleep
  <2>1. x.launch \in LaunchResults
    BY <1>16, InputsFacts
  <2>2. Whole(e) /\ Off(e) = Off(d)
    BY <1>13, <1>14, <2>1, ActivateWhole
  <2> QED
    BY <1>4, <1>13, <1>16, <2>2 DEF t
<1>17. CASE t = f /\ Loaded(d) = {}
  <2>1. Good(d) /\ ~d.pkg /\ ~d.uaf /\ Kept(d)
    BY <1>13, <1>17, WholeGood DEF Whole
  <2>2. /\ d1 \in Master /\ Moves(d, d1, 1) /\ d1.create = d.create - 1
        /\ d1.active = d.active /\ d1.pkg = d.pkg /\ d1.uaf = d.uaf
        /\ Loaded(d1) = Loaded(d)
    BY <1>13, <2>1, GiveMoves
  <2> HIDE DEF d1
  <2>3. d1.create = 0 /\ d1.active = 0 /\ Kept(d1) /\ Off(d1) = Off(s) + 1
    BY <1>13, <2>1, <2>2 DEF Moves
  <2>4. ~d1.pkg /\ ~d1.uaf
    BY <2>1, <2>2, Zenon
  <2>5. Whole(d1)
    BY <2>3, <2>4 DEF Whole
  <2>6. Covered(d1, 1)
    BY <1>5, <2>3, <2>5 DEF Covered
  <2>7. Passes(d1, f, -1)
    BY <2>2, <2>6, UnrefPasses
  <2>8. Whole(f) /\ Off(f) = Off(s)
    BY <1>5, <2>3, <2>7 DEF Passes
  <2> QED
    BY <1>4, <1>17, <2>8 DEF t
<1> QED
  BY <1>2, <1>11, <1>14, <1>15, <1>16, <1>17

\* The next step of a function, which leaves the activation alone
Follows(s, t) ==
  /\ Covered(t, 0) /\ Off(t) = Off(s)
  /\ t.active = s.active /\ t.create = s.create /\ t.alive = s.alive

LEMMA PassesFollows ==
  ASSUME NEW s \in Master, NEW t \in Master, Covered(s, 0), Passes(s, t, 0),
         t.alive = s.alive
  PROVE  Follows(s, t)
<1>1. Off(t) = Off(s) /\ Off(s) >= 0
  BY Numbers DEF Passes, Covered
<1> QED
  BY <1>1 DEF Passes, Covered, Follows

LEMMA PlainFollows ==
  ASSUME NEW s \in Master, NEW t \in Master, Covered(s, 0), Plain(s, t)
  PROVE  Follows(s, t)
<1>1. Passes(s, t, 0)
  BY PlainPasses DEF Covered
<1>2. t.alive = s.alive
  BY DEF Plain, SameBooks
<1> QED
  BY <1>1, <1>2, PassesFollows

LEMMA FollowsTrans ==
  ASSUME NEW s, NEW t, NEW u, Follows(s, t), Follows(t, u)
  PROVE  Follows(s, u)
BY Zenon DEF Follows

LEMMA WholeCovered ==
  ASSUME NEW s \in Master, NEW t, Covered(s, 0), Whole(t), Off(t) = Off(s)
  PROVE  Covered(t, 0)
BY DEF Covered

\* An activation that can be given up
Running(s) == Covered(s, 0) /\ s.alive /\ s.active = 1

\* A slave with a process has one activation.
Single(s) == s.alive /\ s.pid \in Procs => s.active = 1

LEMMA DeactivateWhole ==
  ASSUME NEW s \in Master, NEW noTimer, NEW x \in Inputs, Covered(s, 0), s.alive,
         Single(s)
  PROVE  LET t == Deactivate(s, noTimer, x)
         IN  t \in Master /\ Covered(t, 0) /\ Off(t) = Off(s)
<1> DEFINE a == [s EXCEPT !.ttlT = FALSE]
           a1 == [a EXCEPT !.state = "TERMINATE"]
           b == TerminatePid(a1, x)
           c == [a EXCEPT !.state = "DISCONNECT"]
           d == Enqueue(c, "disconnect", FALSE, x.launch)
           e == [a EXCEPT !.termT = TRUE]
           t == Deactivate(s, noTimer, x)
<1>1. a \in Master /\ Plain(s, a)
  <2>1. a \in Master
    BY ZenonT(40) DEF Master
  <2>2. Plain(s, a)
    BY DEF Plain, SameBooks, Loaded, Destroyed, Master
  <2> QED
    BY <2>1, <2>2
<1>2. \/ t = s
      \/ s.pid \in Procs /\ t \in {a, d, e, b, Deactivated(b, x)}
  BY Zenon DEF Deactivate
<1>3. t \in Master
  BY DeactivateType
<1> HIDE DEF a, t
<1>4. a1 \in Master /\ c \in Master /\ e \in Master
  <2>1. a1 \in Master /\ c \in Master
    BY <1>1, SetState, Zenon DEF States
  <2>2. e \in Master
    BY <1>1, ZenonT(40) DEF Master
  <2> QED
    BY <2>1, <2>2
<1>5. Plain(a, a1) /\ Plain(a, c) /\ Plain(a, e) /\ c.state = "DISCONNECT"
  BY <1>1 DEF Plain, SameBooks, Loaded, Destroyed, Master
<1> HIDE DEF a1, c, e
<1>6. Follows(s, a)
  BY <1>1, PlainFollows
<1>7. Follows(s, a1) /\ Follows(s, c) /\ Follows(s, e)
  <2>1. Covered(a, 0)
    BY <1>6 DEF Follows
  <2>2. Follows(a, a1) /\ Follows(a, c) /\ Follows(a, e)
    BY <1>1, <1>4, <1>5, <2>1, PlainFollows
  <2> QED
    BY <1>6, <2>2, FollowsTrans
<1>8. Follows(s, d)
  <2>1. IsActivated(c) /\ Whole(c) /\ c.alive /\ Covered(c, 0)
    BY <1>5, <1>7 DEF IsActivated, Follows, Covered
  <2>2. "disconnect" \in Requests /\ FALSE \in BOOLEAN
    BY DEF Requests
  <2>3. d \in Master /\ Passes(c, d, 0) /\ d.alive
    BY <1>4, <2>1, <2>2, EnqueuePasses
  <2>4. Follows(c, d)
    BY <1>4, <2>1, <2>3, PassesFollows
  <2> QED
    BY <1>7, <2>4, FollowsTrans
<1> HIDE DEF d
<1>9. b \in Master /\ Follows(s, b)
  <2>1. Covered(a1, 0) /\ Whole(a1)
    BY <1>7 DEF Follows, Covered
  <2>2. b \in Master /\ Passes(a1, b, 0) /\ b.alive = a1.alive
    BY <1>4, <2>1, TerminatePidPasses
  <2>3. Follows(a1, b)
    BY <1>4, <2>1, <2>2, PassesFollows
  <2> QED
    BY <1>7, <2>2, <2>3, FollowsTrans
<1> HIDE DEF b
<1>10. CASE s.pid \in Procs /\ t = Deactivated(b, x)
  <2>1. Covered(b, 0) /\ b.alive /\ b.active = 1 /\ Off(b) = Off(s)
    BY <1>9, <1>10 DEF Follows, Single
  <2>2. Whole(t) /\ Off(t) = Off(b)
    BY <1>9, <1>10, <2>1, DeactivatedWhole
  <2> QED
    BY <1>3, <2>1, <2>2, WholeCovered DEF t
<1> QED
  BY <1>2, <1>3, <1>6, <1>7, <1>8, <1>9, <1>10 DEF Follows, t

LEMMA DeactivateIfEmptiedWhole ==
  ASSUME NEW s, NEW t \in Master, NEW x \in Inputs, Covered(t, 0), Single(t)
  PROVE  LET u == DeactivateIfEmptied(s, t, x)
         IN  u \in Master /\ Covered(u, 0) /\ Off(u) = Off(t)
BY DeactivateWhole, Zenon DEF DeactivateIfEmptied

\* Unless a failed kill ends the activation at once, which Secured makes possible
LEMMA FaultCbWhole ==
  ASSUME NEW s \in Master, NEW x \in Inputs, Fresh(x), Covered(s, 0), s.alive,
         Single(s), ~Secured
  PROVE  LET t == FaultCb(s, x)
         IN  /\ t \in Master /\ Covered(t, 0) /\ Off(t) = Off(s)
             /\ t.active = s.active /\ t.pid = s.pid /\ Rests(s, t)
<1> DEFINE a == [s EXCEPT !.refcnt = @ + 1]
           b == [a EXCEPT !.fault = (x.fault = "last")]
           d == Doom(b, b.live)
           e == DeactivateIfEmptied(b, d, x)
           c == IF ~a.pkg \/ a.fault THEN a ELSE e
           t == Unref(c)
<1>1. FaultCb(s, x) = t
  BY Zenon DEF FaultCb
<1>2. Rests(s, t) /\ t \in Master
  BY <1>1, FaultCbEither, FaultCbType
<1>3. a \in Master /\ Passes(s, a, 1) /\ a.alive /\ a.pid = s.pid
  <2>1. a.alive /\ a.pid = s.pid
    BY DEF Master
  <2> QED
    BY <2>1, RefPasses DEF Covered
<1>4. Off(s) \in Int /\ Off(s) >= 0 /\ 0 \in Int /\ 1 \in Int
  BY Numbers DEF Covered
<1> HIDE DEF a, t
<1>5. Covered(a, 0) /\ Covered(a, 1)
  BY <1>3, <1>4 DEF Covered, Passes
<1>6. b \in Master /\ Plain(a, b) /\ b.pid = a.pid
  <2>1. b \in Master
    BY <1>3, SetFault
  <2>2. Plain(a, b) /\ b.pid = a.pid
    BY <1>3 DEF Plain, SameBooks, Loaded, Destroyed, Master
  <2> QED
    BY <2>1, <2>2
<1> HIDE DEF b
<1>7. Follows(a, b)
  BY <1>3, <1>5, <1>6, PlainFollows
<1>8. d \in Master /\ Passes(b, d, 0) /\ Rests(b, d)
  <2>1. b.live \subseteq b.live /\ b.live \in SUBSET Insts
    BY <1>6, SetFields
  <2> QED
    BY <1>6, <1>7, <2>1, DoomPasses, DoomRests DEF Follows
<1> HIDE DEF d
<1>9. Covered(d, 0) /\ Off(d) = Off(a) /\ Single(d)
  <2>1. Off(d) = Off(b) + 0 /\ Off(b) \in Int /\ Off(b) >= 0 /\ Off(b) = Off(a)
    BY <1>6, <1>7, <1>8, Numbers DEF Passes, Follows, Covered
  <2>2. Single(d)
    BY <1>3, <1>6, <1>7, <1>8 DEF Passes, Rests, Follows, Single
  <2> QED
    BY <1>8, <2>1, <2>2 DEF Passes, Covered
<1>10. e \in Master /\ Covered(e, 0) /\ Off(e) = Off(a)
  BY <1>8, <1>9, DeactivateIfEmptiedWhole
<1> HIDE DEF e
<1>11. c \in Master /\ Covered(c, 1) /\ Off(c) = Off(s) + 1
  <2>1. Off(a) = Off(s) + 1
    BY <1>3 DEF Passes
  <2>2. c \in Master /\ Whole(c) /\ Off(c) = Off(a)
    BY <1>3, <1>5, <1>10 DEF Covered
  <2> HIDE DEF c
  <2> QED
    BY <1>4, <2>1, <2>2 DEF Covered
<1> HIDE DEF c
<1>12. Passes(c, t, -1)
  BY <1>11, UnrefPasses DEF t
<1>13. Covered(t, 0) /\ Off(t) = Off(s)
  BY <1>4, <1>11, <1>12 DEF Passes, Covered
<1> QED
  BY <1>1, <1>2, <1>13 DEF Rests

LEMMA RunningAfter ==
  ASSUME NEW s \in Master, NEW t \in Master, Running(s), Covered(t, 0),
         t.active = s.active
  PROVE  Running(t) /\ t.refcnt # 0
<1>1. 0 \in Nat /\ t.create = 1
  BY DEF Running, Covered, Whole
<1> QED
  BY <1>1, WholeCount DEF Running

LEMMA DeactivatedByFaultWhole ==
  ASSUME NEW s \in Master, NEW x \in Inputs, Fresh(x), Running(s), IsActivated(s),
         ~Secured
  PROVE  LET t == DeactivatedByFault(s, x)
         IN  t \in Master /\ Covered(t, 0) /\ Off(t) = Off(s)
<1> DEFINE a    == TerminatePid(s, x)
           soon == x.fault # "slow"
           stop == soon /\ (Loaded(s) = {} \/ s.crit + 1 >= MaxLoad)
           a1   == [a EXCEPT !.crit = 0, !.streak = 0]
           a2   == [a EXCEPT !.crit = 0,
                             !.streak = IF @ < MaxLoad THEN @ + 1 ELSE @]
           a3   == [a EXCEPT !.streak = 0]
           b1   == FaultCb(a1, x)
           b    == IF stop THEN b1 ELSE IF soon THEN a2 ELSE a3
           c1   == [b EXCEPT !.reactivate = FALSE, !.reactInst = FALSE]
           c2   == [b EXCEPT !.reactivate = TRUE, !.reactInst = TRUE]
           c    == IF stop THEN c1 ELSE c2
           t    == DeactivatedByFault(s, x)
<1>1. \/ t = b /\ b.refcnt = 0
      \/ t = Deactivated(c, x)
  BY Zenon DEF DeactivatedByFault
<1>2. t \in Master
  BY DeactivatedByFaultType
<1>3. a \in Master /\ Follows(s, a)
  <2>1. Whole(s) /\ Covered(s, 0)
    BY DEF Running, Covered
  <2>2. a \in Master /\ Passes(s, a, 0) /\ a.alive = s.alive
    BY <2>1, TerminatePidPasses
  <2> QED
    BY <2>1, <2>2, PassesFollows
<1> HIDE DEF t, a
<1>4. a1 \in Master /\ a2 \in Master /\ a3 \in Master
  <2>1. 0 \in 0 .. MaxLoad
    BY ConstantsAssumption
  <2>2. (IF a.streak < MaxLoad THEN a.streak + 1 ELSE a.streak) \in 0 .. MaxLoad
    <3>1. a.streak \in 0 .. MaxLoad
      BY <1>3, ZenonT(40) DEF Master
    <3> QED
      BY <3>1, ConstantsAssumption
  <2>3. a \in Master
    BY <1>3, Zenon
  <2>4. a1 \in Master
    BY <2>1, <2>3, ZenonT(40) DEF Master
  <2>5. a2 \in Master
    BY <2>1, <2>2, <2>3, ZenonT(40) DEF Master
  <2>6. a3 \in Master
    BY <2>1, <2>3, ZenonT(40) DEF Master
  <2> QED
    BY <2>4, <2>5, <2>6, Zenon
<1>5. Plain(a, a1) /\ Plain(a, a2) /\ Plain(a, a3)
  BY <1>3 DEF Plain, SameBooks, Loaded, Destroyed, Master
<1> HIDE DEF a1, a2, a3, stop, soon
<1>6. Follows(s, a1) /\ Follows(s, a2) /\ Follows(s, a3)
  <2>1. Covered(a, 0)
    BY <1>3 DEF Follows
  <2>2. Follows(a, a1) /\ Follows(a, a2) /\ Follows(a, a3)
    BY <1>3, <1>4, <1>5, <2>1, PlainFollows
  <2> QED
    BY <1>3, <2>2, FollowsTrans
<1>7. b1 \in Master /\ Covered(b1, 0) /\ Off(b1) = Off(s) /\ b1.active = s.active
  <2>1. Covered(a1, 0) /\ a1.alive /\ Single(a1)
    BY <1>6 DEF Follows, Running, Single
  <2>2. b1 \in Master /\ Covered(b1, 0) /\ Off(b1) = Off(a1) /\ b1.active = a1.active
    BY <1>4, <2>1, FaultCbWhole
  <2> QED
    BY <1>6, <2>2 DEF Follows
<1> HIDE DEF b1
<1>8. b \in Master /\ Covered(b, 0) /\ Off(b) = Off(s) /\ b.active = s.active
  BY <1>4, <1>6, <1>7 DEF Follows
<1> HIDE DEF b
<1>9. Running(b) /\ b.refcnt # 0
  BY <1>8, RunningAfter
<1>10. c \in Master /\ Plain(b, c)
  <2>1. c1 \in Master /\ c2 \in Master
    <3>1. TRUE \in BOOLEAN /\ FALSE \in BOOLEAN
      OBVIOUS
    <3> QED
      BY <1>8, <3>1, SetFlags, Zenon
  <2>2. Plain(b, c1) /\ Plain(b, c2)
    BY <1>8 DEF Plain, SameBooks, Loaded, Destroyed, Master
  <2> QED
    BY <2>1, <2>2
<1> HIDE DEF c
<1>11. Follows(b, c)
  BY <1>8, <1>10, PlainFollows
<1>12. Whole(Deactivated(c, x)) /\ Off(Deactivated(c, x)) = Off(s)
  <2>1. Covered(c, 0) /\ c.alive /\ c.active = 1 /\ Off(c) = Off(s)
    BY <1>8, <1>9, <1>11 DEF Follows, Running
  <2> QED
    BY <1>10, <2>1, DeactivatedWhole
<1>13. t = Deactivated(c, x)
  BY <1>1, <1>9
<1> QED
  BY <1>2, <1>12, <1>13, WholeCovered DEF t, Running

LEMMA SlaveFaultWhole ==
  ASSUME NEW s \in Master, NEW x \in Inputs, Fresh(x), Running(s), ~Secured
  PROVE  LET t == SlaveFault(s, x)
         IN  t \in Master /\ Covered(t, 0) /\ Off(t) = Off(s)
<1> DEFINE a == FaultCb(s, x)
           b == [a EXCEPT !.reactivate = FALSE, !.reactInst = FALSE]
           d == Enqueue(b, "disconnect", FALSE, x.launch)
           e == TerminatePid(b, x)
           c == IF b.pid \in Procs /\ "term" \in b.ctrl THEN d ELSE e
           t == SlaveFault(s, x)
<1>1. \/ t = a /\ a.refcnt = 0
      \/ t = c
      \/ t = Deactivated(c, x)
  BY Zenon DEF SlaveFault
<1>2. t \in Master
  BY SlaveFaultType
<1>3. a \in Master /\ Covered(a, 0) /\ Off(a) = Off(s) /\ a.active = s.active
  BY FaultCbWhole DEF Running, Single
<1> HIDE DEF a, t
<1>4. Running(a) /\ a.refcnt # 0
  BY <1>3, RunningAfter
<1>5. b \in Master /\ Plain(a, b)
  <2>1. b \in Master
    <3>1. FALSE \in BOOLEAN
      OBVIOUS
    <3> QED
      BY <1>3, <3>1, SetFlags, Zenon
  <2>2. Plain(a, b)
    BY <1>3 DEF Plain, SameBooks, Loaded, Destroyed, Master
  <2> QED
    BY <2>1, <2>2
<1> HIDE DEF b
<1>6. Follows(a, b) /\ Covered(b, 0) /\ Whole(b) /\ b.alive
  <2>1. Follows(a, b)
    BY <1>3, <1>5, PlainFollows
  <2> QED
    BY <1>4, <2>1 DEF Follows, Covered, Running
<1>7. e \in Master /\ Follows(b, e)
  BY <1>5, <1>6, TerminatePidPasses, PassesFollows
<1>8. b.pid \in Procs => d \in Master /\ Follows(b, d)
  <2>1. "disconnect" \in Requests /\ FALSE \in BOOLEAN
    BY DEF Requests
  <2>2. b.pid \in Procs => b.pid # NoPid
    BY ConstantsAssumption DEF NoPid
  <2>3. b.pid # NoPid => d \in Master /\ Passes(b, d, 0) /\ d.alive
    BY <1>5, <1>6, <2>1, EnqueuePasses
  <2> QED
    BY <1>5, <1>6, <2>2, <2>3, PassesFollows
<1> HIDE DEF d, e
<1>9. c \in Master /\ Follows(b, c)
  BY <1>7, <1>8
<1> HIDE DEF c
<1>10. Covered(c, 0) /\ c.alive /\ c.active = 1 /\ Off(c) = Off(s)
  BY <1>3, <1>4, <1>6, <1>9 DEF Follows, Running
<1>11. Whole(Deactivated(c, x)) /\ Off(Deactivated(c, x)) = Off(s)
  BY <1>9, <1>10, DeactivatedWhole
<1>12. Whole(c)
  BY <1>10 DEF Covered
<1> QED
  BY <1>1, <1>2, <1>4, <1>10, <1>11, <1>12, WholeCovered DEF t, Running

LEMMA DeadMonitorWhole ==
  ASSUME NEW s \in Master, NEW p, NEW x \in Inputs, Fresh(x), Covered(s, 0), ~Secured,
         s.alive /\ s.pid # NoPid => s.active = 1 /\ s.state # "TERMINATED"
  PROVE  LET t == DeadMonitor(s, p, x)
         IN  t \in Master /\ Covered(t, 0) /\ Off(t) = Off(s)
<1> DEFINE a == [s EXCEPT !.wait = FALSE, !.reactivate = FALSE, !.reactInst = TRUE]
           t == DeadMonitor(s, p, x)
<1>1. \/ t = s
      \/ /\ s.alive /\ s.pid # NoPid
         /\ \/ t \in {Deactivated(s, x), Deactivated(a, x)}
            \/ t = DeactivatedByFault(s, x) /\ s.state \notin Leaving
  BY Zenon DEF DeadMonitor
<1>2. t \in Master
  BY DeadMonitorType
<1>3. a \in Master
  BY ZenonT(40) DEF Master
<1>4. Plain(s, a)
  BY DEF Plain, SameBooks, Loaded, Destroyed, Master
<1> HIDE DEF a, t
<1>5. Follows(s, a)
  BY <1>3, <1>4, PlainFollows
<1>6. CASE s.alive /\ s.pid # NoPid
  <2>1. Running(s) /\ Covered(a, 0) /\ a.alive /\ a.active = 1 /\ Off(a) = Off(s)
    BY <1>5, <1>6 DEF Follows, Running
  <2>2. /\ Whole(Deactivated(s, x)) /\ Off(Deactivated(s, x)) = Off(s)
        /\ Whole(Deactivated(a, x)) /\ Off(Deactivated(a, x)) = Off(s)
    BY <1>3, <1>6, <2>1, DeactivatedWhole
  <2>3. t = DeactivatedByFault(s, x) /\ s.state \notin Leaving =>
          Covered(t, 0) /\ Off(t) = Off(s)
    <3>1. s.state \notin Leaving => IsActivated(s)
      BY <1>6 DEF IsActivated, Leaving
    <3> QED
      BY <2>1, <3>1, DeactivatedByFaultWhole
  <2>4. Whole(t) /\ Off(t) = Off(s) => Covered(t, 0)
    BY WholeCovered
  <2> QED
    BY <1>1, <1>2, <2>2, <2>3, <2>4 DEF t
<1> QED
  BY <1>1, <1>2, <1>6 DEF t
-----------------------------------------------------------------------------
(* What the runs of the main loop do to the counts *)

LEMMA SingleNow ==
  ASSUME NEW s \in Master, Fit(s), Whole(s), ~LateHello
  PROVE  /\ s.alive /\ (s.actT \/ s.pid # NoPid) => s.active = 1 /\ s.state # "TERMINATED"
         /\ Single(s)
<1>1. s.alive => Live(s)
  BY DEF Live, Whole
<1>2. s.alive /\ (s.actT \/ s.pid # NoPid) => s.active = 1
  BY <1>1, OneActivation
<1>3. s.alive /\ s.active = 1 => s.state # "TERMINATED"
  BY <1>1 DEF Fit, Owned
<1>4. NoPid \notin Procs
  BY ConstantsAssumption DEF NoPid
<1> QED
  BY <1>2, <1>3, <1>4 DEF Single

LEMMA WholeNow ==
  ASSUME TypeOK, Books, Sound, Fit(m), Whole(m), ~LateHello
  PROVE  /\ m \in Master /\ Off(m) = 0 /\ Covered(m, 0) /\ Single(m)
         /\ m.alive /\ (m.actT \/ m.pid # NoPid) => m.active = 1 /\ m.state # "TERMINATED"
<1>1. m \in Master /\ Off(m) = 0
  BY NothingLeft
<1> QED
  BY <1>1, SingleNow DEF Covered

LEMMA WholeRun ==
  ASSUME NEW t, Whole(t), Step(t)
  PROVE  Whole(m)'
BY DEF Step, Whole, Kept, Destroyed, Loaded

LEMMA CreateInstanceWhole ==
  ASSUME TypeOK, Books, Sound, Whole(m), "reuse" \notin Rare,
         NEW i \in Insts, NEW x \in Launching, CreateInstance(i, x)
  PROVE  Whole(m)'
<1> DEFINE s == IF m.alive THEN m ELSE NewSlave(m)
           s1 == [s EXCEPT !.pkg = TRUE, !.refcnt = @ + 1]
           t == IF s.pkg THEN s ELSE s1
           u == [t EXCEPT !.live = @ \cup {i}]
           a == Activate(u, x.launch)
           b == Enqueue(a, i, TRUE, x.launch)
<1>1. x.launch \in LaunchResults /\ i \in Requests /\ TRUE \in BOOLEAN
  BY InputsOfRuns DEF Requests
<1>2. Step(b) /\ (m.alive => m.create # 0)
  BY Zenon DEF CreateInstance, Creatable, Reusable
<1> HIDE DEF u
<1>3. /\ u \in Master /\ u.alive /\ ~u.uaf /\ Kept(u) /\ u.pkg /\ i \in Loaded(u)
      /\ IF m.alive THEN u.create = m.create /\ u.active = m.active
         ELSE u.create = 1 /\ u.active = 0
  BY NewInstance, Zenon DEF u
<1>4. u.create = 1 /\ u.active >= 0
  BY <1>2, <1>3 DEF Whole
<1>5. Whole(u)
  BY <1>3, <1>4 DEF Whole
<1>6. a \in Master /\ Whole(a) /\ a.alive /\ a.create = 1
  BY <1>1, <1>3, <1>4, <1>5, ActivateWhole
<1> HIDE DEF a
<1>7. Whole(b)
  BY <1>1, <1>6, EnqueueWhole
<1> QED
  BY <1>2, <1>7, WholeRun

LEMMA RequestInstanceWhole ==
  ASSUME TypeOK, Books, Sound, Whole(m), NEW i \in Insts, NEW x \in Launching,
         RequestInstance(i, x) \/ ReactivateInstance(i, x)
  PROVE  Whole(m)'
<1> DEFINE a == Activate(m, x.launch)
           b == Enqueue(m, i, FALSE, x.launch)
           c == Enqueue(a, i, TRUE, x.launch)
<1>1. /\ x.launch \in LaunchResults /\ i \in Requests /\ m \in Master
      /\ TRUE \in BOOLEAN /\ FALSE \in BOOLEAN
  BY InputsOfRuns DEF Requests, TypeOK
<1>2. (Step(b) \/ Step(c)) /\ i \in m.live
  BY Zenon DEF RequestInstance, ReactivateInstance
<1>3. m.alive /\ m.create = 1
  <2>1. m.live # {} /\ Loaded(m) # {}
    BY <1>2 DEF Loaded
  <2>2. m.alive
    BY <2>1, AliveWhenUsed
  <2> QED
    BY <2>1, <2>2 DEF Whole, Kept
<1>4. a \in Master /\ Whole(a) /\ a.alive /\ a.create = 1
  BY <1>1, <1>3, ActivateWhole
<1> HIDE DEF a
<1>5. Whole(b) /\ Whole(c)
  BY <1>1, <1>3, <1>4, EnqueueWhole
<1> QED
  BY <1>2, <1>5, WholeRun

LEMMA InstanceDeletedWhole ==
  ASSUME TypeOK, Books, Sound, Fit(m), Whole(m), ~LateHello,
         NEW i \in Insts, NEW x \in Stopping, InstanceDeleted(i, x)
  PROVE  Whole(m)'
<1> DEFINE t == Doom(m, {i})
           u == DeactivateIfEmptied(m, t, x)
<1>1. x \in Inputs /\ m \in Master /\ Off(m) = 0 /\ Covered(m, 0) /\ Single(m)
  BY InputsOfProcess, WholeNow
<1>2. Step(u) /\ {i} \subseteq m.live
  BY DEF InstanceDeleted
<1>3. t \in Master /\ Passes(m, t, 0) /\ Rests(m, t)
  <2>1. {i} \in SUBSET Insts
    OBVIOUS
  <2> QED
    BY <1>1, <1>2, <2>1, DoomPasses, DoomRests
<1> HIDE DEF t
<1>4. Covered(t, 0) /\ Single(t)
  BY <1>1, <1>3 DEF Passes, Covered, Rests, Onward, Single
<1>5. Whole(u)
  BY <1>1, <1>3, <1>4, DeactivateIfEmptiedWhole DEF Covered
<1> QED
  BY <1>2, <1>5, WholeRun

LEMMA PackageActionsWhole ==
  ASSUME TypeOK, Books, Sound, Fit(m), Whole(m), ~LateHello,
         \/ ClearFault
         \/ \E b \in BOOLEAN : WaitDeactivation(b)
         \/ \E i \in Insts : UninstallInstance(i)
  PROVE  Whole(m)'
<1>1. m \in Master /\ Covered(m, 0)
  BY WholeNow
<1>2. CASE ClearFault
  <2> DEFINE t == [m EXCEPT !.fault = FALSE]
  <2>1. t \in Master /\ Step(t)
    BY <1>1, <1>2, SetFlags DEF ClearFault
  <2>2. Plain(m, t)
    BY <1>1 DEF Plain, SameBooks, Loaded, Destroyed, Master
  <2> HIDE DEF t
  <2> QED
    BY <1>1, <2>1, <2>2, PlainPasses, WholeRun DEF Passes
<1>3. ASSUME NEW b \in BOOLEAN, WaitDeactivation(b) PROVE Whole(m)'
  <2> DEFINE t == [m EXCEPT !.wait = b]
  <2>1. t \in Master
    BY <1>1, ZenonT(40) DEF Master
  <2>2. Plain(m, t) /\ Step(t)
    BY <1>1, <1>3 DEF Plain, SameBooks, Loaded, Destroyed, Master, WaitDeactivation
  <2> HIDE DEF t
  <2> QED
    BY <1>1, <2>1, <2>2, PlainPasses, WholeRun DEF Passes
<1>4. ASSUME NEW i \in Insts, UninstallInstance(i) PROVE Whole(m)'
  <2>1. {i} \subseteq m.live /\ Step(Doom(m, {i}))
    BY <1>4 DEF UninstallInstance
  <2> QED
    BY <1>1, <2>1, DoomPasses, WholeRun DEF Passes
<1> QED
  BY <1>2, <1>3, <1>4

LEMMA DeactivateAllWhole ==
  ASSUME TypeOK, Books, Sound, Fit(m), Whole(m), ~LateHello,
         NEW x \in Stopping, DeactivateAll(x)
  PROVE  Whole(m)'
<1> DEFINE s == [m EXCEPT !.signals = @ + 1]
           a == [s EXCEPT !.reactInst = TRUE, !.reactivate = FALSE]
           t == Deactivate(a, TRUE, x)
<1>1. x \in Inputs /\ m \in Master /\ Covered(m, 0) /\ Single(m)
  BY InputsOfProcess, WholeNow
<1>2. Step(s) \/ (Step(t) /\ s.alive)
  BY Zenon DEF DeactivateAll, s, a
<1>3. s \in Master /\ Plain(m, s) /\ s.pid = m.pid
  <2>1. m.signals < MaxSignals
    BY DEF DeactivateAll
  <2>2. m.signals \in 0 .. MaxSignals
    BY <1>1, ZenonT(40) DEF Master
  <2>3. m.signals + 1 \in 0 .. MaxSignals
    BY <2>1, <2>2, ConstantsAssumption
  <2>4. s \in Master
    BY <1>1, <2>3, ZenonT(40) DEF Master
  <2>5. Plain(m, s) /\ s.pid = m.pid
    BY <1>1 DEF Plain, SameBooks, Loaded, Destroyed, Master
  <2> QED
    BY <2>4, <2>5
<1> HIDE DEF s
<1>4. a \in Master
  BY <1>3, ZenonT(40) DEF Master
<1>5. Plain(s, a) /\ a.pid = s.pid
  BY <1>3 DEF Plain, SameBooks, Loaded, Destroyed, Master
<1> HIDE DEF a
<1>6. Follows(m, s) /\ Follows(s, a)
  BY <1>1, <1>3, <1>4, <1>5, PlainFollows DEF Follows
<1>7. s.alive => Whole(t)
  <2>1. Covered(a, 0) /\ Single(a) /\ a.alive = s.alive
    BY <1>1, <1>3, <1>5, <1>6 DEF Follows, Single
  <2> QED
    BY <1>1, <1>4, <2>1, DeactivateWhole DEF Covered
<1> QED
  BY <1>2, <1>6, <1>7, WholeRun DEF Follows, Covered

LEMMA ActivateAllWhole ==
  ASSUME TypeOK, Books, Sound, Fit(m), Whole(m), ~LateHello, "reuse" \notin Rare,
         NEW x \in Launching, ActivateAll(x)
  PROVE  Whole(m)'
<1> DEFINE s == [m EXCEPT !.signals = @ - 1]
           t == Activate(s, x.launch)
<1>1. x.launch \in LaunchResults /\ m \in Master /\ Covered(m, 0)
  BY InputsOfRuns, WholeNow
<1>2. /\ Step(s) \/ (Step(t) /\ s.alive)
      /\ m.alive => m.create # 0
  BY Zenon DEF ActivateAll, Reusable, s
<1>3. s \in Master /\ Plain(m, s)
  <2>1. m.signals > 0
    BY DEF ActivateAll
  <2>2. m.signals \in 0 .. MaxSignals
    BY <1>1, ZenonT(40) DEF Master
  <2>3. m.signals - 1 \in 0 .. MaxSignals
    BY <2>1, <2>2, ConstantsAssumption
  <2>4. s \in Master
    BY <1>1, <2>3, ZenonT(40) DEF Master
  <2>5. Plain(m, s)
    BY <1>1 DEF Plain, SameBooks, Loaded, Destroyed, Master
  <2> QED
    BY <2>4, <2>5
<1> HIDE DEF s
<1>4. Follows(m, s)
  BY <1>1, <1>3, PlainFollows
<1>5. s.alive => Whole(t)
  <2>1. s.alive => Whole(s) /\ s.create = 1
    BY <1>2, <1>4 DEF Follows, Covered, Whole
  <2> QED
    BY <1>1, <1>3, <2>1, ActivateWhole
<1> QED
  BY <1>2, <1>4, <1>5, WholeRun DEF Follows, Covered

LEMMA XMonitorWhole ==
  ASSUME TypeOK, Books, Sound, Fit(m), Whole(m), ~LateHello,
         NEW x \in Launching, XMonitor(x)
  PROVE  Whole(m)'
<1> DEFINE v == IF m.xpaused THEN FALSE ELSE TRUE
           s == [m EXCEPT !.xpaused = v]
           a == Pause(s, x.launch)
           b == Resume(s, x.launch)
<1>1. v \in BOOLEAN /\ x.launch \in LaunchResults /\ m \in Master /\ Covered(m, 0)
  <2>1. v \in BOOLEAN
    BY Zenon
  <2> QED
    BY <2>1, InputsOfRuns, WholeNow
<1>2. ~m.xpaused = v
  <2>1. m.xpaused \in BOOLEAN
    BY <1>1, ZenonT(40) DEF Master
  <2> QED
    BY <2>1
<1>3. [m EXCEPT !.xpaused = ~@] = s
  BY <1>2, Zenon
<1> HIDE DEF v
<1>4. s \in Master
  BY <1>1, ZenonT(40) DEF Master
<1>5. Plain(m, s)
  BY <1>1 DEF Plain, SameBooks, Loaded, Destroyed, Master
<1>6. Step(s) \/ (s.alive /\ (Step(a) \/ Step(b)))
  <2>1. s.alive \in BOOLEAN /\ s.xpaused \in BOOLEAN
    BY <1>4, ZenonT(40) DEF Master
  <2>2. Step(CASE ~s.alive             -> s
               [] s.alive /\ s.xpaused  -> Pause(s, x.launch)
               [] s.alive /\ ~s.xpaused -> Resume(s, x.launch))
    BY <1>3, Zenon DEF XMonitor
  <2> HIDE DEF s
  <2>3. CASE ~s.alive
    BY <2>2, <2>3
  <2>4. CASE s.alive /\ s.xpaused
    BY <2>2, <2>4
  <2>5. CASE s.alive /\ ~s.xpaused
    BY <2>2, <2>5
  <2> QED
    BY <2>3, <2>4, <2>5
<1> HIDE DEF s
<1>7. Whole(s)
  BY <1>1, <1>4, <1>5, PlainFollows DEF Follows, Covered
<1>8. s.alive => Whole(a) /\ Whole(b)
  <2> SUFFICES ASSUME s.alive PROVE Whole(a) /\ Whole(b)
    OBVIOUS
  <2>1. /\ a \in Master /\ b \in Master
        /\ Moves(s, a, 0) /\ Moves(s, b, 0) /\ Keeps(s, a) /\ Keeps(s, b)
    BY <1>1, <1>4, PauseType, PauseMoves
  <2>2. a.active = s.active /\ b.active = s.active
    BY <1>1, <1>4, PauseRests DEF Rests
  <2> HIDE DEF a, b
  <2>3. 0 \in Int
    OBVIOUS
  <2> QED
    BY <1>4, <1>7, <2>1, <2>2, <2>3, KeepPasses DEF Passes
<1> QED
  BY <1>6, <1>7, <1>8, WholeRun

LEMMA TerminateTimerWhole ==
  ASSUME TypeOK, Books, Sound, Fit(m), Whole(m), ~LateHello,
         NEW x \in Stopping, TerminateTimer(x)
  PROVE  Whole(m)'
<1> DEFINE s == [m EXCEPT !.state = "TERMINATE", !.termT = FALSE]
           a == TerminatePid(s, x)
           t == Deactivated(a, x)
<1>1. x \in Inputs /\ m \in Master /\ Covered(m, 0) /\ m.alive /\ m.active = 1
  <2>1. m.pid \in Procs
    BY DEF TerminateTimer, Fit, Tied
  <2>2. m.alive
    BY <2>1, AliveWhenUsed
  <2> QED
    BY <2>1, <2>2, InputsOfProcess, WholeNow DEF Single
<1>2. Step(a) \/ Step(t)
  BY Zenon DEF TerminateTimer
<1>3. s \in Master
  <2>1. "TERMINATE" \in States
    BY DEF States
  <2> QED
    BY <1>1, <2>1, ZenonT(40) DEF Master
<1>4. Plain(m, s)
  BY <1>1 DEF Plain, SameBooks, Loaded, Destroyed, Master
<1> HIDE DEF s
<1>5. Follows(m, s)
  BY <1>1, <1>3, <1>4, PlainFollows
<1>6. a \in Master /\ Follows(s, a)
  BY <1>1, <1>3, <1>5, TerminatePidPasses, PassesFollows DEF Follows, Covered
<1> HIDE DEF a
<1>7. Covered(a, 0) /\ a.alive /\ a.active = 1
  BY <1>1, <1>5, <1>6 DEF Follows
<1>8. Whole(t)
  BY <1>1, <1>6, <1>7, DeactivatedWhole
<1> QED
  BY <1>2, <1>7, <1>8, WholeRun DEF Covered

LEMMA TtlTimerWhole ==
  ASSUME TypeOK, Books, Sound, Fit(m), Whole(m), ~LateHello,
         NEW x \in Stopping, TtlTimer(x)
  PROVE  Whole(m)'
<1> DEFINE a == [m EXCEPT !.ttlT = FALSE]
           b == [a EXCEPT !.reactivate = FALSE, !.reactInst = TRUE]
           t == Deactivate(b, TRUE, x)
<1>1. x \in Inputs /\ m \in Master /\ Covered(m, 0) /\ Single(m) /\ m.alive
  <2>1. m.alive
    BY AliveWhenUsed DEF TtlTimer
  <2> QED
    BY <2>1, InputsOfProcess, WholeNow
<1>2. Step(a) \/ Step(t)
  BY Zenon DEF TtlTimer
<1>3. a \in Master
  BY <1>1, ZenonT(40) DEF Master
<1>4. Plain(m, a) /\ a.pid = m.pid
  BY <1>1 DEF Plain, SameBooks, Loaded, Destroyed, Master
<1> HIDE DEF a
<1>5. b \in Master
  BY <1>3, ZenonT(40) DEF Master
<1>6. Plain(a, b) /\ b.pid = a.pid
  BY <1>3 DEF Plain, SameBooks, Loaded, Destroyed, Master
<1> HIDE DEF b
<1>7. Follows(m, a) /\ Follows(a, b)
  BY <1>1, <1>3, <1>4, <1>5, <1>6, PlainFollows DEF Follows
<1>8. Whole(t)
  <2>1. Covered(b, 0) /\ Single(b) /\ b.alive
    BY <1>1, <1>4, <1>6, <1>7 DEF Follows, Single
  <2> QED
    BY <1>1, <1>5, <2>1, DeactivateWhole DEF Covered
<1> QED
  BY <1>2, <1>7, <1>8, WholeRun DEF Follows, Covered

\* activate_timer_cb: the process did not say hello in time.
LEMMA ActivateTimerWhole ==
  ASSUME TypeOK, Books, Sound, Fit(m), Whole(m), ~LateHello, ~Secured,
         NEW x \in Failing, ActivateTimer(x)
  PROVE  Whole(m)'
<1> DEFINE s == [m EXCEPT !.relT = FALSE, !.actT = FALSE]
           a == FaultCb(s, x)
           b == [a EXCEPT !.reactivate = FALSE, !.reactInst = FALSE]
           c == TerminatePid(b, x)
           t == Deactivated(c, x)
<1>1. x \in Inputs /\ Fresh(x) /\ m \in Master /\ Covered(m, 0) /\ m.alive /\ m.active = 1
  <2>1. m.actT /\ m.alive
    BY AliveWhenUsed DEF ActivateTimer
  <2> QED
    BY <2>1, InputsOfProcess, WholeNow
<1>2. Step(a) \/ Step(t)
  BY Zenon DEF ActivateTimer
<1>3. s \in Master
  BY <1>1, ZenonT(40) DEF Master
<1>4. Plain(m, s)
  BY <1>1 DEF Plain, SameBooks, Loaded, Destroyed, Master
<1> HIDE DEF s
<1>5. Running(s) /\ Single(s)
  BY <1>1, <1>3, <1>4, PlainFollows DEF Follows, Running, Single
<1>6. a \in Master /\ Running(a)
  <2>1. a \in Master /\ Covered(a, 0) /\ a.active = s.active
    BY <1>1, <1>3, <1>5, FaultCbWhole DEF Running
  <2> HIDE DEF a
  <2> QED
    BY <1>3, <1>5, <2>1, RunningAfter
<1> HIDE DEF a
<1>7. b \in Master
  <2>1. FALSE \in BOOLEAN
    OBVIOUS
  <2> QED
    BY <1>6, <2>1, SetFlags, Zenon
<1>8. Plain(a, b)
  BY <1>6 DEF Plain, SameBooks, Loaded, Destroyed, Master
<1> HIDE DEF b
<1>9. Follows(a, b)
  BY <1>6, <1>7, <1>8, PlainFollows DEF Running
<1>10. c \in Master /\ Follows(b, c)
  BY <1>1, <1>7, <1>9, TerminatePidPasses, PassesFollows DEF Follows, Covered
<1> HIDE DEF c
<1>11. Covered(c, 0) /\ c.alive /\ c.active = 1
  BY <1>6, <1>9, <1>10 DEF Follows, Running
<1>12. Whole(t)
  BY <1>1, <1>10, <1>11, DeactivatedWhole
<1> QED
  BY <1>2, <1>6, <1>12, WholeRun DEF Running, Covered

LEMMA RelaunchTimerWhole ==
  ASSUME TypeOK, Books, Sound, Fit(m), Whole(m), ~LateHello, ~Secured,
         NEW x \in Relaunching, RelaunchTimer(x)
  PROVE  Whole(m)'
<1> DEFINE a == [m EXCEPT !.relT = FALSE, !.actT = FALSE]
           b == [a EXCEPT !.pid = NoPid]
           c == [m EXCEPT !.relaunch = @ - 1, !.pid = NoPid]
           d == [m EXCEPT !.pid = x.launch, !.relT = FALSE, !.mine = @ \cup {x.launch}]
           t == SlaveFault(a, x)
           u == SlaveFault(b, x)
<1>1. /\ x \in Inputs /\ x.launch \in LaunchResults /\ Fresh(x) /\ m \in Master
      /\ Covered(m, 0) /\ m.alive /\ m.active = 1
  <2>1. m.relT /\ m.alive
    BY AliveWhenUsed DEF RelaunchTimer
  <2>2. m.actT
    BY <2>1 DEF Fit, Tied
  <2> QED
    BY <2>1, <2>2, InputsOfProcess, WholeNow
<1>2. \/ Step(t) \/ Step(u)
      \/ Step(c) /\ m.relaunch # 0
      \/ Step(d) /\ x.launch \notin {NoPid, RetryPid}
  BY Zenon DEF RelaunchTimer, Exhausted
<1>3. ASSUME m.relaunch # 0 PROVE Whole(c)
  <2>1. c \in Master
    <3>1. m.relaunch - 1 \in 0 .. RelaunchCount /\ NoPid \in Procs \cup {NoPid, RetryPid}
      BY <1>1, <1>3, NumberFields, ConstantsAssumption
    <3> QED
      BY <1>1, <3>1, ZenonT(40) DEF Master
  <2>2. Plain(m, c)
    BY <1>1 DEF Plain, SameBooks, Loaded, Destroyed, Master
  <2> HIDE DEF c
  <2> QED
    BY <1>1, <2>1, <2>2, PlainPasses DEF Passes
<1>4. ASSUME x.launch \notin {NoPid, RetryPid} PROVE Whole(d)
  <2>1. x.launch \in Procs
    BY <1>1, <1>4 DEF LaunchResults
  <2>2. d \in Master
    <3>1. m.mine \cup {x.launch} \in SUBSET Procs /\ x.launch \in Procs \cup {NoPid, RetryPid}
      BY <1>1, <2>1, SetFields
    <3> QED
      BY <1>1, <3>1, ZenonT(40) DEF Master
  <2>3. Plain(m, d)
    BY <1>1 DEF Plain, SameBooks, Loaded, Destroyed, Master
  <2> HIDE DEF d
  <2> QED
    BY <1>1, <2>2, <2>3, PlainPasses DEF Passes
<1> HIDE DEF c, d
<1>5. a \in Master
  BY <1>1, ZenonT(40) DEF Master
<1>6. Plain(m, a)
  BY <1>1 DEF Plain, SameBooks, Loaded, Destroyed, Master
<1> HIDE DEF a
<1>7. b \in Master
  <2>1. NoPid \in Procs \cup {NoPid, RetryPid}
    OBVIOUS
  <2> QED
    BY <1>5, <2>1, ZenonT(40) DEF Master
<1>8. Plain(a, b)
  BY <1>5, <1>6 DEF Plain, SameBooks, Loaded, Destroyed, Master
<1> HIDE DEF b
<1>9. Running(a) /\ Running(b)
  <2>1. Follows(m, a)
    BY <1>1, <1>5, <1>6, PlainFollows
  <2>2. Follows(a, b)
    BY <1>5, <1>7, <1>8, <2>1, PlainFollows DEF Follows
  <2> QED
    BY <1>1, <2>1, <2>2 DEF Follows, Running
<1>10. Whole(t) /\ Whole(u)
  BY <1>1, <1>5, <1>7, <1>9, SlaveFaultWhole DEF Covered
<1> QED
  BY <1>2, <1>3, <1>4, <1>10, WholeRun

LEMMA PingTimeoutWhole ==
  ASSUME TypeOK, Books, Sound, Fit(m), Whole(m), ~LateHello, ~Secured,
         NEW x \in Failing, PingTimeout(x)
  PROVE  Whole(m)'
<1> DEFINE a == [m EXCEPT !.pong = "off"]
           t == DeactivatedByFault(a, x)
<1>1. x \in Inputs /\ Fresh(x) /\ m \in Master /\ Covered(m, 0) /\ m.alive /\ m.active = 1
  <2>1. m.pong = "on" /\ m.alive
    BY AliveWhenUsed DEF PingTimeout
  <2>2. m.pid # NoPid
    BY <2>1 DEF Fit, Tied
  <2> QED
    BY <2>1, <2>2, InputsOfProcess, WholeNow
<1>2. Step(a) \/ (Step(t) /\ IsActivated(a))
  BY Zenon DEF PingTimeout
<1>3. a \in Master
  BY <1>1, ZenonT(40) DEF Master
<1>4. Plain(m, a)
  BY <1>1 DEF Plain, SameBooks, Loaded, Destroyed, Master
<1> HIDE DEF a
<1>5. Running(a)
  BY <1>1, <1>3, <1>4, PlainFollows DEF Follows, Running
<1>6. IsActivated(a) => Whole(t)
  BY <1>1, <1>3, <1>5, DeactivatedByFaultWhole DEF Covered
<1> QED
  BY <1>2, <1>5, <1>6, WholeRun DEF Running, Covered

LEMMA SentPasses ==
  ASSUME NEW s \in Master, NEW p \in Procs, NEW q \in Seq(Requests), Whole(s)
  PROVE  LET t == [s EXCEPT !.sent[p] = q]
         IN  /\ t \in Master /\ t.alive = s.alive
             /\ Passes(s, t, Len(s.sent[p]) - Len(q))
<1> DEFINE t == [s EXCEPT !.sent[p] = q]
           k == Len(s.sent[p]) - Len(q)
<1>1. t \in Master /\ Moves(s, t, k) /\ t.alive = s.alive
  BY SentMoves
<1>2. k \in Int
  <2>1. s.sent[p] \in Seq(Requests)
    BY QueueFacts
  <2> QED
    BY <2>1
<1>3. ~t.uaf /\ t.create = s.create /\ t.active = s.active /\ t.pkg = s.pkg
      /\ Loaded(t) = Loaded(s)
  BY DEF Master, Loaded, Whole
<1> HIDE DEF t, k
<1>4. Passes(s, t, k)
  BY <1>1, <1>2, <1>3, LevelPasses
<1> QED
  BY <1>1, <1>4 DEF t, k

LEMMA TakePasses ==
  ASSUME NEW s \in Master, s.cmds # <<>>, Whole(s)
  PROVE  LET t == [s EXCEPT !.cmds = Tail(@)]
         IN  t \in Master /\ Passes(s, t, 1)
<1> DEFINE t == [s EXCEPT !.cmds = Tail(@)]
<1>1. t \in Master /\ Moves(s, t, 1) /\ 1 \in Int
  BY TakeMoves
<1>2. ~t.uaf /\ t.create = s.create /\ t.active = s.active /\ t.pkg = s.pkg
      /\ Loaded(t) = Loaded(s)
  BY DEF Master, Loaded, Whole
<1> HIDE DEF t
<1>3. Passes(s, t, 1)
  BY <1>1, <1>2, LevelPasses
<1> QED
  BY <1>1, <1>3 DEF t

LEMMA ConsumeWhole ==
  ASSUME TypeOK, Books, Sound, Fit(m), Whole(m), ~LateHello, Consume
  PROVE  Whole(m)'
<1> DEFINE c == Head(m.cmds)
           a == [m EXCEPT !.cmds = Tail(@)]
           b == [a EXCEPT !.asked = @ \cup {a.handle}]
           q == Append(a.sent[a.handle], c)
           d == [a EXCEPT !.sent[a.handle] = Append(@, c)]
           e == [a EXCEPT !.sent[a.handle] = q]
           f == AnswerNull(a, <<c>>)
<1>1. m \in Master /\ m.cmds # <<>> /\ m.cmds \in Seq(Requests) /\ Off(m) = 0
  BY WholeNow, QueueFacts DEF Consume
<1>2. \/ Step(f)
      \/ a.handle # NoPid /\ (Step(Unref(b)) \/ Step(d))
  BY Zenon DEF Consume
<1>3. c \in Requests /\ <<c>> \in Seq(Requests) /\ Len(<<c>>) = 1
  BY <1>1
<1>4. a \in Master /\ Covered(a, 1)
  <2>1. a \in Master /\ Passes(m, a, 1)
    BY <1>1, TakePasses
  <2> HIDE DEF a
  <2> QED
    BY <1>1, <2>1 DEF Passes, Covered
<1> HIDE DEF a, c
<1>5. Whole(f)
  BY <1>3, <1>4, AnswerNullPasses, Zenon DEF Passes
<1>6. ASSUME a.handle # NoPid PROVE Whole(Unref(b)) /\ Whole(d)
  <2>1. a.handle \in Procs /\ a.asked \cup {a.handle} \in SUBSET Procs
    <3>1. a.handle \in Procs \cup {NoPid} /\ a.asked \in SUBSET Procs
      BY <1>4, ZenonT(40) DEF Master
    <3> QED
      BY <1>6, <3>1
  <2>2. b \in Master
    BY <1>4, <2>1, ZenonT(40) DEF Master
  <2>3. Plain(a, b)
    BY <1>4 DEF Plain, SameBooks, Loaded, Destroyed, Master
  <2> HIDE DEF b
  <2>4. Covered(b, 1)
    <3>1. Passes(a, b, 0) /\ Off(a) >= 1
      BY <1>4, <2>2, <2>3, PlainPasses DEF Covered
    <3>2. Off(b) = Off(a) /\ Whole(b)
      BY <1>4, <3>1, Numbers DEF Passes
    <3> QED
      BY <3>1, <3>2 DEF Covered
  <2>5. Whole(Unref(b))
    BY <2>2, <2>4, UnrefPasses DEF Passes
  <2>6. q \in Seq(Requests)
    <3>1. a.sent[a.handle] \in Seq(Requests)
      BY <1>4, <2>1, QueueFacts
    <3> QED
      BY <1>3, <3>1
  <2>7. d = e
    OBVIOUS
  <2> HIDE DEF d, q
  <2>8. Whole(e)
    BY <1>4, <2>1, <2>6, SentPasses, Zenon DEF Covered, Passes
  <2> QED
    BY <2>5, <2>7, <2>8
<1> QED
  BY <1>2, <1>5, <1>6, WholeRun

LEMMA HelloWhole ==
  ASSUME TypeOK, Books, Sound, Fit(m), Whole(m), ~LateHello,
         NEW p \in Procs, NEW known \in BOOLEAN, NEW x \in Launching,
         Hello(p, known, x)
  PROVE  Whole(m)'
<1> DEFINE a == [m EXCEPT !.asked = @ \cup {p}]
           b == [m EXCEPT !.pid = p]
           b1 == [b EXCEPT !.handle = p, !.pong = "on"]
           r == Activated(b1, x)
           t == [r EXCEPT !.cmds = @ \o r.pend, !.pend = <<>>]
           u == UpdateHandle(b, p, x)
<1>1. x \in Inputs /\ x.launch \in LaunchResults /\ m \in Master
  BY InputsOfRuns, WholeNow
<1>2. Step(m) \/ Step(a) \/ (Step(u) /\ m.alive)
  BY Zenon DEF Hello
<1>3. Whole(a)
  <2>1. m.asked \cup {p} \in SUBSET Procs
    BY <1>1, SetFields
  <2>2. a \in Master
    BY <1>1, <2>1, ZenonT(40) DEF Master
  <2>3. Plain(m, a)
    BY <1>1 DEF Plain, SameBooks, Loaded, Destroyed, Master
  <2> HIDE DEF a
  <2> QED
    BY <1>1, <2>2, <2>3, PlainPasses DEF Passes
<1>4. ASSUME m.alive PROVE Whole(u)
  <2>1. b \in Master
    <3>1. p \in Procs \cup {NoPid, RetryPid}
      OBVIOUS
    <3> QED
      BY <1>1, <3>1, ZenonT(40) DEF Master
  <2>2. Plain(m, b) /\ b.alive /\ b.pid = p
    BY <1>1, <1>4 DEF Plain, SameBooks, Loaded, Destroyed, Master
  <2> HIDE DEF b
  <2>3. Whole(b)
    BY <1>1, <2>1, <2>2, PlainPasses DEF Passes
  <2>4. b1 \in Master
    <3>1. p \in Procs \cup {NoPid}
      OBVIOUS
    <3> QED
      BY <2>1, <3>1, ZenonT(40) DEF Master
  <2>5. b1.pid = p /\ b1.active = b.active
    BY <2>1, <2>2 DEF Master
  <2>6. u = t
    BY Zenon DEF UpdateHandle
  <2> HIDE DEF b1
  <2>7. r \in Master /\ r.active = b.active
    BY <1>1, <2>4, <2>5, ActivatedType, ActivatedSettles DEF Settled
  <2> HIDE DEF r
  <2>8. u.active = b.active
    BY <2>6, <2>7 DEF Master
  <2> HIDE DEF t
  <2>9. u \in Master /\ Moves(b, u, 0) /\ Keeps(b, u)
    <3>1. Good(b)
      BY <2>3, WholeGood
    <3> QED
      BY <1>1, <2>1, <2>2, <3>1, UpdateHandleType, UpdateHandleMoves
  <2> HIDE DEF u
  <2>10. 0 \in Int
    OBVIOUS
  <2> QED
    BY <2>1, <2>3, <2>8, <2>9, <2>10, KeepPasses DEF Passes
<1> QED
  BY <1>2, <1>3, <1>4, WholeRun

LEMMA CtrlWhole ==
  ASSUME TypeOK, Books, Sound, Fit(m), Whole(m), ~LateHello, NEW p \in Procs,
         NEW options \in SUBSET (Rare \cap {"term", "react"}), Ctrl(p, options)
  PROVE  Whole(m)'
<1> DEFINE t == [m EXCEPT !.ctrl = options]
<1>1. m \in Master /\ options \in SUBSET {"term", "react"} /\ Step(t)
  BY DEF TypeOK, Ctrl
<1>2. t \in Master
  BY <1>1, ZenonT(40) DEF Master
<1>3. Plain(m, t)
  BY <1>1 DEF Plain, SameBooks, Loaded, Destroyed, Master
<1> HIDE DEF t
<1> QED
  BY <1>1, <1>2, <1>3, PlainPasses, WholeRun DEF Passes

LEMMA AnswerWhole ==
  ASSUME TypeOK, Books, Sound, Fit(m), Whole(m), ~LateHello, NEW p \in Procs,
         NEW ok \in BOOLEAN, NEW x \in Stopping, Answer(p, ok, x)
  PROVE  Whole(m)'
<1> DEFINE r == Head(m.sent[p])
           q == Tail(m.sent[p])
           a == [m EXCEPT !.sent[p] = Tail(@)]
           a1 == [m EXCEPT !.sent[p] = q]
           st == IF r = "pause" THEN "PAUSED" ELSE "RESUMED"
           pg == IF a.pong = "off" THEN "off" ELSE IF r = "pause" THEN "frozen" ELSE "on"
           b1 == [a EXCEPT !.state = st,
                           !.pong = IF @ = "off" THEN "off"
                                    ELSE IF r = "pause" THEN "frozen" ELSE "on"]
           D == IF ok THEN {} ELSE {r} \cap a.live
           c == Doom(a, D)
           S == {i \in c.doomed : ~Held(c, i)}
           d == Unlink(c, S)
           e == DeactivateIfEmptied(a, d, x)
<1>1. x \in Inputs /\ m \in Master /\ Off(m) = 0
  BY InputsOfProcess, WholeNow
<1>2. \/ Step(Unref(a)) \/ Step(Unref(e)) \/ Step(Unref(b1))
  BY Zenon DEF Answer
<1>3. a \in Master /\ Passes(m, a, 1) /\ Rests(m, a)
  <2>1. m.sent[p] \in Seq(Requests) /\ m.sent[p] # <<>>
    BY <1>1, QueueFacts DEF Answer
  <2>2. q \in Seq(Requests) /\ Len(m.sent[p]) - Len(q) = 1
    BY <2>1
  <2>3. a1 \in Master /\ Passes(m, a1, Len(m.sent[p]) - Len(q))
    <3> HIDE DEF q
    <3> QED
      BY <1>1, <2>2, SentPasses, Zenon
  <2>4. a = a1
    OBVIOUS
  <2>5. Rests(m, a)
    BY <1>1 DEF Rests, Onward, IsActivated, Master
  <2> HIDE DEF a, a1
  <2> QED
    BY <2>2, <2>3, <2>4, <2>5, Zenon
<1> HIDE DEF a, a1, q, r
<1>4. Covered(a, 0) /\ Covered(a, 1) /\ Off(a) = 1 /\ Single(a)
  <2>1. Off(a) = 1 /\ Whole(a)
    BY <1>1, <1>3 DEF Passes
  <2>2. Single(a)
    BY <1>1, <1>3, <2>1, RestsFit, SingleNow
  <2> QED
    BY <2>1, <2>2 DEF Covered
<1>5. b1 \in Master /\ Covered(b1, 1)
  <2>1. /\ st \in States /\ pg \in {"off", "on", "frozen"}
        /\ a.pong = "off" => pg = "off"
    BY DEF States
  <2>2. b1 = [a EXCEPT !.state = st, !.pong = pg]
    OBVIOUS
  <2> HIDE DEF b1, st, pg
  <2>3. b1 \in Master
    BY <1>3, <2>1, <2>2, ZenonT(40) DEF Master
  <2>4. Plain(a, b1)
    BY <1>3, <2>1, <2>2 DEF Plain, SameBooks, Loaded, Destroyed, Master
  <2>5. Follows(a, b1)
    BY <1>3, <1>4, <2>3, <2>4, PlainFollows
  <2> QED
    BY <1>4, <2>3, <2>5 DEF Follows, Covered
<1> HIDE DEF b1, st, pg
<1>6. c \in Master /\ Passes(a, c, 0) /\ Rests(a, c)
  <2>1. D \subseteq a.live /\ a.live \subseteq Insts
    BY <1>3, SetFields
  <2> HIDE DEF D
  <2>2. D \in SUBSET Insts
    BY <2>1
  <2> QED
    BY <1>3, <1>4, <2>1, <2>2, DoomPasses, DoomRests
<1> HIDE DEF c, D
<1>7. Covered(c, 0) /\ Off(c) = 1
  BY <1>4, <1>6 DEF Passes, Covered
<1>8. d \in Master /\ Passes(c, d, 0) /\ Rests(c, d)
  <2>1. S \subseteq Loaded(c)
    BY DEF Loaded
  <2> HIDE DEF S
  <2> QED
    BY <1>6, <1>7, <2>1, UnlinkType, UnlinkPasses, UnlinkRests
<1> HIDE DEF d, S
<1>9. Covered(d, 0) /\ Off(d) = 1 /\ Single(d)
  <2>1. Covered(d, 0) /\ Off(d) = 1
    BY <1>7, <1>8 DEF Passes, Covered
  <2>2. Fit(d)
    BY <1>1, <1>3, <1>6, <1>8, RestsFit
  <2> QED
    BY <1>8, <2>1, <2>2, SingleNow DEF Covered
<1>10. e \in Master /\ Covered(e, 1)
  <2>1. e \in Master /\ Covered(e, 0) /\ Off(e) = 1
    BY <1>1, <1>8, <1>9, DeactivateIfEmptiedWhole
  <2> HIDE DEF e
  <2> QED
    BY <2>1 DEF Covered
<1> HIDE DEF e
<1>11. Whole(Unref(a)) /\ Whole(Unref(b1)) /\ Whole(Unref(e))
  BY <1>3, <1>4, <1>5, <1>10, UnrefPasses DEF Passes
<1> QED
  BY <1>2, <1>11, WholeRun

LEMMA DisconnectWhole ==
  ASSUME TypeOK, Books, Sound, Fit(m), Whole(m), ~LateHello, ~Secured,
         NEW p \in Procs, NEW x \in Failing, Disconnect(p, x)
  PROVE  Whole(m)'
<1> DEFINE a == DeadMonitor(m, p, x)
           lost == a.sent[p]
           b == [a EXCEPT !.sent[p] = <<>>]
           c == AnswerNull(b, lost)
           d == DeactivateIfEmptied(b, c, x)
           n == Len(lost)
<1>1. x \in Inputs /\ Fresh(x) /\ m \in Master /\ Covered(m, 0) /\ proc[p] = "dead"
  BY InputsOfProcess, WholeNow DEF Disconnect
<1>2. Step(a) \/ Step(d)
  BY Zenon DEF Disconnect
<1>3. a \in Master /\ Covered(a, 0) /\ Fit(a)
  BY <1>1, WholeNow, DeadMonitorWhole, DeadMonitorFit
<1> HIDE DEF a
<1>4. lost \in Seq(Requests) /\ <<>> \in Seq(Requests) /\ Len(<<>>) = 0
      /\ n \in Nat /\ n - 0 = n
  <2>1. lost \in Seq(Requests)
    BY <1>3, QueueFacts
  <2> HIDE DEF lost
  <2> QED
    BY <2>1
<1>5. b \in Master /\ Passes(a, b, n)
  <2>1. b \in Master /\ Passes(a, b, n - Len(<<>>))
    BY <1>3, <1>4, SentPasses, Zenon DEF Covered
  <2> HIDE DEF b, n
  <2> QED
    BY <1>4, <2>1, Zenon
<1>6. Rests(a, b)
  BY <1>3 DEF Rests, Onward, IsActivated, Master
<1> HIDE DEF b, lost
<1>7. Covered(b, n)
  <2> HIDE DEF n
  <2>1. Off(a) \in Int /\ Off(a) >= 0
    BY <1>3, Numbers DEF Covered
  <2> QED
    BY <1>4, <1>5, <2>1 DEF Passes, Covered
<1>8. c \in Master /\ Passes(b, c, -n) /\ Rests(a, c)
  <2>1. c \in Master /\ Passes(b, c, -n)
    BY <1>4, <1>5, <1>7, AnswerNullPasses, Zenon
  <2>2. Rests(b, c)
    BY <1>4, <1>5, AnswerNullRests
  <2> QED
    BY <1>6, <2>1, <2>2, RestsTrans
<1> HIDE DEF c, n
<1>9. Covered(c, 0) /\ Single(c)
  <2>1. Covered(c, 0)
    <3>1. Off(b) \in Int
      BY <1>5, Numbers
    <3> QED
      BY <1>4, <1>7, <1>8, <3>1 DEF Passes, Covered
  <2>2. Fit(c)
    BY <1>3, <1>8, RestsFit
  <2> QED
    BY <1>8, <2>1, <2>2, SingleNow DEF Covered
<1>10. Whole(d)
  BY <1>1, <1>8, <1>9, DeactivateIfEmptiedWhole DEF Covered
<1> QED
  BY <1>2, <1>3, <1>10, WholeRun DEF Covered

LEMMA ProcessActionsWhole ==
  ASSUME TypeOK, Books, Sound, Fit(m), Whole(m), ~LateHello,
         NEW p \in Procs, SendHello(p) \/ Die(p) \/ Reuse(p)
  PROVE  Whole(m)'
<1> DEFINE t == [m EXCEPT !.mine = @ \ {p}, !.asked = @ \ {p}]
<1>1. m \in Master
  BY WholeNow
<1>2. t \in Master
  <2>1. m.mine \ {p} \in SUBSET Procs /\ m.asked \ {p} \in SUBSET Procs
    BY <1>1, SetFields
  <2> QED
    BY <1>1, <2>1, ZenonT(40) DEF Master
<1>3. Plain(m, t)
  BY <1>1 DEF Plain, SameBooks, Loaded, Destroyed, Master
<1>4. m' = m \/ m' = t
  BY Zenon DEF SendHello, Die, Reuse
<1> HIDE DEF t
<1>5. Whole(t)
  BY <1>1, <1>2, <1>3, PlainPasses DEF Passes
<1> QED
  BY <1>4, <1>5 DEF Whole, Kept, Destroyed, Loaded
-----------------------------------------------------------------------------
(* The theorem *)

LEMMA InitWhole == Init => Whole(m)
<1> SUFFICES ASSUME Init PROVE Whole(m)
  OBVIOUS
<1>1. /\ ~m.alive /\ m.refcnt = 0 /\ m.pid = NoPid /\ m.handle = NoPid
      /\ ~m.ttlT /\ ~m.actT /\ ~m.relT /\ m.pong = "off"
      /\ ~m.uaf /\ m.create = 0 /\ m.active = 0 /\ ~m.pkg
      /\ m.live = {} /\ m.doomed = {}
  BY DEF Init
<1> QED
  BY <1>1 DEF Whole, Kept, Destroyed, Loaded

LEMMA NextWhole ==
  ASSUME ~LateHello, ~Secured, "reuse" \notin Rare
  PROVE  TypeOK /\ Books /\ Fit(m) /\ Whole(m) /\ [Next]_vars => Whole(m)'
<1> SUFFICES ASSUME TypeOK, Books, Fit(m), Whole(m), [Next]_vars PROVE Whole(m)'
  OBVIOUS
<1>1. CASE UNCHANGED vars
  BY <1>1 DEF vars, Whole, Kept, Destroyed, Loaded
<1>2. CASE Next
  <2> Sound
    BY <1>2, Zenon DEF Next
  <2>1. ASSUME NEW x \in Launching
        PROVE  /\ \A i \in Insts : CreateInstance(i, x) => Whole(m)'
               /\ \A i \in Insts :
                    RequestInstance(i, x) \/ ReactivateInstance(i, x) => Whole(m)'
               /\ ActivateAll(x) \/ XMonitor(x) => Whole(m)'
               /\ \A p \in Procs, known \in BOOLEAN : Hello(p, known, x) => Whole(m)'
    BY CreateInstanceWhole, RequestInstanceWhole, ActivateAllWhole, XMonitorWhole,
       HelloWhole, Zenon
  <2>2. ASSUME NEW x \in Stopping
        PROVE  /\ \A i \in Insts : InstanceDeleted(i, x) => Whole(m)'
               /\ DeactivateAll(x) \/ TerminateTimer(x) \/ TtlTimer(x) => Whole(m)'
               /\ \A p \in Procs, ok \in BOOLEAN : Answer(p, ok, x) => Whole(m)'
    BY InstanceDeletedWhole, DeactivateAllWhole, TerminateTimerWhole, TtlTimerWhole,
       AnswerWhole, Zenon
  <2>3. ASSUME NEW x \in Failing
        PROVE  /\ ActivateTimer(x) \/ PingTimeout(x) => Whole(m)'
               /\ \A p \in Procs : Disconnect(p, x) => Whole(m)'
    BY ActivateTimerWhole, PingTimeoutWhole, DisconnectWhole, Zenon
  <2>4. ASSUME NEW x \in Relaunching, RelaunchTimer(x) PROVE Whole(m)'
    BY <2>4, RelaunchTimerWhole, Zenon
  <2>5. ASSUME \/ ClearFault
               \/ \E b \in BOOLEAN : WaitDeactivation(b)
               \/ \E i \in Insts : UninstallInstance(i) PROVE Whole(m)'
    BY <2>5, PackageActionsWhole, Zenon
  <2>6. Consume => Whole(m)'
    BY ConsumeWhole, Zenon
  <2>7. ASSUME NEW p \in Procs
        PROVE  /\ \A options \in SUBSET (Rare \cap {"term", "react"}) :
                    Ctrl(p, options) => Whole(m)'
               /\ SendHello(p) \/ Die(p) \/ Reuse(p) => Whole(m)'
    BY CtrlWhole, ProcessActionsWhole, Zenon
  <2>8. Expiring \subseteq Failing
    BY DEF Expiring
  <2> QED
    BY <1>2, <2>1, <2>2, <2>3, <2>4, <2>5, <2>6, <2>7, <2>8, Zenon DEF Next
<1> QED
  BY <1>1, <1>2

LEMMA WholeReleased ==
  ASSUME ~LateHello
  PROVE  TypeOK /\ Books /\ Fit(m) /\ Whole(m) => ReleasedOnce
<1> SUFFICES ASSUME TypeOK, Books, Fit(m), Whole(m) PROVE ReleasedOnce
  OBVIOUS
<1>1. ~m.uaf /\ m.create \in {0, 1} /\ m.active >= 0 /\ m.active \in Int
  BY NumberFields DEF Whole, TypeOK
<1>2. m.active <= 1
  <2>1. CASE m.alive
    BY <1>1, <2>1 DEF Fit, Live, Owned
  <2>2. CASE ~m.alive
    <3>1. Sound
      BY <1>1 DEF Sound
    <3> QED
      BY <2>2, <3>1, NothingLeft
  <2> QED
    BY <2>1, <2>2
<1> QED
  BY <1>1, <1>2 DEF ReleasedOnce

(* slave_deactivated gives back the reference of slave_activate once,      *)
(* however the activation ends, that of slave_create is given back once,   *)
(* and no slave_unref finds a count of 0, for any number of instances,     *)
(* processes and requests.  The three assumptions are the three places     *)
(* where slave_life.c does release twice: a hello after the activate timer *)
(* gave up, a failed kill in the fault callback of a secured slave, and a  *)
(* slave that is found again after it gave its first reference back.       *)
THEOREM ReleasedAtMostOnce ==
  ASSUME ~LateHello, ~Secured, "reuse" \notin Rare
  PROVE  Spec => []ReleasedOnce
BY InitType, NextType, InitBooks, NextBooks, InitFit, NextFit, InitWhole, NextWhole,
   WholeReleased, PTL DEF Spec
=============================================================================
