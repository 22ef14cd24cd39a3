----------------------------- MODULE SlaveProofs -----------------------------
(***************************************************************************)
(* Types, functions of the slave, and its reference count: proofs about    *)
(* SlaveLife for every value of its constants.                             *)
(***************************************************************************)
EXTENDS SlaveProps, FiniteSetTheorems, TLAPS

LaunchResults == Procs \cup {NoPid, RetryPid}

\* What a run may meet
Inputs ==
  [launch : LaunchResults \cup {Asleep}, killOk : BOOLEAN,
   dooms : SUBSET Insts, fault : {"slow", "excused", "last"}]
-----------------------------------------------------------------------------
(* The reference count *)

LEMMA NumberFields ==
  ASSUME NEW s \in Master
  PROVE  /\ s.refcnt \in Nat /\ s.create \in Int /\ s.active \in Int
         /\ s.crit \in 0 .. MaxLoad /\ s.relaunch \in 0 .. RelaunchCount
BY ZenonT(40) DEF Master

LEMMA SetFields ==
  ASSUME NEW s \in Master
  PROVE  /\ s.live \subseteq Insts /\ s.doomed \subseteq Insts
         /\ s.mine \subseteq Procs /\ s.asked \subseteq Procs
<1>1. /\ s.live \in SUBSET Insts /\ s.doomed \in SUBSET Insts
      /\ s.mine \in SUBSET Procs /\ s.asked \in SUBSET Procs
  BY ZenonT(40) DEF Master
<1> QED
  BY <1>1

LEMMA SetRefcnt ==
  ASSUME NEW s \in Master, NEW n \in Nat
  PROVE  [s EXCEPT !.refcnt = n] \in Master
BY ZenonT(40) DEF Master

LEMMA RefType ==
  ASSUME NEW s \in Master
  PROVE  [s EXCEPT !.refcnt = @ + 1] \in Master
<1>1. s.refcnt + 1 \in Nat
  BY NumberFields
<1> QED
  BY <1>1, SetRefcnt

LEMMA NewSlaveType ==
  ASSUME NEW s \in Master
  PROVE  NewSlave(s) \in Master
<1>1. RelaunchCount \in 0 .. RelaunchCount /\ 0 \in 0 .. MaxLoad
  BY ConstantsAssumption
<1>2. /\ "TERMINATED" \in States
      /\ NoPid \in Procs \cup {NoPid, RetryPid} /\ NoPid \in Procs \cup {NoPid}
  BY DEF States
<1>3. 0 \in Int /\ 1 \in Int /\ 1 \in Nat
  OBVIOUS
<1> QED
  BY <1>1, <1>2, <1>3, ZenonT(100) DEF NewSlave, Master

LEMMA DestroyType ==
  ASSUME NEW s \in Master
  PROVE  Destroy(s) \in Master
<1>1. NoPid \in Procs \cup {NoPid}
  OBVIOUS
<1>2. [s EXCEPT !.alive = FALSE, !.ttlT = FALSE, !.actT = FALSE,
                !.relT = FALSE, !.pong = "off", !.handle = NoPid,
                !.mine = {}] \in Master
  BY <1>1, ZenonT(40) DEF Master
<1> QED
  BY <1>2, Zenon DEF Destroy

LEMMA UnrefsType ==
  ASSUME NEW s \in Master, NEW n \in Nat
  PROVE  Unrefs(s, n) \in Master
<1>1. CASE s.refcnt > n
  <2>1. s.refcnt - n \in Nat
    BY <1>1, NumberFields
  <2>2. [s EXCEPT !.refcnt = @ - n] \in Master
    BY <2>1, SetRefcnt, Zenon
  <2> QED
    BY <1>1, <2>2, Zenon DEF Unrefs
<1>2. Destroy([s EXCEPT !.refcnt = 0]) \in Master
  <2>1. 0 \in Nat
    OBVIOUS
  <2> QED
    BY <2>1, SetRefcnt, DestroyType, Zenon
<1>3. [s EXCEPT !.refcnt = 0, !.uaf = TRUE] \in Master
  BY DEF Master
<1> QED
  BY <1>1, <1>2, <1>3, Zenon DEF Unrefs

LEMMA UnrefType ==
  ASSUME NEW s \in Master
  PROVE  Unref(s) \in Master
BY UnrefsType DEF Unref

LEMMA ReleasePackageType ==
  ASSUME NEW s \in Master
  PROVE  ReleasePackage(s) \in Master
<1>1. [s EXCEPT !.pkg = FALSE] \in Master
  BY DEF Master
<1> QED
  BY <1>1, UnrefType DEF ReleasePackage
-----------------------------------------------------------------------------
(* Launching and requests *)

LEMMA LaunchType ==
  ASSUME NEW s \in Master, NEW launch \in LaunchResults, NEW b \in BOOLEAN,
         NEW n \in Nat, NEW a \in Int, NEW q \in SUBSET Procs
  PROVE  [s EXCEPT !.pid = launch, !.relT = b, !.actT = TRUE,
                   !.relaunch = RelaunchCount, !.state = "LAUNCH",
                   !.refcnt = n, !.active = a, !.mine = q] \in Master
<1>1. RelaunchCount \in 0 .. RelaunchCount /\ "LAUNCH" \in States
  BY ConstantsAssumption DEF States
<1>2. launch \in Procs \cup {NoPid, RetryPid}
  BY DEF LaunchResults
<1> QED
  BY <1>1, <1>2, ZenonT(40) DEF Master

LEMMA ActivateType ==
  ASSUME NEW s \in Master, NEW launch \in LaunchResults
  PROVE  Activate(s, launch) \in Master
<1>1. [s EXCEPT !.termT = FALSE] \in Master /\ [s EXCEPT !.reactivate = TRUE] \in Master
  <2>1. [s EXCEPT !.termT = FALSE] \in Master
    BY ZenonT(40) DEF Master
  <2>2. [s EXCEPT !.reactivate = TRUE] \in Master
    BY ZenonT(40) DEF Master
  <2> QED
    BY <2>1, <2>2
<1>2. [s EXCEPT !.pid = launch, !.relT = (launch = RetryPid), !.actT = TRUE,
                !.relaunch = RelaunchCount, !.state = "LAUNCH",
                !.refcnt = @ + 1, !.active = @ + 1,
                !.mine = IF launch \in Procs THEN @ \cup {launch} ELSE @]
        \in Master
  <2>1. s.refcnt + 1 \in Nat /\ s.active + 1 \in Int
    BY NumberFields
  <2>2. (IF launch \in Procs THEN s.mine \cup {launch} ELSE s.mine) \in SUBSET Procs
    BY SetFields
  <2> QED
    BY <2>1, <2>2, LaunchType, Zenon
<1> QED
  BY <1>1, <1>2, Zenon DEF Activate

LEMMA TerminatePidType ==
  ASSUME NEW s \in Master, NEW x
  PROVE  TerminatePid(s, x) \in Master
<1>1. CASE s.pid \in Procs /\ x.killOk
  <2>1. s.asked \cup {s.pid} \in SUBSET Procs
    BY <1>1, SetFields
  <2>2. [s EXCEPT !.asked = @ \cup {s.pid}] \in Master
    BY <2>1, ZenonT(40) DEF Master
  <2> QED
    BY <1>1, <2>2, Zenon DEF TerminatePid
<1>2. CASE ~(s.pid \in Procs /\ x.killOk)
  BY <1>2, Zenon DEF TerminatePid
<1> QED
  BY <1>1, <1>2, Zenon

LEMMA EnqueueType ==
  ASSUME NEW s \in Master, NEW c \in Requests, NEW urgent \in BOOLEAN,
         NEW launch, launch \in LaunchResults \/ IsActivated(s) \/ s.pid # NoPid
  PROVE  Enqueue(s, c, urgent, launch) \in Master
<1> DEFINE Put(q) == IF urgent THEN <<c>> \o q ELSE Append(q, c)
           act == s.handle = NoPid /\ ForcesActivation(s) /\ ~IsActivated(s)
           t == IF act THEN Activate(s, launch) ELSE s
<1>1. t \in Master
  <2>1. CASE launch \in LaunchResults
    BY <2>1, ActivateType, Zenon
  <2>2. CASE s.pid # NoPid
    <3>1. [s EXCEPT !.termT = FALSE] \in Master /\ [s EXCEPT !.reactivate = TRUE] \in Master
      <4>1. [s EXCEPT !.termT = FALSE] \in Master
        BY ZenonT(40) DEF Master
      <4>2. [s EXCEPT !.reactivate = TRUE] \in Master
        BY ZenonT(40) DEF Master
      <4> QED
        BY <4>1, <4>2
    <3> QED
      BY <2>2, <3>1, Zenon DEF Activate
  <2>3. CASE IsActivated(s)
    BY <2>3, Zenon
  <2> QED
    BY <2>1, <2>2, <2>3
<1>2. \A q \in Seq(Requests) : Put(q) \in Seq(Requests)
  OBVIOUS
<1>3. t.refcnt + 1 \in Nat /\ Put(t.pend) \in Seq(Requests) /\ Put(t.cmds) \in Seq(Requests)
  <2>1. t.refcnt \in Nat /\ t.pend \in Seq(Requests) /\ t.cmds \in Seq(Requests)
    BY <1>1, ZenonT(40) DEF Master
  <2> QED
    BY <2>1, <1>2
<1>4. /\ [t EXCEPT !.refcnt = @ + 1, !.pend = Put(@)] \in Master
      /\ [t EXCEPT !.refcnt = @ + 1, !.cmds = Put(@)] \in Master
  <2> HIDE DEF t, Put
  <2>1. [t EXCEPT !.refcnt = @ + 1, !.pend = Put(@)] \in Master
    BY <1>1, <1>3, ZenonT(40) DEF Master
  <2>2. [t EXCEPT !.refcnt = @ + 1, !.cmds = Put(@)] \in Master
    BY <1>1, <1>3, ZenonT(40) DEF Master
  <2> QED
    BY <2>1, <2>2
<1> QED
  BY <1>4, Zenon DEF Enqueue

LEMMA SetState ==
  ASSUME NEW s \in Master, NEW st \in States
  PROVE  [s EXCEPT !.state = st] \in Master
BY ZenonT(40) DEF Master

LEMMA PauseType ==
  ASSUME NEW s \in Master, NEW launch \in LaunchResults
  PROVE  Pause(s, launch) \in Master /\ Resume(s, launch) \in Master
<1>1. /\ [s EXCEPT !.state = "REQ_PAUSE"] \in Master
      /\ [s EXCEPT !.state = "REQ_RESUME"] \in Master
  BY SetState DEF States
<1>2. "pause" \in Requests /\ "resume" \in Requests /\ FALSE \in BOOLEAN
  BY DEF Requests
<1> QED
  BY <1>1, <1>2, EnqueueType, Zenon DEF Pause, Resume
-----------------------------------------------------------------------------
(* Instances *)

LEMMA SetLoaded ==
  ASSUME NEW s \in Master, NEW A \in SUBSET Insts, NEW B \in SUBSET Insts
  PROVE  [s EXCEPT !.live = A, !.doomed = B] \in Master
BY ZenonT(40) DEF Master

LEMMA UnlinkType ==
  ASSUME NEW s \in Master, NEW S
  PROVE  Unlink(s, S) \in Master
<1> DEFINE left  == [s EXCEPT !.live = @ \ S, !.doomed = @ \ S]
           last  == S # {} /\ Loaded(left) = {}
           freed == ReleasePackage(left)
<1>1. left \in Master
  <2>1. s.live \ S \in SUBSET Insts /\ s.doomed \ S \in SUBSET Insts
    BY SetFields
  <2> QED
    BY <2>1, SetLoaded, Zenon
<1>2. freed \in Master
  BY <1>1, ReleasePackageType, Zenon
<1>3. /\ [freed EXCEPT !.uaf = TRUE] \in Master
      /\ [freed EXCEPT !.reactivate = FALSE, !.reactInst = FALSE] \in Master
  <2> HIDE DEF freed
  <2>1. [freed EXCEPT !.uaf = TRUE] \in Master
    BY <1>2, ZenonT(40) DEF Master
  <2>2. [freed EXCEPT !.reactivate = FALSE, !.reactInst = FALSE] \in Master
    BY <1>2, ZenonT(40) DEF Master
  <2> QED
    BY <2>1, <2>2, Zenon
<1>4. Unlink(s, S) \in {left, freed, [freed EXCEPT !.uaf = TRUE],
                        [freed EXCEPT !.reactivate = FALSE, !.reactInst = FALSE]}
  <2>1. CASE ~last
    BY <2>1, Zenon DEF Unlink
  <2>2. CASE last /\ ~freed.alive
    BY <2>2, Zenon DEF Unlink
  <2>3. CASE last /\ freed.alive
    BY <2>3, Zenon DEF Unlink
  <2> QED
    BY <2>1, <2>2, <2>3, Zenon
<1> QED
  BY <1>1, <1>2, <1>3, <1>4, Zenon

LEMMA DoomType ==
  ASSUME NEW s \in Master, NEW D \in SUBSET Insts
  PROVE  Doom(s, D) \in Master
<1>1. s.live \ D \in SUBSET Insts /\ s.doomed \cup D \in SUBSET Insts
  BY SetFields
<1>2. [s EXCEPT !.live = @ \ D, !.doomed = @ \cup D] \in Master
  BY <1>1, SetLoaded, Zenon
<1> QED
  BY <1>2, UnlinkType, Zenon DEF Doom

LEMMA AnswerNullType ==
  ASSUME NEW s \in Master, NEW q \in Seq(Requests)
  PROVE  AnswerNull(s, q) \in Master
<1> DEFINE own  == {k \in DOMAIN q : q[k] \in {"pause", "resume"}}
           last == CHOOSE k \in own : \A j \in own : j <= k
           st   == IF own = {} \/ s.state \in Leaving THEN s.state
                   ELSE IF q[last] = "pause" THEN "RESUMED" ELSE "PAUSED"
           t    == [s EXCEPT !.state = st]
<1>1. t \in Master
  <2>1. s.state \in States /\ "RESUMED" \in States /\ "PAUSED" \in States
    BY ZenonT(40) DEF Master, States
  <2>2. st \in States
    BY <2>1, Zenon
  <2> QED
    BY <2>2, SetState, Zenon
<1>2. Unlink(t, {i \in t.doomed : ~Held(t, i)}) \in Master
  BY <1>1, UnlinkType, Zenon
<1>3. Len(q) \in Nat
  OBVIOUS
<1> QED
  BY <1>2, <1>3, UnrefsType, Zenon DEF AnswerNull

LEMMA RpcDeactivateType ==
  ASSUME NEW s \in Master
  PROVE  RpcDeactivate(s) \in Master
<1> DEFINE q == IF s.handle = NoPid THEN s.pend ELSE s.cmds
           t == IF s.handle = NoPid THEN [s EXCEPT !.pend = <<>>]
                ELSE [s EXCEPT !.cmds = <<>>]
           u == [t EXCEPT !.pong = "off"]
           v == AnswerNull(u, q)
<1>1. q \in Seq(Requests)
  BY ZenonT(40) DEF Master
<1>2. t \in Master
  <2>1. <<>> \in Seq(Requests)
    OBVIOUS
  <2>2. [s EXCEPT !.pend = <<>>] \in Master /\ [s EXCEPT !.cmds = <<>>] \in Master
    BY <2>1, ZenonT(40) DEF Master
  <2> QED
    BY <2>2, Zenon
<1>3. u \in Master
  <2> HIDE DEF t
  <2> QED
    BY <1>2, ZenonT(40) DEF Master
<1>4. v \in Master
  BY <1>1, <1>3, AnswerNullType, Zenon
<1>5. [v EXCEPT !.handle = NoPid] \in Master
  <2>1. NoPid \in Procs \cup {NoPid}
    OBVIOUS
  <2> HIDE DEF v
  <2> QED
    BY <1>4, <2>1, ZenonT(40) DEF Master
<1> QED
  BY <1>5, Zenon DEF RpcDeactivate
-----------------------------------------------------------------------------
(* Deactivation *)

LEMMA InputsFacts ==
  ASSUME NEW x \in Inputs
  PROVE  /\ x.launch \in LaunchResults \cup {Asleep} /\ x.killOk \in BOOLEAN
         /\ x.dooms \in SUBSET Insts /\ x.fault \in {"slow", "excused", "last"}
BY Zenon DEF Inputs

LEMMA StopTimersType ==
  ASSUME NEW s \in Master
  PROVE  StopTimers(s) \in Master
BY ZenonT(40) DEF StopTimers, Master

LEMMA DeactivatedType ==
  ASSUME NEW s \in Master, NEW x \in Inputs
  PROVE  Deactivated(s, x) \in Master
<1> DEFINE a == [StopTimers(s) EXCEPT !.pid = NoPid, !.state = "TERMINATED",
                                      !.refcnt = @ + 1]
           b == Doom(a, IF a.fault THEN a.live ELSE a.live \cap x.dooms)
           c == Unref(RpcDeactivate(b))
           c1 == [c EXCEPT !.active = @ - 1]
           d == Unref(c1)
           e == [d EXCEPT !.create = @ - 1]
           f == Unref(e)
<1>1. a \in Master
  <2> DEFINE s1 == StopTimers(s)
  <2>1. s1 \in Master
    BY StopTimersType
  <2> HIDE DEF s1
  <2>2. s1.refcnt + 1 \in Nat
    BY <2>1, NumberFields
  <2>3. NoPid \in Procs \cup {NoPid, RetryPid} /\ "TERMINATED" \in States
    BY DEF States
  <2>4. [s1 EXCEPT !.pid = NoPid, !.state = "TERMINATED", !.refcnt = @ + 1] \in Master
    BY <2>1, <2>2, <2>3, ZenonT(40) DEF Master
  <2> QED
    BY <2>4, Zenon DEF s1
<1> HIDE DEF a
<1>2. b \in Master
  <2>1. (IF a.fault THEN a.live ELSE a.live \cap x.dooms) \in SUBSET Insts
    BY <1>1, SetFields
  <2> QED
    BY <1>1, <2>1, DoomType, Zenon
<1> HIDE DEF b
<1>3. c \in Master
  BY <1>2, RpcDeactivateType, UnrefType, Zenon
<1> HIDE DEF c
<1>4. c1 \in Master
  <2>1. c.active - 1 \in Int
    BY <1>3, NumberFields
  <2> QED
    BY <1>3, <2>1, ZenonT(40) DEF Master
<1> HIDE DEF c1
<1>5. d \in Master
  BY <1>4, UnrefType, Zenon
<1> HIDE DEF d
<1>6. e \in Master
  <2>1. d.create - 1 \in Int
    BY <1>5, NumberFields
  <2> QED
    BY <1>5, <2>1, ZenonT(40) DEF Master
<1> HIDE DEF e
<1>7. f \in Master
  BY <1>6, UnrefType, Zenon
<1> HIDE DEF f
<1>8. x.launch # Asleep => Activate(d, x.launch) \in Master
  <2>1. x.launch # Asleep => x.launch \in LaunchResults
    BY InputsFacts, Zenon
  <2> QED
    BY <1>5, <2>1, ActivateType, Zenon
<1> DEFINE Wanted == x.launch # Asleep /\ d.reactivate /\ ~d.fault /\ d.live # {}
           last == IF d.refcnt = 0 \/ "react" \in d.ctrl THEN d
                   ELSE IF Wanted THEN Activate(d, x.launch)
                   ELSE IF Loaded(d) = {} THEN f ELSE d
<1>9. last \in Master
  BY <1>5, <1>7, <1>8, Zenon
<1>10. Deactivated(s, x) = IF c.refcnt = 0 THEN c ELSE last
  BY Zenon DEF Deactivated, a, b, c, c1, d, e, f
<1> HIDE DEF last
<1> QED
  BY <1>3, <1>9, <1>10, Zenon

LEMMA DeactivateType ==
  ASSUME NEW s \in Master, NEW noTimer, NEW x \in Inputs
  PROVE  Deactivate(s, noTimer, x) \in Master
<1> DEFINE a == [s EXCEPT !.ttlT = FALSE]
           b == TerminatePid([a EXCEPT !.state = "TERMINATE"], x)
           c == [a EXCEPT !.state = "DISCONNECT"]
<1>1. a \in Master
  BY ZenonT(40) DEF Master
<1> HIDE DEF a
<1>2. [a EXCEPT !.state = "TERMINATE"] \in Master /\ c \in Master
  BY <1>1, SetState, Zenon DEF States
<1>3. b \in Master
  BY <1>2, TerminatePidType, Zenon
<1>4. Enqueue(c, "disconnect", FALSE, x.launch) \in Master
  <2>1. c.state = "DISCONNECT"
    BY <1>1, ZenonT(40) DEF Master
  <2>2. IsActivated(c)
    BY <2>1 DEF IsActivated
  <2>3. "disconnect" \in Requests /\ FALSE \in BOOLEAN
    BY DEF Requests
  <2> HIDE DEF c
  <2> QED
    BY <1>2, <2>2, <2>3, EnqueueType, Zenon
<1>5. [a EXCEPT !.termT = TRUE] \in Master
  BY <1>1, ZenonT(40) DEF Master
<1>6. Deactivated(b, x) \in Master
  BY <1>3, DeactivatedType, Zenon
<1> QED
  BY <1>1, <1>3, <1>4, <1>5, <1>6, Zenon DEF Deactivate, a

LEMMA DeactivateIfEmptiedType ==
  ASSUME NEW s, NEW t \in Master, NEW x \in Inputs
  PROVE  DeactivateIfEmptied(s, t, x) \in Master
BY DeactivateType, Zenon DEF DeactivateIfEmptied

LEMMA SetFlags ==
  ASSUME NEW s \in Master, NEW v \in BOOLEAN
  PROVE  /\ [s EXCEPT !.fault = v] \in Master
         /\ [s EXCEPT !.reactivate = v, !.reactInst = v] \in Master
<1>1. [s EXCEPT !.fault = v] \in Master
  BY ZenonT(40) DEF Master
<1>2. [s EXCEPT !.reactivate = v, !.reactInst = v] \in Master
  BY ZenonT(40) DEF Master
<1> QED
  BY <1>1, <1>2

LEMMA FaultCbType ==
  ASSUME NEW s \in Master, NEW x \in Inputs
  PROVE  FaultCb(s, x) \in Master
<1> DEFINE a == [s EXCEPT !.refcnt = @ + 1]
           b == [a EXCEPT !.fault = (x.fault = "last")]
           t == Doom(b, b.live)
           c == IF ~a.pkg \/ a.fault THEN a ELSE DeactivateIfEmptied(b, t, x)
<1>1. a \in Master
  BY RefType
<1> HIDE DEF a
<1>2. b \in Master
  <2>1. (x.fault = "last") \in BOOLEAN
    OBVIOUS
  <2> QED
    BY <1>1, <2>1, SetFlags
<1> HIDE DEF b
<1>3. t \in Master
  <2>1. b.live \in SUBSET Insts
    BY <1>2, ZenonT(40) DEF Master
  <2> QED
    BY <1>2, <2>1, DoomType, Zenon
<1>4. c \in Master
  BY <1>1, <1>3, DeactivateIfEmptiedType, Zenon
<1> QED
  BY <1>4, UnrefType, Zenon DEF FaultCb, a, b

LEMMA DeactivatedByFaultType ==
  ASSUME NEW s \in Master, NEW x \in Inputs
  PROVE  DeactivatedByFault(s, x) \in Master
<1> DEFINE a    == TerminatePid(s, x)
           soon == x.fault # "slow"
           stop == soon /\ (Loaded(s) = {} \/ s.crit + 1 >= MaxLoad)
           a1   == [a EXCEPT !.crit = 0, !.streak = 0]
           a2   == [a EXCEPT !.crit = 0,
                             !.streak = IF @ < MaxLoad THEN @ + 1 ELSE @]
           a3   == [a EXCEPT !.streak = 0]
           b    == IF stop THEN FaultCb(a1, x) ELSE IF soon THEN a2 ELSE a3
           c    == IF stop THEN [b EXCEPT !.reactivate = FALSE, !.reactInst = FALSE]
                   ELSE [b EXCEPT !.reactivate = TRUE, !.reactInst = TRUE]
           e    == [s EXCEPT !.create = @ - 1]
<1>1. a \in Master
  BY TerminatePidType
<1> HIDE DEF a
<1>2. a1 \in Master /\ a2 \in Master /\ a3 \in Master
  <2>1. 0 \in 0 .. MaxLoad
    BY ConstantsAssumption
  <2>2. (IF a.streak < MaxLoad THEN a.streak + 1 ELSE a.streak) \in 0 .. MaxLoad
    <3>1. a.streak \in 0 .. MaxLoad
      BY <1>1, ZenonT(40) DEF Master
    <3> QED
      BY <3>1, ConstantsAssumption
  <2>3. a1 \in Master
    BY <1>1, <2>1, ZenonT(40) DEF Master
  <2>4. a2 \in Master
    BY <1>1, <2>1, <2>2, ZenonT(40) DEF Master
  <2>5. a3 \in Master
    BY <1>1, <2>1, ZenonT(40) DEF Master
  <2> QED
    BY <2>3, <2>4, <2>5, Zenon
<1> HIDE DEF a1, a2, a3, stop
<1>3. b \in Master
  BY <1>2, FaultCbType, Zenon
<1> HIDE DEF b
<1>4. c \in Master
  <2>1. TRUE \in BOOLEAN /\ FALSE \in BOOLEAN
    OBVIOUS
  <2> QED
    BY <1>3, <2>1, SetFlags, Zenon
<1>5. Deactivated(c, x) \in Master
  BY <1>4, DeactivatedType, Zenon
<1>6. Unref(e) \in Master
  <2>1. s.create - 1 \in Int
    BY NumberFields
  <2>2. e \in Master
    BY <2>1, ZenonT(40) DEF Master
  <2> QED
    BY <2>2, UnrefType, Zenon
<1> QED
  BY <1>3, <1>5, <1>6, Zenon DEF DeactivatedByFault, a, a1, a2, a3, b, stop

LEMMA SlaveFaultType ==
  ASSUME NEW s \in Master, NEW x \in Inputs
  PROVE  SlaveFault(s, x) \in Master
<1> DEFINE a == FaultCb(s, x)
           b == [a EXCEPT !.reactivate = FALSE, !.reactInst = FALSE]
           c == IF b.pid \in Procs /\ "term" \in b.ctrl
                THEN Enqueue(b, "disconnect", FALSE, x.launch)
                ELSE TerminatePid(b, x)
<1>1. a \in Master
  BY FaultCbType
<1> HIDE DEF a
<1>2. b \in Master
  BY <1>1, ZenonT(40) DEF Master
<1> HIDE DEF b
<1>3. c \in Master
  <2>1. CASE b.pid \in Procs /\ "term" \in b.ctrl
    <3>1. b.pid # NoPid
      BY <2>1, ConstantsAssumption DEF NoPid
    <3>2. "disconnect" \in Requests /\ FALSE \in BOOLEAN
      BY DEF Requests
    <3> QED
      BY <1>2, <2>1, <3>1, <3>2, EnqueueType, Zenon
  <2>2. CASE ~(b.pid \in Procs /\ "term" \in b.ctrl)
    BY <1>2, <2>2, TerminatePidType, Zenon
  <2> QED
    BY <2>1, <2>2, Zenon
<1> HIDE DEF c
<1>4. Deactivated(c, x) \in Master
  BY <1>3, DeactivatedType, Zenon
<1> QED
  BY <1>1, <1>3, <1>4, Zenon DEF SlaveFault, a, b, c
-----------------------------------------------------------------------------
(* Activation *)

LEMMA FunctionIsSequence ==
  ASSUME NEW S, NEW n \in Nat, NEW q \in [1 .. n -> S]
  PROVE  q \in Seq(S)
OBVIOUS

LEMMA RecoverListType ==
  ASSUME NEW s \in Master
  PROVE  RecoverList(s) \in Seq(Requests)
<1> DEFINE idle == {i \in s.live : ~Held(s, i)}
           n == Cardinality(idle)
<1>1. idle \subseteq Insts
  BY SetFields
<1>2. IsFiniteSet(idle)
  BY <1>1, FS_Subset, ConstantsAssumption
<1>3. n \in Nat /\ ExistsBijection(1 .. n, idle)
  BY <1>2, FS_CardinalityType
<1>4. \E q \in [1 .. n -> idle] : RangeOf(q) = idle
  <2>1. PICK q \in Bijection(1 .. n, idle) : TRUE
    BY <1>3 DEF ExistsBijection
  <2>2. q \in [1 .. n -> idle] /\ RangeOf(q) = idle
    BY <2>1 DEF Bijection, Injection, Surjection, RangeOf
  <2> QED
    BY <2>2
<1>5. RecoverList(s) \in [1 .. n -> idle]
  BY <1>4 DEF RecoverList
<1>6. RecoverList(s) \in [1 .. n -> Requests]
  BY <1>1, <1>5 DEF Requests
<1> HIDE DEF n
<1>7. n \in Nat
  BY <1>3
<1> QED
  BY <1>6, <1>7, FunctionIsSequence, Zenon

LEMMA ActivatedType ==
  ASSUME NEW s \in Master, NEW x \in Inputs, x.launch \in LaunchResults
  PROVE  Activated(s, x) \in Master
<1> DEFINE a == IF s.xpaused THEN Pause(s, x.launch) ELSE Resume(s, x.launch)
           b == IF UsesTtl THEN [a EXCEPT !.ttlT = TRUE] ELSE a
           q == RecoverList(b)
           b1 == Activate(b, x.launch)
           b2 == [b1 EXCEPT !.cmds = q \o @, !.refcnt = @ + Len(q)]
           c == IF b.reactInst /\ q # <<>> THEN b2 ELSE b
<1>1. a \in Master
  BY PauseType, Zenon
<1> HIDE DEF a
<1>2. b \in Master
  <2>1. [a EXCEPT !.ttlT = TRUE] \in Master
    BY <1>1, ZenonT(40) DEF Master
  <2> QED
    BY <1>1, <2>1, Zenon
<1> HIDE DEF b
<1>3. q \in Seq(Requests)
  BY <1>2, RecoverListType
<1>4. b1 \in Master
  BY <1>2, ActivateType
<1> HIDE DEF b1, q
<1>5. b2 \in Master
  <2>1. b1.cmds \in Seq(Requests) /\ b1.refcnt \in Nat
    BY <1>4, ZenonT(40) DEF Master
  <2>2. q \o b1.cmds \in Seq(Requests) /\ b1.refcnt + Len(q) \in Nat
    BY <1>3, <2>1
  <2> QED
    BY <1>4, <2>2, ZenonT(40) DEF Master
<1> HIDE DEF b2
<1>6. c \in Master
  BY <1>2, <1>5, Zenon
<1> HIDE DEF c
<1>7. [c EXCEPT !.reactivate = FALSE, !.reactInst = FALSE,
                !.actT = FALSE, !.relT = FALSE] \in Master
  BY <1>6, ZenonT(40) DEF Master
<1> QED
  BY <1>7, Zenon DEF Activated, a, b, q, b1, b2, c

LEMMA UpdateHandleType ==
  ASSUME NEW s \in Master, NEW h \in Procs, NEW x \in Inputs,
         x.launch \in LaunchResults
  PROVE  UpdateHandle(s, h, x) \in Master
<1> DEFINE s1 == [s EXCEPT !.handle = h, !.pong = "on"]
           a == Activated(s1, x)
<1>1. s1 \in Master
  <2>1. h \in Procs \cup {NoPid}
    OBVIOUS
  <2> QED
    BY <2>1, ZenonT(40) DEF Master
<1> HIDE DEF s1
<1>2. a \in Master
  BY <1>1, ActivatedType
<1> HIDE DEF a
<1>3. [a EXCEPT !.cmds = @ \o a.pend, !.pend = <<>>] \in Master
  <2>1. a.cmds \in Seq(Requests) /\ a.pend \in Seq(Requests)
    BY <1>2, ZenonT(40) DEF Master
  <2>2. a.cmds \o a.pend \in Seq(Requests) /\ <<>> \in Seq(Requests)
    BY <2>1
  <2> QED
    BY <1>2, <2>2, ZenonT(40) DEF Master
<1> QED
  BY <1>3, Zenon DEF UpdateHandle, a, s1

LEMMA DeadMonitorType ==
  ASSUME NEW s \in Master, NEW p, NEW x \in Inputs
  PROVE  DeadMonitor(s, p, x) \in Master
<1> DEFINE a == [s EXCEPT !.wait = FALSE, !.reactivate = FALSE, !.reactInst = TRUE]
<1>1. a \in Master
  BY ZenonT(40) DEF Master
<1>2. Deactivated(s, x) \in Master /\ Deactivated(a, x) \in Master
  BY <1>1, DeactivatedType, Zenon
<1> QED
  BY <1>2, DeactivatedByFaultType, Zenon DEF DeadMonitor
-----------------------------------------------------------------------------
(* Type correctness *)

LEMMA InputsOfRuns ==
  ASSUME TypeOK
  PROVE  /\ \A x \in Launching : x \in Inputs /\ x.launch \in LaunchResults
         /\ \A x \in Stopping : x \in Inputs
         /\ \A x \in Failing : x \in Inputs
         /\ \A x \in Relaunching : x \in Inputs /\ x.launch \in LaunchResults
<1>1. Launches \subseteq LaunchResults
  BY DEF Launches, LaunchResults
<1>2. SUBSET m.live \subseteq SUBSET Insts
  BY DEF TypeOK, Master
<1>3. \A x \in Launching : x \in Inputs /\ x.launch \in LaunchResults
  BY <1>1 DEF Launching, Inputs, LaunchResults
<1>4. \A x \in Ending : x \in Inputs
  BY <1>1, <1>2 DEF Ending, Inputs
<1>5. \A x \in Stopping : x \in Inputs
  BY <1>4 DEF Stopping
<1>6. \A x \in Failing : x \in Inputs
  <2>1. ASSUME NEW x \in Inputs, NEW f \in {"slow", "excused", "last"}
        PROVE  [x EXCEPT !.fault = f] \in Inputs
    BY <2>1, Zenon DEF Inputs
  <2>2. TAKE y \in Failing
  <2>3. CASE y \in Ending
    BY <1>4, <2>3
  <2>4. CASE y \notin Ending
    <3>1. PICK x \in Ending, f \in {"slow", "excused", "last"} : y = [x EXCEPT !.fault = f]
      BY <2>4 DEF Failing
    <3> QED
      BY <1>4, <2>1, <3>1, Zenon
  <2> QED
    BY <2>3, <2>4
<1>7. \A x \in Relaunching : x \in Inputs /\ x.launch \in LaunchResults
  BY <1>1, <1>2 DEF Relaunching, Inputs
<1> QED
  BY <1>3, <1>5, <1>6, <1>7

LEMMA StepType ==
  ASSUME TypeOK, NEW t \in Master, Step(t)
  PROVE  m' \in Master /\ proc' \in [Procs -> {"idle", "up", "dead"}]
BY DEF TypeOK, Step
-----------------------------------------------------------------------------
(* The actions *)

LEMMA RunType ==
  ASSUME TypeOK, NEW t \in Master, Step(t), UNCHANGED conn
  PROVE  TypeOK'
BY StepType DEF TypeOK

LEMMA CreateInstanceType ==
  ASSUME TypeOK, NEW i \in Insts, NEW x \in Launching, CreateInstance(i, x)
  PROVE  TypeOK'
<1> DEFINE s == IF m.alive THEN m ELSE NewSlave(m)
           t == IF s.pkg THEN s ELSE [s EXCEPT !.pkg = TRUE, !.refcnt = @ + 1]
           u == [t EXCEPT !.live = @ \cup {i}]
           a == Activate(u, x.launch)
           b == Enqueue(a, i, TRUE, x.launch)
<1>1. s \in Master
  BY NewSlaveType, Zenon DEF TypeOK
<1> HIDE DEF s
<1>2. t \in Master
  <2>1. s.refcnt + 1 \in Nat
    BY <1>1, NumberFields
  <2>2. [s EXCEPT !.pkg = TRUE, !.refcnt = @ + 1] \in Master
    BY <1>1, <2>1, ZenonT(40) DEF Master
  <2> QED
    BY <1>1, <2>2, Zenon
<1> HIDE DEF t
<1>3. u \in Master
  <2>1. t.live \cup {i} \in SUBSET Insts
    BY <1>2, SetFields
  <2> QED
    BY <1>2, <2>1, ZenonT(40) DEF Master
<1> HIDE DEF u
<1>4. x.launch \in LaunchResults /\ i \in Requests
  BY InputsOfRuns DEF Requests
<1>5. a \in Master
  BY <1>3, <1>4, ActivateType, Zenon
<1> HIDE DEF a
<1>6. b \in Master
  BY <1>4, <1>5, EnqueueType, Zenon
<1>7. Step(b) /\ UNCHANGED conn
  BY Zenon DEF CreateInstance, s, t, u, a, b
<1> HIDE DEF b
<1> QED
  BY <1>6, <1>7, RunType, Zenon

LEMMA RequestInstanceType ==
  ASSUME TypeOK, NEW i \in Insts, NEW x \in Launching,
         RequestInstance(i, x) \/ ReactivateInstance(i, x)
  PROVE  TypeOK'
<1>1. x.launch \in LaunchResults /\ i \in Requests /\ m \in Master
  BY InputsOfRuns DEF Requests, TypeOK
<1>2. Enqueue(m, i, FALSE, x.launch) \in Master
  BY <1>1, EnqueueType, Zenon
<1>3. Enqueue(Activate(m, x.launch), i, TRUE, x.launch) \in Master
  BY <1>1, EnqueueType, ActivateType, Zenon
<1> QED
  BY <1>2, <1>3, RunType, Zenon DEF RequestInstance, ReactivateInstance

LEMMA InstanceDeletedType ==
  ASSUME TypeOK, NEW i \in Insts, NEW x \in Stopping, InstanceDeleted(i, x)
  PROVE  TypeOK'
<1>1. x \in Inputs /\ {i} \in SUBSET Insts /\ m \in Master
  BY InputsOfRuns DEF TypeOK
<1>2. DeactivateIfEmptied(m, Doom(m, {i}), x) \in Master
  BY <1>1, DoomType, DeactivateIfEmptiedType, Zenon
<1> QED
  BY <1>2, RunType, Zenon DEF InstanceDeleted

LEMMA PackageActionsType ==
  ASSUME TypeOK,
         \/ ClearFault
         \/ \E b \in BOOLEAN : WaitDeactivation(b)
         \/ \E i \in Insts : UninstallInstance(i)
  PROVE  TypeOK'
<1>1. m \in Master
  BY DEF TypeOK
<1>2. CASE ClearFault
  <2>1. [m EXCEPT !.fault = FALSE] \in Master
    BY <1>1, ZenonT(40) DEF Master
  <2> QED
    BY <1>2, <2>1, RunType, Zenon DEF ClearFault
<1>3. CASE \E b \in BOOLEAN : WaitDeactivation(b)
  <2>1. PICK b \in BOOLEAN : WaitDeactivation(b)
    BY <1>3
  <2>2. [m EXCEPT !.wait = b] \in Master
    BY <1>1, ZenonT(40) DEF Master
  <2> QED
    BY <2>1, <2>2, RunType, Zenon DEF WaitDeactivation
<1>4. CASE \E i \in Insts : UninstallInstance(i)
  <2>1. PICK i \in Insts : UninstallInstance(i)
    BY <1>4
  <2>2. Doom(m, {i}) \in Master
    BY <1>1, DoomType
  <2> QED
    BY <2>1, <2>2, RunType, Zenon DEF UninstallInstance
<1> QED
  BY <1>2, <1>3, <1>4

LEMMA DeactivateAllType ==
  ASSUME TypeOK, NEW x \in Stopping, DeactivateAll(x)
  PROVE  TypeOK'
<1> DEFINE s == [m EXCEPT !.signals = @ + 1]
           a == [s EXCEPT !.reactInst = TRUE, !.reactivate = FALSE]
           t == IF s.signals = 1 /\ s.alive /\ IsActivated(s)
                THEN Deactivate(a, TRUE, x) ELSE s
<1>1. s \in Master
  <2>1. m \in Master /\ m.signals < MaxSignals
    BY DEF TypeOK, DeactivateAll
  <2>2. m.signals \in 0 .. MaxSignals
    BY <2>1, ZenonT(40) DEF Master
  <2>3. m.signals + 1 \in 0 .. MaxSignals
    BY <2>1, <2>2, ConstantsAssumption
  <2> QED
    BY <2>1, <2>3, ZenonT(40) DEF Master
<1> HIDE DEF s
<1>2. a \in Master
  BY <1>1, ZenonT(40) DEF Master
<1> HIDE DEF a
<1>3. t \in Master
  BY <1>1, <1>2, InputsOfRuns, DeactivateType, Zenon
<1>4. Step(t) /\ UNCHANGED conn
  BY Zenon DEF DeactivateAll, s, a, t
<1> HIDE DEF t
<1> QED
  BY <1>3, <1>4, RunType, Zenon

LEMMA ActivateAllType ==
  ASSUME TypeOK, NEW x \in Launching, ActivateAll(x)
  PROVE  TypeOK'
<1> DEFINE s == [m EXCEPT !.signals = @ - 1]
           t == IF s.signals = 0 /\ s.alive THEN Activate(s, x.launch) ELSE s
<1>1. s \in Master
  <2>1. m \in Master /\ m.signals > 0
    BY DEF TypeOK, ActivateAll
  <2>2. m.signals \in 0 .. MaxSignals
    BY <2>1, ZenonT(40) DEF Master
  <2>3. m.signals - 1 \in 0 .. MaxSignals
    BY <2>1, <2>2, ConstantsAssumption
  <2> QED
    BY <2>1, <2>3, ZenonT(40) DEF Master
<1> HIDE DEF s
<1>2. t \in Master
  BY <1>1, InputsOfRuns, ActivateType, Zenon
<1>3. Step(t) /\ UNCHANGED conn
  BY Zenon DEF ActivateAll, s, t
<1> HIDE DEF t
<1> QED
  BY <1>2, <1>3, RunType, Zenon

LEMMA XMonitorType ==
  ASSUME TypeOK, NEW x \in Launching, XMonitor(x)
  PROVE  TypeOK'
<1> DEFINE v == IF m.xpaused THEN FALSE ELSE TRUE
           s == [m EXCEPT !.xpaused = v]
           t == IF ~s.alive THEN s
                ELSE IF s.xpaused THEN Pause(s, x.launch) ELSE Resume(s, x.launch)
<1>1. m \in Master /\ v \in BOOLEAN
  BY Zenon DEF TypeOK
<1>2. ~m.xpaused = v
  <2>1. m.xpaused \in BOOLEAN
    BY <1>1, ZenonT(40) DEF Master
  <2> QED
    BY <2>1
<1>3. [m EXCEPT !.xpaused = ~@] = s
  BY <1>2, Zenon
<1> HIDE DEF v
<1>4. s \in Master
  BY <1>1, ZenonT(40) DEF Master
<1>5. Step(t) /\ UNCHANGED conn
  BY <1>3, <1>4 DEF XMonitor
<1> HIDE DEF s
<1>6. t \in Master
  BY <1>4, InputsOfRuns, PauseType, Zenon
<1> HIDE DEF t
<1> QED
  BY <1>5, <1>6, RunType, Zenon

LEMMA TerminateTimerType ==
  ASSUME TypeOK, NEW x \in Stopping, TerminateTimer(x)
  PROVE  TypeOK'
<1> DEFINE s == [m EXCEPT !.state = "TERMINATE", !.termT = FALSE]
           a == TerminatePid(s, x)
           t == IF x.killOk THEN a ELSE Deactivated(a, x)
<1>1. s \in Master
  <2>1. m \in Master /\ "TERMINATE" \in States
    BY DEF TypeOK, States
  <2> QED
    BY <2>1, ZenonT(40) DEF Master
<1>2. Step(t) /\ UNCHANGED conn
  BY Zenon DEF TerminateTimer
<1> HIDE DEF s
<1>3. t \in Master
  BY <1>1, InputsOfRuns, TerminatePidType, DeactivatedType, Zenon
<1> HIDE DEF t
<1> QED
  BY <1>2, <1>3, RunType, Zenon

LEMMA TtlTimerType ==
  ASSUME TypeOK, NEW x \in Stopping, TtlTimer(x)
  PROVE  TypeOK'
<1> DEFINE a == [m EXCEPT !.ttlT = FALSE]
           b == [a EXCEPT !.reactivate = FALSE, !.reactInst = TRUE]
           t == IF IsActivated(a) THEN Deactivate(b, TRUE, x) ELSE a
<1>1. a \in Master
  <2>1. m \in Master
    BY DEF TypeOK
  <2> QED
    BY <2>1, ZenonT(40) DEF Master
<1>2. Step(t) /\ UNCHANGED conn
  BY Zenon DEF TtlTimer
<1> HIDE DEF a
<1>3. b \in Master
  BY <1>1, ZenonT(40) DEF Master
<1> HIDE DEF b
<1>4. t \in Master
  BY <1>1, <1>3, InputsOfRuns, DeactivateType, Zenon
<1> HIDE DEF t
<1> QED
  BY <1>2, <1>4, RunType, Zenon

LEMMA ActivateTimerType ==
  ASSUME TypeOK, NEW x \in Failing, ActivateTimer(x)
  PROVE  TypeOK'
<1> DEFINE s == [m EXCEPT !.relT = FALSE, !.actT = FALSE]
           a == FaultCb(s, x)
           b == [a EXCEPT !.reactivate = FALSE, !.reactInst = FALSE]
           t == IF a.refcnt = 0 THEN a ELSE Deactivated(TerminatePid(b, x), x)
<1>1. s \in Master
  <2>1. m \in Master
    BY DEF TypeOK
  <2> QED
    BY <2>1, ZenonT(40) DEF Master
<1>2. Step(t) /\ UNCHANGED conn
  BY Zenon DEF ActivateTimer
<1> HIDE DEF s
<1>3. x \in Inputs
  BY InputsOfRuns
<1>4. a \in Master
  BY <1>1, <1>3, FaultCbType, Zenon
<1> HIDE DEF a
<1>5. b \in Master
  BY <1>4, SetFlags, Zenon
<1> HIDE DEF b
<1>6. t \in Master
  BY <1>3, <1>4, <1>5, TerminatePidType, DeactivatedType, Zenon
<1> HIDE DEF t
<1> QED
  BY <1>2, <1>6, RunType, Zenon

LEMMA RelaunchTimerType ==
  ASSUME TypeOK, NEW x \in Relaunching, RelaunchTimer(x)
  PROVE  TypeOK'
<1> DEFINE a == [m EXCEPT !.relT = FALSE, !.actT = FALSE]
           b == [a EXCEPT !.pid = NoPid]
           c == [m EXCEPT !.relaunch = @ - 1, !.pid = NoPid]
           d == [m EXCEPT !.pid = x.launch, !.relT = FALSE, !.mine = @ \cup {x.launch}]
           t == IF ~m.actT \/ Exhausted THEN SlaveFault(a, x)
                ELSE IF x.launch = NoPid THEN SlaveFault(b, x)
                ELSE IF x.launch = RetryPid THEN c ELSE d
<1>1. m \in Master /\ x \in Inputs /\ x.launch \in LaunchResults
  BY InputsOfRuns DEF TypeOK
<1>2. Step(t) /\ UNCHANGED conn
  BY Zenon DEF RelaunchTimer
<1>3. a \in Master
  BY <1>1, ZenonT(40) DEF Master
<1> HIDE DEF a
<1>4. NoPid \in Procs \cup {NoPid, RetryPid}
  OBVIOUS
<1>5. b \in Master
  BY <1>3, <1>4, ZenonT(40) DEF Master
<1> HIDE DEF b
<1>6. ASSUME ~Exhausted
      PROVE  c \in Master
  <2>1. m.relaunch \in 0 .. RelaunchCount
    BY <1>1, ZenonT(40) DEF Master
  <2>2. m.relaunch - 1 \in 0 .. RelaunchCount
    BY <1>6, <2>1, ConstantsAssumption DEF Exhausted
  <2> QED
    BY <1>1, <1>4, <2>2, ZenonT(40) DEF Master
<1>7. ASSUME x.launch # NoPid, x.launch # RetryPid
      PROVE  d \in Master
  <2>1. x.launch \in Procs
    BY <1>1, <1>7 DEF LaunchResults
  <2>2. m.mine \in SUBSET Procs
    BY <1>1, ZenonT(40) DEF Master
  <2>3. m.mine \cup {x.launch} \in SUBSET Procs /\ x.launch \in Procs \cup {NoPid, RetryPid}
    BY <2>1, <2>2
  <2> QED
    BY <1>1, <2>3, ZenonT(40) DEF Master
<1> HIDE DEF c, d
<1>8. t \in Master
  BY <1>1, <1>3, <1>5, <1>6, <1>7, SlaveFaultType, Zenon
<1> HIDE DEF t
<1> QED
  BY <1>2, <1>8, RunType, Zenon

LEMMA PingTimeoutType ==
  ASSUME TypeOK, NEW x \in Failing, PingTimeout(x)
  PROVE  TypeOK'
<1> DEFINE a == [m EXCEPT !.pong = "off"]
           t == IF IsActivated(a) THEN DeactivatedByFault(a, x) ELSE a
<1>1. a \in Master
  <2>1. m \in Master
    BY DEF TypeOK
  <2> QED
    BY <2>1, ZenonT(40) DEF Master
<1>2. Step(t) /\ UNCHANGED conn
  BY Zenon DEF PingTimeout
<1> HIDE DEF a
<1>3. t \in Master
  BY <1>1, InputsOfRuns, DeactivatedByFaultType, Zenon
<1> HIDE DEF t
<1> QED
  BY <1>2, <1>3, RunType, Zenon

LEMMA SetSent ==
  ASSUME NEW s \in Master, NEW p \in Procs, NEW q \in Seq(Requests)
  PROVE  [s EXCEPT !.sent[p] = q] \in Master
<1>1. s.sent \in [Procs -> Seq(Requests)]
  BY ZenonT(40) DEF Master
<1>2. [s.sent EXCEPT ![p] = q] \in [Procs -> Seq(Requests)]
  BY <1>1
<1> QED
  BY <1>2, ZenonT(40) DEF Master

LEMMA QueueFacts ==
  ASSUME NEW s \in Master
  PROVE  /\ s.pend \in Seq(Requests) /\ s.cmds \in Seq(Requests)
         /\ \A p \in Procs : s.sent[p] \in Seq(Requests)
<1>1. /\ s.pend \in Seq(Requests) /\ s.cmds \in Seq(Requests)
      /\ s.sent \in [Procs -> Seq(Requests)]
  BY ZenonT(40) DEF Master
<1> QED
  BY <1>1

LEMMA ConsumeType ==
  ASSUME TypeOK, Consume
  PROVE  TypeOK'
<1> DEFINE c == Head(m.cmds)
           a == [m EXCEPT !.cmds = Tail(@)]
           b == [a EXCEPT !.asked = @ \cup {a.handle}]
           d == [a EXCEPT !.sent[a.handle] = Append(@, c)]
           t == IF ~IsActivated(a) \/ a.handle = NoPid THEN AnswerNull(a, <<c>>)
                ELSE IF c = "disconnect" THEN Unref(b) ELSE d
<1>1. m \in Master /\ m.cmds # <<>>
  BY DEF TypeOK, Consume
<1>2. Step(t) /\ UNCHANGED conn
  BY Zenon DEF Consume
<1>3. c \in Requests /\ Tail(m.cmds) \in Seq(Requests)
  <2>1. m.cmds \in Seq(Requests)
    BY <1>1, QueueFacts
  <2> QED
    BY <1>1, <2>1
<1> HIDE DEF c
<1>4. a \in Master
  BY <1>1, <1>3, ZenonT(40) DEF Master
<1> HIDE DEF a
<1>5. AnswerNull(a, <<c>>) \in Master
  <2>1. <<c>> \in Seq(Requests)
    BY <1>3
  <2> QED
    BY <1>4, <2>1, AnswerNullType, Zenon
<1>6. ASSUME a.handle # NoPid
      PROVE  b \in Master /\ d \in Master
  <2>1. a.handle \in Procs \cup {NoPid} /\ a.asked \in SUBSET Procs
    BY <1>4, ZenonT(40) DEF Master
  <2>2. a.handle \in Procs /\ a.asked \cup {a.handle} \in SUBSET Procs
    BY <1>6, <2>1
  <2>3. b \in Master
    BY <1>4, <2>2, ZenonT(40) DEF Master
  <2>4. Append(a.sent[a.handle], c) \in Seq(Requests)
    BY <1>3, <1>4, <2>2, QueueFacts
  <2>5. d \in Master
    BY <1>4, <2>2, <2>4, SetSent, Zenon
  <2> QED
    BY <2>3, <2>5
<1> HIDE DEF b, d
<1>7. t \in Master
  BY <1>5, <1>6, UnrefType, Zenon
<1> HIDE DEF t
<1> QED
  BY <1>2, <1>7, RunType, Zenon

LEMMA ConnType ==
  ASSUME TypeOK, NEW p \in Procs, NEW c \in {"none", "hello", "open", "closed"}
  PROVE  [conn EXCEPT ![p] = c] \in [Procs -> {"none", "hello", "open", "closed"}]
BY DEF TypeOK

LEMMA HelloType ==
  ASSUME TypeOK, NEW p \in Procs, NEW known \in BOOLEAN, NEW x \in Launching,
         Hello(p, known, x)
  PROVE  TypeOK'
<1> DEFINE a == [m EXCEPT !.asked = @ \cup {p}]
           b == [m EXCEPT !.pid = p]
           match == m.alive /\ (p \in m.mine \/ m.pid = p)
           t == IF ~known THEN m
                ELSE IF ~match \/ (m.pid # p /\ m.pid \in Procs)
                THEN a ELSE UpdateHandle(b, p, x)
<1>1. m \in Master /\ x \in Inputs /\ x.launch \in LaunchResults
  BY InputsOfRuns DEF TypeOK
<1>2. Step(t) /\ conn' = [conn EXCEPT ![p] = "open"]
  BY Zenon DEF Hello
<1>3. a \in Master
  <2>1. m.asked \in SUBSET Procs
    BY <1>1, ZenonT(40) DEF Master
  <2>2. m.asked \cup {p} \in SUBSET Procs
    BY <2>1
  <2> QED
    BY <1>1, <2>2, ZenonT(40) DEF Master
<1>4. b \in Master
  <2>1. p \in Procs \cup {NoPid, RetryPid}
    OBVIOUS
  <2> QED
    BY <1>1, <2>1, ZenonT(40) DEF Master
<1> HIDE DEF a, b, match
<1>5. t \in Master
  BY <1>1, <1>3, <1>4, UpdateHandleType, Zenon
<1> HIDE DEF t
<1> QED
  BY <1>2, <1>5, StepType, ConnType DEF TypeOK

LEMMA CtrlType ==
  ASSUME TypeOK, NEW p \in Procs, NEW options \in SUBSET (Rare \cap {"term", "react"}),
         Ctrl(p, options)
  PROVE  TypeOK'
<1>1. m \in Master /\ options \in SUBSET {"term", "react"}
  BY DEF TypeOK
<1>2. [m EXCEPT !.ctrl = options] \in Master
  BY <1>1, ZenonT(40) DEF Master
<1> QED
  BY <1>2, RunType, Zenon DEF Ctrl

LEMMA AnswerType ==
  ASSUME TypeOK, NEW p \in Procs, NEW ok \in BOOLEAN, NEW x \in Stopping,
         Answer(p, ok, x)
  PROVE  TypeOK'
<1> DEFINE r == Head(m.sent[p])
           a == [m EXCEPT !.sent[p] = Tail(@)]
           own == r \in {"pause", "resume"}
           st == IF r = "pause" THEN "PAUSED" ELSE "RESUMED"
           pg == IF a.pong = "off" THEN "off"
                 ELSE IF r = "pause" THEN "frozen" ELSE "on"
           b == IF ~ok \/ a.state \in Leaving THEN a
                ELSE [a EXCEPT !.state = st, !.pong = pg]
           c == Doom(a, IF ok THEN {} ELSE {r} \cap a.live)
           d == Unlink(c, {i \in c.doomed : ~Held(c, i)})
           e == DeactivateIfEmptied(a, d, x)
           t == Unref(IF own THEN b ELSE e)
<1>1. m \in Master /\ x \in Inputs
  BY InputsOfRuns DEF TypeOK
<1>2. Step(t) /\ UNCHANGED conn
  BY Zenon DEF Answer
<1>3. a \in Master
  <2>1. m.sent[p] \in Seq(Requests) /\ m.sent[p] # <<>>
    BY <1>1, QueueFacts DEF Answer
  <2>2. Tail(m.sent[p]) \in Seq(Requests)
    BY <2>1
  <2> QED
    BY <1>1, <2>2, SetSent, Zenon
<1> HIDE DEF a, r
<1>4. b \in Master
  <2>1. st \in States /\ pg \in {"off", "on", "frozen"}
    BY DEF States
  <2> HIDE DEF st, pg
  <2>2. [a EXCEPT !.state = st, !.pong = pg] \in Master
    BY <1>3, <2>1, ZenonT(40) DEF Master
  <2> QED
    BY <1>3, <2>2, Zenon
<1>5. c \in Master
  <2>1. a.live \in SUBSET Insts
    BY <1>3, ZenonT(40) DEF Master
  <2>2. (IF ok THEN {} ELSE {r} \cap a.live) \in SUBSET Insts
    BY <2>1
  <2> QED
    BY <1>3, <2>2, DoomType, Zenon
<1> HIDE DEF b, c
<1>6. d \in Master
  BY <1>5, UnlinkType, Zenon
<1> HIDE DEF d
<1>7. e \in Master
  BY <1>1, <1>6, DeactivateIfEmptiedType, Zenon
<1> HIDE DEF e, own
<1>8. t \in Master
  BY <1>4, <1>7, UnrefType, Zenon
<1> HIDE DEF t
<1> QED
  BY <1>2, <1>8, RunType, Zenon

LEMMA DisconnectType ==
  ASSUME TypeOK, NEW p \in Procs, NEW x \in Failing, Disconnect(p, x)
  PROVE  TypeOK'
<1> DEFINE a == DeadMonitor(m, p, x)
           lost == a.sent[p]
           b == [a EXCEPT !.sent[p] = <<>>]
           c == AnswerNull(b, lost)
           t == IF lost = <<>> THEN a ELSE DeactivateIfEmptied(b, c, x)
<1>1. m \in Master /\ x \in Inputs
  BY InputsOfRuns DEF TypeOK
<1>2. Step(t) /\ conn' = [conn EXCEPT ![p] = "closed"]
  BY Zenon DEF Disconnect
<1>3. a \in Master
  BY <1>1, DeadMonitorType
<1> HIDE DEF a
<1>4. lost \in Seq(Requests) /\ <<>> \in Seq(Requests)
  BY <1>3, QueueFacts
<1>5. b \in Master
  BY <1>3, <1>4, SetSent, Zenon
<1> HIDE DEF b, lost
<1>6. c \in Master
  BY <1>4, <1>5, AnswerNullType
<1> HIDE DEF c
<1>7. t \in Master
  BY <1>1, <1>3, <1>6, DeactivateIfEmptiedType, Zenon
<1> HIDE DEF t
<1> QED
  BY <1>2, <1>7, StepType, ConnType DEF TypeOK

LEMMA ProcessActionsType ==
  ASSUME TypeOK, NEW p \in Procs, SendHello(p) \/ Die(p) \/ Reuse(p)
  PROVE  TypeOK'
<1>1. CASE SendHello(p)
  BY <1>1, ConnType DEF SendHello, TypeOK
<1>2. CASE Die(p)
  <2>1. proc' \in [Procs -> {"idle", "up", "dead"}]
    BY <1>2 DEF Die, TypeOK
  <2> QED
    BY <1>2, <2>1, Zenon DEF Die, TypeOK
<1>3. CASE Reuse(p)
  <2>1. m' \in Master
    <3>1. m.mine \in SUBSET Procs /\ m.asked \in SUBSET Procs
      BY ZenonT(40) DEF TypeOK, Master
    <3>2. m.mine \ {p} \in SUBSET Procs /\ m.asked \ {p} \in SUBSET Procs
      BY <3>1
    <3>3. m \in Master
      BY DEF TypeOK
    <3>4. [m EXCEPT !.mine = @ \ {p}, !.asked = @ \ {p}] \in Master
      BY <3>2, <3>3, ZenonT(40) DEF Master
    <3> QED
      BY <1>3, <3>4, Zenon DEF Reuse
  <2>2. proc' \in [Procs -> {"idle", "up", "dead"}]
    BY <1>3 DEF Reuse, TypeOK
  <2>3. conn' = [conn EXCEPT ![p] = "none"]
    BY <1>3, Zenon DEF Reuse
  <2> QED
    BY <2>1, <2>2, <2>3, ConnType DEF TypeOK
<1> QED
  BY <1>1, <1>2, <1>3
-----------------------------------------------------------------------------
(* Type correctness *)

LEMMA InitType == Init => TypeOK
<1> SUFFICES ASSUME Init PROVE TypeOK
  OBVIOUS
<1>1. m \in Master
  <2>1. /\ RelaunchCount \in 0 .. RelaunchCount /\ 0 \in 0 .. MaxLoad
        /\ 0 \in 0 .. MaxSignals /\ 0 \in Nat /\ 0 \in Int
    BY ConstantsAssumption
  <2>2. /\ NoPid \in Procs \cup {NoPid, RetryPid} /\ NoPid \in Procs \cup {NoPid}
        /\ "TERMINATED" \in States /\ <<>> \in Seq(Requests)
        /\ [p \in Procs |-> <<>>] \in [Procs -> Seq(Requests)]
    BY DEF States
  <2>3. {} \in SUBSET {"term", "react"} /\ {} \in SUBSET Procs /\ {} \in SUBSET Insts
    OBVIOUS
  <2> QED
    BY <2>1, <2>2, <2>3 DEF Init, Master
<1> QED
  BY <1>1 DEF Init, TypeOK

LEMMA NextType == TypeOK /\ [Next]_vars => TypeOK'
<1> SUFFICES ASSUME TypeOK, [Next]_vars PROVE TypeOK'
  OBVIOUS
<1>1. CASE UNCHANGED vars
  BY <1>1 DEF vars, TypeOK
<1>2. ASSUME NEW x \in Launching, NEW i \in Insts, CreateInstance(i, x) PROVE TypeOK'
  BY <1>2, CreateInstanceType
<1>3. ASSUME NEW x \in Launching, NEW i \in Insts,
             RequestInstance(i, x) \/ ReactivateInstance(i, x) PROVE TypeOK'
  BY <1>3, RequestInstanceType
<1>4. ASSUME NEW x \in Launching, ActivateAll(x) PROVE TypeOK'
  BY <1>4, ActivateAllType
<1>5. ASSUME NEW x \in Launching, XMonitor(x) PROVE TypeOK'
  BY <1>5, XMonitorType
<1>6. ASSUME NEW x \in Launching, NEW p \in Procs, NEW known \in BOOLEAN,
             Hello(p, known, x) PROVE TypeOK'
  BY <1>6, HelloType
<1>7. ASSUME NEW x \in Stopping, NEW i \in Insts, InstanceDeleted(i, x) PROVE TypeOK'
  BY <1>7, InstanceDeletedType
<1>8. ASSUME NEW x \in Stopping, DeactivateAll(x) PROVE TypeOK'
  BY <1>8, DeactivateAllType
<1>9. ASSUME NEW x \in Stopping, TerminateTimer(x) PROVE TypeOK'
  BY <1>9, TerminateTimerType
<1>10. ASSUME NEW x \in Stopping, TtlTimer(x) PROVE TypeOK'
  BY <1>10, TtlTimerType
<1>11. ASSUME NEW x \in Stopping, NEW p \in Procs, NEW ok \in BOOLEAN,
              Answer(p, ok, x) PROVE TypeOK'
  BY <1>11, AnswerType
<1>12. ASSUME NEW x \in Expiring, ActivateTimer(x) PROVE TypeOK'
  BY <1>12, ActivateTimerType DEF Expiring
<1>13. ASSUME NEW x \in Failing, PingTimeout(x) PROVE TypeOK'
  BY <1>13, PingTimeoutType
<1>14. ASSUME NEW x \in Failing, NEW p \in Procs, Disconnect(p, x) PROVE TypeOK'
  BY <1>14, DisconnectType
<1>15. ASSUME NEW x \in Relaunching, RelaunchTimer(x) PROVE TypeOK'
  BY <1>15, RelaunchTimerType
<1>16. ASSUME \/ ClearFault
              \/ \E b \in BOOLEAN : WaitDeactivation(b)
              \/ \E i \in Insts : UninstallInstance(i) PROVE TypeOK'
  BY <1>16, PackageActionsType
<1>17. ASSUME Consume PROVE TypeOK'
  BY <1>17, ConsumeType
<1>18. ASSUME NEW p \in Procs, NEW options \in SUBSET (Rare \cap {"term", "react"}),
              Ctrl(p, options) PROVE TypeOK'
  BY <1>18, CtrlType
<1>19. ASSUME NEW p \in Procs, SendHello(p) \/ Die(p) \/ Reuse(p) PROVE TypeOK'
  BY <1>19, ProcessActionsType
<1> QED
  BY <1>1, <1>2, <1>3, <1>4, <1>5, <1>6, <1>7, <1>8, <1>9, <1>10, <1>11, <1>12,
     <1>13, <1>14, <1>15, <1>16, <1>17, <1>18, <1>19, Zenon DEF Next

(* Every run of the main loop leaves the slave, its queues, its timers and *)
(* the bounds of its relaunch and fault counters well formed.              *)
THEOREM TypeCorrect == Spec => []TypeOK
BY InitType, NextType, PTL DEF Spec
-----------------------------------------------------------------------------
(***************************************************************************)
(* The reference count of the slave object is exact, for every value of    *)
(* the constants.                                                          *)
(*                                                                         *)
(* Every C function that changes the slave is given a contract, Moves: it  *)
(* changes the count and what the count stands for by the same amount, but *)
(* for the references that its caller holds itself.                        *)
(***************************************************************************)

\* The references that the structures of the master hold
Owed(s) == s.create + s.active + Bit(s.pkg) + Waiting(s)

\* Those the callback that runs holds on top of them
Off(s) == s.refcnt - Owed(s)

\* What slave_unref leaves of a slave it destroyed
Destroyed(s) ==
  /\ ~s.alive /\ s.refcnt = 0
  /\ s.pid = NoPid /\ s.handle = NoPid
  /\ ~s.ttlT /\ ~s.actT /\ ~s.relT /\ s.pong = "off"

\* The package has the slave as long as one of its instances is loaded
Kept(s) ==
  /\ s.alive \/ Destroyed(s)
  /\ Loaded(s) # {} => s.pkg

(* The contract of a function that takes s to t and that hands k of the    *)
(* references to its caller, or takes them from it when k is negative.     *)
Moves(s, t, k) ==
  /\ s.uaf => t.uaf
  /\ ~s.uaf /\ Kept(s) => t.uaf \/ (Kept(t) /\ Off(t) = Off(s) + k)

(* The inductive invariant                                                 *)
Books == ~m.uaf => Kept(m) /\ Off(m) = 0
-----------------------------------------------------------------------------
(* Counting *)

LEMMA CountOfSequence ==
  ASSUME NEW S, NEW q \in Seq(S)
  PROVE  Len(q) \in Nat /\ IsFiniteSet(DOMAIN q) /\ Cardinality(DOMAIN q) = Len(q)
<1>1. Len(q) \in Nat /\ DOMAIN q = 1 .. Len(q)
  OBVIOUS
<1>2. 1 \in Int /\ Len(q) \in Int
  BY <1>1
<1>3. /\ IsFiniteSet(1 .. Len(q))
      /\ Cardinality(1 .. Len(q)) = IF 1 > Len(q) THEN 0 ELSE Len(q) - 1 + 1
  BY <1>2, FS_Interval, Zenon
<1> QED
  BY <1>1, <1>3

\* The requests sent to the processes P
Part(s, P) == UNION {{p} \X DOMAIN s.sent[p] : p \in P}

LEMMA PartFinite ==
  ASSUME NEW s \in Master, NEW P \in SUBSET Procs
  PROVE  IsFiniteSet(Part(s, P)) /\ Cardinality(Part(s, P)) \in Nat
<1> DEFINE G == {{p} \X DOMAIN s.sent[p] : p \in P}
           f == [p \in P |-> {p} \X DOMAIN s.sent[p]]
<1>1. IsFiniteSet(P)
  BY FS_Subset, ConstantsAssumption, Zenon
<1>2. f \in Surjection(P, G)
  BY DEF Surjection
<1>3. IsFiniteSet(G)
  BY <1>1, <1>2, FS_Surjection, Zenon
<1>4. \A T \in G : IsFiniteSet(T)
  <2>1. TAKE T \in G
  <2>2. PICK p \in P : T = {p} \X DOMAIN s.sent[p]
    OBVIOUS
  <2>3. s.sent[p] \in Seq(Requests)
    BY QueueFacts
  <2>4. IsFiniteSet(DOMAIN s.sent[p]) /\ IsFiniteSet({p})
    BY <2>3, CountOfSequence, FS_Singleton, Zenon
  <2>5. IsFiniteSet({p} \X DOMAIN s.sent[p])
    BY <2>4, FS_Product, Zenon
  <2> QED
    BY <2>2, <2>5
<1>5. IsFiniteSet(UNION G)
  BY <1>3, <1>4, FS_UNION, Zenon
<1> QED
  BY <1>5, FS_CardinalityType DEF Part

\* The requests sent to p, and those sent to the others
LEMMA InFlightSplit ==
  ASSUME NEW s \in Master, NEW p \in Procs
  PROVE  Cardinality(InFlight(s)) =
           Cardinality(Part(s, Procs \ {p})) + Len(s.sent[p])
<1> DEFINE F == Part(s, Procs \ {p})
           D == DOMAIN s.sent[p]
           G == {p} \X D
<1>1. IsFiniteSet(F) /\ Cardinality(F) \in Nat
  BY PartFinite
<1>2. s.sent[p] \in Seq(Requests)
  BY QueueFacts
<1>3. Len(s.sent[p]) \in Nat /\ IsFiniteSet(D) /\ Cardinality(D) = Len(s.sent[p])
  BY <1>2, CountOfSequence, Zenon
<1>4. InFlight(s) = F \cup G
  BY DEF InFlight, Part
<1>5. F \cap G = {}
  BY DEF Part
<1> HIDE DEF F, D
<1>6. IsFiniteSet({p}) /\ Cardinality({p}) = 1
  BY FS_Singleton, Zenon
<1>7. IsFiniteSet(G) /\ Cardinality(G) = Cardinality({p}) * Cardinality(D)
  BY <1>3, <1>6, FS_Product, Zenon
<1>8. Cardinality(G) = Len(s.sent[p])
  BY <1>3, <1>6, <1>7
<1> HIDE DEF G
<1>9. Cardinality(F \cup G) = Cardinality(F) + Cardinality(G) - Cardinality(F \cap G)
  BY <1>1, <1>7, FS_Union, Zenon
<1>10. Cardinality({}) = 0
  BY FS_EmptySet, Zenon
<1>11. Cardinality(InFlight(s)) = Cardinality(F) + Len(s.sent[p])
  <2> DEFINE a == Cardinality(F)
             b == Len(s.sent[p])
             c == Cardinality(InFlight(s))
  <2>1. c = a + Cardinality(G) - Cardinality({})
    BY <1>4, <1>5, <1>9, Zenon
  <2>2. c = a + b - 0
    BY <1>8, <1>10, <2>1, Zenon
  <2>3. a \in Nat /\ b \in Nat
    BY <1>1, <1>3, Zenon
  <2> HIDE DEF a, b, c
  <2>4. c = a + b
    BY <2>2, <2>3
  <2> QED
    BY <2>4, Zenon DEF a, b, c
<1> QED
  BY <1>11 DEF F

LEMMA Numbers ==
  ASSUME NEW s \in Master
  PROVE  /\ s.refcnt \in Nat /\ s.create \in Int /\ s.active \in Int
         /\ Len(s.pend) \in Nat /\ Len(s.cmds) \in Nat
         /\ Cardinality(InFlight(s)) \in Nat /\ Waiting(s) \in Nat
         /\ Bit(s.pkg) \in {0, 1} /\ Owed(s) \in Int /\ Off(s) \in Int
<1>1. Len(s.pend) \in Nat /\ Len(s.cmds) \in Nat
  BY QueueFacts
<1>2. Cardinality(InFlight(s)) \in Nat
  <2>1. InFlight(s) = Part(s, Procs) /\ Procs \in SUBSET Procs
    BY DEF InFlight, Part
  <2> QED
    BY <2>1, PartFinite
<1>3. s.refcnt \in Nat /\ s.create \in Int /\ s.active \in Int
  BY NumberFields
<1>4. Bit(s.pkg) \in {0, 1}
  BY DEF Bit
<1>5. Waiting(s) \in Nat
  <2> DEFINE n == Cardinality(InFlight(s))
             i == Len(s.pend)
             j == Len(s.cmds)
  <2>1. n \in Nat /\ i \in Nat /\ j \in Nat /\ Waiting(s) = i + j + n
    BY <1>1, <1>2, Zenon DEF Waiting
  <2> HIDE DEF n, i, j
  <2> QED
    BY <2>1
<1>6. Owed(s) \in Int
  BY <1>3, <1>4, <1>5 DEF Owed
<1> QED
  BY <1>1, <1>2, <1>3, <1>4, <1>5, <1>6 DEF Off

LEMMA MovesTrans ==
  ASSUME NEW s \in Master, NEW t \in Master, NEW u \in Master,
         NEW j \in Int, NEW k \in Int,
         Moves(s, t, j), t.uaf \/ Kept(t) => Moves(t, u, k)
  PROVE  Moves(s, u, j + k)
<1>1. Off(s) \in Int /\ Off(t) \in Int /\ Off(u) \in Int
  BY Numbers
<1> QED
  BY <1>1 DEF Moves

LEMMA MovesThen ==
  ASSUME NEW s \in Master, NEW t \in Master, NEW u \in Master, NEW k \in Int,
         Moves(s, t, 0), t.uaf \/ Kept(t) => Moves(t, u, k)
  PROVE  Moves(s, u, k)
<1>1. Moves(s, u, 0 + k) /\ 0 + k = k
  BY MovesTrans
<1> QED
  BY <1>1, Zenon

LEMMA AliveWhenCounted ==
  ASSUME NEW s \in Master, s.uaf \/ Kept(s), s.refcnt # 0
  PROVE  s.alive \/ s.uaf
BY DEF Kept, Destroyed

\* Nothing of what the count stands for is touched.
SameBooks(s, t) ==
  /\ t.refcnt = s.refcnt /\ t.create = s.create /\ t.active = s.active
  /\ t.pkg = s.pkg /\ t.pend = s.pend /\ t.cmds = s.cmds /\ t.sent = s.sent
  /\ t.uaf = s.uaf /\ t.alive = s.alive

LEMMA LenArith ==
  ASSUME NEW i \in Nat, NEW j \in Nat
  PROVE  /\ (i + 1) + j = i + j + 1 /\ j + (i + 1) = j + i + 1
         /\ 0 + j = i + j + -i /\ j + 0 = j + i + -i
OBVIOUS

LEMMA WaitingChange ==
  ASSUME NEW s \in Master, NEW t \in Master, NEW w \in Int, t.sent = s.sent,
         Len(t.pend) + Len(t.cmds) = Len(s.pend) + Len(s.cmds) + w
  PROVE  Waiting(t) = Waiting(s) + w
<1> DEFINE n == Cardinality(InFlight(s))
           a == Len(s.pend)
           b == Len(s.cmds)
           c == Len(t.pend)
           d == Len(t.cmds)
<1>1. /\ n \in Nat /\ a \in Nat /\ b \in Nat /\ c \in Nat /\ d \in Nat
  BY Numbers, Zenon
<1>2. InFlight(t) = InFlight(s)
  BY DEF InFlight
<1>3. Waiting(s) = a + b + n /\ Waiting(t) = c + d + n /\ c + d = a + b + w
  BY <1>2, Zenon DEF Waiting
<1> HIDE DEF n, a, b, c, d
<1> QED
  BY <1>1, <1>3

LEMMA OffChange ==
  ASSUME NEW s \in Master, NEW t \in Master,
         NEW r \in Int, NEW c \in Int, NEW a \in Int, NEW w \in Int,
         t.refcnt = s.refcnt + r, t.create = s.create + c, t.active = s.active + a,
         t.pkg = s.pkg, Waiting(t) = Waiting(s) + w
  PROVE  Off(t) = Off(s) + (r - c - a - w)
<1> DEFINE n == Waiting(s)
           b == Bit(s.pkg)
<1>1. /\ s.refcnt \in Nat /\ s.create \in Int /\ s.active \in Int
      /\ n \in Nat /\ b \in Int
  BY Numbers
<1>2. /\ Off(s) = s.refcnt - (s.create + s.active + b + n)
      /\ Off(t) = (s.refcnt + r) - ((s.create + c) + (s.active + a) + b + (n + w))
  BY Zenon DEF Off, Owed
<1> HIDE DEF n, b
<1> QED
  BY <1>1, <1>2

LEMMA SameOff ==
  ASSUME NEW s, NEW t, SameBooks(s, t)
  PROVE  Off(t) = Off(s)
BY DEF SameBooks, Off, Owed, Waiting, InFlight

LEMMA FrameMoves ==
  ASSUME NEW s \in Master, NEW t \in Master, SameBooks(s, t),
         Loaded(t) \subseteq Loaded(s), s.alive \/ s.uaf \/ Destroyed(t)
  PROVE  Moves(s, t, 0)
<1>1. Off(t) = Off(s) /\ Off(s) \in Int
  BY SameOff, Numbers
<1> QED
  BY <1>1 DEF Moves, SameBooks, Kept
-----------------------------------------------------------------------------
(* The reference count *)

\* The count alone, a slave that is alive
LEMMA CountMoves ==
  ASSUME NEW s \in Master, NEW n \in Nat, s.alive \/ s.uaf
  PROVE  Moves(s, [s EXCEPT !.refcnt = n], n - s.refcnt)
<1> DEFINE t == [s EXCEPT !.refcnt = n]
<1>1. /\ t.refcnt = n /\ t.alive = s.alive /\ t.uaf = s.uaf
      /\ Loaded(t) = Loaded(s) /\ t.pkg = s.pkg
      /\ Owed(t) = Owed(s)
  BY DEF Master, Loaded, Owed, Waiting, InFlight
<1>2. s.refcnt \in Nat /\ Owed(s) \in Int
  BY Numbers
<1>3. Off(t) = Off(s) + (n - s.refcnt)
  BY <1>1, <1>2 DEF Off
<1> HIDE DEF t
<1>4. Moves(s, t, n - s.refcnt)
  BY <1>1, <1>3 DEF Moves, Kept
<1> QED
  BY <1>4 DEF t

LEMMA RefMoves ==
  ASSUME NEW s \in Master, s.alive \/ s.uaf
  PROVE  Moves(s, [s EXCEPT !.refcnt = @ + 1], 1)
<1>1. s.refcnt \in Nat /\ s.refcnt + 1 \in Nat /\ (s.refcnt + 1) - s.refcnt = 1
  BY Numbers
<1> QED
  BY <1>1, CountMoves, Zenon

LEMMA UnrefsMoves ==
  ASSUME NEW s \in Master, NEW n \in Nat
  PROVE  Moves(s, Unrefs(s, n), -n)
<1>1. s.refcnt \in Nat /\ Owed(s) \in Int /\ Off(s) \in Int
  BY Numbers
<1>2. CASE n = 0
  <2>1. Unrefs(s, n) = s
    BY <1>2 DEF Unrefs
  <2> QED
    BY <1>1, <1>2, <2>1 DEF Moves
<1>3. CASE n # 0 /\ s.refcnt > n
  <2> DEFINE t == [s EXCEPT !.refcnt = s.refcnt - n]
  <2>1. Unrefs(s, n) = t
    BY <1>3, Zenon DEF Unrefs
  <2>2. CASE s.alive \/ s.uaf
    <3>1. s.refcnt - n \in Nat /\ (s.refcnt - n) - s.refcnt = -n
      BY <1>1, <1>3
    <3> QED
      BY <2>1, <2>2, <3>1, CountMoves, Zenon
  <2>3. CASE ~s.alive /\ ~s.uaf
    <3>1. ~Kept(s)
      BY <1>1, <1>3, <2>3 DEF Kept, Destroyed
    <3> QED
      BY <2>3, <3>1 DEF Moves
  <2> QED
    BY <2>2, <2>3
<1>4. CASE n # 0 /\ s.refcnt = n
  <2> DEFINE u == [s EXCEPT !.refcnt = 0]
             t == Destroy(u)
  <2>1. Unrefs(s, n) = t
    BY <1>1, <1>4 DEF Unrefs
  <2>2. /\ t.refcnt = 0 /\ t.uaf = s.uaf /\ Loaded(t) = Loaded(s) /\ t.pkg = s.pkg
        /\ Owed(t) = Owed(s)
    BY DEF Destroy, Master, Loaded, Owed, Waiting, InFlight
  <2>3. s.alive => t.alive \/ Destroyed(t)
    BY DEF Destroy, Destroyed, Master
  <2>4. Kept(s) => s.alive
    BY <1>4 DEF Kept, Destroyed
  <2>5. Off(t) = Off(s) + -n
    BY <1>1, <1>4, <2>2 DEF Off
  <2> HIDE DEF t
  <2>6. Moves(s, t, -n)
    BY <2>2, <2>3, <2>4, <2>5 DEF Moves, Kept
  <2> QED
    BY <2>1, <2>6
<1>5. CASE s.refcnt < n
  <2>1. Unrefs(s, n) = [s EXCEPT !.refcnt = 0, !.uaf = TRUE]
    BY <1>1, <1>5 DEF Unrefs
  <2>2. Unrefs(s, n).uaf
    BY <2>1 DEF Master
  <2> QED
    BY <2>2 DEF Moves
<1> QED
  BY <1>1, <1>2, <1>3, <1>4, <1>5

LEMMA UnrefMoves ==
  ASSUME NEW s \in Master
  PROVE  Moves(s, Unref(s), -1)
BY UnrefsMoves DEF Unref

\* A slave_ref of the run, another function, the slave_unref
LEMMA UnrefAfter ==
  ASSUME NEW s \in Master, NEW t \in Master, NEW k \in Int, Moves(s, t, k)
  PROVE  Moves(s, Unref(t), k - 1)
<1>1. Unref(t) \in Master /\ Moves(t, Unref(t), -1)
  BY UnrefType, UnrefMoves
<1>2. -1 \in Int /\ k + -1 = k - 1
  OBVIOUS
<1> QED
  BY <1>1, <1>2, MovesTrans
-----------------------------------------------------------------------------
(* Launching and requests *)

\* References of a request or of an activation may be added, and no others.
Keeps(s, t) ==
  /\ t.create = s.create /\ t.pkg = s.pkg /\ Loaded(t) = Loaded(s)
  /\ t.uaf = s.uaf /\ t.alive = s.alive

LEMMA ActivateMoves ==
  ASSUME NEW s \in Master, NEW launch \in LaunchResults, s.alive \/ s.uaf
  PROVE  /\ Moves(s, Activate(s, launch), 0)
         /\ Activate(s, launch).alive = s.alive
         /\ Activate(s, launch).uaf = s.uaf
         /\ Activate(s, launch).handle = s.handle
         /\ Keeps(s, Activate(s, launch))
<1> DEFINE t == Activate(s, launch)
           v == [s EXCEPT !.pid = launch, !.relT = (launch = RetryPid), !.actT = TRUE,
                 !.relaunch = RelaunchCount, !.state = "LAUNCH",
                 !.refcnt = @ + 1, !.active = @ + 1,
                 !.mine = IF launch \in Procs THEN @ \cup {launch} ELSE @]
<1>1. \/ t = s \/ t = [s EXCEPT !.termT = FALSE]
      \/ t = [s EXCEPT !.reactivate = TRUE] \/ t = v
  BY Zenon DEF Activate
<1>2. t \in Master
  BY ActivateType
<1> HIDE DEF t, v
<1>3. CASE t = s \/ t = [s EXCEPT !.termT = FALSE] \/ t = [s EXCEPT !.reactivate = TRUE]
  <2>1. SameBooks(s, t) /\ Loaded(t) = Loaded(s) /\ t.handle = s.handle
    <3>1. CASE t = s
      BY <3>1 DEF SameBooks
    <3>2. CASE t = [s EXCEPT !.termT = FALSE]
      BY <3>2 DEF SameBooks, Loaded, Master
    <3>3. CASE t = [s EXCEPT !.reactivate = TRUE]
      BY <3>3 DEF SameBooks, Loaded, Master
    <3> QED
      BY <1>3, <3>1, <3>2, <3>3
  <2>2. Moves(s, t, 0)
    BY <1>2, <2>1, FrameMoves
  <2> QED
    BY <2>1, <2>2 DEF t, SameBooks, Keeps
<1>4. CASE t = v
  <2>1. /\ t.refcnt = s.refcnt + 1 /\ t.create = s.create /\ t.active = s.active + 1
        /\ t.pkg = s.pkg /\ Waiting(t) = Waiting(s) /\ t.alive = s.alive
        /\ t.uaf = s.uaf /\ Loaded(t) = Loaded(s) /\ t.handle = s.handle
    BY <1>4 DEF Master, Waiting, InFlight, Loaded, v
  <2>2. Off(t) = Off(s) + 0
    <3>1. s.create \in Int /\ Waiting(s) \in Int /\ 1 - 0 - 1 - 0 = 0
      BY Numbers
    <3>2. t.create = s.create + 0 /\ Waiting(t) = Waiting(s) + 0
      BY <2>1, <3>1
    <3>3. Off(t) = Off(s) + (1 - 0 - 1 - 0)
      BY <1>2, <2>1, <3>2, OffChange
    <3> QED
      BY <3>1, <3>3
  <2>3. Moves(s, t, 0)
    BY <2>1, <2>2 DEF Moves, Kept
  <2> QED
    BY <2>1, <2>3 DEF t, Keeps
<1> QED
  BY <1>1, <1>3, <1>4

LEMMA TerminatePidMoves ==
  ASSUME NEW s \in Master, NEW x
  PROVE  /\ Moves(s, TerminatePid(s, x), 0)
         /\ TerminatePid(s, x).alive = s.alive
         /\ TerminatePid(s, x).uaf = s.uaf
         /\ TerminatePid(s, x).refcnt = s.refcnt
<1> DEFINE t == TerminatePid(s, x)
<1>1. t = s \/ t = [s EXCEPT !.asked = @ \cup {s.pid}]
  BY Zenon DEF TerminatePid
<1>2. SameBooks(s, t) /\ Loaded(t) = Loaded(s) /\ (Destroyed(s) => Destroyed(t))
  <2> HIDE DEF t
  <2>1. CASE t = s
    BY <2>1 DEF SameBooks
  <2>2. CASE t = [s EXCEPT !.asked = @ \cup {s.pid}]
    BY <2>2 DEF SameBooks, Loaded, Master, Destroyed
  <2> QED
    BY <1>1, <2>1, <2>2
<1> HIDE DEF t
<1>3. Off(t) = Off(s) + 0
  BY <1>2, SameOff, Numbers
<1>4. Moves(s, t, 0)
  BY <1>2, <1>3 DEF Moves, Kept, SameBooks
<1> QED
  BY <1>2, <1>4 DEF t, SameBooks

LEMMA EnqueueMoves ==
  ASSUME NEW s \in Master, NEW c \in Requests, NEW urgent \in BOOLEAN,
         NEW launch, launch \in LaunchResults \/ IsActivated(s) \/ s.pid # NoPid,
         s.alive \/ s.uaf
  PROVE  /\ Moves(s, Enqueue(s, c, urgent, launch), 0)
         /\ Enqueue(s, c, urgent, launch).alive = s.alive
         /\ Enqueue(s, c, urgent, launch).uaf = s.uaf
         /\ Keeps(s, Enqueue(s, c, urgent, launch))
<1> DEFINE Put(q) == IF urgent THEN <<c>> \o q ELSE Append(q, c)
           act == s.handle = NoPid /\ ForcesActivation(s) /\ ~IsActivated(s)
           t == IF act THEN Activate(s, launch) ELSE s
           u == Enqueue(s, c, urgent, launch)
<1>1. /\ t \in Master /\ Moves(s, t, 0) /\ t.alive = s.alive /\ t.uaf = s.uaf
      /\ Keeps(s, t)
  <2>1. CASE ~act
    BY <2>1, Numbers DEF Moves, Keeps
  <2>2. CASE act /\ launch \in LaunchResults
    BY <2>2, ActivateType, ActivateMoves, Zenon
  <2>3. CASE act /\ launch \notin LaunchResults
    <3>1. s.pid # NoPid
      BY <2>3
    <3>3. Activate(s, launch) = Activate(s, NoPid)
      BY <3>1, Zenon DEF Activate
    <3>4. NoPid \in LaunchResults
      BY DEF LaunchResults
    <3>5. t = Activate(s, NoPid)
      BY <2>3, <3>3, Zenon
    <3> HIDE DEF t
    <3> QED
      BY <3>4, <3>5, ActivateType, ActivateMoves
  <2> QED
    BY <2>1, <2>2, <2>3
<1>2. u = IF s.handle = NoPid THEN [t EXCEPT !.refcnt = @ + 1, !.pend = Put(@)]
          ELSE [t EXCEPT !.refcnt = @ + 1, !.cmds = Put(@)]
  BY DEF Enqueue
<1>3. u \in Master
  BY EnqueueType, Zenon
<1>4. \A q \in Seq(Requests) : Len(Put(q)) = Len(q) + 1
  OBVIOUS
<1> HIDE DEF t, u, Put
<1>5. /\ t.pend \in Seq(Requests) /\ t.cmds \in Seq(Requests)
      /\ Len(t.pend) \in Nat /\ Len(t.cmds) \in Nat
  BY <1>1, QueueFacts, Numbers
<1>6. Moves(t, u, 0) /\ u.alive = t.alive /\ u.uaf = t.uaf /\ Keeps(t, u)
  <2>1. /\ u.refcnt = t.refcnt + 1 /\ u.create = t.create /\ u.active = t.active
        /\ u.pkg = t.pkg /\ u.alive = t.alive /\ u.uaf = t.uaf /\ u.sent = t.sent
        /\ Loaded(u) = Loaded(t)
    BY <1>1, <1>2 DEF Master, Loaded
  <2>2. Len(u.pend) + Len(u.cmds) = Len(t.pend) + Len(t.cmds) + 1
    <3>1. CASE s.handle = NoPid
      <4>1. u.pend = Put(t.pend) /\ u.cmds = t.cmds
        BY <1>1, <1>2, <3>1 DEF Master
      <4>2. Len(u.pend) = Len(t.pend) + 1 /\ Len(u.cmds) = Len(t.cmds)
        BY <1>4, <1>5, <4>1, Zenon
      <4> QED
        BY <1>5, <4>2, LenArith, Zenon
    <3>2. CASE s.handle # NoPid
      <4>1. u.cmds = Put(t.cmds) /\ u.pend = t.pend
        BY <1>1, <1>2, <3>2 DEF Master
      <4>2. Len(u.cmds) = Len(t.cmds) + 1 /\ Len(u.pend) = Len(t.pend)
        BY <1>4, <1>5, <4>1, Zenon
      <4> QED
        BY <1>5, <4>2, LenArith, Zenon
    <3> QED
      BY <3>1, <3>2
  <2>3. Waiting(u) = Waiting(t) + 1
    <3>1. u.sent = t.sent /\ 1 \in Int
      BY <2>1
    <3> QED
      BY <1>1, <1>3, <2>2, <3>1, WaitingChange, Zenon
  <2>4. Off(u) = Off(t) + 0
    <3>1. t.create \in Int /\ t.active \in Int /\ 1 - 0 - 0 - 1 = 0
      BY <1>1, Numbers
    <3>2. u.create = t.create + 0 /\ u.active = t.active + 0
      BY <2>1, <3>1
    <3>3. Off(u) = Off(t) + (1 - 0 - 0 - 1)
      BY <1>1, <1>3, <2>1, <2>3, <3>2, OffChange
    <3> QED
      BY <3>1, <3>3
  <2> QED
    BY <1>1, <2>1, <2>4 DEF Moves, Kept, Keeps
<1>7. Moves(s, u, 0)
  BY <1>1, <1>3, <1>6, MovesThen
<1> QED
  BY <1>1, <1>6, <1>7 DEF u, Keeps

LEMMA PauseMoves ==
  ASSUME NEW s \in Master, NEW launch \in LaunchResults, s.alive \/ s.uaf
  PROVE  /\ Moves(s, Pause(s, launch), 0) /\ Moves(s, Resume(s, launch), 0)
         /\ Pause(s, launch).alive = s.alive /\ Resume(s, launch).alive = s.alive
         /\ Pause(s, launch).uaf = s.uaf /\ Resume(s, launch).uaf = s.uaf
         /\ Keeps(s, Pause(s, launch)) /\ Keeps(s, Resume(s, launch))
<1>1. ASSUME NEW st \in States, NEW c \in Requests
      PROVE  LET a == [s EXCEPT !.state = st]
                 t == Enqueue(a, c, FALSE, launch)
             IN  /\ Moves(s, t, 0) /\ t.alive = s.alive /\ t.uaf = s.uaf
                 /\ Keeps(s, t)
  <2> DEFINE a == [s EXCEPT !.state = st]
             t == Enqueue(a, c, FALSE, launch)
  <2>1. a \in Master
    BY SetState
  <2>2. SameBooks(s, a) /\ Loaded(a) = Loaded(s)
    BY DEF SameBooks, Loaded, Master
  <2> HIDE DEF a
  <2>3. Moves(s, a, 0) /\ (a.alive \/ a.uaf) /\ a.alive = s.alive /\ a.uaf = s.uaf
    <3>1. Loaded(a) \subseteq Loaded(s) /\ (s.alive \/ s.uaf \/ Destroyed(a))
      BY <2>2
    <3> QED
      BY <2>1, <2>2, <3>1, FrameMoves DEF SameBooks
  <2>4. /\ t \in Master /\ Moves(a, t, 0) /\ t.alive = a.alive /\ t.uaf = a.uaf
        /\ Keeps(a, t)
    BY <2>1, <2>3, EnqueueType, EnqueueMoves, Zenon
  <2> HIDE DEF t
  <2>5. Moves(s, t, 0) /\ t.alive = s.alive /\ t.uaf = s.uaf
    BY <2>1, <2>3, <2>4, MovesThen
  <2>6. Keeps(s, t)
    BY <2>2, <2>4 DEF Keeps, SameBooks
  <2> QED
    BY <2>5, <2>6, Zenon DEF t, a
<1>2. /\ "pause" \in Requests /\ "resume" \in Requests
      /\ "REQ_PAUSE" \in States /\ "REQ_RESUME" \in States
  BY DEF Requests, States
<1>3. Moves(s, s, 0) /\ Keeps(s, s)
  BY Numbers DEF Moves, Keeps
<1> QED
  BY <1>1, <1>2, <1>3, Zenon DEF Pause, Resume
-----------------------------------------------------------------------------
(* Instances *)

\* The package's reference is given back, its slave_unref still to come.
LEMMA DropPackage ==
  ASSUME NEW s \in Master, s.uaf \/ s.pkg, Loaded(s) = {}
  PROVE  LET t == [s EXCEPT !.pkg = FALSE]
         IN  /\ t \in Master /\ Moves(s, t, 1) /\ Loaded(t) = {}
             /\ t.create = s.create /\ t.active = s.active /\ ~t.pkg
             /\ t.uaf = s.uaf /\ t.alive = s.alive
<1> DEFINE t == [s EXCEPT !.pkg = FALSE]
<1>1. t \in Master
  BY ZenonT(40) DEF Master
<1>2. /\ t.refcnt = s.refcnt /\ t.create = s.create /\ t.active = s.active
      /\ t.pend = s.pend /\ t.cmds = s.cmds /\ t.sent = s.sent /\ ~t.pkg
      /\ t.uaf = s.uaf /\ t.alive = s.alive /\ Loaded(t) = Loaded(s)
      /\ (Destroyed(s) => Destroyed(t))
  BY DEF Master, Loaded, Destroyed
<1> HIDE DEF t
<1>3. Moves(s, t, 1)
  <2>1. CASE s.uaf
    BY <1>2, <2>1 DEF Moves
  <2>2. CASE s.pkg
    <3>1. Waiting(t) = Waiting(s)
      BY <1>2 DEF Waiting, InFlight
    <3>2. Bit(s.pkg) = 1 /\ Bit(t.pkg) = 0
      BY <1>2, <2>2 DEF Bit
    <3>3. /\ s.refcnt \in Nat /\ s.create \in Int /\ s.active \in Int /\ Waiting(s) \in Nat
      BY Numbers
    <3>4. Off(t) = Off(s) + 1
      BY <1>2, <3>1, <3>2, <3>3 DEF Off, Owed
    <3> QED
      BY <1>2, <3>4 DEF Moves, Kept
  <2> QED
    BY <2>1, <2>2
<1> QED
  BY <1>1, <1>2, <1>3 DEF t

\* The package gives up its reference with its last instance.
LEMMA ReleasePackageMoves ==
  ASSUME NEW s \in Master, s.uaf \/ s.pkg, Loaded(s) = {}
  PROVE  Moves(s, ReleasePackage(s), 0)
<1> DEFINE t == [s EXCEPT !.pkg = FALSE]
<1>1. t \in Master /\ Moves(s, t, 1)
  BY DropPackage
<1> HIDE DEF t
<1>2. Moves(s, Unref(t), 1 - 1) /\ 1 - 1 = 0
  BY <1>1, UnrefAfter
<1> QED
  BY <1>2, Zenon DEF ReleasePackage, t

LEMMA UnlinkMoves ==
  ASSUME NEW s \in Master, NEW S, S \subseteq Loaded(s), s.uaf \/ Kept(s)
  PROVE  Moves(s, Unlink(s, S), 0)
<1> DEFINE left  == [s EXCEPT !.live = @ \ S, !.doomed = @ \ S]
           last  == S # {} /\ Loaded(left) = {}
           freed == ReleasePackage(left)
           quiet == [freed EXCEPT !.reactivate = FALSE, !.reactInst = FALSE]
           lost  == [freed EXCEPT !.uaf = TRUE]
           t     == Unlink(s, S)
<1>1. left \in Master
  <2>1. s.live \ S \in SUBSET Insts /\ s.doomed \ S \in SUBSET Insts
    BY SetFields
  <2> QED
    BY <2>1, SetLoaded, Zenon
<1>2. /\ SameBooks(s, left) /\ Loaded(left) \subseteq Loaded(s)
      /\ (Destroyed(s) => Destroyed(left))
  BY DEF SameBooks, Loaded, Master, Destroyed
<1>3. \/ t = left /\ ~last
      \/ t = freed /\ last
      \/ t = quiet /\ last
      \/ t = lost
  <2>1. CASE ~last
    BY <2>1, Zenon DEF Unlink
  <2>2. CASE last /\ ~freed.alive
    BY <2>2, Zenon DEF Unlink
  <2>3. CASE last /\ freed.alive
    BY <2>3, Zenon DEF Unlink
  <2> QED
    BY <2>1, <2>2, <2>3, Zenon
<1>4. t \in Master
  BY UnlinkType
<1>5. freed \in Master
  BY <1>1, ReleasePackageType
<1> HIDE DEF left, t
<1>6. Moves(s, left, 0)
  BY <1>1, <1>2, FrameMoves DEF Kept, SameBooks
<1>7. ASSUME last
      PROVE  Moves(s, freed, 0)
  <2>1. left.uaf \/ left.pkg
    BY <1>2, <1>7 DEF Kept, SameBooks
  <2>2. Moves(left, freed, 0)
    BY <1>1, <1>7, <2>1, ReleasePackageMoves
  <2>3. Moves(s, freed, 0)
    BY <1>1, <1>5, <1>6, <2>2, MovesThen
  <2> QED
    BY <2>3
<1> HIDE DEF freed
<1>8. SameBooks(freed, quiet) /\ Loaded(quiet) = Loaded(freed) /\ (Destroyed(freed) => Destroyed(quiet))
  BY <1>5 DEF SameBooks, Loaded, Master, Destroyed
<1>9. lost.uaf
  BY <1>5 DEF Master
<1> HIDE DEF quiet, lost
<1>10. Moves(s, t, 0)
  <2>1. CASE t = left
    BY <1>6, <2>1
  <2>2. CASE t = freed /\ last
    BY <1>7, <2>2
  <2>3. CASE t = quiet /\ last
    <3>1. SameBooks(freed, t) /\ Loaded(t) = Loaded(freed)
          /\ (Destroyed(freed) => Destroyed(t))
      BY <1>8, <2>3
    <3>2. Off(t) = Off(freed)
      BY <3>1, SameOff
    <3>3. Moves(s, freed, 0)
      BY <1>7, <2>3
    <3> QED
      BY <3>1, <3>2, <3>3 DEF Moves, Kept, SameBooks
  <2>4. CASE t = lost
    BY <1>9, <2>4 DEF Moves
  <2> QED
    BY <1>3, <2>1, <2>2, <2>3, <2>4
<1> QED
  BY <1>10 DEF t

LEMMA DoomMoves ==
  ASSUME NEW s \in Master, NEW D, D \subseteq s.live, s.uaf \/ Kept(s)
  PROVE  Moves(s, Doom(s, D), 0)
<1> DEFINE a == [s EXCEPT !.live = @ \ D, !.doomed = @ \cup D]
           S == D \ {i \in D : Held(s, i)}
<1>1. s.live \subseteq Insts /\ s.doomed \subseteq Insts
  BY SetFields
<1>2. a \in Master
  <2>1. s.live \ D \in SUBSET Insts /\ s.doomed \cup D \in SUBSET Insts
    BY <1>1
  <2> QED
    BY <2>1, SetLoaded, Zenon
<1>3. /\ SameBooks(s, a) /\ Loaded(a) = Loaded(s) /\ (Destroyed(s) => Destroyed(a))
      /\ D \subseteq Loaded(a)
  BY DEF SameBooks, Loaded, Master, Destroyed
<1> HIDE DEF a
<1>4. Moves(s, a, 0) /\ (a.uaf \/ Kept(a))
  <2>1. Off(a) = Off(s) + 0
    BY <1>3, SameOff, Numbers
  <2> QED
    BY <1>3, <2>1 DEF Moves, Kept, SameBooks
<1>5. S \subseteq Loaded(a)
  BY <1>3
<1>6. Unlink(a, S) \in Master /\ Moves(a, Unlink(a, S), 0)
  <2> HIDE DEF S
  <2> QED
    BY <1>2, <1>4, <1>5, UnlinkType, UnlinkMoves
<1>7. Moves(s, Unlink(a, S), 0)
  <2> HIDE DEF S
  <2> QED
    BY <1>2, <1>4, <1>6, MovesThen
<1>8. Doom(s, D) = Unlink(a, S)
  BY Zenon DEF Doom, a
<1> QED
  BY <1>7, <1>8

LEMMA AnswerNullMoves ==
  ASSUME NEW s \in Master, NEW q \in Seq(Requests), s.uaf \/ Kept(s)
  PROVE  Moves(s, AnswerNull(s, q), -Len(q))
<1> DEFINE own  == {k \in DOMAIN q : q[k] \in {"pause", "resume"}}
           last == CHOOSE k \in own : \A j \in own : j <= k
           st   == IF own = {} \/ s.state \in Leaving THEN s.state
                   ELSE IF q[last] = "pause" THEN "RESUMED" ELSE "PAUSED"
           t    == [s EXCEPT !.state = st]
           S    == {i \in t.doomed : ~Held(t, i)}
           u    == Unlink(t, S)
<1>1. t \in Master
  <2>1. s.state \in States /\ "RESUMED" \in States /\ "PAUSED" \in States
    BY ZenonT(40) DEF Master, States
  <2>2. st \in States
    BY <2>1, Zenon
  <2> QED
    BY <2>2, SetState, Zenon
<1>2. AnswerNull(s, q) = Unrefs(u, Len(q))
  BY Zenon DEF AnswerNull
<1> HIDE DEF st
<1>3. SameBooks(s, t) /\ Loaded(t) = Loaded(s) /\ (Destroyed(s) => Destroyed(t))
  BY DEF SameBooks, Loaded, Master, Destroyed
<1> HIDE DEF t
<1>4. Moves(s, t, 0) /\ (t.uaf \/ Kept(t))
  <2>1. Off(t) = Off(s) + 0
    BY <1>3, SameOff, Numbers
  <2> QED
    BY <1>3, <2>1 DEF Moves, Kept, SameBooks
<1>5. S \subseteq Loaded(t)
  BY DEF Loaded
<1> HIDE DEF S
<1>6. u \in Master /\ Moves(t, u, 0)
  BY <1>1, <1>4, <1>5, UnlinkType, UnlinkMoves
<1> HIDE DEF u
<1>7. Moves(s, u, 0)
  BY <1>1, <1>4, <1>6, MovesThen
<1>8. Len(q) \in Nat
  OBVIOUS
<1> DEFINE n == Len(q)
<1>9. Unrefs(u, n) \in Master /\ Moves(u, Unrefs(u, n), -n)
  BY <1>6, <1>8, UnrefsType, UnrefsMoves, Zenon
<1> HIDE DEF n
<1>10. -n \in Int
  BY <1>8 DEF n
<1>11. Moves(s, Unrefs(u, n), -n)
  BY <1>6, <1>7, <1>9, <1>10, MovesThen
<1> QED
  BY <1>2, <1>11, Zenon DEF n

Good(s) == s.uaf \/ Kept(s)

LEMMA GoodAfter ==
  ASSUME NEW s \in Master, NEW t \in Master, NEW k \in Int, Good(s), Moves(s, t, k)
  PROVE  Good(t) /\ (t.refcnt # 0 => t.alive \/ t.uaf)
BY DEF Good, Moves, Kept, Destroyed

\* A field that is no part of the books
Plain(s, t) ==
  SameBooks(s, t) /\ Loaded(t) = Loaded(s) /\ (Destroyed(s) => Destroyed(t))

LEMMA PlainMoves ==
  ASSUME NEW s \in Master, NEW t \in Master, Plain(s, t)
  PROVE  Moves(s, t, 0)
<1>1. Off(t) = Off(s) + 0
  BY SameOff, Numbers DEF Plain
<1> QED
  BY <1>1 DEF Moves, Kept, SameBooks, Plain

\* slave_rpc.c takes the requests of one queue out of it.
LEMMA EmptyQueue ==
  ASSUME NEW s \in Master
  PROVE  LET q == IF s.handle = NoPid THEN s.pend ELSE s.cmds
             t == IF s.handle = NoPid THEN [s EXCEPT !.pend = <<>>]
                  ELSE [s EXCEPT !.cmds = <<>>]
         IN  /\ q \in Seq(Requests) /\ Len(q) \in Nat
             /\ t \in Master /\ Moves(s, t, Len(q))
             /\ t.create = s.create /\ t.active = s.active /\ t.pkg = s.pkg
             /\ t.uaf = s.uaf /\ t.alive = s.alive /\ Loaded(t) = Loaded(s)
<1> DEFINE q == IF s.handle = NoPid THEN s.pend ELSE s.cmds
           t == IF s.handle = NoPid THEN [s EXCEPT !.pend = <<>>]
                ELSE [s EXCEPT !.cmds = <<>>]
           n == Len(q)
<1>1. q \in Seq(Requests) /\ n \in Nat /\ Len(<<>>) = 0
  BY QueueFacts
<1>2. t \in Master
  <2>1. <<>> \in Seq(Requests)
    OBVIOUS
  <2>2. [s EXCEPT !.pend = <<>>] \in Master /\ [s EXCEPT !.cmds = <<>>] \in Master
    BY <2>1, ZenonT(40) DEF Master
  <2> QED
    BY <2>2, Zenon
<1>3. /\ t.refcnt = s.refcnt /\ t.create = s.create /\ t.active = s.active
      /\ t.pkg = s.pkg /\ t.sent = s.sent /\ t.uaf = s.uaf /\ t.alive = s.alive
      /\ Loaded(t) = Loaded(s) /\ (Destroyed(s) => Destroyed(t))
  BY DEF Master, Loaded, Destroyed
<1>4. Len(t.pend) + Len(t.cmds) = Len(s.pend) + Len(s.cmds) + -n
  <2>1. Len(s.pend) \in Nat /\ Len(s.cmds) \in Nat
    BY Numbers
  <2>2. CASE s.handle = NoPid
    <3>1. t.pend = <<>> /\ t.cmds = s.cmds /\ n = Len(s.pend)
      BY <2>2 DEF Master
    <3> HIDE DEF t, n
    <3>2. Len(t.pend) = 0 /\ Len(t.cmds) = Len(s.cmds)
      BY <1>1, <3>1, Zenon
    <3> QED
      BY <2>1, <3>1, <3>2, LenArith, Zenon
  <2>3. CASE s.handle # NoPid
    <3>1. t.cmds = <<>> /\ t.pend = s.pend /\ n = Len(s.cmds)
      BY <2>3 DEF Master
    <3> HIDE DEF t, n
    <3>2. Len(t.cmds) = 0 /\ Len(t.pend) = Len(s.pend)
      BY <1>1, <3>1, Zenon
    <3> QED
      BY <2>1, <3>1, <3>2, LenArith, Zenon
  <2> QED
    BY <2>2, <2>3
<1> HIDE DEF t, n
<1>5. Moves(s, t, n)
  <2>1. -n \in Int /\ 0 \in Int /\ 0 - 0 - 0 - -n = n
    BY <1>1
  <2>2. Waiting(t) = Waiting(s) + -n
    BY <1>2, <1>3, <1>4, <2>1, WaitingChange
  <2>3. /\ t.refcnt = s.refcnt + 0 /\ t.create = s.create + 0
        /\ t.active = s.active + 0
    BY <1>3, Numbers
  <2>4. Off(t) = Off(s) + (0 - 0 - 0 - -n)
    BY <1>2, <1>3, <2>1, <2>2, <2>3, OffChange
  <2>5. Off(t) = Off(s) + n
    BY <2>1, <2>4, Zenon
  <2> QED
    BY <1>3, <2>5 DEF Moves, Kept
<1> QED
  BY <1>1, <1>2, <1>3, <1>5, Zenon DEF t, n

LEMMA RpcDeactivateMoves ==
  ASSUME NEW s \in Master, Good(s)
  PROVE  Moves(s, RpcDeactivate(s), 0)
<1> DEFINE q == IF s.handle = NoPid THEN s.pend ELSE s.cmds
           t == IF s.handle = NoPid THEN [s EXCEPT !.pend = <<>>]
                ELSE [s EXCEPT !.cmds = <<>>]
           u == [t EXCEPT !.pong = "off"]
           v == AnswerNull(u, q)
           w == [v EXCEPT !.handle = NoPid]
           n == Len(q)
<1>1. RpcDeactivate(s) = w
  BY Zenon DEF RpcDeactivate
<1>2. q \in Seq(Requests) /\ n \in Nat
  BY EmptyQueue
<1>3. t \in Master /\ Moves(s, t, n)
  BY EmptyQueue
<1> HIDE DEF t, n
<1>7. u \in Master
  BY <1>3, ZenonT(40) DEF Master
<1>8. Plain(t, u)
  BY <1>3 DEF Plain, SameBooks, Loaded, Destroyed, Master
<1> HIDE DEF u
<1>9. Moves(s, u, n)
  <2>1. Moves(t, u, 0)
    BY <1>3, <1>7, <1>8, PlainMoves
  <2>2. n + 0 = n /\ n \in Int /\ 0 \in Int
    BY <1>2
  <2>3. Moves(s, u, n + 0)
    BY <1>3, <1>7, <2>1, <2>2, MovesTrans
  <2> QED
    BY <2>2, <2>3, Zenon
<1>10. Good(u)
  <2>1. n \in Int
    BY <1>2
  <2> QED
    BY <1>7, <1>9, <2>1, GoodAfter
<1> HIDE DEF q
<1>11. v \in Master /\ Moves(u, v, -n)
  BY <1>2, <1>7, <1>10, AnswerNullType, AnswerNullMoves, Zenon DEF Good, n
<1> HIDE DEF v
<1>12. Moves(s, v, 0)
  <2>1. n + -n = 0 /\ n \in Int /\ -n \in Int
    BY <1>2
  <2>2. Moves(s, v, n + -n)
    BY <1>7, <1>9, <1>11, <2>1, MovesTrans
  <2> QED
    BY <2>1, <2>2, Zenon
<1>13. w \in Master
  <2>1. NoPid \in Procs \cup {NoPid}
    OBVIOUS
  <2> QED
    BY <1>11, <2>1, ZenonT(40) DEF Master
<1>14. Plain(v, w)
  BY <1>11 DEF Plain, SameBooks, Loaded, Destroyed, Master
<1> HIDE DEF w
<1>15. Moves(s, w, 0)
  BY <1>11, <1>12, <1>13, <1>14, PlainMoves, MovesThen
<1> QED
  BY <1>1, <1>15
-----------------------------------------------------------------------------
(* Deactivation *)

\* The run takes a reference from create or active, to release it.
LEMMA GiveMoves ==
  ASSUME NEW s \in Master, Good(s)
  PROVE  LET a == [s EXCEPT !.active = @ - 1]
             c == [s EXCEPT !.create = @ - 1]
         IN  /\ a \in Master /\ Moves(s, a, 1) /\ a.active = s.active - 1
             /\ a.create = s.create /\ a.pkg = s.pkg /\ a.uaf = s.uaf
             /\ a.alive = s.alive /\ Loaded(a) = Loaded(s)
             /\ c \in Master /\ Moves(s, c, 1) /\ c.create = s.create - 1
             /\ c.active = s.active /\ c.pkg = s.pkg /\ c.uaf = s.uaf
             /\ c.alive = s.alive /\ Loaded(c) = Loaded(s)
<1> DEFINE a == [s EXCEPT !.active = @ - 1]
           c == [s EXCEPT !.create = @ - 1]
<1>1. a \in Master /\ c \in Master
  <2>1. s.active - 1 \in Int /\ s.create - 1 \in Int
    BY NumberFields
  <2> QED
    BY <2>1, ZenonT(40) DEF Master
<1>2. /\ a.refcnt = s.refcnt /\ a.create = s.create /\ a.active = s.active - 1
      /\ a.pkg = s.pkg /\ a.uaf = s.uaf /\ a.alive = s.alive
      /\ Waiting(a) = Waiting(s) /\ Loaded(a) = Loaded(s) /\ (Destroyed(s) => Destroyed(a))
  BY DEF Master, Waiting, InFlight, Loaded, Destroyed
<1>3. /\ c.refcnt = s.refcnt /\ c.active = s.active /\ c.create = s.create - 1
      /\ c.pkg = s.pkg /\ c.uaf = s.uaf /\ c.alive = s.alive
      /\ Waiting(c) = Waiting(s) /\ Loaded(c) = Loaded(s) /\ (Destroyed(s) => Destroyed(c))
  BY DEF Master, Waiting, InFlight, Loaded, Destroyed
<1>4. /\ s.refcnt \in Nat /\ s.create \in Int /\ s.active \in Int /\ Waiting(s) \in Nat
      /\ Bit(s.pkg) \in {0, 1}
  BY Numbers
<1> HIDE DEF a, c
<1>5. Off(a) = Off(s) + 1 /\ Off(c) = Off(s) + 1
  BY <1>2, <1>3, <1>4 DEF Off, Owed
<1>6. Moves(s, a, 1) /\ Moves(s, c, 1)
  BY <1>2, <1>3, <1>5 DEF Moves, Kept
<1> QED
  BY <1>1, <1>2, <1>3, <1>6 DEF a, c

\* slave_unref for such a reference
LEMMA DropMoves ==
  ASSUME NEW s \in Master, Good(s)
  PROVE  /\ Moves(s, Unref([s EXCEPT !.active = @ - 1]), 0)
         /\ Moves(s, Unref([s EXCEPT !.create = @ - 1]), 0)
<1> DEFINE a == [s EXCEPT !.active = @ - 1]
           c == [s EXCEPT !.create = @ - 1]
<1>1. a \in Master /\ c \in Master /\ Moves(s, a, 1) /\ Moves(s, c, 1)
  BY GiveMoves
<1> HIDE DEF a, c
<1>2. Moves(s, Unref(a), 1 - 1) /\ Moves(s, Unref(c), 1 - 1) /\ 1 - 1 = 0
  BY <1>1, UnrefAfter
<1> QED
  BY <1>2, Zenon DEF a, c

\* slave_deactivated stops the timers and takes a reference for its run.
LEMMA StopMoves ==
  ASSUME NEW s \in Master
  PROVE  LET a == [StopTimers(s) EXCEPT !.pid = NoPid, !.state = "TERMINATED",
                                        !.refcnt = @ + 1]
         IN  /\ a \in Master /\ a.alive = s.alive /\ a.uaf = s.uaf
             /\ a.create = s.create /\ a.active = s.active /\ a.pkg = s.pkg
             /\ Loaded(a) = Loaded(s) /\ Off(a) = Off(s) + 1
<1> DEFINE s1 == StopTimers(s)
           a == [s1 EXCEPT !.pid = NoPid, !.state = "TERMINATED", !.refcnt = @ + 1]
<1>1. a \in Master
  <2>1. s1 \in Master
    BY StopTimersType
  <2> HIDE DEF s1
  <2>2. s1.refcnt + 1 \in Nat
    BY <2>1, NumberFields
  <2>3. NoPid \in Procs \cup {NoPid, RetryPid} /\ "TERMINATED" \in States
    BY DEF States
  <2> QED
    BY <2>1, <2>2, <2>3, ZenonT(40) DEF Master
<1>2. /\ a.refcnt = s.refcnt + 1 /\ a.create = s.create /\ a.active = s.active
      /\ a.pkg = s.pkg /\ a.uaf = s.uaf /\ a.alive = s.alive
      /\ Waiting(a) = Waiting(s) /\ Loaded(a) = Loaded(s)
  BY DEF StopTimers, Master, Waiting, InFlight, Loaded
<1>3. Owed(a) = Owed(s) /\ Owed(s) \in Int /\ s.refcnt \in Nat
  BY <1>2, Numbers DEF Owed
<1>4. Off(a) = Off(s) + 1
  BY <1>2, <1>3 DEF Off
<1> QED
  BY <1>1, <1>2, <1>4, Zenon

LEMMA DeactivatedMoves ==
  ASSUME NEW s \in Master, NEW x \in Inputs, Good(s), s.alive \/ s.uaf
  PROVE  Moves(s, Deactivated(s, x), 0)
<1> DEFINE s1 == StopTimers(s)
           a == [s1 EXCEPT !.pid = NoPid, !.state = "TERMINATED", !.refcnt = @ + 1]
           D == IF a.fault THEN a.live ELSE a.live \cap x.dooms
           b == Doom(a, D)
           b1 == RpcDeactivate(b)
           c == Unref(b1)
           d == Unref([c EXCEPT !.active = @ - 1])
           e == Activate(d, x.launch)
           f == Unref([d EXCEPT !.create = @ - 1])
           t == Deactivated(s, x)
<1>1. a \in Master
  BY StopMoves, Zenon
<1>2. \/ t = c
      \/ t = d
      \/ t = e /\ d.refcnt # 0 /\ x.launch # Asleep
      \/ t = f
  <2>1. CASE c.refcnt = 0
    BY <2>1, Zenon DEF Deactivated
  <2>2. CASE c.refcnt # 0 /\ d.refcnt = 0
    BY <2>2, Zenon DEF Deactivated
  <2>3. CASE c.refcnt # 0 /\ d.refcnt # 0
    BY <2>3, Zenon DEF Deactivated
  <2> QED
    BY <2>1, <2>2, <2>3, Zenon
<1>3. Moves(s, a, 1)
  <2>1. /\ a.pkg = s.pkg /\ a.uaf = s.uaf /\ a.alive = s.alive
        /\ Loaded(a) = Loaded(s) /\ Off(a) = Off(s) + 1
    BY StopMoves, Zenon
  <2> HIDE DEF a
  <2> QED
    BY <2>1 DEF Moves, Kept
<1> HIDE DEF a, t
<1>4. Good(a)
  BY <1>1, <1>3, GoodAfter
<1>5. b \in Master /\ Moves(a, b, 0)
  <2>1. a.live \subseteq Insts
    BY <1>1, SetFields
  <2>2. D \in SUBSET Insts /\ D \subseteq a.live
    BY <2>1
  <2> HIDE DEF D
  <2> QED
    BY <1>1, <1>4, <2>2, DoomType, DoomMoves DEF Good
<1> HIDE DEF b, D
<1>6. Good(b)
  BY <1>1, <1>4, <1>5, GoodAfter
<1>7. b1 \in Master /\ Moves(b, b1, 0)
  BY <1>5, <1>6, RpcDeactivateType, RpcDeactivateMoves
<1> HIDE DEF b1
<1>8. Moves(s, b1, 1)
  <2>1. Moves(a, b1, 0)
    BY <1>1, <1>5, <1>7, MovesThen
  <2>2. Moves(s, b1, 1 + 0) /\ 1 + 0 = 1
    BY <1>1, <1>3, <1>7, <2>1, MovesTrans
  <2> QED
    BY <2>2, Zenon
<1>9. c \in Master /\ Moves(s, c, 0)
  <2>1. Moves(s, Unref(b1), 1 - 1) /\ 1 - 1 = 0
    BY <1>7, <1>8, UnrefAfter
  <2> QED
    BY <1>7, <2>1, UnrefType, Zenon
<1> HIDE DEF c
<1>10. Good(c)
  BY <1>9, GoodAfter
<1>11. d \in Master /\ Moves(s, d, 0)
  <2>1. c.active - 1 \in Int
    BY <1>9, NumberFields
  <2>2. [c EXCEPT !.active = @ - 1] \in Master
    BY <1>9, <2>1, ZenonT(40) DEF Master
  <2>3. d \in Master /\ Moves(c, d, 0)
    BY <1>9, <1>10, <2>2, UnrefType, DropMoves
  <2> QED
    BY <1>9, <2>3, MovesThen
<1> HIDE DEF d
<1>12. Good(d) /\ (d.refcnt # 0 => d.alive \/ d.uaf)
  BY <1>11, GoodAfter
<1>13. CASE t = e /\ d.refcnt # 0 /\ x.launch # Asleep
  <2>1. x.launch \in LaunchResults
    BY <1>13, InputsFacts
  <2>2. e \in Master /\ Moves(d, e, 0)
    BY <1>11, <1>12, <1>13, <2>1, ActivateType, ActivateMoves
  <2>3. Moves(s, e, 0)
    BY <1>11, <2>2, MovesThen
  <2> QED
    BY <1>13, <2>3 DEF t
<1>14. CASE t = f
  <2>1. d.create - 1 \in Int
    BY <1>11, NumberFields
  <2>2. [d EXCEPT !.create = @ - 1] \in Master
    BY <1>11, <2>1, ZenonT(40) DEF Master
  <2>3. f \in Master /\ Moves(d, f, 0)
    BY <1>11, <1>12, <2>2, UnrefType, DropMoves
  <2>4. Moves(s, f, 0)
    BY <1>11, <2>3, MovesThen
  <2> QED
    BY <1>14, <2>4 DEF t
<1> QED
  BY <1>2, <1>9, <1>11, <1>13, <1>14 DEF t

LEMMA DeactivateMoves ==
  ASSUME NEW s \in Master, NEW noTimer, NEW x \in Inputs, Good(s), s.alive \/ s.uaf
  PROVE  Moves(s, Deactivate(s, noTimer, x), 0)
<1> DEFINE a == [s EXCEPT !.ttlT = FALSE]
           a1 == [a EXCEPT !.state = "TERMINATE"]
           b == TerminatePid(a1, x)
           c == [a EXCEPT !.state = "DISCONNECT"]
           e == Enqueue(c, "disconnect", FALSE, x.launch)
           f == [a EXCEPT !.termT = TRUE]
           g == Deactivated(b, x)
           t == Deactivate(s, noTimer, x)
<1>1. \/ t = s \/ t = a \/ t = b \/ t = f \/ t = g
      \/ t = e /\ s.pid \in Procs
  BY Zenon DEF Deactivate
<1>2. "TERMINATE" \in States /\ "DISCONNECT" \in States
  BY DEF States
<1>3. a \in Master
  BY ZenonT(40) DEF Master
<1>4. Plain(s, a) /\ a.pid = s.pid
  BY DEF Plain, SameBooks, Loaded, Destroyed, Master
<1> HIDE DEF a, t
<1>5. Moves(s, a, 0) /\ (a.alive \/ a.uaf)
  BY <1>3, <1>4, PlainMoves DEF Plain, SameBooks
<1>6. f \in Master
  BY <1>3, ZenonT(40) DEF Master
<1>7. a1 \in Master /\ c \in Master
  BY <1>2, <1>3, SetState
<1>8. Plain(a, f) /\ Plain(a, a1) /\ Plain(a, c) /\ c.pid = s.pid
  BY <1>3, <1>4 DEF Plain, SameBooks, Loaded, Destroyed, Master
<1> HIDE DEF a1, c, f
<1>9. /\ Moves(s, f, 0) /\ Moves(s, a1, 0) /\ Moves(s, c, 0)
      /\ (a1.alive \/ a1.uaf) /\ (c.alive \/ c.uaf)
  <2>1. Moves(a, f, 0) /\ Moves(a, a1, 0) /\ Moves(a, c, 0)
    BY <1>3, <1>6, <1>7, <1>8, PlainMoves
  <2> QED
    BY <1>3, <1>5, <1>6, <1>7, <1>8, <2>1, MovesThen DEF Plain, SameBooks
<1>10. b \in Master /\ Moves(s, b, 0) /\ (b.alive \/ b.uaf)
  BY <1>7, <1>9, TerminatePidType, TerminatePidMoves, MovesThen
<1> HIDE DEF b
<1>11. Good(b)
  BY <1>10, GoodAfter
<1>12. Moves(s, g, 0)
  <2>1. g \in Master /\ Moves(b, g, 0)
    BY <1>10, <1>11, DeactivatedType, DeactivatedMoves
  <2> QED
    BY <1>10, <2>1, MovesThen
<1>13. CASE t = e /\ s.pid \in Procs
  <2>1. c.pid # NoPid /\ "disconnect" \in Requests
    BY <1>8, <1>13, ConstantsAssumption DEF NoPid, Requests
  <2>2. e \in Master /\ Moves(c, e, 0)
    BY <1>7, <1>9, <2>1, EnqueueType, EnqueueMoves, Zenon
  <2> HIDE DEF e
  <2>3. Moves(s, e, 0)
    BY <1>7, <1>9, <2>2, MovesThen
  <2> QED
    BY <1>13, <2>3 DEF t
<1>14. Moves(s, s, 0)
  BY Numbers DEF Moves
<1> QED
  BY <1>1, <1>5, <1>9, <1>10, <1>12, <1>13, <1>14, Zenon DEF t

LEMMA DeactivateIfEmptiedMoves ==
  ASSUME NEW s, NEW t \in Master, NEW x \in Inputs, Good(t)
  PROVE  Moves(t, DeactivateIfEmptied(s, t, x), 0)
<1>1. Moves(t, t, 0)
  BY Numbers DEF Moves
<1>2. t.alive => Moves(t, Deactivate(t, FALSE, x), 0)
  BY DeactivateMoves
<1> QED
  BY <1>1, <1>2, Zenon DEF DeactivateIfEmptied

\* instance_destroyed and what slave_unload_instance makes of it
LEMMA DoomThenDeactivateMoves ==
  ASSUME NEW s \in Master, NEW b \in Master, NEW D, D \subseteq b.live,
         NEW x \in Inputs, Good(b)
  PROVE  LET t == DeactivateIfEmptied(s, Doom(b, D), x)
         IN  t \in Master /\ Moves(b, t, 0)
<1> DEFINE d == Doom(b, D)
           t == DeactivateIfEmptied(s, d, x)
<1>1. D \in SUBSET Insts
  BY SetFields
<1>2. d \in Master /\ Moves(b, d, 0)
  BY <1>1, DoomType, DoomMoves DEF Good
<1> HIDE DEF d
<1>3. Good(d)
  BY <1>2, GoodAfter
<1>4. t \in Master /\ Moves(d, t, 0)
  BY <1>2, <1>3, DeactivateIfEmptiedType, DeactivateIfEmptiedMoves
<1> HIDE DEF t
<1>5. Moves(b, t, 0)
  BY <1>2, <1>4, MovesThen
<1> QED
  BY <1>4, <1>5 DEF t, d

LEMMA SetFault ==
  ASSUME NEW s \in Master, NEW x
  PROVE  [s EXCEPT !.fault = (x.fault = "last")] \in Master
<1> DEFINE v == (x.fault = "last")
<1>1. v \in BOOLEAN
  OBVIOUS
<1> HIDE DEF v
<1>2. [s EXCEPT !.fault = v] \in Master
  BY <1>1, SetFlags, Zenon
<1> QED
  BY <1>2 DEF v

LEMMA FaultCbMoves ==
  ASSUME NEW s \in Master, NEW x \in Inputs, Good(s), s.alive \/ s.uaf
  PROVE  Moves(s, FaultCb(s, x), 0)
<1> DEFINE a == [s EXCEPT !.refcnt = @ + 1]
           b == [a EXCEPT !.fault = (x.fault = "last")]
           t == DeactivateIfEmptied(b, Doom(b, b.live), x)
           c == IF ~a.pkg \/ a.fault THEN a ELSE t
<1>1. FaultCb(s, x) = Unref(c)
  BY Zenon DEF FaultCb
<1>2. a \in Master /\ Moves(s, a, 1)
  BY RefType, RefMoves
<1> HIDE DEF a
<1>3. a \in Master
  BY <1>2, Zenon
<1>4. b \in Master
  BY <1>3, SetFault, Zenon
<1>5. Plain(a, b)
  BY <1>2 DEF Plain, SameBooks, Loaded, Destroyed, Master
<1> HIDE DEF b
<1>6. Moves(a, b, 0) /\ Good(a)
  BY <1>2, <1>4, <1>5, PlainMoves, GoodAfter
<1>7. Good(b)
  BY <1>2, <1>4, <1>6, GoodAfter
<1>8. t \in Master /\ Moves(b, t, 0)
  BY <1>4, <1>7, DoomThenDeactivateMoves
<1> HIDE DEF t
<1>9. c \in Master /\ Moves(a, c, 0)
  <2>1. Moves(a, t, 0) /\ Moves(a, a, 0)
    BY <1>2, <1>4, <1>6, <1>8, MovesThen, Numbers DEF Moves
  <2> QED
    BY <1>2, <1>8, <2>1
<1> HIDE DEF c
<1>10. Moves(s, c, 1 + 0) /\ 1 + 0 = 1
  BY <1>2, <1>9, MovesTrans
<1>11. Moves(s, Unref(c), 1 - 1) /\ 1 - 1 = 0
  <2>1. Moves(s, c, 1)
    BY <1>10, Zenon
  <2> QED
    BY <1>9, <2>1, UnrefAfter
<1> QED
  BY <1>1, <1>11, Zenon

\* A slave that still counts references after s is still an object.
LEMMA PlainAfter ==
  ASSUME NEW s \in Master, NEW t \in Master, NEW u \in Master,
         Good(s), Moves(s, t, 0), Plain(t, u)
  PROVE  Moves(s, u, 0) /\ Good(u) /\ (u.refcnt # 0 => u.alive \/ u.uaf)
<1>1. Moves(t, u, 0)
  BY PlainMoves
<1>2. Moves(s, u, 0)
  BY <1>1, MovesThen
<1> QED
  BY <1>2, GoodAfter

LEMMA DeactivatedByFaultMoves ==
  ASSUME NEW s \in Master, NEW x \in Inputs, Good(s), s.alive \/ s.uaf
  PROVE  Moves(s, DeactivatedByFault(s, x), 0)
<1> DEFINE a    == TerminatePid(s, x)
           soon == x.fault # "slow"
           stop == soon /\ (Loaded(s) = {} \/ s.crit + 1 >= MaxLoad)
           a1   == [a EXCEPT !.crit = 0, !.streak = 0]
           a2   == [a EXCEPT !.crit = 0,
                             !.streak = IF @ < MaxLoad THEN @ + 1 ELSE @]
           a3   == [a EXCEPT !.streak = 0]
           b    == IF stop THEN FaultCb(a1, x) ELSE IF soon THEN a2 ELSE a3
           c1   == [b EXCEPT !.reactivate = FALSE, !.reactInst = FALSE]
           c2   == [b EXCEPT !.reactivate = TRUE, !.reactInst = TRUE]
           c    == IF stop THEN c1 ELSE c2
           t    == DeactivatedByFault(s, x)
<1>1. \/ t = Unref([s EXCEPT !.create = @ - 1])
      \/ t = s
      \/ t = b
      \/ t = Deactivated(c, x) /\ b.refcnt # 0
  BY Zenon DEF DeactivatedByFault
<1> HIDE DEF t
<1>2. a \in Master /\ Moves(s, a, 0) /\ (a.alive \/ a.uaf)
  BY TerminatePidType, TerminatePidMoves
<1> HIDE DEF a
<1>3. a1 \in Master /\ a2 \in Master /\ a3 \in Master
  <2>1. 0 \in 0 .. MaxLoad
    BY ConstantsAssumption
  <2>2. (IF a.streak < MaxLoad THEN a.streak + 1 ELSE a.streak) \in 0 .. MaxLoad
    <3>1. a.streak \in 0 .. MaxLoad
      BY <1>2, ZenonT(40) DEF Master
    <3> QED
      BY <3>1, ConstantsAssumption
  <2>3. a \in Master
    BY <1>2, Zenon
  <2>4. a1 \in Master
    BY <2>1, <2>3, ZenonT(40) DEF Master
  <2>5. a2 \in Master
    BY <2>1, <2>2, <2>3, ZenonT(40) DEF Master
  <2>6. a3 \in Master
    BY <2>1, <2>3, ZenonT(40) DEF Master
  <2> QED
    BY <2>4, <2>5, <2>6, Zenon
<1>4. Plain(a, a1) /\ Plain(a, a2) /\ Plain(a, a3)
  BY <1>2 DEF Plain, SameBooks, Loaded, Destroyed, Master
<1> HIDE DEF a1, a2, a3, stop
<1>5. /\ Moves(s, a1, 0) /\ Moves(s, a2, 0) /\ Moves(s, a3, 0)
      /\ Good(a1) /\ (a1.alive \/ a1.uaf)
  BY <1>2, <1>3, <1>4, PlainAfter DEF Plain, SameBooks
<1>6. FaultCb(a1, x) \in Master /\ Moves(s, FaultCb(a1, x), 0)
  <2>1. FaultCb(a1, x) \in Master /\ Moves(a1, FaultCb(a1, x), 0)
    BY <1>3, <1>5, FaultCbType, FaultCbMoves
  <2> QED
    BY <1>3, <1>5, <2>1, MovesThen
<1>7. b \in Master /\ Moves(s, b, 0)
  BY <1>3, <1>5, <1>6, Zenon
<1> HIDE DEF b
<1>8. c1 \in Master /\ c2 \in Master
  <2>1. TRUE \in BOOLEAN /\ FALSE \in BOOLEAN
    OBVIOUS
  <2> QED
    BY <1>7, <2>1, SetFlags, Zenon
<1>9. Plain(b, c1) /\ Plain(b, c2)
  BY <1>7 DEF Plain, SameBooks, Loaded, Destroyed, Master
<1> HIDE DEF c1, c2
<1>10. CASE t = Deactivated(c, x) /\ b.refcnt # 0
  <2>1. /\ c \in Master /\ Moves(s, c, 0) /\ Good(c)
        /\ (c.alive \/ c.uaf)
    BY <1>7, <1>8, <1>9, <1>10, PlainAfter DEF Plain, SameBooks
  <2> HIDE DEF c
  <2>2. Deactivated(c, x) \in Master /\ Moves(c, Deactivated(c, x), 0)
    BY <2>1, DeactivatedType, DeactivatedMoves
  <2>3. Moves(s, Deactivated(c, x), 0)
    BY <2>1, <2>2, MovesThen
  <2> QED
    BY <1>10, <2>3, Zenon DEF t
<1>11. Moves(s, Unref([s EXCEPT !.create = @ - 1]), 0)
  BY DropMoves
<1>12. Moves(s, s, 0)
  BY Numbers DEF Moves
<1> QED
  BY <1>1, <1>7, <1>10, <1>11, <1>12, Zenon DEF t

LEMMA SlaveFaultMoves ==
  ASSUME NEW s \in Master, NEW x \in Inputs, Good(s), s.alive \/ s.uaf
  PROVE  Moves(s, SlaveFault(s, x), 0)
<1> DEFINE a == FaultCb(s, x)
           b == [a EXCEPT !.reactivate = FALSE, !.reactInst = FALSE]
           d == Enqueue(b, "disconnect", FALSE, x.launch)
           c == IF b.pid \in Procs /\ "term" \in b.ctrl THEN d ELSE TerminatePid(b, x)
           t == SlaveFault(s, x)
<1>1. \/ t = a
      \/ t = c /\ a.refcnt # 0
      \/ t = Deactivated(c, x) /\ a.refcnt # 0
  BY Zenon DEF SlaveFault
<1> HIDE DEF t
<1>2. a \in Master /\ Moves(s, a, 0)
  BY FaultCbType, FaultCbMoves
<1> HIDE DEF a
<1>3. b \in Master
  <2>1. FALSE \in BOOLEAN
    OBVIOUS
  <2> QED
    BY <1>2, <2>1, SetFlags, Zenon
<1>4. Plain(a, b)
  BY <1>2 DEF Plain, SameBooks, Loaded, Destroyed, Master
<1> HIDE DEF b
<1>5. ASSUME a.refcnt # 0
      PROVE  Moves(s, c, 0) /\ c \in Master /\ Good(c) /\ (c.alive \/ c.uaf)
  <2>1. Moves(s, b, 0) /\ Good(b) /\ (b.alive \/ b.uaf)
    BY <1>2, <1>3, <1>4, <1>5, PlainAfter DEF Plain, SameBooks
  <2>2. CASE b.pid \in Procs /\ "term" \in b.ctrl
    <3>1. b.pid # NoPid /\ "disconnect" \in Requests
      BY <2>2, ConstantsAssumption DEF NoPid, Requests
    <3>2. d \in Master /\ Moves(b, d, 0) /\ d.alive = b.alive /\ d.uaf = b.uaf
      BY <1>3, <2>1, <3>1, EnqueueType, EnqueueMoves, Zenon
    <3>3. c = d
      BY <2>2
    <3> HIDE DEF c, d
    <3> QED
      BY <1>3, <2>1, <3>2, <3>3, MovesThen, GoodAfter
  <2>3. CASE ~(b.pid \in Procs /\ "term" \in b.ctrl)
    <3>1. c = TerminatePid(b, x)
      BY <2>3, Zenon
    <3>2. c \in Master /\ Moves(b, c, 0) /\ c.alive = b.alive /\ c.uaf = b.uaf
      BY <1>3, <3>1, TerminatePidType, TerminatePidMoves
    <3> HIDE DEF c
    <3> QED
      BY <1>3, <2>1, <3>2, MovesThen, GoodAfter
  <2> QED
    BY <2>2, <2>3
<1> HIDE DEF c
<1>6. CASE t = Deactivated(c, x) /\ a.refcnt # 0
  <2>1. Deactivated(c, x) \in Master /\ Moves(c, Deactivated(c, x), 0)
    BY <1>5, <1>6, DeactivatedType, DeactivatedMoves
  <2>2. Moves(s, Deactivated(c, x), 0)
    BY <1>5, <1>6, <2>1, MovesThen
  <2> QED
    BY <1>6, <2>2, Zenon DEF t
<1> QED
  BY <1>1, <1>2, <1>5, <1>6, Zenon DEF t
-----------------------------------------------------------------------------
(* Activation *)

LEMMA ActivatedMoves ==
  ASSUME NEW s \in Master, NEW x \in Inputs, x.launch \in LaunchResults,
         Good(s), s.alive \/ s.uaf
  PROVE  Moves(s, Activated(s, x), 0) /\ Keeps(s, Activated(s, x))
<1> DEFINE a == IF s.xpaused THEN Pause(s, x.launch) ELSE Resume(s, x.launch)
           a1 == [a EXCEPT !.ttlT = TRUE]
           b == IF UsesTtl THEN a1 ELSE a
           q == RecoverList(b)
           b1 == Activate(b, x.launch)
           b2 == [b1 EXCEPT !.cmds = q \o @, !.refcnt = @ + Len(q)]
           c == IF b.reactInst /\ q # <<>> THEN b2 ELSE b
           t == [c EXCEPT !.reactivate = FALSE, !.reactInst = FALSE,
                          !.actT = FALSE, !.relT = FALSE]
<1>1. Activated(s, x) = t
  BY Zenon DEF Activated
<1>2. a \in Master /\ Moves(s, a, 0) /\ (a.alive \/ a.uaf) /\ Keeps(s, a)
  BY PauseType, PauseMoves, Zenon
<1> HIDE DEF a
<1>3. a1 \in Master /\ SameBooks(a, a1) /\ Loaded(a1) = Loaded(a)
  <2>1. a1 \in Master
    BY <1>2, ZenonT(40) DEF Master
  <2>2. SameBooks(a, a1)
    BY <1>2, SMTT(30) DEF SameBooks, Master
  <2>3. Loaded(a1) = Loaded(a)
    BY <1>2, SMTT(30) DEF Loaded, Master
  <2> QED
    BY <2>1, <2>2, <2>3
<1> HIDE DEF a1
<1>4. b \in Master /\ Moves(a, b, 0) /\ (b.alive \/ b.uaf) /\ Keeps(a, b)
  <2>1. Moves(a, a1, 0) /\ Moves(a, a, 0) /\ (a1.alive \/ a1.uaf)
    BY <1>2, <1>3, FrameMoves, Numbers DEF Moves, SameBooks
  <2>2. Keeps(a, a1) /\ Keeps(a, a)
    BY <1>3 DEF Keeps, SameBooks
  <2> QED
    BY <1>2, <1>3, <2>1, <2>2, Zenon
<1> HIDE DEF b
<1>5. q \in Seq(Requests) /\ Len(q) \in Nat
  <2>1. q \in Seq(Requests)
    BY <1>4, RecoverListType
  <2> QED
    BY <2>1, CountOfSequence
<1> HIDE DEF q
<1>6. b1 \in Master /\ Moves(b, b1, 0) /\ (b1.alive \/ b1.uaf) /\ Keeps(b, b1)
  BY <1>4, ActivateType, ActivateMoves
<1> HIDE DEF b1
<1>7. b1.cmds \in Seq(Requests) /\ b1.refcnt \in Nat /\ Len(b1.pend) \in Nat
  BY <1>6, QueueFacts, Numbers
<1>8. /\ q \o b1.cmds \in Seq(Requests) /\ b1.refcnt + Len(q) \in Nat
      /\ Len(q \o b1.cmds) = Len(q) + Len(b1.cmds) /\ Len(b1.cmds) \in Nat
  BY <1>5, <1>7
<1>9. b2 \in Master
  BY <1>6, <1>8, ZenonT(40) DEF Master
<1>10. /\ b2.refcnt = b1.refcnt + Len(q) /\ b2.create = b1.create /\ b2.active = b1.active
       /\ b2.pkg = b1.pkg /\ b2.uaf = b1.uaf /\ b2.alive = b1.alive /\ b2.sent = b1.sent
       /\ b2.pend = b1.pend /\ b2.cmds = q \o b1.cmds /\ Loaded(b2) = Loaded(b1)
  BY <1>6 DEF Master, Loaded
<1> HIDE DEF b2
<1>11. Moves(b1, b2, 0) /\ (b2.alive \/ b2.uaf)
  <2> DEFINE n == Len(q)
             i == Len(b1.pend)
             j == Len(b1.cmds)
  <2>1. /\ Len(b2.pend) = i /\ Len(b2.cmds) = n + j
        /\ n \in Nat /\ i \in Nat /\ j \in Nat
    BY <1>5, <1>7, <1>8, <1>10, Zenon
  <2> HIDE DEF n, i, j
  <2>2. i + (n + j) = (i + j) + n /\ n \in Int /\ n - 0 - 0 - n = 0 /\ 0 \in Int
    BY <2>1
  <2>3. Len(b2.pend) + Len(b2.cmds) = Len(b1.pend) + Len(b1.cmds) + n
    BY <2>1, <2>2, Zenon DEF i, j
  <2>4. Waiting(b2) = Waiting(b1) + n
    BY <1>6, <1>9, <1>10, <2>2, <2>3, WaitingChange, Zenon
  <2>5. /\ b2.refcnt = b1.refcnt + n /\ b2.create = b1.create + 0
        /\ b2.active = b1.active + 0
    <3>1. b1.create \in Int /\ b1.active \in Int
      BY <1>6, NumberFields
    <3>2. b1.create + 0 = b1.create /\ b1.active + 0 = b1.active
      BY <3>1
    <3> QED
      BY <1>10, <3>2, Zenon DEF n
  <2>6. Off(b2) = Off(b1) + (n - 0 - 0 - n)
    BY <1>6, <1>9, <1>10, <2>2, <2>4, <2>5, OffChange
  <2>7. Off(b2) = Off(b1) + 0
    BY <2>2, <2>6, Zenon
  <2> QED
    BY <1>6, <1>10, <2>7 DEF Moves, Kept
<1>12. c \in Master /\ Moves(b, c, 0) /\ (c.alive \/ c.uaf) /\ Keeps(b, c)
  <2>1. Moves(b, b2, 0) /\ Moves(b, b, 0)
    BY <1>4, <1>6, <1>9, <1>11, MovesThen, Numbers DEF Moves
  <2>2. Keeps(b, b2) /\ Keeps(b, b)
    BY <1>6, <1>10 DEF Keeps
  <2> QED
    BY <1>4, <1>9, <1>11, <2>1, <2>2
<1> HIDE DEF c
<1>13. t \in Master
  <2>1. c \in Master
    BY <1>12, Zenon
  <2> DEFINE d == [c EXCEPT !.reactivate = FALSE, !.reactInst = FALSE]
  <2>2. d \in Master
    BY <2>1, ZenonT(40) DEF Master
  <2> HIDE DEF d
  <2>3. [d EXCEPT !.actT = FALSE, !.relT = FALSE] \in Master
    BY <2>2, ZenonT(40) DEF Master
  <2> QED
    BY <2>3, Zenon DEF d
<1>14. SameBooks(c, t) /\ Loaded(t) = Loaded(c)
  BY <1>12 DEF SameBooks, Loaded, Master
<1> HIDE DEF t
<1>15. Moves(c, t, 0)
  BY <1>12, <1>13, <1>14, FrameMoves
<1>16. Moves(b, t, 0)
  BY <1>4, <1>12, <1>13, <1>15, MovesThen
<1>17. Moves(a, t, 0)
  BY <1>2, <1>4, <1>13, <1>16, MovesThen
<1>18. Moves(s, t, 0)
  BY <1>2, <1>13, <1>17, MovesThen
<1>19. Keeps(s, t)
  BY <1>2, <1>4, <1>12, <1>14 DEF Keeps, SameBooks
<1> QED
  BY <1>1, <1>18, <1>19

LEMMA UpdateHandleMoves ==
  ASSUME NEW s \in Master, NEW h \in Procs, NEW x \in Inputs,
         x.launch \in LaunchResults, Good(s), s.alive
  PROVE  Moves(s, UpdateHandle(s, h, x), 0) /\ Keeps(s, UpdateHandle(s, h, x))
<1> DEFINE s1 == [s EXCEPT !.handle = h, !.pong = "on"]
           a == Activated(s1, x)
           t == [a EXCEPT !.cmds = @ \o a.pend, !.pend = <<>>]
<1>1. s1 \in Master
  <2>1. h \in Procs \cup {NoPid}
    OBVIOUS
  <2> QED
    BY <2>1, ZenonT(40) DEF Master
<1>2. SameBooks(s, s1) /\ Loaded(s1) = Loaded(s)
  BY DEF SameBooks, Loaded, Master
<1> HIDE DEF s1
<1>3. Moves(s, s1, 0) /\ (s1.alive \/ s1.uaf)
  BY <1>1, <1>2, FrameMoves DEF SameBooks
<1>4. Good(s1)
  BY <1>1, <1>3, GoodAfter
<1>5. a \in Master /\ Moves(s1, a, 0) /\ Keeps(s1, a)
  BY <1>1, <1>3, <1>4, ActivatedType, ActivatedMoves
<1> HIDE DEF a
<1>6. /\ a.cmds \in Seq(Requests) /\ a.pend \in Seq(Requests)
      /\ a.cmds \o a.pend \in Seq(Requests) /\ <<>> \in Seq(Requests)
      /\ Len(a.cmds) \in Nat /\ Len(a.pend) \in Nat
      /\ Len(a.cmds \o a.pend) = Len(a.cmds) + Len(a.pend) /\ Len(<<>>) = 0
  BY <1>5, QueueFacts
<1>7. t \in Master
  BY <1>5, <1>6, ZenonT(40) DEF Master
<1>8. /\ t.refcnt = a.refcnt /\ t.create = a.create /\ t.active = a.active
      /\ t.pkg = a.pkg /\ t.uaf = a.uaf /\ t.alive = a.alive /\ t.sent = a.sent
      /\ t.pend = <<>> /\ t.cmds = a.cmds \o a.pend /\ Loaded(t) = Loaded(a)
      /\ (Destroyed(a) => Destroyed(t))
  BY <1>5 DEF Master, Loaded, Destroyed
<1> HIDE DEF t
<1>9. Moves(a, t, 0)
  <2> DEFINE i == Len(a.pend)
             j == Len(a.cmds)
  <2>1. Len(t.pend) = 0 /\ Len(t.cmds) = j + i /\ i \in Nat /\ j \in Nat
    BY <1>6, <1>8, Zenon
  <2> HIDE DEF i, j
  <2>2. 0 + (j + i) = (i + j) + 0 /\ 0 \in Int /\ 0 - 0 - 0 - 0 = 0
    BY <2>1
  <2>3. Len(t.pend) + Len(t.cmds) = Len(a.pend) + Len(a.cmds) + 0
    BY <2>1, <2>2, Zenon DEF i, j
  <2>4. Waiting(t) = Waiting(a) + 0
    BY <1>5, <1>7, <1>8, <2>2, <2>3, WaitingChange, Zenon
  <2>5. t.refcnt = a.refcnt + 0 /\ t.create = a.create + 0 /\ t.active = a.active + 0
    BY <1>5, <1>8, NumberFields
  <2>6. Off(t) = Off(a) + (0 - 0 - 0 - 0)
    BY <1>5, <1>7, <1>8, <2>2, <2>4, <2>5, OffChange
  <2>7. Off(t) = Off(a) + 0
    BY <2>2, <2>6, Zenon
  <2> QED
    BY <1>8, <2>7 DEF Moves, Kept
<1>10. Moves(s1, t, 0)
  BY <1>1, <1>5, <1>7, <1>9, MovesThen
<1>11. Moves(s, t, 0)
  BY <1>1, <1>3, <1>7, <1>10, MovesThen
<1>12. Keeps(s, t)
  BY <1>2, <1>5, <1>8 DEF Keeps, SameBooks
<1> QED
  BY <1>11, <1>12, Zenon DEF UpdateHandle, t, a, s1

LEMMA DeadMonitorMoves ==
  ASSUME NEW s \in Master, NEW p, NEW x \in Inputs, Good(s)
  PROVE  Moves(s, DeadMonitor(s, p, x), 0)
<1> DEFINE a == [s EXCEPT !.wait = FALSE, !.reactivate = FALSE, !.reactInst = TRUE]
<1>1. a \in Master
  BY ZenonT(40) DEF Master
<1>2. Plain(s, a)
  BY DEF Plain, SameBooks, Loaded, Destroyed, Master
<1> HIDE DEF a
<1>3. ASSUME s.alive
      PROVE  Moves(s, Deactivated(a, x), 0)
  <2>1. Moves(s, a, 0) /\ (a.alive \/ a.uaf)
    BY <1>1, <1>2, <1>3, PlainMoves DEF Plain, SameBooks
  <2>2. Good(a)
    BY <1>1, <2>1, GoodAfter
  <2>3. Deactivated(a, x) \in Master /\ Moves(a, Deactivated(a, x), 0)
    BY <1>1, <2>1, <2>2, DeactivatedType, DeactivatedMoves
  <2> QED
    BY <1>1, <2>1, <2>3, MovesThen
<1>4. s.alive => Moves(s, Deactivated(s, x), 0) /\ Moves(s, DeactivatedByFault(s, x), 0)
  BY DeactivatedMoves, DeactivatedByFaultMoves
<1>5. Moves(s, s, 0)
  BY Numbers DEF Moves
<1> QED
  BY <1>3, <1>4, <1>5, Zenon DEF DeadMonitor, a
-----------------------------------------------------------------------------
(* The main loop *)

\* A slave that was destroyed has nothing left that counts.
LEMMA NothingLeft ==
  ASSUME TypeOK, Books, Sound
  PROVE  /\ m \in Master /\ Good(m) /\ Kept(m) /\ Off(m) = 0 /\ ~m.uaf
         /\ m.alive \/ ( /\ Destroyed(m) /\ ~m.pkg /\ Loaded(m) = {}
                         /\ m.create = 0 /\ m.active = 0 /\ Waiting(m) = 0
                         /\ m.cmds = <<>> /\ \A p \in Procs : m.sent[p] = <<>> )
<1>1. m \in Master /\ Kept(m) /\ Off(m) = 0 /\ ~m.uaf
  BY DEF TypeOK, Books, Sound
<1> SUFFICES ASSUME ~m.alive
             PROVE  /\ Destroyed(m) /\ ~m.pkg /\ Loaded(m) = {}
                    /\ m.create = 0 /\ m.active = 0 /\ Waiting(m) = 0
                    /\ m.cmds = <<>> /\ \A p \in Procs : m.sent[p] = <<>>
  BY <1>1 DEF Good
<1>2. Destroyed(m) /\ m.refcnt = 0
  BY <1>1 DEF Kept, Destroyed
<1>3. m.create = 0 /\ m.active = 0 /\ Bit(m.pkg) = 0 /\ Waiting(m) = 0
  <2>1. /\ m.create \in Nat /\ m.active \in Nat /\ Bit(m.pkg) \in Nat
        /\ Waiting(m) \in Nat
    BY <1>1, Numbers DEF Sound
  <2> DEFINE a == m.active
             b == Bit(m.pkg)
             c == m.create
             w == Waiting(m)
  <2>2. 0 = 0 - (c + a + b + w) /\ a \in Nat /\ b \in Nat /\ c \in Nat /\ w \in Nat
    BY <1>1, <1>2, <2>1, Zenon DEF Off, Owed
  <2> HIDE DEF a, b, c, w
  <2>3. a = 0 /\ b = 0 /\ c = 0 /\ w = 0
    BY <2>2
  <2> QED
    BY <2>3 DEF a, b, c, w
<1>4. ~m.pkg /\ Loaded(m) = {}
  BY <1>1, <1>3 DEF Bit, Kept
<1>5. Len(m.cmds) = 0 /\ Cardinality(InFlight(m)) = 0
  <2> DEFINE i == Len(m.pend)
             j == Len(m.cmds)
             n == Cardinality(InFlight(m))
  <2>1. i \in Nat /\ j \in Nat /\ n \in Nat /\ i + j + n = 0
    BY <1>1, <1>3, Numbers, Zenon DEF Waiting
  <2> HIDE DEF i, j, n
  <2>2. j = 0 /\ n = 0
    BY <2>1
  <2> QED
    BY <2>2 DEF j, n
<1>6. m.cmds = <<>>
  <2>1. m.cmds \in Seq(Requests)
    BY <1>1, QueueFacts
  <2> QED
    BY <1>5, <2>1
<1>7. ASSUME NEW p \in Procs
      PROVE  m.sent[p] = <<>>
  <2> DEFINE i == Cardinality(Part(m, Procs \ {p}))
             j == Len(m.sent[p])
  <2>1. m.sent[p] \in Seq(Requests) /\ j \in Nat
    BY <1>1, QueueFacts
  <2>2. i \in Nat /\ i + j = 0
    <3>1. Procs \ {p} \in SUBSET Procs
      OBVIOUS
    <3> QED
      BY <1>1, <1>5, <3>1, PartFinite, InFlightSplit, Zenon
  <2> HIDE DEF i
  <2>3. j = 0
    BY <2>1, <2>2
  <2> QED
    BY <2>1, <2>3
<1> QED
  BY <1>2, <1>3, <1>4, <1>6, <1>7

LEMMA BooksAfter ==
  ASSUME TypeOK, Books, Sound, NEW t \in Master, Step(t), Moves(m, t, 0)
  PROVE  Books'
<1>1. Kept(m) /\ Off(m) = 0 /\ ~m.uaf /\ m' = t
  BY NothingLeft, Zenon DEF Step
<1>2. t.uaf \/ (Kept(t) /\ Off(t) = 0)
  BY <1>1 DEF Moves
<1> QED
  BY <1>1, <1>2, Zenon DEF Books

\* A slave with a loaded instance or a running timer is an object.
LEMMA AliveWhenUsed ==
  ASSUME TypeOK, Books, Sound,
         \/ m.live # {} \/ m.ttlT \/ m.actT \/ m.relT \/ m.pong # "off"
         \/ m.pid \in Procs \/ m.cmds # <<>>
         \/ \E p \in Procs : m.sent[p] # <<>>
  PROVE  m.alive
BY NothingLeft, ConstantsAssumption DEF Destroyed, Loaded, NoPid

\* A run that only sets fields that are no part of the books
LEMMA PlainRun ==
  ASSUME TypeOK, Books, Sound, NEW t \in Master, Step(t), Plain(m, t)
  PROVE  Books'
<1>1. Moves(m, t, 0)
  BY NothingLeft, PlainMoves
<1> QED
  BY <1>1, BooksAfter

\* A run that first sets such fields, and then does what moves no reference
LEMMA PlainThenRun ==
  ASSUME TypeOK, Books, Sound, NEW s \in Master, Plain(m, s),
         NEW t \in Master, Good(s) => Moves(s, t, 0), Step(t)
  PROVE  Books'
<1>1. Moves(m, s, 0)
  BY NothingLeft, PlainMoves
<1>2. Good(s)
  BY <1>1, NothingLeft, GoodAfter
<1>3. Moves(m, t, 0)
  BY <1>1, <1>2, NothingLeft, MovesThen
<1> QED
  BY <1>3, BooksAfter

LEMMA RequestInstanceBooks ==
  ASSUME TypeOK, Books, Sound, NEW i \in Insts, NEW x \in Launching,
         RequestInstance(i, x) \/ ReactivateInstance(i, x)
  PROVE  Books'
<1>1. x.launch \in LaunchResults /\ i \in Requests /\ m \in Master
  BY InputsOfRuns DEF Requests, TypeOK
<1>2. m.alive
  <2>1. m.live # {}
    BY DEF RequestInstance, ReactivateInstance
  <2> QED
    BY <2>1, AliveWhenUsed
<1> DEFINE a == Activate(m, x.launch)
           t == Enqueue(m, i, FALSE, x.launch)
           u == Enqueue(a, i, TRUE, x.launch)
<1>3. a \in Master /\ Moves(m, a, 0) /\ (a.alive \/ a.uaf)
  BY <1>1, <1>2, ActivateType, ActivateMoves
<1>4. Step(t) \/ Step(u)
  BY Zenon DEF RequestInstance, ReactivateInstance
<1> HIDE DEF a
<1>5. t \in Master /\ Moves(m, t, 0)
  BY <1>1, <1>2, EnqueueType, EnqueueMoves, Zenon
<1>6. u \in Master /\ Moves(a, u, 0)
  BY <1>1, <1>3, EnqueueType, EnqueueMoves, Zenon
<1> HIDE DEF t, u
<1>7. Moves(m, u, 0)
  BY <1>1, <1>3, <1>6, MovesThen
<1> QED
  BY <1>4, <1>5, <1>6, <1>7, BooksAfter

LEMMA InstanceDeletedBooks ==
  ASSUME TypeOK, Books, Sound, NEW i \in Insts, NEW x \in Stopping,
         InstanceDeleted(i, x)
  PROVE  Books'
<1> DEFINE t == DeactivateIfEmptied(m, Doom(m, {i}), x)
<1>1. x \in Inputs /\ {i} \subseteq m.live /\ Step(t)
  BY InputsOfRuns DEF InstanceDeleted
<1>2. t \in Master /\ Moves(m, t, 0)
  BY <1>1, NothingLeft, DoomThenDeactivateMoves
<1> HIDE DEF t
<1> QED
  BY <1>1, <1>2, BooksAfter

LEMMA PackageActionsBooks ==
  ASSUME TypeOK, Books, Sound,
         \/ ClearFault
         \/ \E b \in BOOLEAN : WaitDeactivation(b)
         \/ \E i \in Insts : UninstallInstance(i)
  PROVE  Books'
<1>1. m \in Master
  BY DEF TypeOK
<1>2. CASE ClearFault
  <2> DEFINE t == [m EXCEPT !.fault = FALSE]
  <2>1. t \in Master /\ Step(t)
    BY <1>1, <1>2, ZenonT(40) DEF Master, ClearFault
  <2>2. Plain(m, t)
    BY <1>1 DEF Plain, SameBooks, Loaded, Destroyed, Master
  <2> HIDE DEF t
  <2> QED
    BY <2>1, <2>2, PlainRun
<1>3. CASE \E b \in BOOLEAN : WaitDeactivation(b)
  <2>1. PICK b \in BOOLEAN : WaitDeactivation(b)
    BY <1>3
  <2> DEFINE t == [m EXCEPT !.wait = b]
  <2>2. t \in Master /\ Step(t)
    BY <1>1, <2>1, ZenonT(40) DEF Master, WaitDeactivation
  <2>3. Plain(m, t)
    BY <1>1 DEF Plain, SameBooks, Loaded, Destroyed, Master
  <2> HIDE DEF t
  <2> QED
    BY <2>2, <2>3, PlainRun
<1>4. CASE \E i \in Insts : UninstallInstance(i)
  <2>1. PICK i \in Insts : UninstallInstance(i)
    BY <1>4
  <2> DEFINE t == Doom(m, {i})
  <2>2. {i} \subseteq m.live /\ Step(t)
    BY <2>1 DEF UninstallInstance
  <2>3. t \in Master /\ Moves(m, t, 0)
    BY <1>1, <2>2, NothingLeft, DoomType, DoomMoves DEF Good
  <2> HIDE DEF t
  <2> QED
    BY <2>2, <2>3, BooksAfter
<1> QED
  BY <1>2, <1>3, <1>4

LEMMA DeactivateAllBooks ==
  ASSUME TypeOK, Books, Sound, NEW x \in Stopping, DeactivateAll(x)
  PROVE  Books'
<1> DEFINE s == [m EXCEPT !.signals = @ + 1]
           a == [s EXCEPT !.reactInst = TRUE, !.reactivate = FALSE]
           t == IF s.signals = 1 /\ s.alive /\ IsActivated(s)
                THEN Deactivate(a, TRUE, x) ELSE s
<1>1. m \in Master /\ x \in Inputs
  BY InputsOfRuns DEF TypeOK
<1>2. s \in Master
  <2>1. m.signals \in 0 .. MaxSignals /\ m.signals < MaxSignals
    BY <1>1, ZenonT(40) DEF Master, DeactivateAll
  <2>2. m.signals + 1 \in 0 .. MaxSignals
    BY <2>1, ConstantsAssumption
  <2> QED
    BY <1>1, <2>2, ZenonT(40) DEF Master
<1>3. Step(t)
  BY Zenon DEF DeactivateAll
<1>4. Plain(m, s)
  BY <1>1 DEF Plain, SameBooks, Loaded, Destroyed, Master
<1> HIDE DEF s
<1>5. a \in Master
  BY <1>2, ZenonT(40) DEF Master
<1>6. Plain(s, a)
  BY <1>2 DEF Plain, SameBooks, Loaded, Destroyed, Master
<1> HIDE DEF a
<1>7. t \in Master
  BY <1>1, <1>2, <1>5, DeactivateType, Zenon
<1>8. ASSUME Good(s), s.alive
      PROVE  Moves(s, Deactivate(a, TRUE, x), 0)
  <2>1. Moves(s, a, 0) /\ (a.alive \/ a.uaf)
    BY <1>2, <1>5, <1>6, <1>8, PlainMoves DEF Plain, SameBooks
  <2>2. Good(a)
    BY <1>2, <1>5, <1>8, <2>1, GoodAfter
  <2> DEFINE d == Deactivate(a, TRUE, x)
  <2>3. d \in Master /\ Moves(a, d, 0)
    BY <1>1, <1>5, <2>1, <2>2, DeactivateType, DeactivateMoves
  <2> HIDE DEF d
  <2>4. Moves(s, d, 0)
    BY <1>2, <1>5, <2>1, <2>3, MovesThen
  <2> QED
    BY <2>4 DEF d
<1>9. Moves(s, s, 0)
  BY <1>2, Numbers DEF Moves
<1>10. Good(s) => Moves(s, t, 0)
  BY <1>8, <1>9, Zenon
<1> HIDE DEF t
<1> QED
  BY <1>2, <1>3, <1>4, <1>7, <1>10, PlainThenRun

LEMMA ActivateAllBooks ==
  ASSUME TypeOK, Books, Sound, NEW x \in Launching, ActivateAll(x)
  PROVE  Books'
<1> DEFINE s == [m EXCEPT !.signals = @ - 1]
           t == IF s.signals = 0 /\ s.alive THEN Activate(s, x.launch) ELSE s
<1>1. m \in Master /\ x.launch \in LaunchResults
  BY InputsOfRuns DEF TypeOK
<1>2. s \in Master
  <2>1. m.signals \in 0 .. MaxSignals /\ m.signals > 0
    BY <1>1, ZenonT(40) DEF Master, ActivateAll
  <2>2. m.signals - 1 \in 0 .. MaxSignals
    BY <2>1, ConstantsAssumption
  <2> QED
    BY <1>1, <2>2, ZenonT(40) DEF Master
<1>3. Step(t)
  BY Zenon DEF ActivateAll
<1>4. Plain(m, s)
  BY <1>1 DEF Plain, SameBooks, Loaded, Destroyed, Master
<1> HIDE DEF s
<1>5. t \in Master
  BY <1>1, <1>2, ActivateType, Zenon
<1>6. Moves(s, s, 0) /\ (s.alive => Moves(s, Activate(s, x.launch), 0))
  BY <1>1, <1>2, Numbers, ActivateMoves DEF Moves
<1>7. Moves(s, t, 0)
  BY <1>6, Zenon
<1> HIDE DEF t
<1> QED
  BY <1>2, <1>3, <1>4, <1>5, <1>7, PlainThenRun

LEMMA XMonitorBooks ==
  ASSUME TypeOK, Books, Sound, NEW x \in Launching, XMonitor(x)
  PROVE  Books'
<1> DEFINE v == IF m.xpaused THEN FALSE ELSE TRUE
           s == [m EXCEPT !.xpaused = v]
           t == IF ~s.alive THEN s
                ELSE IF s.xpaused THEN Pause(s, x.launch) ELSE Resume(s, x.launch)
<1>1. m \in Master /\ v \in BOOLEAN /\ x.launch \in LaunchResults
  BY InputsOfRuns DEF TypeOK
<1>2. ~m.xpaused = v
  <2>1. m.xpaused \in BOOLEAN
    BY <1>1, ZenonT(40) DEF Master
  <2> QED
    BY <2>1
<1>3. [m EXCEPT !.xpaused = ~@] = s
  BY <1>2, Zenon
<1> HIDE DEF v
<1>4. s \in Master
  BY <1>1, ZenonT(40) DEF Master
<1>5. Step(t)
  BY <1>3, <1>4 DEF XMonitor
<1>6. Plain(m, s)
  BY <1>1 DEF Plain, SameBooks, Loaded, Destroyed, Master
<1> HIDE DEF s
<1>7. t \in Master
  BY <1>1, <1>4, PauseType, Zenon
<1>8. /\ Moves(s, s, 0)
      /\ s.alive => Moves(s, Pause(s, x.launch), 0) /\ Moves(s, Resume(s, x.launch), 0)
  BY <1>1, <1>4, Numbers, PauseMoves DEF Moves
<1>9. Moves(s, t, 0)
  BY <1>8, Zenon
<1> HIDE DEF t
<1> QED
  BY <1>4, <1>5, <1>6, <1>7, <1>9, PlainThenRun

\* aul_terminate_pid of no process does not fail.
LEMMA TerminateTimerBooks ==
  ASSUME TypeOK, Books, Sound, NEW x \in Stopping, TerminateTimer(x)
  PROVE  Books'
<1> DEFINE s == [m EXCEPT !.state = "TERMINATE", !.termT = FALSE]
           a == TerminatePid(s, x)
           t == IF x.killOk THEN a ELSE Deactivated(a, x)
<1>1. m \in Master /\ x \in Inputs
  BY InputsOfRuns DEF TypeOK
<1>2. s \in Master
  <2>1. "TERMINATE" \in States
    BY DEF States
  <2> QED
    BY <1>1, <2>1, ZenonT(40) DEF Master
<1>3. Step(t)
  BY Zenon DEF TerminateTimer
<1>4. Plain(m, s)
  BY <1>1 DEF Plain, SameBooks, Loaded, Destroyed, Master
<1>5. ~x.killOk => s.alive
  <2>1. ~x.killOk => m.pid \in Procs
    BY DEF Stopping, Ending
  <2>2. ~x.killOk => m.alive
    BY <2>1, AliveWhenUsed
  <2> QED
    BY <1>4, <2>2 DEF Plain, SameBooks
<1> HIDE DEF s
<1>6. a \in Master /\ Moves(s, a, 0) /\ a.alive = s.alive
  BY <1>2, TerminatePidType, TerminatePidMoves
<1> HIDE DEF a
<1>7. t \in Master
  BY <1>1, <1>6, DeactivatedType, Zenon
<1>8. ASSUME Good(s)
      PROVE  Moves(s, t, 0)
  <2>1. CASE x.killOk
    BY <1>6, <2>1
  <2>2. CASE ~x.killOk
    <3>1. Good(a) /\ a.alive
      BY <1>2, <1>5, <1>6, <1>8, <2>2, GoodAfter
    <3>2. Deactivated(a, x) \in Master /\ Moves(a, Deactivated(a, x), 0)
      BY <1>1, <1>6, <3>1, DeactivatedType, DeactivatedMoves
    <3>3. Moves(s, Deactivated(a, x), 0)
      BY <1>2, <1>6, <3>2, MovesThen
    <3> QED
      BY <2>2, <3>3, Zenon
  <2> QED
    BY <2>1, <2>2, Zenon
<1> HIDE DEF t
<1> QED
  BY <1>2, <1>3, <1>4, <1>7, <1>8, PlainThenRun

LEMMA TtlTimerBooks ==
  ASSUME TypeOK, Books, Sound, NEW x \in Stopping, TtlTimer(x)
  PROVE  Books'
<1> DEFINE a == [m EXCEPT !.ttlT = FALSE]
           b == [a EXCEPT !.reactivate = FALSE, !.reactInst = TRUE]
           t == IF IsActivated(a) THEN Deactivate(b, TRUE, x) ELSE a
<1>1. m \in Master /\ x \in Inputs
  BY InputsOfRuns DEF TypeOK
<1>2. a \in Master
  BY <1>1, ZenonT(40) DEF Master
<1>3. Step(t)
  BY Zenon DEF TtlTimer
<1>4. Plain(m, a) /\ a.alive
  <2>1. m.alive
    BY AliveWhenUsed DEF TtlTimer
  <2> QED
    BY <1>1, <2>1 DEF Plain, SameBooks, Loaded, Destroyed, Master
<1> HIDE DEF a
<1>5. b \in Master
  BY <1>2, ZenonT(40) DEF Master
<1>6. Plain(a, b)
  BY <1>2 DEF Plain, SameBooks, Loaded, Destroyed, Master
<1> HIDE DEF b
<1>7. t \in Master
  BY <1>1, <1>2, <1>5, DeactivateType, Zenon
<1>8. ASSUME Good(a)
      PROVE  Moves(a, Deactivate(b, TRUE, x), 0)
  <2>1. Moves(a, b, 0) /\ b.alive
    BY <1>2, <1>4, <1>5, <1>6, PlainMoves DEF Plain, SameBooks
  <2>2. Good(b)
    BY <1>2, <1>5, <1>8, <2>1, GoodAfter
  <2> DEFINE d == Deactivate(b, TRUE, x)
  <2>3. d \in Master /\ Moves(b, d, 0)
    BY <1>1, <1>5, <2>1, <2>2, DeactivateType, DeactivateMoves
  <2> HIDE DEF d
  <2>4. Moves(a, d, 0)
    BY <1>2, <1>5, <2>1, <2>3, MovesThen
  <2> QED
    BY <2>4 DEF d
<1>9. Moves(a, a, 0)
  BY <1>2, Numbers DEF Moves
<1>10. Good(a) => Moves(a, t, 0)
  BY <1>8, <1>9, Zenon
<1> HIDE DEF t
<1> QED
  BY <1>2, <1>3, <1>4, <1>7, <1>10, PlainThenRun

LEMMA ActivateTimerBooks ==
  ASSUME TypeOK, Books, Sound, NEW x \in Failing, ActivateTimer(x)
  PROVE  Books'
<1> DEFINE s == [m EXCEPT !.relT = FALSE, !.actT = FALSE]
           a == FaultCb(s, x)
           b == [a EXCEPT !.reactivate = FALSE, !.reactInst = FALSE]
           c == TerminatePid(b, x)
           t == IF a.refcnt = 0 THEN a ELSE Deactivated(c, x)
<1>1. m \in Master /\ x \in Inputs
  BY InputsOfRuns DEF TypeOK
<1>2. s \in Master
  BY <1>1, ZenonT(40) DEF Master
<1>3. Step(t)
  BY Zenon DEF ActivateTimer
<1>4. Plain(m, s) /\ s.alive
  <2>1. m.alive
    BY AliveWhenUsed DEF ActivateTimer
  <2> QED
    BY <1>1, <2>1 DEF Plain, SameBooks, Loaded, Destroyed, Master
<1> HIDE DEF s
<1>5. a \in Master /\ (Good(s) => Moves(s, a, 0))
  BY <1>1, <1>2, <1>4, FaultCbType, FaultCbMoves
<1> HIDE DEF a
<1>6. b \in Master
  BY <1>5, SetFlags, Zenon
<1>7. Plain(a, b)
  BY <1>5 DEF Plain, SameBooks, Loaded, Destroyed, Master
<1> HIDE DEF b
<1>8. c \in Master /\ Moves(b, c, 0) /\ c.alive = b.alive /\ c.uaf = b.uaf
  BY <1>6, TerminatePidType, TerminatePidMoves
<1> HIDE DEF c
<1>9. t \in Master
  BY <1>1, <1>5, <1>8, DeactivatedType, Zenon
<1>10. ASSUME Good(s), a.refcnt # 0
       PROVE  Moves(s, Deactivated(c, x), 0)
  <2>1. Moves(s, b, 0) /\ (b.alive \/ b.uaf)
    BY <1>2, <1>5, <1>6, <1>7, <1>10, PlainAfter DEF Plain, SameBooks
  <2>2. Moves(s, c, 0) /\ (c.alive \/ c.uaf)
    BY <1>2, <1>6, <1>8, <2>1, MovesThen
  <2>3. Good(c)
    BY <1>2, <1>8, <1>10, <2>2, GoodAfter
  <2>4. Deactivated(c, x) \in Master /\ Moves(c, Deactivated(c, x), 0)
    BY <1>1, <1>8, <2>2, <2>3, DeactivatedType, DeactivatedMoves
  <2> QED
    BY <1>2, <1>8, <2>2, <2>4, MovesThen
<1>11. Good(s) => Moves(s, t, 0)
  BY <1>5, <1>10, Zenon
<1> HIDE DEF t
<1> QED
  BY <1>2, <1>3, <1>4, <1>9, <1>11, PlainThenRun

LEMMA RelaunchTimerBooks ==
  ASSUME TypeOK, Books, Sound, NEW x \in Relaunching, RelaunchTimer(x)
  PROVE  Books'
<1> DEFINE a == [m EXCEPT !.relT = FALSE, !.actT = FALSE]
           b == [a EXCEPT !.pid = NoPid]
           c == [m EXCEPT !.relaunch = @ - 1, !.pid = NoPid]
           d == [m EXCEPT !.pid = x.launch, !.relT = FALSE, !.mine = @ \cup {x.launch}]
<1>1. m \in Master /\ x \in Inputs /\ x.launch \in LaunchResults /\ m.alive
  BY InputsOfRuns, AliveWhenUsed DEF TypeOK, RelaunchTimer
<1>2. \/ Step(SlaveFault(a, x)) \/ Step(SlaveFault(b, x))
      \/ Step(c) /\ ~Exhausted
      \/ Step(d) /\ x.launch # NoPid /\ x.launch # RetryPid
  BY Zenon DEF RelaunchTimer
<1>3. NoPid \in Procs \cup {NoPid, RetryPid}
  OBVIOUS
<1>4. a \in Master
  BY <1>1, ZenonT(40) DEF Master
<1>5. Plain(m, a) /\ a.alive
  BY <1>1 DEF Plain, SameBooks, Loaded, Destroyed, Master
<1>6. b \in Master
  <2> HIDE DEF a
  <2> QED
    BY <1>3, <1>4, ZenonT(40) DEF Master
<1>7. Plain(m, b) /\ b.alive
  BY <1>1 DEF Plain, SameBooks, Loaded, Destroyed, Master
<1>8. ASSUME NEW s \in Master, Plain(m, s), s.alive, Step(SlaveFault(s, x))
      PROVE  Books'
  <2> DEFINE t == SlaveFault(s, x)
  <2>1. t \in Master /\ (Good(s) => Moves(s, t, 0)) /\ Step(t)
    BY <1>1, <1>8, SlaveFaultType, SlaveFaultMoves
  <2> HIDE DEF t
  <2> QED
    BY <1>8, <2>1, PlainThenRun
<1>9. CASE Step(SlaveFault(a, x)) \/ Step(SlaveFault(b, x))
  <2> HIDE DEF a, b
  <2> QED
    BY <1>4, <1>5, <1>6, <1>7, <1>8, <1>9
<1>10. CASE Step(c) /\ ~Exhausted
  <2>1. m.relaunch \in 0 .. RelaunchCount
    BY <1>1, ZenonT(40) DEF Master
  <2>2. m.relaunch - 1 \in 0 .. RelaunchCount
    BY <1>10, <2>1, ConstantsAssumption DEF Exhausted
  <2>3. c \in Master
    BY <1>1, <1>3, <2>2, ZenonT(40) DEF Master
  <2>4. Plain(m, c)
    BY <1>1 DEF Plain, SameBooks, Loaded, Destroyed, Master
  <2> HIDE DEF c
  <2> QED
    BY <1>10, <2>3, <2>4, PlainRun
<1>11. CASE Step(d) /\ x.launch # NoPid /\ x.launch # RetryPid
  <2>1. x.launch \in Procs
    BY <1>1, <1>11 DEF LaunchResults
  <2>2. m.mine \in SUBSET Procs
    BY <1>1, ZenonT(40) DEF Master
  <2>3. m.mine \cup {x.launch} \in SUBSET Procs /\ x.launch \in Procs \cup {NoPid, RetryPid}
    BY <2>1, <2>2
  <2>4. d \in Master
    BY <1>1, <2>3, ZenonT(40) DEF Master
  <2>5. Plain(m, d)
    BY <1>1 DEF Plain, SameBooks, Loaded, Destroyed, Master
  <2> HIDE DEF d
  <2> QED
    BY <1>11, <2>4, <2>5, PlainRun
<1> QED
  BY <1>2, <1>9, <1>10, <1>11, Zenon

LEMMA PingTimeoutBooks ==
  ASSUME TypeOK, Books, Sound, NEW x \in Failing, PingTimeout(x)
  PROVE  Books'
<1> DEFINE a == [m EXCEPT !.pong = "off"]
           t == IF IsActivated(a) THEN DeactivatedByFault(a, x) ELSE a
<1>1. m \in Master /\ x \in Inputs
  BY InputsOfRuns DEF TypeOK
<1>2. a \in Master
  BY <1>1, ZenonT(40) DEF Master
<1>3. Step(t)
  BY Zenon DEF PingTimeout
<1>4. Plain(m, a) /\ a.alive
  <2>1. m.alive
    BY AliveWhenUsed DEF PingTimeout
  <2> QED
    BY <1>1, <2>1 DEF Plain, SameBooks, Loaded, Destroyed, Master
<1> HIDE DEF a
<1>5. t \in Master
  BY <1>1, <1>2, DeactivatedByFaultType, Zenon
<1>6. Moves(a, a, 0)
  BY <1>2, Numbers DEF Moves
<1>7. Good(a) => Moves(a, DeactivatedByFault(a, x), 0)
  BY <1>1, <1>2, <1>4, DeactivatedByFaultMoves
<1>8. Good(a) => Moves(a, t, 0)
  BY <1>6, <1>7, Zenon
<1> HIDE DEF t
<1> QED
  BY <1>2, <1>3, <1>4, <1>5, <1>8, PlainThenRun

\* Requests to p that are sent or that are answered
LEMMA SentMoves ==
  ASSUME NEW s \in Master, NEW p \in Procs, NEW q \in Seq(Requests)
  PROVE  LET t == [s EXCEPT !.sent[p] = q]
         IN  /\ t \in Master /\ t.alive = s.alive /\ t.uaf = s.uaf
             /\ Moves(s, t, Len(s.sent[p]) - Len(q))
<1> DEFINE t == [s EXCEPT !.sent[p] = q]
           i == Cardinality(Part(s, Procs \ {p}))
           j == Len(s.sent[p])
           n == Len(q)
           k == Len(s.pend)
           l == Len(s.cmds)
<1>1. t \in Master
  BY SetSent
<1>2. s.sent \in [Procs -> Seq(Requests)]
  BY ZenonT(40) DEF Master
<1>3. t.sent[p] = q /\ \A o \in Procs \ {p} : t.sent[o] = s.sent[o]
  <2>1. t.sent = [s.sent EXCEPT ![p] = q]
    BY DEF Master
  <2> HIDE DEF t
  <2> QED
    BY <1>2, <2>1
<1>4. /\ t.refcnt = s.refcnt /\ t.create = s.create /\ t.active = s.active
      /\ t.pkg = s.pkg /\ t.uaf = s.uaf /\ t.alive = s.alive
      /\ t.pend = s.pend /\ t.cmds = s.cmds /\ Loaded(t) = Loaded(s)
      /\ (Destroyed(s) => Destroyed(t))
  BY DEF Master, Loaded, Destroyed
<1> HIDE DEF t
<1>5. Part(t, Procs \ {p}) = Part(s, Procs \ {p})
  BY <1>3 DEF Part
<1>6. /\ Waiting(s) = k + l + (i + j) /\ Waiting(t) = k + l + (i + n)
      /\ i \in Nat /\ j \in Nat /\ n \in Nat /\ k \in Nat /\ l \in Nat
  <2>1. Procs \ {p} \in SUBSET Procs
    OBVIOUS
  <2>2. Cardinality(InFlight(s)) = i + j /\ Cardinality(InFlight(t)) = i + n
    BY <1>1, <1>3, <1>5, InFlightSplit, Zenon
  <2>3. i \in Nat
    BY <2>1, PartFinite
  <2>4. j \in Nat /\ n \in Nat
    BY <1>1, <1>3, QueueFacts, CountOfSequence
  <2>5. k \in Nat /\ l \in Nat
    BY Numbers
  <2> QED
    BY <1>4, <2>2, <2>3, <2>4, <2>5, Zenon DEF Waiting
<1> HIDE DEF i, j, k, l, n
<1>7. Waiting(t) = Waiting(s) + (n - j) /\ n - j \in Int /\ 0 - 0 - 0 - (n - j) = j - n
  BY <1>6
<1>8. t.refcnt = s.refcnt + 0 /\ t.create = s.create + 0 /\ t.active = s.active + 0
  BY <1>4, NumberFields
<1>9. Off(t) = Off(s) + (0 - 0 - 0 - (n - j))
  <2>1. 0 \in Int
    OBVIOUS
  <2> QED
    BY <1>1, <1>4, <1>7, <1>8, <2>1, OffChange
<1>10. Off(t) = Off(s) + (j - n)
  BY <1>7, <1>9, Zenon
<1>11. Moves(s, t, j - n)
  BY <1>4, <1>10 DEF Moves, Kept
<1> QED
  BY <1>1, <1>4, <1>11 DEF t, j, n

\* command_consumer_cb takes a command off the list.
LEMMA TakeMoves ==
  ASSUME NEW s \in Master, s.cmds # <<>>
  PROVE  LET t == [s EXCEPT !.cmds = Tail(@)]
         IN  /\ t \in Master /\ t.alive = s.alive /\ t.uaf = s.uaf
             /\ Moves(s, t, 1)
<1> DEFINE t == [s EXCEPT !.cmds = Tail(@)]
           i == Len(s.pend)
           j == Len(s.cmds)
<1>1. /\ Tail(s.cmds) \in Seq(Requests) /\ Len(Tail(s.cmds)) = j - 1
      /\ j \in Nat /\ i \in Nat
  BY QueueFacts
<1>2. t \in Master
  BY <1>1, ZenonT(40) DEF Master
<1>3. /\ t.refcnt = s.refcnt /\ t.create = s.create /\ t.active = s.active
      /\ t.pkg = s.pkg /\ t.uaf = s.uaf /\ t.alive = s.alive /\ t.sent = s.sent
      /\ t.pend = s.pend /\ t.cmds = Tail(s.cmds) /\ Loaded(t) = Loaded(s)
      /\ (Destroyed(s) => Destroyed(t))
  BY DEF Master, Loaded, Destroyed
<1> HIDE DEF t
<1>4. Len(t.pend) = i /\ Len(t.cmds) = j - 1
  BY <1>1, <1>3, Zenon
<1> HIDE DEF i, j
<1>5. i + (j - 1) = (i + j) + -1 /\ -1 \in Int /\ 0 \in Int /\ 0 - 0 - 0 - -1 = 1
  BY <1>1
<1>6. Len(t.pend) + Len(t.cmds) = Len(s.pend) + Len(s.cmds) + -1
  BY <1>4, <1>5, Zenon DEF i, j
<1>7. Waiting(t) = Waiting(s) + -1
  BY <1>2, <1>3, <1>5, <1>6, WaitingChange
<1>8. t.refcnt = s.refcnt + 0 /\ t.create = s.create + 0 /\ t.active = s.active + 0
  BY <1>3, NumberFields
<1>9. Off(t) = Off(s) + (0 - 0 - 0 - -1)
  BY <1>2, <1>3, <1>5, <1>7, <1>8, OffChange
<1>10. Off(t) = Off(s) + 1
  BY <1>5, <1>9, Zenon
<1> QED
  BY <1>2, <1>3, <1>10 DEF Moves, Kept, t

LEMMA ConsumeBooks ==
  ASSUME TypeOK, Books, Sound, Consume
  PROVE  Books'
<1> DEFINE c == Head(m.cmds)
           a == [m EXCEPT !.cmds = Tail(@)]
           b == [a EXCEPT !.asked = @ \cup {a.handle}]
           q == Append(a.sent[a.handle], c)
           d == [a EXCEPT !.sent[a.handle] = Append(@, c)]
           e == [a EXCEPT !.sent[a.handle] = q]
           f == AnswerNull(a, <<c>>)
           t == IF ~IsActivated(a) \/ a.handle = NoPid THEN f
                ELSE IF c = "disconnect" THEN Unref(b) ELSE d
<1>1. m \in Master /\ m.cmds # <<>> /\ m.cmds \in Seq(Requests)
  BY QueueFacts DEF TypeOK, Consume
<1>2. Step(t)
  BY Zenon DEF Consume
<1>3. c \in Requests /\ <<c>> \in Seq(Requests) /\ Len(<<c>>) = 1
  BY <1>1
<1>4. a \in Master /\ Moves(m, a, 1)
  BY <1>1, TakeMoves
<1> HIDE DEF a, c
<1>5. Good(a)
  BY <1>4, NothingLeft, GoodAfter
<1>6. f \in Master /\ Moves(m, f, 0)
  <2>1. f \in Master /\ Moves(a, f, -1)
    <3>1. f \in Master /\ Moves(a, f, -Len(<<c>>))
      BY <1>3, <1>4, <1>5, AnswerNullType, AnswerNullMoves DEF Good
    <3> QED
      BY <1>3, <3>1, Zenon
  <2> HIDE DEF f
  <2>2. 1 + -1 = 0 /\ 1 \in Int /\ -1 \in Int
    OBVIOUS
  <2>3. Moves(m, f, 1 + -1)
    BY <1>1, <1>4, <2>1, <2>2, MovesTrans
  <2> QED
    BY <2>1, <2>2, <2>3, Zenon
<1>7. ASSUME a.handle # NoPid
      PROVE  /\ Unref(b) \in Master /\ Moves(m, Unref(b), 0)
             /\ d \in Master /\ Moves(m, d, 0)
  <2>1. a.handle \in Procs /\ a.asked \cup {a.handle} \in SUBSET Procs
    <3>1. a.handle \in Procs \cup {NoPid} /\ a.asked \in SUBSET Procs
      BY <1>4, ZenonT(40) DEF Master
    <3> QED
      BY <1>7, <3>1
  <2>2. b \in Master
    BY <1>4, <2>1, ZenonT(40) DEF Master
  <2>3. Plain(a, b)
    BY <1>4 DEF Plain, SameBooks, Loaded, Destroyed, Master
  <2> HIDE DEF b
  <2>4. Moves(m, b, 1)
    <3>1. Moves(a, b, 0) /\ 1 + 0 = 1
      BY <1>4, <2>2, <2>3, PlainMoves
    <3>2. Moves(m, b, 1 + 0)
      BY <1>1, <1>4, <2>2, <3>1, MovesTrans
    <3> QED
      BY <3>1, <3>2, Zenon
  <2>5. Moves(m, Unref(b), 1 - 1) /\ 1 - 1 = 0
    BY <1>1, <2>2, <2>4, UnrefAfter
  <2>6. /\ a.sent[a.handle] \in Seq(Requests) /\ q \in Seq(Requests)
        /\ Len(q) = Len(a.sent[a.handle]) + 1 /\ Len(a.sent[a.handle]) \in Nat
    <3>1. a.sent[a.handle] \in Seq(Requests)
      BY <1>4, <2>1, QueueFacts
    <3> QED
      BY <1>3, <3>1
  <2>7. d = e
    OBVIOUS
  <2>8. e \in Master /\ Moves(a, e, Len(a.sent[a.handle]) - Len(q))
    <3> HIDE DEF q
    <3> QED
      BY <1>4, <2>1, <2>6, SentMoves, Zenon
  <2> HIDE DEF e, q
  <2>9. Moves(m, e, 0)
    <3>1. Len(a.sent[a.handle]) - Len(q) = -1 /\ 1 + -1 = 0 /\ 1 \in Int /\ -1 \in Int
      BY <2>6
    <3>2. Moves(a, e, -1)
      BY <2>8, <3>1, Zenon
    <3>3. Moves(m, e, 1 + -1)
      BY <1>1, <1>4, <2>8, <3>1, <3>2, MovesTrans
    <3> QED
      BY <3>1, <3>3, Zenon
  <2> QED
    BY <2>2, <2>5, <2>7, <2>8, <2>9, UnrefType, Zenon DEF b
<1> HIDE DEF b, d, f
<1>8. t \in Master /\ Moves(m, t, 0)
  BY <1>6, <1>7, Zenon
<1> HIDE DEF t
<1> QED
  BY <1>2, <1>8, BooksAfter

LEMMA HelloBooks ==
  ASSUME TypeOK, Books, Sound, NEW p \in Procs, NEW known \in BOOLEAN,
         NEW x \in Launching, Hello(p, known, x)
  PROVE  Books'
<1> DEFINE a == [m EXCEPT !.asked = @ \cup {p}]
           b == [m EXCEPT !.pid = p]
           t == UpdateHandle(b, p, x)
<1>1. m \in Master /\ x \in Inputs /\ x.launch \in LaunchResults
  BY InputsOfRuns DEF TypeOK
<1>2. Step(m) \/ Step(a) \/ (Step(t) /\ m.alive)
  BY Zenon DEF Hello
<1>3. CASE Step(m)
  <2>1. Plain(m, m)
    BY DEF Plain, SameBooks
  <2> QED
    BY <1>1, <1>3, <2>1, PlainRun
<1>4. CASE Step(a)
  <2>1. m.asked \in SUBSET Procs
    BY <1>1, ZenonT(40) DEF Master
  <2>2. m.asked \cup {p} \in SUBSET Procs
    BY <2>1
  <2>3. a \in Master
    BY <1>1, <2>2, ZenonT(40) DEF Master
  <2>4. Plain(m, a)
    BY <1>1 DEF Plain, SameBooks, Loaded, Destroyed, Master
  <2> HIDE DEF a
  <2> QED
    BY <1>4, <2>3, <2>4, PlainRun
<1>5. CASE Step(t) /\ m.alive
  <2>1. b \in Master
    <3>1. p \in Procs \cup {NoPid, RetryPid}
      OBVIOUS
    <3> QED
      BY <1>1, <3>1, ZenonT(40) DEF Master
  <2>2. Plain(m, b) /\ b.alive
    BY <1>1, <1>5 DEF Plain, SameBooks, Loaded, Destroyed, Master
  <2> HIDE DEF b
  <2>3. t \in Master /\ (Good(b) => Moves(b, t, 0))
    BY <1>1, <2>1, <2>2, UpdateHandleType, UpdateHandleMoves
  <2> HIDE DEF t
  <2> QED
    BY <1>5, <2>1, <2>2, <2>3, PlainThenRun
<1> QED
  BY <1>2, <1>3, <1>4, <1>5

LEMMA CtrlBooks ==
  ASSUME TypeOK, Books, Sound, NEW p \in Procs,
         NEW options \in SUBSET (Rare \cap {"term", "react"}), Ctrl(p, options)
  PROVE  Books'
<1> DEFINE t == [m EXCEPT !.ctrl = options]
<1>1. m \in Master /\ options \in SUBSET {"term", "react"}
  BY DEF TypeOK
<1>2. t \in Master /\ Step(t)
  BY <1>1, ZenonT(40) DEF Master, Ctrl
<1>3. Plain(m, t)
  BY <1>1 DEF Plain, SameBooks, Loaded, Destroyed, Master
<1> HIDE DEF t
<1> QED
  BY <1>2, <1>3, PlainRun

\* Every branch of slave_async_cb ends in the slave_unref of destroy_command.
LEMMA AnswerBooks ==
  ASSUME TypeOK, Books, Sound, NEW p \in Procs, NEW ok \in BOOLEAN,
         NEW x \in Stopping, Answer(p, ok, x)
  PROVE  Books'
<1> DEFINE r == Head(m.sent[p])
           a == [m EXCEPT !.sent[p] = Tail(@)]
           a1 == [m EXCEPT !.sent[p] = Tail(m.sent[p])]
           own == r \in {"pause", "resume"}
           st == IF r = "pause" THEN "PAUSED" ELSE "RESUMED"
           pg == IF a.pong = "off" THEN "off"
                 ELSE IF r = "pause" THEN "frozen" ELSE "on"
           b1 == [a EXCEPT !.state = st, !.pong = pg]
           b == IF ~ok \/ a.state \in Leaving THEN a
                ELSE [a EXCEPT !.state = st,
                               !.pong = IF @ = "off" THEN "off"
                                        ELSE IF r = "pause" THEN "frozen" ELSE "on"]
           D == IF ok THEN {} ELSE {r} \cap a.live
           c == Doom(a, D)
           S == {i \in c.doomed : ~Held(c, i)}
           d == Unlink(c, S)
           e == DeactivateIfEmptied(a, d, x)
           f == IF own THEN b ELSE e
<1>1. m \in Master /\ x \in Inputs
  BY InputsOfRuns DEF TypeOK
<1>2. Step(Unref(f))
  BY Zenon DEF Answer
<1>3. a \in Master /\ Moves(m, a, 1) /\ a.alive
  <2>1. m.sent[p] \in Seq(Requests) /\ m.sent[p] # <<>>
    BY <1>1, QueueFacts DEF Answer
  <2>2. /\ Tail(m.sent[p]) \in Seq(Requests)
        /\ Len(m.sent[p]) - Len(Tail(m.sent[p])) = 1
    BY <2>1
  <2>3. /\ a1 \in Master /\ a1.alive = m.alive
        /\ Moves(m, a1, Len(m.sent[p]) - Len(Tail(m.sent[p])))
    BY <1>1, <2>2, SentMoves, Zenon
  <2>4. m.alive
    BY <2>1, AliveWhenUsed
  <2>5. a = a1
    OBVIOUS
  <2> HIDE DEF a, a1
  <2> QED
    BY <2>2, <2>3, <2>4, <2>5, Zenon
<1> HIDE DEF a, a1, r
<1>4. Good(a)
  BY <1>1, <1>3, NothingLeft, GoodAfter
<1>5. b \in Master /\ Moves(a, b, 0)
  <2>1. st \in States /\ pg \in {"off", "on", "frozen"}
    BY DEF States
  <2>2. b = a \/ b = b1
    BY Zenon
  <2> HIDE DEF st, pg, b
  <2>3. b1 \in Master
    BY <1>3, <2>1, ZenonT(40) DEF Master
  <2>4. Plain(a, b1)
    BY <1>3 DEF Plain, SameBooks, Loaded, Destroyed, Master
  <2> HIDE DEF b1
  <2>5. Moves(a, b1, 0)
    BY <1>3, <2>3, <2>4, PlainMoves
  <2>6. Moves(a, a, 0)
    BY <1>3, Numbers DEF Moves
  <2> QED
    BY <1>3, <2>2, <2>3, <2>5, <2>6
<1> HIDE DEF b, b1, st, pg
<1>6. c \in Master /\ Moves(a, c, 0)
  <2>1. D \subseteq a.live /\ a.live \subseteq Insts
    BY <1>3, SetFields
  <2> HIDE DEF D
  <2>2. D \in SUBSET Insts
    BY <2>1
  <2> QED
    BY <1>3, <1>4, <2>1, <2>2, DoomType, DoomMoves DEF Good
<1> HIDE DEF c, D
<1>7. Good(c)
  BY <1>3, <1>4, <1>6, GoodAfter
<1>8. d \in Master /\ Moves(c, d, 0)
  <2>1. S \subseteq Loaded(c)
    BY DEF Loaded
  <2> HIDE DEF S
  <2> QED
    BY <1>6, <1>7, <2>1, UnlinkType, UnlinkMoves DEF Good
<1> HIDE DEF d, S
<1>9. Good(d)
  BY <1>6, <1>7, <1>8, GoodAfter
<1>10. e \in Master /\ Moves(d, e, 0)
  BY <1>1, <1>8, <1>9, DeactivateIfEmptiedType, DeactivateIfEmptiedMoves
<1> HIDE DEF e
<1>11. Moves(a, e, 0)
  <2>1. Moves(c, e, 0)
    BY <1>6, <1>8, <1>10, MovesThen
  <2> QED
    BY <1>3, <1>6, <1>10, <2>1, MovesThen
<1>12. f \in Master /\ Moves(a, f, 0)
  <2> HIDE DEF own
  <2> QED
    BY <1>5, <1>10, <1>11, Zenon
<1> HIDE DEF f
<1>13. Moves(m, f, 1)
  <2>1. 1 \in Int /\ 0 \in Int /\ 1 + 0 = 1
    OBVIOUS
  <2>2. Moves(m, f, 1 + 0)
    BY <1>1, <1>3, <1>12, <2>1, MovesTrans
  <2> QED
    BY <2>1, <2>2, Zenon
<1>14. Unref(f) \in Master /\ Moves(m, Unref(f), 0)
  <2>1. Moves(m, Unref(f), 1 - 1) /\ 1 - 1 = 0
    BY <1>1, <1>12, <1>13, UnrefAfter
  <2> QED
    BY <1>12, <2>1, UnrefType, Zenon
<1> QED
  BY <1>2, <1>14, BooksAfter

LEMMA DisconnectBooks ==
  ASSUME TypeOK, Books, Sound, NEW p \in Procs, NEW x \in Failing, Disconnect(p, x)
  PROVE  Books'
<1> DEFINE a == DeadMonitor(m, p, x)
           lost == a.sent[p]
           b == [a EXCEPT !.sent[p] = <<>>]
           c == AnswerNull(b, lost)
           d == DeactivateIfEmptied(b, c, x)
           t == IF lost = <<>> THEN a ELSE d
           n == Len(lost)
<1>1. m \in Master /\ x \in Inputs /\ Good(m)
  BY InputsOfRuns, NothingLeft DEF TypeOK
<1>2. Step(t)
  BY Zenon DEF Disconnect
<1>3. a \in Master /\ Moves(m, a, 0)
  BY <1>1, DeadMonitorType, DeadMonitorMoves
<1> HIDE DEF a
<1>4. lost \in Seq(Requests) /\ <<>> \in Seq(Requests) /\ Len(<<>>) = 0 /\ n \in Nat
  <2>1. lost \in Seq(Requests)
    BY <1>3, QueueFacts
  <2> HIDE DEF lost
  <2> QED
    BY <2>1
<1>5. b \in Master /\ Moves(a, b, n)
  <2>1. b \in Master /\ Moves(a, b, n - 0)
    <3>1. b \in Master /\ Moves(a, b, n - Len(<<>>))
      BY <1>3, <1>4, SentMoves, Zenon
    <3> QED
      BY <1>4, <3>1, Zenon
  <2> HIDE DEF b, n
  <2>2. n - 0 = n
    BY <1>4
  <2> QED
    BY <2>1, <2>2, Zenon
<1> HIDE DEF b
<1>6. Good(a)
  BY <1>1, <1>3, GoodAfter
<1> HIDE DEF lost
<1>7. n \in Int /\ -n \in Int /\ n + -n = 0
  <2> HIDE DEF n
  <2> QED
    BY <1>4
<1>8. Good(b)
  <2> HIDE DEF n
  <2> QED
    BY <1>3, <1>5, <1>6, <1>7, GoodAfter
<1>9. c \in Master /\ Moves(b, c, -n)
  BY <1>4, <1>5, <1>8, AnswerNullType, AnswerNullMoves, Zenon DEF Good
<1> HIDE DEF c, n
<1>10. Good(c)
  BY <1>5, <1>7, <1>8, <1>9, GoodAfter
<1>11. Moves(a, c, 0)
  <2>1. Moves(a, c, n + -n)
    BY <1>3, <1>5, <1>7, <1>9, MovesTrans
  <2> QED
    BY <1>7, <2>1, Zenon
<1>12. d \in Master /\ Moves(c, d, 0)
  BY <1>1, <1>9, <1>10, DeactivateIfEmptiedType, DeactivateIfEmptiedMoves
<1> HIDE DEF d
<1>13. Moves(m, d, 0)
  <2>1. Moves(a, d, 0)
    BY <1>3, <1>9, <1>11, <1>12, MovesThen
  <2> QED
    BY <1>1, <1>3, <1>12, <2>1, MovesThen
<1>14. t \in Master /\ Moves(m, t, 0)
  BY <1>3, <1>12, <1>13, Zenon
<1> HIDE DEF t
<1> QED
  BY <1>2, <1>14, BooksAfter

LEMMA ProcessActionsBooks ==
  ASSUME TypeOK, Books, Sound, NEW p \in Procs, SendHello(p) \/ Die(p) \/ Reuse(p)
  PROVE  Books'
<1>1. CASE SendHello(p) \/ Die(p)
  <2>1. m' = m
    BY <1>1 DEF SendHello, Die
  <2> QED
    BY <2>1, Zenon DEF Books
<1>2. CASE Reuse(p)
  <2> DEFINE t == [m EXCEPT !.mine = @ \ {p}, !.asked = @ \ {p}]
  <2>1. m \in Master /\ m' = t
    BY <1>2, Zenon DEF TypeOK, Reuse
  <2>2. m.mine \ {p} \in SUBSET Procs /\ m.asked \ {p} \in SUBSET Procs
    BY <2>1, SetFields
  <2>3. t \in Master
    BY <2>1, <2>2, ZenonT(40) DEF Master
  <2>4. Plain(m, t)
    BY <2>1 DEF Plain, SameBooks, Loaded, Destroyed, Master
  <2> HIDE DEF t
  <2>5. t.uaf \/ (Kept(t) /\ Off(t) = 0)
    <3>1. Moves(m, t, 0)
      BY <2>1, <2>3, <2>4, PlainMoves
    <3> QED
      BY <3>1, NothingLeft DEF Moves
  <2> QED
    BY <2>1, <2>5, Zenon DEF Books
<1> QED
  BY <1>1, <1>2

\* package_add_instance and slave_load_instance on the slave that is found
\* or created
LEMMA NewInstance ==
  ASSUME TypeOK, Books, Sound, NEW i \in Insts
  PROVE  LET s == IF m.alive THEN m ELSE NewSlave(m)
             t == IF s.pkg THEN s ELSE [s EXCEPT !.pkg = TRUE, !.refcnt = @ + 1]
             u == [t EXCEPT !.live = @ \cup {i}]
         IN  /\ u \in Master /\ u.alive /\ ~u.uaf /\ Kept(u) /\ Off(u) = 0
             /\ u.pkg /\ i \in Loaded(u)
             /\ IF m.alive THEN u.create = m.create /\ u.active = m.active
                ELSE u.create = 1 /\ u.active = 0
<1> DEFINE s == IF m.alive THEN m ELSE NewSlave(m)
           s1 == [s EXCEPT !.pkg = TRUE, !.refcnt = @ + 1]
           t == IF s.pkg THEN s ELSE s1
           u == [t EXCEPT !.live = @ \cup {i}]
<1>1. m \in Master
  BY DEF TypeOK
<1>2. s \in Master /\ s.alive /\ Kept(s) /\ Off(s) = 0 /\ ~s.uaf
      /\ IF m.alive THEN s.create = m.create /\ s.active = m.active
         ELSE s.create = 1 /\ s.active = 0
  <2>1. CASE m.alive
    BY <1>1, <2>1, NothingLeft, Zenon
  <2>2. CASE ~m.alive
    <3> DEFINE v == NewSlave(m)
    <3>1. v \in Master
      BY <1>1, NewSlaveType
    <3>2. /\ v.alive /\ v.refcnt = 1 /\ v.create = 1 /\ v.active = 0
          /\ v.pkg = m.pkg /\ v.uaf = m.uaf /\ v.pend = m.pend /\ v.cmds = m.cmds
          /\ v.sent = m.sent /\ Loaded(v) = Loaded(m)
      BY <1>1 DEF NewSlave, Master, Loaded
    <3> HIDE DEF v
    <3>3. Waiting(v) = Waiting(m)
      BY <3>2 DEF Waiting, InFlight
    <3>4. ~v.pkg /\ Loaded(v) = {} /\ Waiting(v) = 0 /\ ~v.uaf
      BY <2>2, <3>2, <3>3, NothingLeft
    <3>5. Off(v) = 0
      <4>1. Bit(v.pkg) = 0
        BY <3>4 DEF Bit
      <4>2. 0 \in Int /\ 1 \in Int /\ 1 - (1 + 0 + 0 + 0) = 0
        OBVIOUS
      <4>3. Off(v) = 1 - (1 + 0 + 0 + 0)
        BY <3>2, <3>4, <4>1, Zenon DEF Off, Owed
      <4> QED
        BY <4>2, <4>3, Zenon
    <3>6. s = v
      BY <2>2 DEF v
    <3> HIDE DEF s
    <3> QED
      BY <2>2, <3>1, <3>2, <3>4, <3>5, <3>6 DEF Kept
  <2> QED
    BY <2>1, <2>2
<1> HIDE DEF s
<1>3. t \in Master /\ t.alive /\ t.pkg /\ Off(t) = 0 /\ ~t.uaf
      /\ t.create = s.create /\ t.active = s.active
  <2>1. CASE s.pkg
    BY <1>2, <2>1
  <2>2. CASE ~s.pkg
    <3>1. s.refcnt + 1 \in Nat /\ s.refcnt \in Nat /\ s.create \in Int /\ s.active \in Int
          /\ Waiting(s) \in Nat
      BY <1>2, Numbers
    <3>2. s1 \in Master
      <4>1. s \in Master
        BY <1>2
      <4>2. s.refcnt + 1 \in Nat /\ TRUE \in BOOLEAN
        BY <3>1
      <4> QED
        BY <4>1, <4>2, ZenonT(40) DEF Master
    <3>3. /\ s1.alive /\ s1.pkg /\ s1.refcnt = s.refcnt + 1 /\ s1.create = s.create
          /\ s1.active = s.active /\ ~s1.uaf /\ s1.pend = s.pend /\ s1.cmds = s.cmds
          /\ s1.sent = s.sent
      BY <1>2 DEF Master
    <3> HIDE DEF s1
    <3>4. Waiting(s1) = Waiting(s) /\ Bit(s1.pkg) = 1 /\ Bit(s.pkg) = 0
      BY <2>2, <3>3 DEF Waiting, InFlight, Bit
    <3>5. Off(s1) = Off(s)
      <4> DEFINE r == s.refcnt
                 c == s.create
                 k == s.active
                 w == Waiting(s)
      <4>1. r \in Int /\ r + 1 \in Int /\ c \in Int /\ k \in Int /\ w \in Int
            /\ 0 \in Int /\ 1 \in Int
        BY <3>1
      <4>2. Off(s) = r - (c + k + 0 + w)
        BY <3>4, Zenon DEF Off, Owed
      <4> HIDE DEF r, c, k, w
      <4>5. s1.refcnt = r + 1 /\ s1.create = c /\ s1.active = k
            /\ Bit(s1.pkg) = 1 /\ Waiting(s1) = w
        BY <3>3, <3>4, Zenon DEF r, c, k, w
      <4>3. Off(s1) = (r + 1) - (c + k + 1 + w)
        BY <4>5, Zenon DEF Off, Owed
      <4>4. (r + 1) - (c + k + 1 + w) = r - (c + k + 0 + w)
        BY <4>1
      <4> QED
        BY <4>2, <4>3, <4>4, Zenon
    <3>6. t = s1
      BY <2>2
    <3> HIDE DEF t
    <3> QED
      BY <1>2, <3>2, <3>3, <3>5, <3>6
  <2> QED
    BY <2>1, <2>2
<1> HIDE DEF t
<1>4. u \in Master
  <2>1. t \in Master
    BY <1>3
  <2>2. t.live \cup {i} \in SUBSET Insts
    BY <2>1, SetFields
  <2> QED
    BY <2>1, <2>2, ZenonT(40) DEF Master
<1>5. SameBooks(t, u) /\ i \in Loaded(u)
  BY <1>3 DEF SameBooks, Loaded, Master
<1> HIDE DEF u
<1>6. u.alive /\ ~u.uaf /\ Kept(u) /\ Off(u) = 0
  <2>1. Off(u) = Off(t)
    BY <1>5, SameOff
  <2> QED
    BY <1>3, <1>5, <2>1 DEF SameBooks, Kept
<1>7. /\ u.pkg /\ i \in Loaded(u)
      /\ IF m.alive THEN u.create = m.create /\ u.active = m.active
         ELSE u.create = 1 /\ u.active = 0
  BY <1>2, <1>3, <1>5 DEF SameBooks
<1> QED
  BY <1>4, <1>6, <1>7, Zenon DEF s, t, u, s1

\* slave_create takes the first reference, package_add_instance the package's.
LEMMA CreateInstanceBooks ==
  ASSUME TypeOK, Books, Sound, NEW i \in Insts, NEW x \in Launching,
         CreateInstance(i, x)
  PROVE  Books'
<1> DEFINE s == IF m.alive THEN m ELSE NewSlave(m)
           s1 == [s EXCEPT !.pkg = TRUE, !.refcnt = @ + 1]
           t == IF s.pkg THEN s ELSE s1
           u == [t EXCEPT !.live = @ \cup {i}]
           a == Activate(u, x.launch)
           b == Enqueue(a, i, TRUE, x.launch)
<1>1. m \in Master /\ x.launch \in LaunchResults /\ i \in Requests
  BY InputsOfRuns DEF TypeOK, Requests
<1>2. Step(b)
  BY Zenon DEF CreateInstance
<1> HIDE DEF u
<1>3. u \in Master /\ u.alive /\ ~u.uaf /\ Kept(u) /\ Off(u) = 0
  BY NewInstance, Zenon DEF u
<1>4. a \in Master /\ Moves(u, a, 0) /\ (a.alive \/ a.uaf)
  BY <1>1, <1>3, ActivateType, ActivateMoves
<1> HIDE DEF a
<1>5. b \in Master /\ Moves(a, b, 0)
  BY <1>1, <1>4, EnqueueType, EnqueueMoves, Zenon
<1> HIDE DEF b
<1>6. Moves(u, b, 0)
  BY <1>3, <1>4, <1>5, MovesThen
<1>7. b.uaf \/ (Kept(b) /\ Off(b) = 0)
  BY <1>3, <1>6 DEF Moves
<1>8. m' = b
  BY <1>2, Zenon DEF Step
<1> QED
  BY <1>7, <1>8, Zenon DEF Books
-----------------------------------------------------------------------------
(* The theorems *)

LEMMA InitBooks == Init => Books
<1> SUFFICES ASSUME Init
             PROVE  Kept(m) /\ Off(m) = 0
  BY DEF Books
<1>1. m \in Master
  BY InitType DEF TypeOK
<1>2. /\ ~m.alive /\ m.refcnt = 0 /\ m.create = 0 /\ m.active = 0 /\ ~m.pkg
      /\ m.pid = NoPid /\ m.handle = NoPid /\ m.live = {} /\ m.doomed = {}
      /\ ~m.ttlT /\ ~m.actT /\ ~m.relT /\ m.pong = "off"
      /\ m.pend = <<>> /\ m.cmds = <<>> /\ m.sent = [p \in Procs |-> <<>>]
  BY DEF Init
<1>3. InFlight(m) = {}
  BY <1>2 DEF InFlight
<1>4. Waiting(m) = 0
  <2>1. Cardinality(InFlight(m)) = 0
    BY <1>3, FS_EmptySet, Zenon
  <2>2. Len(m.pend) = 0 /\ Len(m.cmds) = 0
    BY <1>2
  <2> QED
    BY <2>1, <2>2 DEF Waiting
<1>5. Off(m) = 0
  <2>1. Bit(m.pkg) = 0
    BY <1>2 DEF Bit
  <2>2. 0 \in Int /\ 0 - (0 + 0 + 0 + 0) = 0
    OBVIOUS
  <2>3. Off(m) = 0 - (0 + 0 + 0 + 0)
    BY <1>2, <1>4, <2>1, Zenon DEF Off, Owed
  <2> QED
    BY <2>2, <2>3, Zenon
<1>6. Kept(m)
  BY <1>2 DEF Kept, Destroyed, Loaded
<1> QED
  BY <1>5, <1>6

LEMMA NextBooks == TypeOK /\ Books /\ [Next]_vars => Books'
<1> SUFFICES ASSUME TypeOK, Books, [Next]_vars PROVE Books'
  OBVIOUS
<1>1. CASE UNCHANGED vars
  <2>1. m' = m
    BY <1>1 DEF vars
  <2> QED
    BY <2>1, Zenon DEF Books
<1>2. CASE Next
  <2> Sound
    BY <1>2, Zenon DEF Next
  <2>2. ASSUME NEW x \in Launching, NEW i \in Insts, CreateInstance(i, x)
        PROVE  Books'
    BY <2>2, CreateInstanceBooks
  <2>3. ASSUME NEW x \in Launching, NEW i \in Insts,
               RequestInstance(i, x) \/ ReactivateInstance(i, x) PROVE Books'
    BY <2>3, RequestInstanceBooks
  <2>4. ASSUME NEW x \in Launching, ActivateAll(x) PROVE Books'
    BY <2>4, ActivateAllBooks
  <2>5. ASSUME NEW x \in Launching, XMonitor(x) PROVE Books'
    BY <2>5, XMonitorBooks
  <2>6. ASSUME NEW x \in Launching, NEW p \in Procs, NEW known \in BOOLEAN,
               Hello(p, known, x) PROVE Books'
    BY <2>6, HelloBooks
  <2>7. ASSUME NEW x \in Stopping, NEW i \in Insts, InstanceDeleted(i, x)
        PROVE  Books'
    BY <2>7, InstanceDeletedBooks
  <2>8. ASSUME NEW x \in Stopping, DeactivateAll(x) PROVE Books'
    BY <2>8, DeactivateAllBooks
  <2>9. ASSUME NEW x \in Stopping, TerminateTimer(x) PROVE Books'
    BY <2>9, TerminateTimerBooks
  <2>10. ASSUME NEW x \in Stopping, TtlTimer(x) PROVE Books'
    BY <2>10, TtlTimerBooks
  <2>11. ASSUME NEW x \in Stopping, NEW p \in Procs, NEW ok \in BOOLEAN,
                Answer(p, ok, x) PROVE Books'
    BY <2>11, AnswerBooks
  <2>12. ASSUME NEW x \in Expiring, ActivateTimer(x) PROVE Books'
    BY <2>12, ActivateTimerBooks DEF Expiring
  <2>13. ASSUME NEW x \in Failing, PingTimeout(x) PROVE Books'
    BY <2>13, PingTimeoutBooks
  <2>14. ASSUME NEW x \in Failing, NEW p \in Procs, Disconnect(p, x) PROVE Books'
    BY <2>14, DisconnectBooks
  <2>15. ASSUME NEW x \in Relaunching, RelaunchTimer(x) PROVE Books'
    BY <2>15, RelaunchTimerBooks
  <2>16. ASSUME \/ ClearFault
                \/ \E b \in BOOLEAN : WaitDeactivation(b)
                \/ \E i \in Insts : UninstallInstance(i) PROVE Books'
    BY <2>16, PackageActionsBooks
  <2>17. ASSUME Consume PROVE Books'
    BY <2>17, ConsumeBooks
  <2>18. ASSUME NEW p \in Procs, NEW options \in SUBSET (Rare \cap {"term", "react"}),
                Ctrl(p, options) PROVE Books'
    BY <2>18, CtrlBooks
  <2>19. ASSUME NEW p \in Procs, SendHello(p) \/ Die(p) \/ Reuse(p) PROVE Books'
    BY <2>19, ProcessActionsBooks
  <2> QED
    BY <1>2, <2>2, <2>3, <2>4, <2>5, <2>6, <2>7, <2>8, <2>9, <2>10, <2>11, <2>12,
       <2>13, <2>14, <2>15, <2>16, <2>17, <2>18, <2>19, Zenon DEF Next
<1> QED
  BY <1>1, <1>2

LEMMA BooksCount == TypeOK /\ Books => RefCountExact
<1> SUFFICES ASSUME TypeOK, Books, ~m.uaf
             PROVE  m.refcnt = m.create + m.active + Bit(m.pkg) + Outstanding
  BY DEF RefCountExact
<1> DEFINE r == m.refcnt
           w == m.create + m.active + Bit(m.pkg) + Outstanding
<1>1. m \in Master
  BY DEF TypeOK
<1>2. r \in Int /\ Owed(m) \in Int
  BY <1>1, Numbers
<1>3. w = Owed(m)
  BY Zenon DEF Owed, Outstanding
<1>4. r - w = 0
  BY <1>3, Zenon DEF Off, Books
<1>5. w \in Int
  BY <1>2, <1>3, Zenon
<1> HIDE DEF r, w
<1>6. r = w
  BY <1>2, <1>4, <1>5
<1> QED
  BY <1>6, Zenon DEF r, w

LEMMA BooksAlive == TypeOK /\ Books => UsedSlaveIsAlive
<1> SUFFICES ASSUME TypeOK, Books, Sound, m.pkg \/ Outstanding > 0
             PROVE  m.alive
  BY DEF UsedSlaveIsAlive
<1> QED
  BY NothingLeft DEF Outstanding

(* Whatever the order of launches, answers, losses of the connection,      *)
(* timers and faults, the count of slave_ref and slave_unref is the number *)
(* of the structures that point at the slave.                              *)
THEOREM RefCountIsExact == Spec => []RefCountExact
BY InitType, NextType, InitBooks, NextBooks, BooksCount, PTL DEF Spec

(* The slave that the package or a request points at was not destroyed.    *)
THEOREM UsedIsAlive == Spec => []UsedSlaveIsAlive
BY InitType, NextType, InitBooks, NextBooks, BooksAlive, PTL DEF Spec
=============================================================================
