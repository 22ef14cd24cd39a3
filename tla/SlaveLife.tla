------------------------------ MODULE SlaveLife ------------------------------
(***************************************************************************)
(* The life of one slave object of the data-provider-master: slave_life.c  *)
(* (launch, relaunch, activation, pause, termination, reactivation and the *)
(* reference count), slave_rpc.c (pending and sent requests, watchdog),    *)
(* the handlers of server.c and dead_monitor.c that a provider process     *)
(* drives, and the callbacks package.c hangs on the slave.                 *)
(*                                                                         *)
(* The master is single threaded: one action is one run of one main-loop   *)
(* callback, with everything it calls.  Every operator below maps a master *)
(* state `m' to the state after the C function of the same name, so that a *)
(* nested call is an application.  `x' holds what the run meets outside    *)
(* the master: the result of aul_launch_app, of aul_terminate_pid, ...     *)
(*                                                                         *)
(* An operator marked "Seeded fault" is no part of the model: it is a wrong *)
(* version of the operator that follows it, put in its place to see that   *)
(* the properties notice.                                                  *)
(***************************************************************************)
EXTENDS Integers, Sequences, FiniteSets

CONSTANTS
  Insts,         (* widget instances of the one package this slave serves   *)
  Procs,         (* provider processes that may exist at the same time      *)
  MaxQueue,      (* bound: requests the environment leaves outstanding      *)
  MaxSignals,    (* bound: SIGUSR1 not yet answered by SIGUSR2              *)
  RelaunchCount, (* WIDGET_CONF_SLAVE_RELAUNCH_COUNT                        *)
  Rare,          (* which of the rarer events happen: "update", "term", ...*)
  MaxLoad,       (* g_conf.slave_max_load / WIDGET_CONF_SLAVE_MAX_LOAD      *)
  Secured,       (* flags.field.secured                                     *)
  IsApp,         (* the abi of the slave is that of an application          *)
  LimitToTtl,    (* WIDGET_IS_INHOUSE(abi) && WIDGET_CONF_SLAVE_LIMIT_TO_TTL*)
  LateHello      (* a hello may come in after the master gave up waiting    *)

ASSUME ConstantsAssumption ==
  /\ Procs # {} /\ Procs \cap {0, -1, -2} = {} /\ IsFiniteSet(Procs)
  /\ MaxQueue \in Nat
  /\ MaxSignals \in Nat
  /\ RelaunchCount \in Nat
  /\ MaxLoad \in Nat \ {0}
  /\ {Secured, IsApp, LimitToTtl, LateHello} \subseteq BOOLEAN
  /\ Insts \cap {"pause", "resume", "disconnect"} = {}
  /\ IsFiniteSet(Insts)

VARIABLES
  m,     (* the master's state: the slave_node, its slave_rpc, the package  *)
  proc,  (* provider processes: "idle", "up" or "dead"                      *)
  conn   (* their connections: "none", "hello" (queued), "open", "closed"   *)

vars == <<m, proc, conn>>

NoPid    == 0    (* (pid_t)-1, and the handle -1                            *)
Asleep   == -2   (* no launch, see Stopping                              *)
RetryPid == -1   (* the negative AUL_R_* code slave_activate leaves in pid  *)

States == {"LAUNCH", "TERMINATE", "TERMINATED", "REQ_PAUSE", "REQ_RESUME",
           "DISCONNECT", "PAUSED", "RESUMED"}
Leaving == {"TERMINATE", "DISCONNECT"}

(* A request is named by what its ret_cb belongs to: the slave itself      *)
(* (pause, resume), nobody (disconnect) or an instance, whose instance_ref *)
(* it holds until the callback has run.                                    *)
Requests == Insts \cup {"pause", "resume", "disconnect"}

(* A reference released twice leaves nothing the model could follow.       *)
Sound == ~m.uaf /\ m.create >= 0 /\ m.active >= 0

RangeOf(q) == {q[k] : k \in DOMAIN q}

\* The places of the requests that were sent and not answered yet
InFlight(s) == UNION {{p} \X DOMAIN s.sent[p] : p \in Procs}

\* Requests whose answer is still to come, and with it their slave_ref
Waiting(s) == Len(s.pend) + Len(s.cmds) + Cardinality(InFlight(s))

Outstanding == Waiting(m)
-----------------------------------------------------------------------------
(* Predicates of slave_life.c *)

IsActivated(s) == s.state \notin {"TERMINATE", "TERMINATED"}

UsesTtl == LimitToTtl \/ Secured \/ IsApp

DelayedTermination(noTimer) == (~noTimer /\ ~Secured) \/ IsApp

ForcesActivation(s) == "react" \in s.ctrl \/ Secured \/ IsApp \/ LimitToTtl

Loaded(s) == s.live \cup s.doomed

(* instance.c: an instance with a request under way cannot be freed.       *)
Held(s, i) ==
  \/ i \in RangeOf(s.pend) \cup RangeOf(s.cmds)
  \/ \E p \in Procs : i \in RangeOf(s.sent[p])
-----------------------------------------------------------------------------
(* Reference count *)

(* No slave object: what slave_create finds.                               *)
NewSlave(s) ==
  [s EXCEPT !.alive = TRUE, !.refcnt = 1, !.create = 1, !.active = 0,
            !.state = "TERMINATED", !.pid = NoPid, !.handle = NoPid,
            !.ctrl = {}, !.reactivate = FALSE, !.reactInst = FALSE,
            !.wait = FALSE, !.ttlT = FALSE, !.actT = FALSE, !.relT = FALSE,
            !.termT = FALSE, !.relaunch = RelaunchCount, !.crit = 0,
            !.streak = 0, !.pong = "off", !.mine = {}]

Destroy(s) ==
  IF s.pid # NoPid THEN s   \* "Slave is not deactivated"
  ELSE [s EXCEPT !.alive = FALSE, !.ttlT = FALSE, !.actT = FALSE,
                 !.relT = FALSE, !.pong = "off", !.handle = NoPid,
                 !.mine = {}]

(* n calls of slave_unref; a count of 0 is what a NULL result tells.       *)
Unrefs(s, n) ==
  IF n = 0 THEN s
  ELSE IF s.refcnt > n THEN [s EXCEPT !.refcnt = @ - n]
  ELSE IF s.refcnt = n THEN Destroy([s EXCEPT !.refcnt = 0])
  ELSE [s EXCEPT !.refcnt = 0, !.uaf = TRUE]

Unref(s) == Unrefs(s, 1)

(* package_del_instance drops the package's slave_ref.                     *)
\* Seeded fault: releases the package's reference twice
ReleaseTwice(s) == Unrefs([s EXCEPT !.pkg = FALSE], 2)
\* Seeded fault: forgets to release it
ReleaseNever(s) == [s EXCEPT !.pkg = FALSE]

ReleasePackage(s) == Unref([s EXCEPT !.pkg = FALSE])
-----------------------------------------------------------------------------
(* Launching *)

Activate(s, launch) ==
  IF s.pid # NoPid
  THEN IF s.termT THEN [s EXCEPT !.termT = FALSE]
       ELSE IF s.state \in Leaving THEN [s EXCEPT !.reactivate = TRUE]
       ELSE s
  ELSE IF s.state = "LAUNCH" \/ s.actT \/ s.relT THEN s
  ELSE [s EXCEPT !.pid = launch, !.relT = (launch = RetryPid), !.actT = TRUE,
                 !.relaunch = RelaunchCount, !.state = "LAUNCH",
                 !.refcnt = @ + 1, !.active = @ + 1,
                 !.mine = IF launch \in Procs THEN @ \cup {launch} ELSE @]

\* aul_terminate_pid; a process that is up ends some time later
\* Seeded fault: does not kill the process
TerminateNone(s, x) == s

TerminatePid(s, x) ==
  IF s.pid \in Procs /\ x.killOk THEN [s EXCEPT !.asked = @ \cup {s.pid}]
  ELSE s
-----------------------------------------------------------------------------
(* Requests to the provider: slave_rpc_async_request, slave_rpc_request_only *)

Enqueue(s, c, urgent, launch) ==
  LET Put(q) == IF urgent THEN <<c>> \o q ELSE Append(q, c)
      t == IF s.handle = NoPid /\ ForcesActivation(s) /\ ~IsActivated(s)
           THEN Activate(s, launch) ELSE s
  IN  IF s.handle = NoPid
      THEN [t EXCEPT !.refcnt = @ + 1, !.pend = Put(@)]
      ELSE [t EXCEPT !.refcnt = @ + 1, !.cmds = Put(@)]

Pause(s, launch) ==
  IF s.state \in Leaving \cup {"TERMINATED", "PAUSED", "REQ_PAUSE"} THEN s
  ELSE Enqueue([s EXCEPT !.state = "REQ_PAUSE"], "pause", FALSE, launch)

Resume(s, launch) ==
  IF s.state \in Leaving \cup {"TERMINATED", "RESUMED", "REQ_RESUME"} THEN s
  ELSE Enqueue([s EXCEPT !.state = "REQ_RESUME"], "resume", FALSE, launch)
-----------------------------------------------------------------------------
(* Instances leaving the slave *)

(* package_del_instance, then slave_unload_instance up to its call of      *)
(* slave_deactivate; the last instance takes the package's slave_ref along.*)
Unlink(s, S) ==
  LET left  == [s EXCEPT !.live = @ \ S, !.doomed = @ \ S]
      last  == S # {} /\ Loaded(left) = {}
      freed == ReleasePackage(left)
  IN  CASE ~last                     -> left
        [] last /\ ~freed.alive      -> [freed EXCEPT !.uaf = TRUE]
        [] last /\ freed.alive       ->
             IF IsActivated(freed)
             THEN [freed EXCEPT !.reactivate = FALSE, !.reactInst = FALSE]
             ELSE freed

\* Seeded fault: does not free an instance that nothing holds
MarkOnly(s, D) == [s EXCEPT !.live = @ \ D, !.doomed = @ \cup D]

(* instance_destroyed for the instances D: those with a request under way  *)
(* stay loaded until its callback drops their last instance_ref.           *)
Doom(s, D) ==
  LET held == {i \in D : Held(s, i)}
  IN  Unlink([s EXCEPT !.live = @ \ D, !.doomed = @ \cup D], D \ held)

(* ret_cb(slave, NULL) for the requests q, already taken out of their      *)
(* queue, then destroy_command: pause_cb and resume_cb overwrite the state *)
(* unless the slave is leaving, so the last of them decides.               *)
AnswerNull(s, q) ==
  LET own  == {k \in DOMAIN q : q[k] \in {"pause", "resume"}}
      last == CHOOSE k \in own : \A j \in own : j <= k
      st   == IF own = {} \/ s.state \in Leaving THEN s.state
              ELSE IF q[last] = "pause" THEN "RESUMED" ELSE "PAUSED"
      t    == [s EXCEPT !.state = st]
  IN  Unrefs(Unlink(t, {i \in t.doomed : ~Held(t, i)}), Len(q))

(* The deactivate callback of slave_rpc.c; it was registered first and     *)
(* therefore runs after those of the packages.                             *)
RpcDeactivate(s) ==
  LET q == IF s.handle = NoPid THEN s.pend ELSE s.cmds
      t == IF s.handle = NoPid THEN [s EXCEPT !.pend = <<>>]
           ELSE [s EXCEPT !.cmds = <<>>]
  IN  [AnswerNull([t EXCEPT !.pong = "off"], q) EXCEPT !.handle = NoPid]
-----------------------------------------------------------------------------
(* Deactivation *)

\* Seeded fault: leaves the activate and TTL timers running
StopSome(s) == [s EXCEPT !.relT = FALSE, !.termT = FALSE]

StopTimers(s) ==
  [s EXCEPT !.ttlT = FALSE, !.actT = FALSE, !.relT = FALSE, !.termT = FALSE]

Deactivated(s, x) ==
  LET a == [StopTimers(s) EXCEPT !.pid = NoPid, !.state = "TERMINATED",
                                 !.refcnt = @ + 1]
      \* package.c: slave_deactivated_cb
      b == Doom(a, IF a.fault THEN a.live ELSE a.live \cap x.dooms)
      Wanted(d) == x.launch # Asleep /\ d.reactivate /\ ~d.fault /\ d.live # {}
      Again(d) ==
        IF d.refcnt = 0 \/ "react" \in d.ctrl THEN d
        ELSE IF Wanted(d) THEN Activate(d, x.launch)
        ELSE IF Loaded(d) = {} THEN Unref([d EXCEPT !.create = @ - 1])
        ELSE d
      Release(c) == IF c.refcnt = 0 THEN c
                    ELSE Again(Unref([c EXCEPT !.active = @ - 1]))
  IN  Release(Unref(RpcDeactivate(b)))

Deactivate(s, noTimer, x) ==
  LET a == [s EXCEPT !.ttlT = FALSE]
      b == TerminatePid([a EXCEPT !.state = "TERMINATE"], x)
  IN  IF s.pid \notin Procs THEN s
      ELSE IF "term" \in s.ctrl
      THEN Enqueue([a EXCEPT !.state = "DISCONNECT"], "disconnect", FALSE,
                   x.launch)
      ELSE IF s.termT THEN a
      ELSE IF DelayedTermination(noTimer) THEN [a EXCEPT !.termT = TRUE]
      ELSE IF x.killOk THEN b ELSE Deactivated(b, x)

(* slave_unload_instance deactivates a slave that lost its last instance.  *)
DeactivateIfEmptied(s, t, x) ==
  IF Loaded(s) # {} /\ Loaded(t) = {} /\ t.alive /\ IsActivated(t)
  THEN Deactivate(t, FALSE, x) ELSE t

(* invoke_fault_cb with package.c's slave_fault_cb, under its own ref.     *)
FaultCb(s, x) ==
  LET a == [s EXCEPT !.refcnt = @ + 1]
      b == [a EXCEPT !.fault = (x.fault = "last")]
      c == IF ~a.pkg \/ a.fault THEN a
           ELSE DeactivateIfEmptied(b, Doom(b, b.live), x)
  IN  Unref(c)

DeactivatedByFault(s, x) ==
  LET a    == TerminatePid(s, x)
      soon == x.fault # "slow"
      stop == soon /\ (Loaded(s) = {} \/ s.crit + 1 >= MaxLoad)
      b    == IF stop THEN FaultCb([a EXCEPT !.crit = 0, !.streak = 0], x)
              ELSE IF soon
              THEN [a EXCEPT !.crit = 0,
                             !.streak = IF @ < MaxLoad THEN @ + 1 ELSE @]
              ELSE [a EXCEPT !.streak = 0]
      Down(c) == IF c.refcnt = 0 THEN c
                 ELSE Deactivated([c EXCEPT !.reactivate = ~stop,
                                            !.reactInst = ~stop], x)
  IN  IF IsActivated(s) THEN Down(b)
      ELSE IF Loaded(s) = {} THEN Unref([s EXCEPT !.create = @ - 1]) ELSE s

(* invoke_slave_fault_handler                                              *)
SlaveFault(s, x) ==
  LET Kill(b) == IF b.pid \in Procs /\ "term" \in b.ctrl
                 THEN Enqueue(b, "disconnect", FALSE, x.launch)
                 ELSE TerminatePid(b, x)
      Down(c) == IF c.state = "TERMINATED" THEN c ELSE Deactivated(c, x)
      Handle(a) ==
        IF a.refcnt = 0 THEN a
        ELSE Down(Kill([a EXCEPT !.reactivate = FALSE, !.reactInst = FALSE]))
  IN  Handle(FaultCb(s, x))
-----------------------------------------------------------------------------
(* Activation *)

(* instance_recover_state of every instance with nothing under way.        *)
(* No property tells the order of the instances.                           *)
RecoverList(s) ==
  LET idle == {i \in s.live : ~Held(s, i)}
  IN  CHOOSE q \in [1 .. Cardinality(idle) -> idle] : RangeOf(q) = idle

Activated(s, x) ==
  LET a == IF s.xpaused THEN Pause(s, x.launch) ELSE Resume(s, x.launch)
      Recover(b, q) ==
        IF b.reactInst /\ q # <<>>
        THEN [Activate(b, x.launch) EXCEPT !.cmds = q \o @,
                                           !.refcnt = @ + Len(q)]
        ELSE b
      b == IF UsesTtl THEN [a EXCEPT !.ttlT = TRUE] ELSE a
  IN  [Recover(b, RecoverList(b)) EXCEPT
         !.reactivate = FALSE, !.reactInst = FALSE, !.actT = FALSE, !.relT = FALSE]

(* slave_rpc_update_handle                                                 *)
\* Seeded fault: leaves the pending requests behind
KeepPending(s, h, x) == Activated([s EXCEPT !.handle = h, !.pong = "on"], x)

UpdateHandle(s, h, x) ==
  LET a == Activated([s EXCEPT !.handle = h, !.pong = "on"], x)
  IN  [a EXCEPT !.cmds = @ \o a.pend, !.pend = <<>>]
-----------------------------------------------------------------------------
(* The main loop *)

Init ==
  /\ m = [alive |-> FALSE, refcnt |-> 0, create |-> 0, active |-> 0,
          state |-> "TERMINATED", pid |-> NoPid, handle |-> NoPid,
          ctrl |-> {}, reactivate |-> FALSE, reactInst |-> FALSE,
          wait |-> FALSE, ttlT |-> FALSE, actT |-> FALSE, relT |-> FALSE,
          termT |-> FALSE, relaunch |-> RelaunchCount, crit |-> 0,
          streak |-> 0, pong |-> "off", mine |-> {}, pend |-> <<>>, cmds |-> <<>>,
          sent |-> [p \in Procs |-> <<>>], pkg |-> FALSE, fault |-> FALSE, live |-> {},
          doomed |-> {}, xpaused |-> FALSE, signals |-> 0, asked |-> {},
          uaf |-> FALSE]
  /\ proc = [p \in Procs |-> "idle"]
  /\ conn = [p \in Procs |-> "none"]

(* What one run may meet.                                                  *)
(*   launch: the pid aul_launch_app returns, or NoPid for its fatal and     *)
(*           RetryPid for its transient codes.  In a run that deactivates   *)
(*           the slave, Asleep: no instance that wants it is shown, or      *)
(*           memory is low, so it is not launched again;                    *)
(*   killOk: aul_terminate_pid succeeds, as it does on a process that is up;*)
(*   dooms:  instances to be destroyed once the slave is down, because they *)
(*           were to be deleted or their client is gone (instance_need_slave);*)
(*   fault:  "slow" when it comes WIDGET_CONF_MINIMUM_REACTIVATION_TIME or  *)
(*           more after the activation, else whether package_set_fault_info *)
(*           excuses it or makes it the package's last.                     *)
Launches == {p \in Procs : proc[p] = "idle"} \cup {NoPid, RetryPid}

\* The slave goes down, if at all, with nothing left to choose
Bare(x) == x.launch = Asleep /\ x.dooms = {}

(* Choices that a run never comes to make are left out of its inputs: they *)
(* would only lead to the same states again.                               *)

\* A run that does not deactivate the slave; it launches one without process
Launching ==
  [launch : IF m.pid = NoPid THEN Launches ELSE {NoPid}, killOk : {TRUE},
   dooms : {{}}, fault : {"slow"}]

\* A run that may deactivate the slave
Ending ==
  [launch : Launches \cup {Asleep},
   killOk : IF m.pid \in Procs /\ proc[m.pid] = "dead" THEN BOOLEAN ELSE {TRUE},
   dooms  : SUBSET m.live,
   fault  : {"slow"}]

\* One that finds no fault and asks the process to end: only when that fails
\* is the slave down at once
Stopping == {x \in Ending : x.killOk => Bare(x)}

\* One that may find the slave faulty: a fault that reaches MaxLoad takes all
\* its instances along
Failing ==
  LET Faulty == {x \in Ending : m.crit + 1 >= MaxLoad => Bare(x)}
  IN  Ending \cup
      {[x EXCEPT !.fault = f] : x \in Faulty, f \in {"excused", "last"}}

\* The activate timer's: the fault takes all instances along
Expiring == {x \in Failing : x.fault # "slow" /\ Bare(x)}

\* The relaunch timer's: so does a fault here
Relaunching ==
  [launch : Launches, killOk : {TRUE}, dooms : {{}}, fault : {"excused", "last"}]

(* The run ends in the master state t; a process it launched comes up.     *)
Step(t) ==
  /\ m' = t
  /\ proc' = [p \in Procs |-> IF p = t.pid /\ proc[p] = "idle" THEN "up"
                              ELSE proc[p]]

Room == Outstanding < MaxQueue

(* "reuse": slave_find_available and slave_activate_all find a slave that   *)
(* gave its creation's reference back, but is kept, and therefore listed,  *)
(* until the requests sent to its last process are answered.               *)
Reusable == m.alive /\ m.create = 0 => "reuse" \in Rare

Creatable(i) ==
  /\ i \notin Loaded(m)
  /\ ~m.fault
  /\ m.alive /\ m.state \in Leaving => Loaded(m) # {}
  /\ Reusable

(* instance_create on a package that is not faulty: package_add_instance,  *)
(* slave_load_instance, instance_activate.  A leaving slave without        *)
(* instances is not reused (slave_find_available): the new instance then   *)
(* gets another slave object, which is not this one.                       *)
CreateInstance(i, x) ==
  LET s == IF m.alive THEN m ELSE NewSlave(m)
      t == IF s.pkg THEN s ELSE [s EXCEPT !.pkg = TRUE, !.refcnt = @ + 1]
  IN  /\ Room /\ Creatable(i)
      /\ Step(Enqueue(Activate([t EXCEPT !.live = @ \cup {i}], x.launch),
                      i, TRUE, x.launch))
      /\ UNCHANGED conn

(* A request about an instance: resize, set_period, delete, ...            *)
RequestInstance(i, x) ==
  /\ Room
  /\ i \in m.live
  /\ Step(Enqueue(m, i, FALSE, x.launch))
  /\ UNCHANGED conn

(* instance_reactivate outside of recovery                                 *)
ReactivateInstance(i, x) ==
  /\ Room
  /\ i \in m.live
  /\ Step(Enqueue(Activate(m, x.launch), i, TRUE, x.launch))
  /\ UNCHANGED conn

(* The provider reports that it deleted an instance (slave_deleted).       *)
InstanceDeleted(i, x) ==
  LET t == Doom(m, {i})
  IN  /\ i \in m.live
      /\ m.handle # NoPid
      /\ Step(DeactivateIfEmptied(m, t, x))
      /\ UNCHANGED conn

ClearFault ==
  /\ m.fault
  /\ Step([m EXCEPT !.fault = FALSE])
  /\ UNCHANGED conn

(* pkgmgr reports the start and the end of an update of the package.       *)
WaitDeactivation(b) ==
  /\ m.pkg /\ "update" \in Rare
  /\ Step([m EXCEPT !.wait = b])
  /\ UNCHANGED conn

(* The package is uninstalled or upgraded while its slave is down: there   *)
(* is nobody to ask, instance_destroy drops the instance at once.          *)
UninstallInstance(i) ==
  /\ "update" \in Rare
  /\ i \in m.live /\ ~IsActivated(m)
  /\ Step(Doom(m, {i}))
  /\ UNCHANGED conn

(* SIGUSR1 and SIGUSR2                                                     *)
DeactivateAll(x) ==
  LET s == [m EXCEPT !.signals = @ + 1]
  IN  /\ Room /\ m.signals < MaxSignals
      /\ Step(IF s.signals = 1 /\ s.alive /\ IsActivated(s)
              THEN Deactivate([s EXCEPT !.reactInst = TRUE,
                                        !.reactivate = FALSE], TRUE, x)
              ELSE s)
      /\ UNCHANGED conn

ActivateAll(x) ==
  LET s == [m EXCEPT !.signals = @ - 1]
  IN  /\ m.signals > 0 /\ Reusable
      /\ Step(IF s.signals = 0 /\ s.alive THEN Activate(s, x.launch) ELSE s)
      /\ UNCHANGED conn

(* xmonitor_handle_state_changes                                           *)
XMonitor(x) ==
  LET s == [m EXCEPT !.xpaused = ~@]
  IN  /\ Room /\ "pause" \in Rare
      /\ Step(CASE ~s.alive             -> s
                [] s.alive /\ s.xpaused  -> Pause(s, x.launch)
                [] s.alive /\ ~s.xpaused -> Resume(s, x.launch))
      /\ UNCHANGED conn
-----------------------------------------------------------------------------
(* Timers of the slave *)

TerminateTimer(x) ==
  LET a == TerminatePid([m EXCEPT !.state = "TERMINATE", !.termT = FALSE], x)
  IN  /\ m.termT
      /\ Step(IF x.killOk THEN a ELSE Deactivated(a, x))
      /\ UNCHANGED conn

(* The run that does not find a shown instance and therefore renew itself  *)
TtlTimer(x) ==
  LET a == [m EXCEPT !.ttlT = FALSE]
  IN  /\ m.ttlT
      /\ Step(IF IsActivated(a)
              THEN Deactivate([a EXCEPT !.reactivate = FALSE,
                                        !.reactInst = TRUE], TRUE, x)
              ELSE a)
      /\ UNCHANGED conn

\* Seeded fault: gives up without deactivating the slave
KeepWaiting(x) ==
  /\ m.actT
  /\ Step([m EXCEPT !.relT = FALSE, !.actT = FALSE])
  /\ UNCHANGED conn

ActivateTimer(x) ==
  LET a == [m EXCEPT !.relT = FALSE, !.actT = FALSE]
      Down(b) ==
        IF b.refcnt = 0 THEN b
        ELSE Deactivated(TerminatePid([b EXCEPT !.reactivate = FALSE,
                                                !.reactInst = FALSE], x), x)
  IN  /\ m.actT
      /\ Step(Down(FaultCb(a, x)))
      /\ UNCHANGED conn

\* Seeded fault: no bound on the attempts
NeverExhausted == FALSE

Exhausted == m.relaunch = 0

RelaunchTimer(x) ==
  LET a == [m EXCEPT !.relT = FALSE, !.actT = FALSE]
  IN  /\ m.relT
      /\ Step(IF ~m.actT \/ Exhausted THEN SlaveFault(a, x)
              ELSE IF x.launch = NoPid
              THEN SlaveFault([a EXCEPT !.pid = NoPid], x)
              ELSE IF x.launch = RetryPid
              THEN [m EXCEPT !.relaunch = @ - 1, !.pid = NoPid]
              ELSE [m EXCEPT !.pid = x.launch, !.relT = FALSE,
                             !.mine = @ \cup {x.launch}])
      /\ UNCHANGED conn

PingTimeout(x) ==
  LET a == [m EXCEPT !.pong = "off"]
  IN  /\ m.pong = "on"
      /\ Step(IF IsActivated(a) THEN DeactivatedByFault(a, x) ELSE a)
      /\ UNCHANGED conn

(* command_consumer_cb                                                     *)
Consume ==
  LET c == Head(m.cmds)
      a == [m EXCEPT !.cmds = Tail(@)]
  IN  /\ m.cmds # <<>>
      /\ Step(IF ~IsActivated(a) \/ a.handle = NoPid THEN AnswerNull(a, <<c>>)
              ELSE IF c = "disconnect"
              THEN Unref([a EXCEPT !.asked = @ \cup {a.handle}])
              ELSE [a EXCEPT !.sent[a.handle] = Append(@, c)])
      /\ UNCHANGED conn
-----------------------------------------------------------------------------
(* Packets and disconnections *)

(* slave_hello: `known' tells whether the process still has a package name.*)
(* Without LateHello, one the master has given up never has.               *)
Hello(p, known, x) ==
  LET match == m.alive /\ (p \in m.mine \/ m.pid = p)
      late  == match /\ m.active = 0 /\ ~LateHello
  IN  /\ conn[p] = "hello"
      /\ IF late THEN ~known ELSE proc[p] = "up" => known
      /\ conn' = [conn EXCEPT ![p] = "open"]
      /\ Step(IF ~known THEN m
              ELSE IF ~match \/ (m.pid # p /\ m.pid \in Procs)
              THEN [m EXCEPT !.asked = @ \cup {p}]
              ELSE UpdateHandle([m EXCEPT !.pid = p], p, x))

(* slave_ctrl finds the slave by the pid of the sender.                    *)
Ctrl(p, options) ==
  /\ conn[p] = "open" /\ m.alive /\ m.pid = p
  /\ Step([m EXCEPT !.ctrl = options])
  /\ UNCHANGED conn

(* slave_async_cb with an answer; the provider answers in order.  It may    *)
(* say no: it does not pause or resume, failed to create the instance, or  *)
(* has deleted it.                                                         *)
Answer(p, ok, x) ==
  LET r == Head(m.sent[p])
      a == [m EXCEPT !.sent[p] = Tail(@)]
      own == r \in {"pause", "resume"}
      b == IF ~ok \/ a.state \in Leaving THEN a
           ELSE [a EXCEPT !.state = IF r = "pause" THEN "PAUSED" ELSE "RESUMED",
                          !.pong = IF @ = "off" THEN "off"
                                   ELSE IF r = "pause" THEN "frozen" ELSE "on"]
      c == Doom(a, IF ok THEN {} ELSE {r} \cap a.live)
      d == Unlink(c, {i \in c.doomed : ~Held(c, i)})
  IN  /\ conn[p] = "open" /\ m.sent[p] # <<>>
      /\ Step(Unref(IF own THEN b ELSE DeactivateIfEmptied(a, d, x)))
      /\ UNCHANGED conn

(* dead_monitor.c: evt_cb                                                  *)
DeadMonitor(s, p, x) ==
  IF ~s.alive \/ s.handle # p \/ s.pid = NoPid THEN s
  ELSE IF s.state \in Leaving THEN Deactivated(s, x)
  ELSE IF s.wait
  THEN Deactivated([s EXCEPT !.wait = FALSE, !.reactivate = FALSE,
                             !.reactInst = TRUE], x)
  ELSE DeactivatedByFault(s, x)

(* com-core calls the disconnection callbacks in the order of their        *)
(* registration: first evt_cb, then client_disconnected_cb of              *)
(* com-core_packet.c, which answers every request sent there by NULL.      *)
Disconnect(p, x) ==
  LET Lose(a) ==
        LET b == [a EXCEPT !.sent[p] = <<>>]
        IN  IF a.sent[p] = <<>> THEN a
            ELSE DeactivateIfEmptied(b, AnswerNull(b, a.sent[p]), x)
  IN  /\ conn[p] = "open" /\ proc[p] = "dead"
      /\ conn' = [conn EXCEPT ![p] = "closed"]
      /\ Step(Lose(DeadMonitor(m, p, x)))
-----------------------------------------------------------------------------
(* Provider processes *)

SendHello(p) ==
  /\ proc[p] = "up" /\ conn[p] = "none"
  /\ conn' = [conn EXCEPT ![p] = "hello"]
  /\ UNCHANGED <<m, proc>>

(* A process may die at any time; one that was asked to will.              *)
Die(p) ==
  /\ proc[p] = "up"
  /\ proc' = [proc EXCEPT ![p] = "dead"]
  /\ UNCHANGED <<m, conn>>

(* The pid of a process may be used again once nothing refers to it.       *)
Reuse(p) ==
  /\ proc[p] = "dead" /\ conn[p] \in {"none", "closed"}
  /\ m.pid # p /\ m.handle # p
  /\ proc' = [proc EXCEPT ![p] = "idle"]
  /\ conn' = [conn EXCEPT ![p] = "none"]
  /\ m' = [m EXCEPT !.mine = @ \ {p}, !.asked = @ \ {p}]

Next ==
  /\ Sound
  /\ \/ \E x \in Launching :
          \/ \E i \in Insts : CreateInstance(i, x)
          \/ \E i \in Insts : RequestInstance(i, x)
          \/ \E i \in Insts : ReactivateInstance(i, x)
          \/ ActivateAll(x)
          \/ XMonitor(x)
          \/ \E p \in Procs, known \in BOOLEAN : Hello(p, known, x)
     \/ \E x \in Stopping :
          \/ \E i \in Insts : InstanceDeleted(i, x)
          \/ DeactivateAll(x)
          \/ TerminateTimer(x)
          \/ TtlTimer(x)
          \/ \E p \in Procs, ok \in BOOLEAN : Answer(p, ok, x)
     \/ \E x \in Expiring : ActivateTimer(x)
     \/ \E x \in Failing :
          \/ PingTimeout(x)
          \/ \E p \in Procs : Disconnect(p, x)
     \/ \E x \in Relaunching : RelaunchTimer(x)
     \/ ClearFault
     \/ \E i \in Insts : UninstallInstance(i)
     \/ \E b \in BOOLEAN : WaitDeactivation(b)
     \/ Consume
     \/ \E p \in Procs : \E options \in SUBSET (Rare \cap {"term", "react"}) : Ctrl(p, options)
     \/ \E p \in Procs : SendHello(p)
     \/ \E p \in Procs : Die(p)
     \/ \E p \in Procs : Reuse(p)

Spec == Init /\ [][Next]_vars

(* What the main loop and the platform owe: a timer that was set fires, the *)
(* consumer runs, packets and disconnections are dispatched, and a process *)
(* that was asked to end does.  A provider owes nothing else: it may hang   *)
(* before its hello, and it may never answer.                              *)
Fairness ==
  /\ []<>~(Sound /\ m.actT) \/ []<><<\E x \in Expiring : ActivateTimer(x)>>_vars
  /\ []<>~(Sound /\ m.relT) \/ []<><<\E x \in Relaunching : RelaunchTimer(x)>>_vars
  /\ []<>~(Sound /\ m.termT) \/ []<><<\E x \in Stopping : TerminateTimer(x)>>_vars
  /\ []<>~(Sound /\ m.cmds # <<>>) \/ []<><<Consume>>_vars
  /\ \A p \in Procs :
       /\ []<>~(Sound /\ conn[p] = "hello") \/ []<><<\E known \in BOOLEAN, x \in Launching : Hello(p, known, x)>>_vars
       /\ []<>~(Sound /\ conn[p] = "open" /\ proc[p] = "dead") \/ []<><<\E x \in Failing : Disconnect(p, x)>>_vars
       /\ []<>~(Sound /\ p \in m.asked /\ proc[p] = "up") \/ []<><<Die(p)>>_vars

FairSpec == Spec /\ Fairness
=============================================================================
