------------------------------ MODULE SlaveProps ------------------------------
(***************************************************************************)
(* What the master promises about one slave object (module SlaveLife).     *)
(*                                                                         *)
(* Properties that begin with Sound say nothing after the object released  *)
(* a reference twice: the C program uses freed memory from there on.       *)
(***************************************************************************)
EXTENDS SlaveLife

Bit(b) == IF b THEN 1 ELSE 0

\* The values the record m ranges over
Master ==
  [alive : BOOLEAN, refcnt : Nat, create : Int, active : Int,
   state : States, pid : Procs \cup {NoPid, RetryPid},
   handle : Procs \cup {NoPid}, ctrl : SUBSET {"term", "react"},
   reactivate : BOOLEAN, reactInst : BOOLEAN, wait : BOOLEAN,
   ttlT : BOOLEAN, actT : BOOLEAN, relT : BOOLEAN, termT : BOOLEAN,
   relaunch : 0 .. RelaunchCount, crit : 0 .. MaxLoad, streak : 0 .. MaxLoad,
   pong : {"off", "on", "frozen"}, mine : SUBSET Procs,
   pend : Seq(Requests), cmds : Seq(Requests),
   sent : [Procs -> Seq(Requests)], pkg : BOOLEAN,
   fault : BOOLEAN, live : SUBSET Insts, doomed : SUBSET Insts,
   xpaused : BOOLEAN, signals : 0 .. MaxSignals, asked : SUBSET Procs,
   uaf : BOOLEAN]

(* Type invariant.  create and active are negative after a double release. *)
TypeOK ==
  /\ m \in Master
  /\ proc \in [Procs -> {"idle", "up", "dead"}]
  /\ conn \in [Procs -> {"none", "hello", "open", "closed"}]
-----------------------------------------------------------------------------
(* References                                                              *)

(* refcnt is the number of reasons to keep the object: slave_create,       *)
(* slave_activate, the package, and one for every request that is pending, *)
(* queued or sent (create_command), so that no path that drops a request   *)
(* forgets to release it and none releases it twice.                       *)
RefCountExact ==
  ~m.uaf => m.refcnt = m.create + m.active + Bit(m.pkg) + Outstanding

(* slave_deactivated releases the reference of an activation once for each *)
(* slave_activate, however the activation ends (timeout, fault, exit,      *)
(* failed kill), and that of slave_create once for the object; no release  *)
(* finds a count of 0.                                                     *)
ReleasedOnce == ~m.uaf /\ m.create \in {0, 1} /\ m.active \in {0, 1}

(* package.c follows info->slave and command_consumer_cb command->slave:   *)
(* the object outlives both.                                               *)
UsedSlaveIsAlive == Sound /\ (m.pkg \/ Outstanding > 0) => m.alive
-----------------------------------------------------------------------------
(* Processes                                                               *)

(* slave_activate, slave_deactivated: an activation is held exactly while  *)
(* there is a process, or the activate timer waits for one.                *)
ActivationHasProcess ==
  Sound => (m.active = 0 <=> m.pid = NoPid /\ ~m.actT)

(* An activated slave waits under the activate timer or is connected:      *)
(* relaunching, relaunch failures and pauses before the hello do not lose  *)
(* the timer that ends a launch nobody answers.                            *)
LaunchIsWatched == Sound /\ m.active > 0 => m.actT \/ m.handle # NoPid

(* A connected provider the master still counts on is under the watchdog   *)
(* of slave_rpc.c, running or frozen.                                      *)
ProviderIsPinged ==
  Sound /\ m.handle # NoPid /\ IsActivated(m) => m.pong # "off"

(* The connection belongs to the process the slave stands for; dead_monitor *)
(* finds the slave by it.                                                  *)
HandleIsPid == m.handle # NoPid => m.pid = m.handle

(* terminate_timer_cb and slave_ttl_cb kill slave->pid: neither timer runs *)
(* for a slave without a process.                                          *)
TimersHaveProcess == m.termT \/ m.ttlT => m.pid \in Procs

(* A provider process that is up and is not the slave's was asked to end:  *)
(* no relaunch, fault or late answer leaves a second provider running.     *)
NoOrphanProcess ==
  Sound => \A p \in Procs : proc[p] = "up" /\ p \notin m.asked => m.pid = p

(* Activation, launch and death of a provider process, in whatever order   *)
(* hello, timers, dead_monitor and slave_terminated_cb come: process,      *)
(* connection, watchdog and timers of a slave (slave_life.c) belong to one *)
(* activation.                                                             *)
ProcessIsOwned ==
  /\ ActivationHasProcess /\ LaunchIsWatched /\ ProviderIsPinged
  /\ NoOrphanProcess /\ HandleIsPid /\ TimersHaveProcess
-----------------------------------------------------------------------------
(* Requests and instances                                                  *)

(* A request waits in pend until a provider is connected and in cmds from  *)
(* then on: slave_rpc_update_handle moves all of them, the deactivation    *)
(* empties both, and none is left where no consumer looks.                 *)
QueueFollowsHandle ==
  Sound => IF m.handle = NoPid THEN m.cmds = <<>> ELSE m.pend = <<>>

(* A package with fault information has no instance left to reactivate.    *)
FaultyPackageIsEmpty == m.fault => m.live = {}

(* A destroyed instance stays loaded only while a request still holds it   *)
(* (instance_ref): the last callback frees it and unloads the slave.       *)
DoomedInstanceIsHeld == Sound => \A i \in m.doomed : Held(m, i)

(* slave_rpc.c, package.c, instance.c: no request waits where nobody looks, *)
(* and neither a fault of the package nor the destruction of an instance   *)
(* leaves one behind that nothing will ever free.                          *)
RequestsAreSafe ==
  QueueFollowsHandle /\ FaultyPackageIsEmpty /\ DoomedInstanceIsHeld
-----------------------------------------------------------------------------
(* Liveness, under FairSpec                                                *)

(* A launch ends: hello, failure or timeout.                               *)
LaunchSettles == m.state = "LAUNCH" ~> (m.state # "LAUNCH" \/ ~Sound)

(* A slave on its way out gets there, by the exit of its process.          *)
LeavingEnds == m.state \in Leaving ~> (m.state \notin Leaving \/ ~Sound)

(* A process that is not the slave's (any more) ends, or becomes its.      *)
OrphanEnds ==
  \A p \in Procs :
    proc[p] = "up" /\ m.pid # p ~> (proc[p] # "up" \/ m.pid = p \/ ~Sound)

(* A request that waits for a launched slave leaves pend: it goes to the   *)
(* provider or its callback gets NULL.                                     *)
PendingSettles ==
  \A i \in Insts :
    m.active > 0 /\ i \in RangeOf(m.pend) ~> (i \notin RangeOf(m.pend) \/ ~Sound)

\* The provider p answers, sooner or later, or its connection closes.
Answers(p) ==
  \/ []<>~(Sound /\ conn[p] = "open" /\ m.sent[p] # <<>>)
  \/ []<><<\E x \in Stopping, ok \in BOOLEAN : Answer(p, ok, x)>>_vars

(* With providers that answer, a destroyed instance is freed in the end:   *)
(* no request that holds it stays in a queue.                              *)
DoomedInstanceIsFreed ==
  (\A p \in Procs : Answers(p)) =>
    \A i \in Insts : i \in m.doomed ~> (i \notin m.doomed \/ ~Sound)

(* slave_activate, slave_deactivate, terminate_timer_cb: every start and   *)
(* every stop of a provider comes to its end, timers and signals included. *)
ProcessesSettle == LaunchSettles /\ LeavingEnds /\ OrphanEnds

(* slave_rpc_async_request: what was asked of a slave is sent or given up, *)
(* and what it held is given back.                                         *)
RequestsSettle == PendingSettles /\ DoomedInstanceIsFreed
===============================================================================
