# Formal models of the widget framework

TLA+ models of the Tizen widget (livebox) framework in this repository, the TLC
configurations that check them and the TLAPS proofs of what holds for every
value of their constants.  Every action is translated from the C code;
`PROJECT.json` gives, for each definition, the file and the lines it stands
for; a helper without an entry lies within the lines of the definitions that use it, and what stands for
the app, the platform or the main loop has no lines.  Paths below are relative to `src/`.

Eleven models cover the path of a widget from end to end: the life of a provider
("slave") inside the master, an instance with its clients and its glance bar, its
buffers and its input, the threaded connections of com-core, the process that runs
widgets, the library a provider draws with and the one a viewer shows with, and the
widget objects of a viewer app with the fingers on them.

## 1. The system

Viewers (home screen, lock screen) show widgets that provider processes draw.
Between them runs one master, which launches and watches the providers, owns
the instances of the widgets and forwards everything.

| part | where | state | operations |
|---|---|---|---|
| slave life cycle | `data-provider-master/src/slave_life.c` | one `slave_node` per provider: reference count, state, pid, five timers, callback lists, fault counter | create, load/unload an instance, activate, relaunch, activated, pause/resume, deactivate, deactivated, fault, reactivate, TTL |
| slave rpc | `slave_rpc.c` | per slave: handle, pending list, watchdog; one global command list | request, consume, answer, update_handle, ping, freeze/thaw, deactivate callback |
| dead monitor | `dead_monitor.c` | callback list | what a disconnection means for a slave, a client |
| requests of providers | `server.c` (`slave_*`, 12 of ~160 handlers) | none of its own | hello, ctrl, deleted, updated, faulted, ... |
| package | `package.c` | package list, fault information, instance list, the package's slave | add/delete an instance, activate/deactivate/fault callbacks of its slave, update, uninstall |
| instance | `instance.c` | reference count, state, requests under way, clients, buffers, events | create, destroy, recover, reactivate, state of the client, pinup, resize |
| client | `client_life.c`, `client_rpc.c`, `xmonitor.c` | reference count, pause state, subscriptions, command queue | create, destroy, fault, pause, subscribe |
| fault manager | `fault_manager.c` | list of calls under way, log of faulty packages | call, return, check |
| buffers and scripts | `buffer_handler.c`, `script_handler.c`, `event.c` | reference count and state of a buffer, lock files, event state | load, unload, resize, lock, key/touch input |
| other services | `group.c`, `io.c`, `pkgmgr.c`, `monitor.c`, `setting.c`, service servers | databases, settings | start-up, package database, forwarded requests |
| com-core | `com-core/src/*.c` | sockets, request and receive contexts, reader threads, router queues | send, receive, assemble, answer, disconnect |
| provider loader | `data-provider-slave/src` | loaded widgets, update queue, fault marks | load, update, pause, resume, crash marking |
| provider libraries | `widget-provider`, `widget-edje` | connection to the master, frame buffers | hello, ping, ctrl, buffer locks |
| viewer libraries | `widget-viewer*` | widget handles, reference counts, request queue | add, delete, resize, buffers |

How they interact.  The master and each provider are single-threaded main
loops; with `com_core_thread=true`, as in the `conf.ini` files of the repository,
com-core gives each connection a reader thread.  They exchange packets over local
sockets; a request carries a sequence number and a callback that its answer, or
the loss of the connection, calls exactly once.  Inside the master, components
call each other directly and through lists of callbacks (`slave_event_callback_add`),
often re-entrantly: the deactivation of a slave calls the package, which
destroys instances, which unloads them from the slave, which may deactivate it.
Lifetimes are reference counts (slave, instance, client, package, buffer).
Processes are started and killed through AUL, and their end is only seen as a
disconnection.  `SIGUSR1`/`SIGUSR2` (`main.c:338-356`) turn all slaves off and on.

What is hard: a process that says hello late, twice, or after it was given up; an
answer of the previous process; deactivation inside a callback of deactivation;
timers that race the event they wait for; requests in three queues that all hold a
reference; and freeing an object whose address somebody still has.
`PROJECT.json` lists these places as `hazards`, each at its line.

What makes each component correct:

* slave: its reference count is the number of its users; one activation has one
  process; every launch ends; no process is left running that nobody owns; no
  timer acts for a process that is gone; a faulty provider is not restarted for ever;
* slave rpc: each request is in one queue, has its callback called once, and goes to
  the process it was meant for;
* package and instance: no instance is destroyed under a request; a faulty package
  has no instance that would be reactivated;
* client: its reference count likewise; the pause count equals the paused clients;
* a connection: the main loop gets the peer's bytes in order, none lost or repeated, is
  woken for each of them, and hears of the end; tearing it down never blocks;
* com-core packets: an answer reaches the request it belongs to and no other, also when the
  descriptor is used again; every request ends;
* buffers: no unload while a user has a reference; a lock is released once;
* viewer: a deleted handle survives until its last request is answered.

## 2. Modules

| model | of | properties | instance |
|---|---|---|---|
| `SlaveLife` | slave_life.c, slave_rpc.c, package.c as it drives them | `SlaveProps` | `MCSlaveLife` |
| `WidgetInstance` | instance.c, the handlers of server.c that open, close, resize and delete, the end of a client | `WidgetInstanceProps` | `MCWidgetInstance` |
| `InputEvents` | event.c, the feeding of touches, keys and accessibility events in server.c | `InputEventsProps` | `MCInputEvents` |
| `BufferHandler` | buffer_handler.c, script_handler.c, the pixmap requests of server.c | `BufferHandlerProps` | `MCBufferHandler` |
| `ComThread`, over `ByteStream` | com-core_thread.c, service_cb of com-core_packet.c | `ComThreadProps` | `MCComThread` |
| `SlaveWidget` | data-provider-slave: widget.c, client.c, update_monitor.c, connection.c | `SlaveWidgetProps` | `MCSlaveWidget` |
| `ProviderApp` | widget_provider_app: client.c, connection.c | `ProviderAppProps` | `MCProviderApp` |
| `ProviderBuffer` | widget_provider_buffer.c, fb.c, event.c of widget_provider | `ProviderBufferProps` | `MCProviderBuffer` |
| `ViewerWidget` | widget_viewer: widget.c, client.c, widget_internal.c, master_rpc.c | `ViewerWidgetProps` | `MCViewerWidget` |
| `ViewerEvas` | widget_viewer_evas.c, the life cycle | `ViewerEvasProps` | `MCViewerEvas` |
| `ViewerTouch`, extends `ViewerEvas` | widget_viewer_evas.c, the fingers | `ViewerTouchProps` | `MCViewerEvas` |

`ByteStream` is what a connection promises: an ordered reliable stream of bytes that may be
closed; `ComThread` is shown to implement it.  `ViewerTouch` composes two components: it
runs the life cycle and the fingers in one state, so that a handle changes, fails or goes
under a finger.  Proofs are in modules of their own, `SlaveProofs`,
`SlaveRequestProofs`, `SlaveProcessProofs`, `ComThreadProofs`, `InputEventsProofs`,
`BufferHandlerProofs`, `ProviderAppProofs` and `ProviderBufferProofs`.

A property a run checks that is named for a whole (`ProcessIsOwned`, `HandlesCounted`)
is the conjunction of the parts defined before it, each with what it says of the code.

### What the models have in common

* One variable holds the process or the main loop (`m`, `e`, `b`, `p`, `q`, `v`), a record with
  the fields of the C structures.  A C function that changes it is an operator
  from state to state, named for the function, so that a nested call is an application and
  the order of the calls is the order in the code.  An action is one run of one
  main-loop callback: a request, a timer, an answer, an event of a pipe, the end of a
  connection.  Only `ComThread` and `InputEvents` have two threads; there a step ends wherever
  the other thread can see a difference.
* What the world returns (a launch, a load, a refusal, which viewer) is chosen by the action.
* `Uses` is a set of sets of requests, one of which a behaviour picks at the start: all requests
  at once are beyond a run, those whose order matters to one another are together.
* `Rare` names the orders after which a model does not go on.  Each is a place where the code is
  seen to leave its books wrong, listed under "Observations" below: what comes after it is one
  more consequence of the same fault and would hide everything else.  With `Rare = {}` the
  guard keeps the environment from that one order; with the name in `Rare` TLC finds it.
* Operators marked *seeded fault* are wrong versions of the operator after them, used by the
  mutants in `PROJECT.json` only.

### How `SlaveLife` corresponds to the code

One slave object of one package, its provider processes and their connections.

* `m` is the master: the fields of `struct slave_node` (`refcnt`, `state`, `pid`,
  `ctrl` = `ctrl_option`, `relaunch` = `relaunch_count`, `crit` =
  `critical_fault_count`, `wait` = `wait_deactivation`, `reactivate` and `reactInst` =
  `reactivate_slave` and `reactivate_instances`, the timers `ttlT`, `actT`, `relT`, `termT`),
  of its `slave_rpc` data (`handle`, `pend`, `pong`), the command list (`cmds`), the
  requests com-core is waiting for per connection (`sent`), the package
  (`pkg`: it holds a `slave_ref`; `fault`), its instances (`live`; `doomed` when destroyed
  but still held by a request), the pause of xmonitor and the nesting of
  `SIGUSR1` (`signals`).  A timer is one bit.
* `create`, `active`, `streak`, `mine`, `asked` and `uaf` are history variables: how many
  times `slave_create` and `slave_activate` took a reference that was not released,
  fast faults in a row, processes launched for this object, processes asked to
  end, and whether a reference was released that was not there.  `mine` stands for
  the name a process carries in its hello (`aul_launch_app` is given the slave's
  name), `asked` for a kill under way.
* `proc` and `conn` are the processes and their sockets.  A pid is used again
  only when nothing refers to it (`Reuse`).
* A C function that changes the slave is an operator from `m` to `m`, so a nested call is
  an application and the order of the calls is the order in the code:
  `Deactivated` is `slave_deactivated` with the callbacks of `package.c` and
  `slave_rpc.c` in the order in which they run (the list is prepended to), each with
  its early return when the object went away in between.
* An action is one run of one main-loop callback: `CreateInstance` ... `XMonitor`
  (requests and signals), `TerminateTimer`, `TtlTimer`, `ActivateTimer`,
  `RelaunchTimer`, `PingTimeout`, `Consume` (timers), `Hello`, `Ctrl`,
  `Answer`, `Disconnect` (packets).  `SendHello`, `Die`, `Reuse` are the platform's.
* Results of the outside world are the record `x`: what `aul_launch_app` and
  `aul_terminate_pid` return, which instances are no longer wanted when the slave is
  down, how the fault manager judges a fault.  The sets `Launching`, `Stopping`, `Failing`, `Expiring` and
  `Relaunching` hold what a run of each kind can meet.
* `Sound` guards `Next`: after a reference was released twice the C program works on
  freed memory, and no further step of it is claimed.  Invariants look at the
  state that step leads to, so the release itself is seen (`ReleasedOnce`).

### How `ComThread` corresponds to the code

* The reader thread (`client_cb`) is `reader`, its next step, and `held`, its chunk; the main
  thread is `main`, its next step within `evt_pipe_cb`, `service_cb`, `recv_with_fd`,
  `chunk_remove` or `terminate_thread`, with `want`, the rest of what `recv` was asked for.
  They share `chunks`, `pipe` (`evt_pipe`), `ctrl` (`ctrl_pipe`) and the socket.
* A step ends wherever the other thread can see a difference: each critical section of
  `chunk_lock` is one step, each system call on a pipe or the socket another.  So
  `chunk_append` is `AppendChunk` and then `SignalChunk`, and `chunk_remove` is `ConsumeEvent` and
  then `RemoveChunk`.  The main thread looks at the head of the list without the lock, in
  `RecvEmpty`, `RecvCopy` and `WaitEvent`.
* A byte is its position in the peer's stream, so that a chunk is an interval and a lost,
  repeated or invented byte shows as a gap.  `recv_ctx` is `offset` (its state follows from
  it) and `done`, the number of packets handled.
* `SignalChunk` and `SignalEnd` block on a full pipe, `ConsumeEvent` on an empty one.
* The end: the peer closes or resets (`Shut`), the answer to a packet cannot be sent or the
  handler closes the connection (`Service`), `wait_event` expires (`WaitTimeout`), or the
  application destroys it (`ClientDestroy`).  Then `TerminateThread`, `CloseSocket`, `Join`.

### `WidgetInstance`

One `struct inst_info`: `state` and `req` (`requested_state`), `changing` (`change_state`), `refcnt`,
`out` (requests without an answer), `owner`, `viewers` (`client_list`), the glance bar
(`gowner`, `gopen` = `need_to_send_close_event`, `gload`, `gtype`, `greact`), `timer` and `tag` (the timers, and the tags
`instance_set_data_by_tag` stores them under: a lost tag is a timer nobody can find).  `oncl` and `ondown` are the
callback lists of the clients and of the slave, in order.  `knows`, `gview` and `sub` are the clients' side: what
each was told of the instance and of its bar.  The slave is environment: off, starting or up, answering in any
order.  `uaf` marks the use of a freed instance or client.

### `InputEvents`

`thread` is `event_thread_main` at the places the main loop can tell apart; `items` the list behind the lock, `pipe`
the pipe of one character for each item and one for EXIT; `listeners` and `react` the two lists.  `orderly`
follows what each callback was told.  The second half is `server.c`: key and access events fed to a script, or
forwarded to the slave, and the status that is sent back at once (`sent`) or by `lazy_key_status_cb` (`lazy`).

### `BufferHandler`

`info` is a `struct buffer_info` for each of the four buffers of an instance, `fb` the pixmaps with `ref` (`refcnt`), their
places in `pixmap_list`, `gem` and mapping; `held` how many `release_pixmap_cb`s a client has for each pixmap, which give back when
it dies; `given` and `told` what a client was handed and told.  The slave may load, resize, acquire and release at any
time and die; the instance may be reset, reloaded and destroyed under it all.

### `SlaveWidget`

`pending`, `force`, `opened`, `hidden` and `updating` are the five lists of widget.c in order, `pt`, `ft`, `gt` their timers and `pf`,
`ff` the freeze counts; `it` the items (`timer`, `monitor`, `cnt` = `monitor_cnt`, `missed` = `updated_in_pause`), `bars` the open glance
bars, `conn` the counts of connection.c.  `owed` (history) says that an update was asked for and the widget
not yet asked; `marked` is the note of fault.c.  What a widget returns from a call is one of the sets in
`Uses`: needs scheduling, forced, output now, output soon, error.

### `ProviderApp` and `ProviderBuffer`

`ProviderApp`: `it` the instances with their state, timer and `paths`, the number of entries of `handle_list` (all are the owner's
address: the master sends no other, instance.c:273 and 3831), `conn` the counts of connection.c, `down` the
broken connections and `events` those com-core has not reported yet, `state`, `ping`, `watch` and `link`.  `missed` and `told` are what
viewers and the app saw.  `ProviderBuffer`: `buf` the `widget_buffer`s with their `fb` and gem, `canvas` the memory of fb.c with its
count, `eo` the list of event.c (an object is in it once, and none looks at another, so that an entry for each buffer is
the list); `press`, `cleared` and `frame` follow what the app was told, `held` what it refers to.

### `ViewerWidget`, `ViewerEvas`, `ViewerTouch`

`ViewerWidget`: `h` the handles and `c` the common handles several of them may share, `q` and `sent` the commands of master_rpc.c
(waiting, and with the master), `jobs` the ecore timers of `job_add`.  `owed` counts the callbacks a viewer was promised; a callback is
carried by a slot, a command or a job.  `m` and `due` are the master: what it has of an instance, what it will send.
`ViewerEvas`: `d` the `struct widget_data`s, `h` the handles of the library beneath with the callbacks they owe (`owes`) and the
pixmaps acquired (`held`), `list`, `wdirty`, `bdirty` the lists, `renderer` and `animator` the two ways of drawing.
`ViewerTouch`: `p` per object the flags of a press, `finger` where each finger is, `fed` what the master was told.

## 3. Runs

| run | instance | distinct states | asks |
|---|---|---|---|
| `slave_races` | ordinary provider, 2 instances, 2 processes, updates | 399,038 | do all orders of launch, retry, hello, timeout, fault, kill, exit and answer keep the books, the queues and the processes right? |
| `slave_live` | application (TTL and delayed kill), control options, pauses, `SIGUSR1/2`, fairness | 61,620 | does every launch, termination, orphan process, pending request and doomed instance come to an end? |
| `thread_stream` | two packets of a two-byte header and one byte | 29,522 | is the connection a stream, are packets kept apart, are packets and the end heard of, does teardown end? |
| `thread_lost_end` | the same | | violation of `LossNoticed` |
| `instance_gbar` | owner, viewer, both kinds of bar | 115,650 | do references, callbacks, timers and tags agree, is each promise of a bar kept, do clients know what the master has? |
| `input_device` | two fingers or two canvases, clock of 4 | 687,878 | is a touch told in order, once, to whoever listens; has each key its one status? |
| `buffer_pixmaps` | 2 viewers, 4 pixmaps, pixmap and shared memory | 263,988 | does a pixmap live exactly as long as somebody holds it? |
| `widget_updates` | 2 widgets of one package or two, fairness | 172,532 | does an update wait in one list, is it watched, kept over every pause, and taken up in the end? |
| `provider_app` | 2 instances, 2 viewers | 20,059 | are pauses told, connections held, and updates delivered over connections that break? |
| `provider_buffer` | 2 buffers, 2 canvases | 27,815 | is memory there while the app holds it, each press ended, each frame locked? |
| `viewer_handles` | 2 handles, shared content | 953,177 | does each callback reach the viewer once, over refusals, repeats, faults, jobs and deletions? |
| `evas_objects` | 2 objects, 2 handles, 2 fingers | 476,646 | are data freed with the last callback, is everything shown, and each press released? |

`thread_lost_end` is a disagreement of the code with a comment of its own, told under `findings` in
`PROJECT.json` with the line and the comment quoted.

`CHECK_DEADLOCK FALSE` stands where the system may rest: with no viewer asking for anything the master
rightly rests, and `Sound` ends a behaviour; a connection rests when it is gone; input rests when the clock
has run out or the instance is gone; so do the objects of an app that deleted them.

Each property has a mutant: a plausible slip in one mapped operator (a reference not given back, a list not
cleared, a timer not stopped, an order swapped) under which TLC finds it violated.

Bounds.  `Insts` 1 or 2 (one that leaves while another stays, and the last one),
`Procs` 1 or 2 (the old process still connected while the new one launches), `MaxQueue` 1 or 2:
the environment adds a request only while fewer are outstanding (`Room`), but the
master itself adds more (`resume` at the hello, one request per recovered
instance, `disconnect`), so queues of several entries do occur.  `MaxSignals` 0 or 1
(one `SIGUSR1` and its `SIGUSR2`), `RelaunchCount` 1 (retry, then exhaustion), `MaxLoad` 1
(the code's default).  `Rare` selects the events that multiply the states most: updates of the package in
`slave_races`, control options, pauses and signals in `slave_live`, there with one order that `slave_races` leaves
out (`"reuse"`, see "Observations").  `MaxQueue` is 2 in `slave_races` because that order first comes about with two
requests, one waiting for the next process while one sent to the last is not answered.
`Secured`, `LateHello` and `LimitToTtl` are FALSE in the runs; the proofs leave them open.
What a run of the main loop may meet (`Launching`, `Stopping`, `Failing`, `Expiring`, `Relaunching`) leaves out the
choices that the run never comes to make (which process is launched when the slave has one, which instances go when
a fault takes all of them): they add no transition, and in `slave_races` TLC
generates 10 million successors instead of 26.

For `ComThread`: a header of two bytes and a body of one can be cut within the header, between
header and body, and between packets; `MaxSent` 6 is two packets, so that one chunk may hold
parts of both; `PipeSize` 7 is more than the events that can be written (six chunks and the end),
as 65536 is for a main loop that is not stuck.  With a smaller pipe `TeardownEnds` fails: the
thread blocks in its write while the main thread waits in `pthread_join` (see `hazards`).

In the others: two of what is counted or queued (`Clients`, `Widgets`, `Items`, `Bufs`, `H`, `Objs`), as the
interesting cases are one that stays while another goes, one that shares with another, one before and
one after; room for one more than two of what is made and destroyed (`MaxPixmaps` 4, `MaxPaths` 2 or 3,
`MaxHeld` 2), so that a reload and a resize leave an old one behind; a clock of `MaxTime` 2 or 3 for the
stamps of touches, which are only compared.  `Ttl` 2 and `MaxFaults` 1: a request that is repeated, one
that is given up.

Assumptions on the environment.  A provider answers in the order of the requests.
`LateHello = FALSE` says that a process does not send its hello after the master
gave it up; `slave_hello` otherwise gives its pid to a slave that is terminated.
`WIDGET_CONF_SLAVE_TERMINATE_TIME` and `SLAVE_TTL` are greater than 0, as in every
configuration of the repository.  The build is the one of `CMakeLists.txt`
(`_USE_ECORE_TIME_GET`, `NDEBUG`: assertions are off).

Fairness (`Fairness`, only in `slave_live`).  The main loop calls a timer that is set
and stays set, runs the command consumer (an idler timer) while the list is not
empty, and dispatches a packet that has arrived and a connection that was closed; a
process that was sent a kill ends.  Providers owe nothing: they may hang before
their hello, never answer and never react to `disconnect`.  Only
`DoomedInstanceIsFreed` assumes that they answer or disconnect (`Answers`), since the
code has no timeout for a request.  Weak fairness of an action A is written out as
"infinitely often its guard is false or A happens".

In `thread_stream` both threads run on (weak fairness of `Reader` and of `Main`, each
always at one place in the code); the peer, the timeout and the application owe nothing.

In `widget_updates` the update monitor fires (weak fairness of `UpdateTimeoutCb`: once set it stays set
until the update ends) and the three timers of the lists do (strong fairness of `PendedConsumer`,
`OpenedConsumer`, `ForceUpdateCb`: a timer of a microsecond that is thawed again and again is due each
time it is thawed, and the main loop calls what is due before it waits).  Widgets, viewers and the master owe nothing.
`UpdateServed` asks nothing of a widget that is paused, hidden or under an open bar.

`ReleasedOnce` is claimed neither with `"reuse"` (see "Observations"), nor for late hellos (a slave given up has no activation left
that the next `slave_deactivated` could release), nor for a secured provider: when `activate_timer_cb` runs,
the fault callback can deactivate the slave (`aul_terminate_pid` on a dead process
fails), and the timer then deactivates it again.  With any one of the three TLC finds the double release on one instance and
one process; with none of them the property is proved (section 4).

## 4. Proofs

`SlaveProofs` proves, from `ConstantsAssumption` alone,
`TypeCorrect == Spec => []TypeOK` for any number of instances and processes.  Each operator of
`SlaveLife` has a lemma that takes `Master` to `Master`; each action one
lemma; `Next` is split once.  What needs an argument are the queues (a
`Tail` is taken of a non-empty queue only), `RecoverList` (a finite set has an
enumeration), and the counters, whose ranges (`crit`, `relaunch`, `streak`) are the
bounds of the retry logic.

It proves `RefCountIsExact == Spec => []RefCountExact` and
`UsedIsAlive == Spec => []UsedSlaveIsAlive`, again from `ConstantsAssumption` alone.
`RefCountExact` by itself is not inductive: that an object with references left is not
destroyed, and that a destroyed one has no pid, no handle and no timer (or a
callback would still use it), is needed too, and that no instance is loaded without the
package's reference.  The inductive invariant says so, up to the first double release:

    Books == ~m.uaf => Kept(m) /\ Off(m) = 0

`Off` is the count less the references that are accounted for; it is 0 between two runs
of the main loop but not within one, where a C function may hold or owe a reference.  So
every function has a contract `Moves(s, t, k)`: it keeps `Kept` and changes
`Off` by `k`, unless it releases a reference twice; the `k` is 0 for most, `-n` for
`Unrefs`, and `n` for a function that takes n requests from a queue and has their
references to give back.  Contracts compose (`MovesTrans`, `MovesThen`), so that the proof
of an action is the sequence of the calls the C function makes.  `Sound`, the guard of
`Next`, is where a double release ends the argument; see "Observations" for how
the code reaches it.

`SlaveRequestProofs` proves `RequestsSafe == Spec => []RequestsAreSafe`.  The invariant is `TypeOK`, `Books` and

    Neat == Emptied /\ Clean /\ (alive => Follows)

the three conjuncts of the property without their condition on the counters: `Follows` has to hold also
between the calls of one callback, as `slave_deactivated` empties the list of sent requests while the
callbacks it makes still look at the slave.  No function adds to the loaded instances but `CreateInstance`, and
none marks a package faulty without unloading them; a destroyed instance stays only while
`Held`, and a request that goes drops it.  `Books` is needed because a slave whose last reference goes in the middle of a callback
is destroyed with its connection.

`SlaveProcessProofs` proves `ProcessIsKnown == Spec => [](HandleIsPid /\ TimersHaveProcess /\
NoOrphanProcess)` from `ConstantsAssumption` alone, and all of `ProcessIsOwned` as `ProcessOwned` for `~LateHello`:
a hello that comes after the master gave up gives its pid to a slave that is terminated, which
`ActivationHasProcess` excludes.  The invariant is `TypeOK`, `Books` and

    Fit == Tied /\ (Live => Owned) /\ Watched

`Tied` relates connection, watchdog and timers to the pid, `Owned` the pid and the activate timer to the count of activations
(at most one), `Watched` says that a process which runs and was not asked to end is the slave's.
Instead of a contract for each function there are five: a function leaves the activation alone (`Rests`), ends
it (`Ends`: the slave is down, or launched again when it has instances), begins one (`Starts`), kills the process and
its timers (`Halted`) or disposes of the activate timer (`Settled`).  Each operator of the life cycle has one of them, and an action is
the composition.

With `~LateHello`, `~Secured` and no `"reuse"` it proves `ReleasedAtMostOnce` (`ReleasedOnce`): the count is not only exact but none of
its parts is released twice.  To `TypeOK`, `Books` and `Fit` the invariant adds

    Whole == ~uaf /\ Kept /\ create \in {0, 1} /\ active >= 0 /\ (pkg => Loaded # {}) /\ (create = 0 => active = 0 /\ ~pkg)

Why each `slave_unref` finds a count is an argument about `Off`: a run of a function that gives k references back starts with
k to spare (`Covered(s, k)`), which it took itself (`slave_ref`) or with a request it took off a queue (`Passes`).  Why none goes twice is the
last conjunct: the first reference goes with the last instance, in `slave_deactivated` only, when the activation and the package's
reference are gone.  An activation is given up by whoever finds a process or the activate timer, and by `Fit` there is exactly one then
(`SingleNow`).  `~Secured` is used where `slave_deactivated` follows the fault callback (`FaultCbWhole`), `~LateHello` where a process must mean an
activation, the absence of `"reuse"` where an activation needs the first reference (`ActivateWhole`).

`ComThreadProofs` proves `EventsMatchChunks == Spec => []EventPerChunk` and its
`TypeCorrect` from `SizesAssumption`, for every size of header, body, stream and pipe, with short
reads or without.  `EventPerChunk` is inductive together with `TypeOK` and `Control`: a chunk that
is being removed is used up and the others are not, and a recv under way asks for no more than
`Needed`.  For a connection without short reads (`~ShortReads`: recvmsg gives what FIONREAD promised) two more parts are inductive: `Flow`, the bytes taken from the
socket are those copied, then those in the list, then those in the thread's hands, without a gap;
and `Counted`, where the position in the stream is within a recv.  They give
`NothingSkipped` (`StreamIntact`), `PacketsInSync` (`InSync`) and
`ConnectionIsStream == Spec => StreamRefined`: `RecvCopy` is `Receive` of the abstract stream, the steps
to `leave` are `Close`, all others stutter.

`ProviderAppProofs` proves the three properties of `ProviderApp` for any instances, viewers and pings: `LinksHeld`
(`LinksAreHeld`), `AppIsTold` (`RunStateTold`) and `OwnersServed` (`OwnerServed`).  The inductive invariant is

    Inv == Links /\ Paused /\ Served /\ Tied

`Links` says that the count of a connection is its entries in the lists, no more and no fewer, and that one that broke
is still counted and an end not yet reported belongs to one that broke; the count of entries is the
cardinality of a set of pairs, so that releasing a list at once is one lemma (`UnrefCounted`).  `Served` needs it: that an
owner misses no update depends on its connection staying as long as an entry does.  `Paused` is the state of the app against the
state of each instance, with the callbacks it was given; a function either leaves it (`Quiet`) or is one of
the few that tell the app.  `Tied` orders the descriptor, the name and the timers of the connection to the master.

`InputEventsProofs` proves the three properties of `InputEvents` for any fingers, uses, clock and number of items:
`ItemsMatched` (`ItemsMatch`) and `AllAnswered` (`Answered`) from `InputAssumption` alone, `ToldInOrder`
(`Orderly`) for `Patient` ("tap while delayed" is not in `Rare`; a finger that comes again while its listener waits
gets two of them, see "Observations").  The first two share the invariant `Base`: `Life` orders the flags of the thread (a
handler while EXIT is not read, `joining` from the request to quit to the join, EXIT last in the pipe), `Paired` relates the
lengths of list and pipe, `Listened` says that an active listener has a thread that was not told to quit, `Counted` that a taken
event has one status.  `ToldInOrder` needs `Order` besides: one listener for a callback and finger (`Single`), what
each was told last fits to its state (`Told`), and nobody else is in the middle of anything (`Rest`).  The loop over the listeners is a
recursive function; the least counterexample (`LeastOf`) replaces the induction, for the function's values (`WalkExists`) and for
what holds after each listener (`WalkInvariant`).

`BufferHandlerProofs` proves the three properties of `BufferHandler`, `PixmapsAreCounted` (`PixmapsCounted`), `GrantsAreKept`
(`GrantKept`) and `ExtraIsTold` (`ExtraTold`), for any viewers, sizes, types of buffer, slots and number of pixmaps, as long
as no load fails and the master can draw into what it makes (`Supplied`, the condition of the run too: what else happens is under
"no_gem" and "no_room" in "Observations").  The inductive invariant is

    BufferInv == Core(b) /\ Living(b)

`Core` is what each function of buffer_handler.c keeps: the count of a pixmap is its buffer, of which there is one at
most (`Apart`), and the cardinality of the set of its keepers, a pair for each time a client holds it, so that a client that leaves takes a
product of sets with it (`Fewer`).  A pixmap not yet made has no keepers, and one a script draws has a gem, without which a frame
would keep a reference; with it, drawing leaves no trace (`BufferFbSame`), and a canvas loads and unloads as a buffer
does (`ScriptBuffers`).  Each function has a lemma: it keeps `Core`, touches one buffer (`Within`) and makes one pixmap at
most.  `Living` is what the instance adds: it loads again only what was made, and its script is open once, and not before it
is active or while it waits to be renewed.

`ProviderBufferProofs` proves the three properties of `ProviderBuffer` for any buffers, canvases, extra buffers and times, each for
the environment its observations need: `MemoryStaysSafe` (`MemoryIsSafe`) for `Orderly` and `NoSegments` (memory of kind "shm" is
detached while the app holds it), `PressStaysBalanced` (`PressBalanced`) for `OneHand` (a widget is touched by the
device or by the master's events) and no buffer destroyed while it is touched, `FramesStayWhole` (`FramesAreWhole`) for `Drawable` (a buffer
is acquired before it is drawn into, mapping succeeds, there is a frame to skip).  The inductive invariant is `Base` and, each as
far as its condition holds,

    Device /\ Memory /\ Fingers /\ Frames

`Base` is the types and that a buffer has memory when it is acquired and only then, and no gem in memory that is no pixmap.  `Device` says
that the device is watched while somebody is registered, and whoever is registered has a buffer; `Memory` that a pointer to a canvas points
to a live one whose count is what the app refers to, that nothing that is gone was used, that no descriptor leaks, and that a gem of a
master that went is not there when the next one comes; `Fingers` the press of each buffer against its state in the device's list; `Frames` the count, the locks and the mapping
of a gem against the frame that is drawn (`Whole`).  Most functions change one buffer and little of it (`Mild`): one lemma (`OneBuffer`)
keeps all four parts, and a function is shown to be mild and to keep `Framed`.  `FbReleaseBuffer`, the end of the touches and the loss of the master
change several buffers and have lemmas of their own.

Only model-checked: every property of the other five models (`WidgetInstance`, `SlaveWidget`, `ViewerWidget`,
`ViewerEvas`, `ViewerTouch`), all liveness (out of the prover's reach), and the violation.  The five walk lists with the
folds of the community modules, whose recursion the provers cannot unfold.

## 5. Not modelled

In the slave: failures of memory allocation and of timer creation; a send that fails
three times, after which `slave_rpc.c` drops the command without its callback;
`slave_faulted` and the fault mark; `hello_sync` of watches; the validity check of a
slave pointer in callbacks; SDK timers and bundle data; freeze and thaw of the TTL (they
delay it only); debug mode; other slave objects (a new instance that finds
its slave leaving gets another one).  Two further observations are not properties: a slave
whose count reaches 0 while it has a pid is refused destruction ("Slave is not
deactivated") and stays as an object without users, and a `SIGUSR2` without
`SIGUSR1` makes `deactivate_all_refcnt` negative.

In a connection: connecting and accepting, sending, the sender's pid and passed descriptors,
failures of allocation, of `select` and of writing to a pipe, and
`com_core_thread_server_destroy`.  Other connections are independent of it.

In the rest: failures of allocation; values that nobody compares (period, group, title, geometry);
drawing; other instances than the one of `WidgetInstance`, `InputEvents` and `BufferHandler` (they share nothing
but lists walked by key); a package with direct input, whose slave reads the device; watches; the
window stack of a client and its subscriptions; files of the image format; service discovery.

Components left out whole are in `PROJECT.json` under `components`, with their reason: databases,
settings, forwarders to other daemons, command-line tools, the packet router no program uses.

### Observations

Read in the code while modelling, with the `Rare` value that admits it where there is one.

Master.  "reuse" - `slave_deactivated` releases the creation reference each time it finds no loaded instance
(slave_life.c:1173-1179): a slave kept by a request alone and used again, by a new instance or `SIGUSR2`, loses it twice.  A
slave whose count reaches 0 while it has a pid is refused destruction; a `SIGUSR2` without `SIGUSR1` makes
`deactivate_all_refcnt` negative; an answer of an earlier process sets the state of a slave launched again
(slave_life.c:1785).
`WidgetInstance`: "owner leaves" - the close callbacks of a bar and the handler that removes them release one
reference twice (instance.c:1841-1873); "cancel" - a bar closed before it was drawn gets neither of the two answers that
server.c:6109-6116 asks for; "late release", "early viewer", "lost delete", "early open", "cold reload" - a late buffer
release ends the monitor of the next opening, a viewer subscribed before the creation is told twice, a slave that goes while
asked to delete leaves the instance, a bar opened during renewal is forgotten, an upgrade reloads buffers of a slave
that is off.
`InputEvents`: "tap while delayed" - `event_deactivate` does not look at the listeners that wait (event.c:1096), and an activation is
refused while EXIT is unread though nobody listens (1067); "script deleted" - `inst_del_cb` resets the callback data (server.c:2002) and
the consume callbacks use it unchecked (689-771, 863-945).  Both key handlers of the bar choose by the type of the widget.
`BufferHandler`: "no_gem" - acquiring a pixmap without a gem keeps the reference it took (buffer_handler.c:808-823); "no_room" - a load
that fails has made its lock (556-598), and the resize after it says success.  `client_widget_acquire_xpixmap` answers
success with pixmap 0 when the extra buffer is missing (server.c:5262-5266).

Connections.  `com-core.c`: a disconnection inside a disconnection clears the flag of the outer one (182-229).

Widget process.  `SlaveWidget`: "two bars" - two open bars of one package put a widget in two lists (widget.c:584); "thaw while
updating" - an update asked for by an overslept timer is taken from the list and dropped because one is
under way (805-851); "late open" - the bar of a widget that is leaving stays in the list.  A freeze of
the pending list is not counted while it has no timer (134-148), so that a timer made during a pause runs.

Provider.  `ProviderBuffer`: "set_twice" - a second mouse set leaks the descriptor (event.c:445); "destroyed_touched" - a
buffer destroyed while registered is used by the next event; "gem_outlives", "map_fails", "extra_missing" (an index equal to the count
passes, widget_provider.c:1884), "not_acquired".  Shared memory is detached at the first release, whatever widget_provider_buffer.c:2130
says.  `ProviderApp`: other viewers than the owner may miss the update during which their connection broke
(client.c:1578); a change of "secured" leaves the timers of the instances running (350); `connection_add_event_handler` leaves
`deleted` uninitialised.

Viewer.  `ViewerWidget`: "early delete" - the comment at widget.c:1209 says "just stop to delete procedure", the code calls the callback and
goes on to send a delete without an id; "released twice" - a deletion by the master releases a handle the viewer had
given up (client.c:288); "resize while asked".  `ViewerEvas`: "deleted while the bar opens" keeps the reference of the opening
(widget_viewer_evas.c:2854-2863); "deleted under a drawn bar", "pixmap bar closes" release the pixmap of the bar twice (1609-1613);
"activation fails" clears `deleted` (3493); "updates after a fault" remove the overlay that says so; "mode changes over updates", "bar extras",
"bar fails", "content fails", "add refused", "setup fails", "tapped twice", "tapped while it lives", "deleted when faulted", "nobody wants it",
"flicked while it closes", "extra not there" each leave a list, a reference or an acquisition behind.  `ViewerTouch`: "bar closes under a
finger", "sized under a finger", "forced out of place" leave the provider with a press that nobody ends.

## 6. Plan

1. The proof of the counting invariant of `WidgetInstance` (`RefExact`), a sum over a list, with a contract like `Moves`.
2. `ComPacket`: request and receive contexts of com-core_packet.c over descriptors that are used again, against an
   abstract specification in which each request ends once, with its own answer or with none.
