-------------------------- MODULE SlaveWidgetProps --------------------------
(* What the process that runs widgets keeps to.                            *)
EXTENDS SlaveWidget

Lists == p.pending \o p.force \o p.opened

(* Types, and a list has its timer exactly while somebody is in it         *)
(* (activate_ and deactivate_*_consumer), so that nobody waits in a list   *)
(* no timer takes up.                                                      *)
TypeOK ==
  /\ \A i \in Widgets :
       /\ p.it[i].st \in {"none", "live", "leaving", "gone"}
       /\ p.it[i].timer \in {"off", "on", "frozen"}
       /\ p.it[i].cnt \in Nat
  /\ p.lib \subseteq Widgets
  /\ \A i \in Widgets : p.it[i].st \in {"live", "leaving"} => p.of[i] \in p.lib
  /\ p.pf \in Nat /\ p.ff \in Nat
  /\ (p.pt # "off") = (p.pending # <<>>)
  /\ (p.ft # "off") = (p.force # <<>>)
  /\ (p.gt # "off") = (p.opened # <<>>)

(* widget.c:584 "the ITEM must only exists in one list, pending list or    *)
(* force_update_list": through migrations, hiding, glance bars and forced  *)
(* updates a widget waits in one list, once; and every list, also that of  *)
(* the glance bars, holds widgets that are there.                          *)
OneList ==
  /\ \A i \in Widgets :
       /\ Len(SelectSeq(Lists, LAMBDA x : x = i)) <= 1
       /\ Len(SelectSeq(p.hidden, LAMBDA x : x = i)) <= 1
  /\ p.dead \/ ToSet(Lists \o p.hidden \o p.bars)
                 \subseteq {i \in Widgets : Live(p, i)}

(* updator_cb, output_handler, widget_destroy: an update under way has its *)
(* monitor and its note at the master, whatever else happens to the widget *)
(* or the process, and a widget is neither destroyed nor updated again     *)
(* before the end of its update.                                           *)
UpdateIsWatched ==
  p.dead \/ \A i \in Widgets :
    LET x == p.it[i] IN
    /\ x.monitor = x.marked
    /\ x.monitor = (Contains(p.updating, i) \/ x.st = "leaving")
    /\ x.monitor => x.st \in {"live", "leaving"} /\ (x.cnt > 0 \/ x.heavy)
    /\ Len(SelectSeq(p.updating, LAMBDA y : y = i)) <= 1

(* widget_pause, widget_resume and the same for all: the two kinds of      *)
(* pause may begin and end in any order; a widget neither holds back any   *)
(* more has its timer running and no update put off.                       *)
ResumedRuns ==
  ~p.dead /\ p.state = "resumed" =>
    \A i \in Resumed(p) : p.it[i].timer # "frozen" /\ ~p.it[i].missed

(* append_pending_list, timer_thaw, updator_cb: an update asked for waits  *)
(* in a list, or is put off until the widget is resumed, until the widget  *)
(* has been asked whether it has one.                                      *)
UpdateKept ==
  p.dead \/ \A i \in Widgets :
    p.it[i].owed => Contains(Lists \o p.hidden, i) \/ p.it[i].missed

(* connection_ref and connection_unref: a connection to a viewer is kept   *)
(* once for each time a widget holds it, and given up with the last.       *)
PathsAreHeld ==
  p.dead \/ \A a \in Addrs :
    p.conn[a] = FoldSet(LAMBDA i, n : n + p.it[i].paths[a], 0, Widgets)

Held(i) ==
  \/ p.dead \/ ~Live(p, i) \/ p.it[i].state # "resumed" \/ p.state # "resumed"
  \/ p.bars # <<>> \/ ~Shown(p, i)

(* The freeze counts of the timers: an update asked for of a widget that   *)
(* is shown and resumed is taken up, unless pauses and glance bars hold it *)
(* back for ever; no order of them leaves a timer frozen.                  *)
UpdateServed == \A i \in Widgets : 
  []<>(~p.it[i].owed \/ Contains(p.updating, i) \/ Held(i))

(* Where a widget waits and what watches it agree: lists, timers, monitor  *)
(* and the connections to its viewers (slave widget.c, connection.c).      *)
ListsAgree == TypeOK /\ OneList /\ PathsAreHeld
=============================================================================
