-------------------------- MODULE InputEventsProps --------------------------
(* What the collection and the feeding of input promise.                   *)
EXTENDS InputEvents

ListenerState == [cb : Callbacks, slot : Slots, state : Active \cup {"unset"},
                  prev : Active \cup {"none"}, tv : 0..MaxTime,
                  done : BOOLEAN, inst : BOOLEAN]

(* Types: every listener is in one of event.c's states, and "none" is the  *)
(* previous state of exactly those nobody unset or told anything yet.      *)
TypeOK ==
  /\ \A l \in Range(e.listeners) \cup Range(e.react) :
       l \in ListenerState /\ (l.prev = "none" <=> l.state = "down")
  /\ e.thread \in {"off", "start", "run", "push", "ended"}
  /\ \A k \in DOMAIN e.lazy : e.lazy[k] \in 0..1 /\ e.sent[k] \in 0..1

(* clear_listener (event.c:611) and event_read_cb: whatever is set, unset, *)
(* dropped as too old, restarted or destroyed, a callback is told "down"   *)
(* first, "up" last and "move" only in between.                            *)
Orderly == e.orderly

Events(s) == Cardinality({k \in DOMAIN s.pipe : s.pipe[k] = "event"})

(* push_event_item (event.c:152) and pop_event_item: the list has one item *)
(* for each character in the pipe, plus the one being pushed, so that the  *)
(* thread's EXIT finds it empty ("The event item list should be empty").   *)
ItemPerEvent ==
  /\ Len(e.items) = Events(e) + (IF e.thread = "push" THEN 1 ELSE 0)
  /\ \A k \in DOMAIN e.pipe : e.pipe[k] = "exit" => k = Len(e.pipe)

(* event_activate and event_read_cb (event.c:1067, 733): a listener that   *)
(* was accepted has a thread collecting for it, or waits for the end of the *)
(* last thread, which is still to be read.                                 *)
ListenersServed ==
  /\ \A l \in Range(e.listeners) :
       l.state \in Active => e.active /\ e.thread \in {"start", "run", "push"}
  /\ e.react # <<>> => e.handler /\ ~e.active
  /\ e.active => e.handler

(* send_delayed_key_status, slave_key_status and their access twins: a key *)
(* or access event that was taken has exactly one status on its way, so the *)
(* viewer neither waits for ever nor takes the status of another event.    *)
OneStatus ==
  \A k \in DOMAIN e.waits :
    e.alive => e.lazy[k] + e.sent[k] = (IF e.waits[k] THEN 1 ELSE 0)

(* event.c's list, its pipe and the state of each listener tell the same   *)
(* events, whatever the thread and the main loop do in between.            *)
ItemsMatch == TypeOK /\ ItemPerEvent

(* Whoever asked for input is served and whoever sent a key is answered    *)
(* (event_activate, event_deactivate, send_delayed_key_status).            *)
Answered == ListenersServed /\ OneStatus
=============================================================================
