------------------------ MODULE WidgetInstanceProps ------------------------
(* What must hold of a widget instance; see WidgetInstance.                *)
EXTENDS WidgetInstance

Count(seq, cb) == Cardinality({k \in DOMAIN seq : seq[k] = cb})

Running(s) == s.timer["lazyOpen"] + s.timer["lazyClose"] + s.timer["open"]
              + s.timer["close"] + s.timer["resize"]

GbarCallbacks(s) ==
  FoldLeft(LAMBDA n, c : n + Count(s.oncl[c], "gbar"), 0, SetToSeq(Clients))

\* The fields of the instance, its clients and its slave keep their types.
TypeOK ==
  /\ {m.alive, m.uaf, m.unicast, m.gopen, m.greact, m.fault} \subseteq BOOLEAN
  /\ m.state \in States /\ m.req \in {"INIT", "ACTIVATED", "DESTROYED"}
  /\ m.refcnt \in Nat /\ m.changing \in Nat /\ m.gload \in Nat
  /\ {m.owner, m.gowner, m.firing} \subseteq Clients \cup {NoClient}
  /\ UNION {m.viewers, m.lazy, m.knows} \subseteq Clients
  /\ m.gtype \in {"buffer", "script"} /\ m.tag \subseteq Tags
  /\ m.timer \in [Tags -> Nat] /\ m.out \in [Requests -> Nat]
  /\ m.slave \in {"off", "starting", "up"}
  /\ m.cl \in [Clients -> {"up", "faulted", "gone"}]
  /\ m.sub \in [Clients -> BOOLEAN]
  /\ m.gview \in [Clients -> {"closed", "opening", "open", "closing"}]

(* instance_ref and instance_unref (instance.c:1157): the count is what    *)
(* refers to the instance, one each for its own life, a request without an *)
(* answer, a viewer, a timer of the GBAR, a close callback and a deferred  *)
(* delete; so the instance is freed with the last of them, and nothing of  *)
(* a freed one is left to fire or to be used.                              *)
RefExact ==
  /\ ~m.uaf
  /\ m.alive => m.refcnt = (IF m.state = "DESTROYED" THEN 0 ELSE 1)
                           + Outstanding(m) + Cardinality(m.viewers)
                           + Running(m) + GbarCallbacks(m) + Cardinality(m.lazy)
  /\ ~m.alive => /\ m.out = NoRequests /\ m.timer = NoTimers /\ m.lazy = {}
                 /\ m.ondown = <<>> /\ \A c \in Clients : m.oncl[c] = <<>>

(* A callback is registered exactly as long as what it undoes: the owner's *)
(* and the viewers' at their client nodes, the GBAR's at its owner         *)
(* (instance.c:3607), a fault callback at the slave beside each running    *)
(* GBAR timer of the same kind, each timer under its tag (server.c:5829).  *)
CallbacksFit ==
  LET Of(cbs) == Cardinality({k \in DOMAIN m.ondown : m.ondown[k] \in cbs})
  IN  /\ \A c \in Clients :
           /\ Count(m.oncl[c], "viewer") = IF c \in m.viewers THEN 1 ELSE 0
           /\ Count(m.oncl[c], "owner") = IF m.alive /\ m.owner = c THEN 1 ELSE 0
           /\ Count(m.oncl[c], "gbar") = 1 => m.gowner = c
      /\ \A t \in Tags : m.timer[t] = IF t \in m.tag THEN 1 ELSE 0
      /\ Of({"openBuffer", "openScript"}) = m.timer["open"] + m.timer["lazyOpen"]
      /\ Of({"closeBuffer", "closeScript"}) = m.timer["close"] + m.timer["lazyClose"]
      /\ Of({"resizeBuffer"}) = m.timer["resize"]

(* While the slave is up, an instance that waits for its answer has a      *)
(* request of that kind outstanding, and change_state counts them          *)
(* (instance.c:1187, 1314, 1477): no instance waits for nothing.           *)
RequestUnderWay ==
  m.alive =>
    /\ m.changing = m.out["new"] + m.out["renew"] + m.out["delete"]
    /\ m.slave = "up" =>
         /\ m.state = "TO_ACTIVATE" => m.out["new"] > 0
         /\ m.state = "TO_REACTIVATE" => m.out["renew"] > 0
         /\ m.state = "TO_DESTROY" => m.out["delete"] > 0

(* A client that was answered "success" by client_create_gbar or           *)
(* client_destroy_gbar (server.c:5829, 6052) and waits for "created" or    *)
(* "destroyed" has a timer running that will send it.                      *)
PromiseKept ==
  \A c \in Ups(m) :
    /\ m.gview[c] = "opening" => OpenTag(m) \in m.tag
    /\ m.gview[c] = "closing" => m.tag \cap {"close", "lazyClose"} # {}

(* A client that believes its GBAR open, or about to be, is the one the    *)
(* master has as the GBAR's owner (instance.c:3532): its closing, by the   *)
(* client, the slave or a disconnection, finds it.                         *)
OpenIsOwned == \A c \in Ups(m) : m.gview[c] \in {"open", "opening"} => m.gowner = c

(* No client goes on showing an instance the master has freed: it was told *)
(* by instance_unicast_deleted_event or the broadcast (instance.c:600).    *)
DeletedIsTold == ~m.alive => m.knows \cap Ups(m) = {}

(* instance_broadcast_deleted_event (instance.c:621) takes the viewers     *)
(* from an instance that ends: their references do not keep it.            *)
NoZombie == m.alive /\ m.state = "DESTROYED" => m.viewers = {}

(* References, callbacks, timers and tags of an instance agree with one    *)
(* another in every state (instance_ref, client_event_callback_add,        *)
(* slave_event_callback_add, instance_set_data).                           *)
HeldExactly == TypeOK /\ RefExact /\ CallbacksFit

(* What the viewers believe of an instance is what the master has: its     *)
(* GBAR and its end (the broadcasts and unicasts of instance.c).            *)
ViewersAgree == OpenIsOwned /\ DeletedIsTold /\ NoZombie
=============================================================================
