-------------------------- MODULE ProviderAppProps --------------------------
(* What a provider keeps to, from the first hello to the last goodbye.     *)
EXTENDS ProviderApp

(* Types, and nothing is left behind: without a connection to the master   *)
(* there is no ping; a provider that is finished holds no handler, and a   *)
(* connection that is closed has neither broken nor to be reported.        *)
TypeOK ==
  /\ \A i \in Items :
       LET x == p.it[i] IN
       /\ x.state \in {"unknown", "resumed", "paused"}
       /\ x.timer \in {"off", "on", "frozen"}
       /\ x.paths \in Nat /\ (x.owner = NoAddr => x.paths = 0)
       /\ ~InstanceFind(p, i) => x = NoItem
  /\ p.events \subseteq p.down /\ \A a \in p.down : ConnectionFind(p, a)
  /\ p.init => p.fd /\ p.name
  /\ p.ping # "off" => p.fd
  /\ p.watch # "none" => p.init

(* method_pause, method_resume, method_widget_pause, method_widget_resume: *)
(* the two kinds of pause begin and end in any order; the app was last     *)
(* told to resume exactly the instances neither of them holds back, never  *)
(* the same twice in a row, and their timers run.  Nor does a provider stop*)
(* its pings unless paused: the master ends one that does.                 *)
RunStateTold ==
  /\ \A i \in Items :
       LET x == p.it[i] runs == x.state = "resumed" /\ p.state = "resumed" IN
       InstanceFind(p, i) =>
         /\ runs = (x.told = "resumed") /\ ~x.twice
         /\ runs => x.timer # "frozen"
  /\ p.ping = "frozen" => p.state = "paused"

(* connection.c, instance_create, method_viewer_connected: a connection is *)
(* counted once for each entry on the lists of the instances, whoever      *)
(* breaks or leaves, and lives exactly as long as there is one.            *)
PathsAreHeld ==
  \A a \in Addrs :
    p.conn[a] = Cardinality(Entries(p, Items, a))

(* connection_disconnected_cb, client.c:1151 'by reset "handle", the          *)
(* provider_app_send_updated function will send event to the master':        *)
(* the viewer an instance was made for gets each update, directly or         *)
(* through the master, also when its connection broke and even when the      *)
(* break was never handled.                                                  *)
OwnerServed == \A i \in Items : p.it[i].owner \notin p.it[i].missed

(* disconnected_cb, method_disconnected: without a master no instance and  *)
(* no connection to a viewer is left, and the app knows.                   *)
LinkTold ==
  /\ (p.link = "on") = p.fd
  /\ ~p.fd => Instances(p) = {} /\ \A a \in Addrs : p.conn[a] = 0

(* Instances, connections and the link to the master refer to what is      *)
(* there, through broken connections, widget_provider_fini and a master    *)
(* that dies (client.c, connection.c).                                     *)
LinksAreHeld == TypeOK /\ PathsAreHeld /\ LinkTold
=============================================================================
