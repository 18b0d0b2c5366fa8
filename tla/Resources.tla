------------------------------ MODULE Resources ------------------------------
(* The registries of processing/dpdk_pipeline: memory pools, software queues *)
(* (swq), TAP and KNI devices, links, crypto devices, traffic manager (tmgr) *)
(* ports and the two kinds of action profiles. Each *_create command checks  *)
(* its parameters, asks the libraries for what the node stands for, and adds *)
(* the node; each of those steps may fail, and nothing is ever deleted. The  *)
(* module keeps the nodes next to what the libraries hold, so that what the  *)
(* error paths forget to give back can be seen.                              *)
EXTENDS Integers, FiniteSets, SequencesExt

CONSTANTS
  NamesOf,      \* the names tried for each kind of node
  Ports,        \* the Ethernet ports of the machine
  RssPorts,     \* those with a redirection table (RETA)
  MaxRxQueues,  \* the receive queues a port can have
  Devs,         \* the crypto devices
  NSubports,    \* tmgr: subports of a port
  NPipes,       \* tmgr: pipes of a subport
  Requests,     \* what the kernel asks through a KNI device
  EtherMaxLen,  \* RTE_ETHER_MAX_LEN, scaled
  ProfileMax,   \* bound: the profiles added; TMGR_*_PROFILE_MAX is 256
  MaxNodes,     \* bound: the nodes created
  None

Kinds == {"mempool", "swq", "tap", "link", "kni", "cryptodev", "tmgr",
          "port_in_action", "table_action"}

ASSUME KindsNamed == DOMAIN NamesOf = Kinds
ASSUME SizesPositive == /\ {NSubports, NPipes, MaxRxQueues} \subseteq Nat \ {0}
                        /\ {ProfileMax, MaxNodes, EtherMaxLen} \subseteq Nat
                        /\ RssPorts \subseteq Ports
ASSUME RequestsKnown == Requests \subseteq [what : {"up", "down", "mtu"}, mtu : Nat]

VARIABLES
  nodes,    \* the nodes of all registries but the KNI's
  knis,     \* the KNI nodes, in the order of kni_list
  held,     \* what the libraries hold: started ports and devices, pools, rings...
  port,     \* link status and MTU of the Ethernet ports
  profiles, \* tmgr.c: n_subport_profiles, n_pipe_profiles
  sched,    \* tmgr: the profiles in force in each port
  asked,    \* what the kernel asks of a KNI device and has no answer to
  result    \* of the last command

vars == <<nodes, knis, held, port, profiles, sched, asked, result>>

-----------------------------------------------------------------------------
Thing(kind, id) == [kind |-> kind, id |-> id]

\* The node `name` of a registry, which stands for `id` in a library.
Node(kind, name, id) == [kind |-> kind, name |-> name, id |-> id]

AllNodes == nodes \cup ToSet(knis)

\* mempool_find, swq_find, tap_find, link_find, kni_find, ...
find(kind, name) == \E n \in AllNodes : n.kind = kind /\ n.name = name

SubportIds == 0 .. NSubports - 1
PipeIds == 0 .. NPipes - 1

\* n_sub, n_pipe: how many profiles the port was told of when it was made.
Sched(n_sub, n_pipe) ==
  [n_sub |-> n_sub, n_pipe |-> n_pipe,
   subport |-> [s \in SubportIds |-> 0],
   pipe |-> [s \in SubportIds |-> [i \in PipeIds |-> 0]]]

\* mempool_init, swq_init, link_init, ...: every list is empty.
Init ==
  /\ nodes = {} /\ knis = <<>> /\ held = {}
  /\ port = [p \in Ports |-> [up |-> FALSE, mtu |-> 0]]
  /\ profiles = [subport |-> 0, pipe |-> 0]
  /\ sched = [n \in NamesOf["tmgr"] |-> None]
  /\ asked = [n \in NamesOf["kni"] |-> None]
  /\ result = "ok"

\* A create function returns NULL, having changed no registry.
ReturnNull ==
  /\ result' = "failed"
  /\ UNCHANGED <<nodes, knis, profiles, sched, asked>>

Refuse == ReturnNull /\ UNCHANGED <<held, port>>

\* The node is filled in and added at the end of its list.
AddNode(node) ==
  /\ Cardinality(AllNodes) < MaxNodes
  /\ IF node.kind = "kni" THEN knis' = Append(knis, node) /\ UNCHANGED nodes
                          ELSE nodes' = nodes \cup {node} /\ UNCHANGED knis
  /\ held' = held \cup {Thing(node.kind, node.id)}
  /\ result' = "ok"
  /\ UNCHANGED <<profiles, asked>>

(* mempool_create, swq_create and tap_create: `fits` when the sizes asked    *)
(* for are accepted. Without memory for the node the pool, the ring or the   *)
(* file is given back, so that the registry and the library are as before.   *)
Simple(kind, name, fits) ==
  IF ~fits \/ find(kind, name) \/ Thing(kind, name) \in held
  THEN Refuse
  ELSE \/ Refuse
       \/ AddNode(Node(kind, name, name)) /\ UNCHANGED <<port, sched>>

mempool_create(name, fits) == Simple("mempool", name, fits)
swq_create(name, fits) == Simple("swq", name, fits)
tap_create(name) == Simple("tap", name, TRUE)

\* lb.key_size is 8, 16, ... 64 when the profile has the load balance action.
LbKeyFits(mask, key_size) ==
  "lb" \in mask => key_size \in {8 * k : k \in 1 .. 8}

(* The actions of the mask are registered one by one and the profile is      *)
(* frozen; the first refusal frees it.                                       *)
port_in_action_profile_create(name, mask, key_size) ==
  Simple("port_in_action", name, LbKeyFits(mask, key_size))

table_action_profile_create(name, mask, key_size) ==
  Simple("table_action", name, "fwd" \in mask /\ LbKeyFits(mask, key_size))

-----------------------------------------------------------------------------
(* Links                                                                     *)

\* (slip: the port is left running)
dev_stop_slip(p) ==
  /\ held' = held \cup {Thing("link", p)}
  /\ port' = [port EXCEPT ![p].up = FALSE]

\* rte_eth_dev_stop
dev_stop(p) ==
  /\ held' = held \ {Thing("link", p)}
  /\ port' = [port EXCEPT ![p].up = FALSE]

\* The port runs when the RSS table cannot be written, the link cannot be set
\* up, or there is no memory for the node: it is stopped again.
link_create_undo(p) == dev_stop(p) /\ ReturnNull

\* The library writes a RETA only of queues the port has been given.
rss_setup(n_rxq, rss) == \A q \in rss : q < n_rxq

LinkParamsFit(name, p, n_rxq, rss) ==
  /\ ~find("link", name) /\ n_rxq > 0
  /\ \E pool \in NamesOf["mempool"] : find("mempool", pool)
  /\ rss # {} => p \in RssPorts
  /\ \A q \in rss : q < MaxRxQueues

(* The queue numbers of `rss` are compared with what the port could have,    *)
(* not with n_rxq. Whether another link has the port is left to the library, *)
(* which does not configure a started port. Before the start a failure needs *)
(* no undoing: the next link_create configures the port again.               *)
link_create(name, p, n_rxq, rss) ==
  IF ~LinkParamsFit(name, p, n_rxq, rss) \/ Thing("link", p) \in held
  THEN Refuse
  ELSE \/ Refuse
       \/ link_create_undo(p)
       \/ /\ rss_setup(n_rxq, rss)
          /\ AddNode(Node("link", name, p))
          /\ port' = [port EXCEPT ![p].up = TRUE]
          /\ UNCHANGED sched

-----------------------------------------------------------------------------
(* KNI devices                                                               *)

PortOf(link) == (CHOOSE n \in nodes : n.kind = "link" /\ n.name = link).id

(* The identity of a KNI in the library is its name and the port it manages. *)
(* Without memory for the node the device stays in the library.              *)
kni_create(name, link) ==
  IF \/ find("kni", name)
     \/ ~ \E pool \in NamesOf["mempool"] : find("mempool", pool)
     \/ ~find("link", link)
     \/ \E t \in held : t.kind = "kni" /\ t.id.name = name
  THEN Refuse
  ELSE LET id == [name |-> name, port |-> PortOf(link)]
       IN \/ Refuse
          \/ /\ held' = held \cup {Thing("kni", id)}
             /\ ReturnNull /\ UNCHANGED port
          \/ AddNode(Node("kni", name, id)) /\ UNCHANGED <<port, sched>>

config_network_interface(ports, p, if_up) == [ports EXCEPT ![p].up = if_up]

\* (slip: any length is passed on)
change_mtu_slip(ports, p, new_mtu) == [ports EXCEPT ![p].mtu = new_mtu]

change_mtu(ports, p, new_mtu) ==
  IF new_mtu > EtherMaxLen THEN ports ELSE [ports EXCEPT ![p].mtu = new_mtu]

\* rte_kni_handle_request: one device; an answer goes back in any case, also when
\* rte_eth_dev_set_mtu, rte_eth_dev_set_link_up or _down refuses (a device of `refusing`).
Serve(refusing, ports, kni) ==
  LET req == asked[kni.name]
      p == kni.id.port
  IN CASE req = None \/ kni.name \in refusing -> ports
       [] req # None /\ kni.name \notin refusing /\ req.what = "mtu" -> change_mtu(ports, p, req.mtu)
       [] OTHER -> config_network_interface(ports, p, req.what = "up")

\* (slip: only the first device of the list is looked at)
Visited_slip == SelectSeq(knis, LAMBDA k : k = knis[1])

\* TAILQ_FOREACH over kni_list
Visited == knis

ServeAll(refusing, ports, devices) ==
  FoldLeft(LAMBDA now, kni : Serve(refusing, now, kni), ports, devices)

\* Called by the main loop, between two passes over the connections.
kni_handle_request ==
  /\ \E refusing \in SUBSET {n \in NamesOf["kni"] : asked[n] # None} :
       port' = ServeAll(refusing, port, Visited)
  /\ asked' = [n \in DOMAIN asked |->
                 IF \E k \in ToSet(Visited) : k.name = n THEN None ELSE asked[n]]
  /\ UNCHANGED <<nodes, knis, held, profiles, sched, result>>

\* The kernel asks one thing of a device at a time, whether it has a node or not.
KernelAsks(t, req) ==
  /\ t.kind = "kni" /\ asked[t.id.name] = None
  /\ asked' = [asked EXCEPT ![t.id.name] = req]
  /\ UNCHANGED <<nodes, knis, held, port, profiles, sched, result>>

-----------------------------------------------------------------------------
(* Crypto devices                                                            *)

(* `fits`: queues, descriptors and sessions are asked for, and the device    *)
(* has the queue pairs. A started device is not configured again. Without    *)
(* memory for the node the device is stopped; without memory for one of the  *)
(* session pools the pools and the node are freed and the device runs on.    *)
cryptodev_create(name, d, fits) ==
  IF ~fits \/ find("cryptodev", name) \/ Thing("cryptodev", d) \in held
  THEN Refuse
  ELSE \/ Refuse
       \/ /\ held' = held \cup {Thing("cryptodev", d)}
          /\ ReturnNull /\ UNCHANGED port
       \/ AddNode(Node("cryptodev", name, d)) /\ UNCHANGED <<port, sched>>

-----------------------------------------------------------------------------
(* Traffic manager                                                           *)

\* Nothing compares the number with the length of the array.
profile_add(kind) ==
  /\ profiles[kind] < ProfileMax
  /\ profiles' = [profiles EXCEPT ![kind] = @ + 1]
  /\ result' = "ok"
  /\ UNCHANGED <<nodes, knis, held, port, sched, asked>>

tmgr_subport_profile_add == profile_add("subport")
tmgr_pipe_profile_add == profile_add("pipe")

\* Every subport and pipe starts with profile 0; a refusal frees the port.
tmgr_port_create(name) ==
  IF find("tmgr", name) \/ profiles.subport = 0 \/ profiles.pipe = 0
  THEN Refuse
  ELSE \/ Refuse
       \/ /\ AddNode(Node("tmgr", name, name))
          /\ sched' = [sched EXCEPT ![name] = Sched(profiles.subport, profiles.pipe)]
          /\ UNCHANGED port

\* The profile is compared with those there are now, by the library with those
\* there were when the port was made.
tmgr_subport_config(name, s, prof) ==
  IF \/ ~find("tmgr", name) \/ s \notin SubportIds
     \/ prof >= profiles.subport \/ prof >= sched[name].n_sub
  THEN Refuse
  ELSE /\ sched' = [sched EXCEPT ![name].subport[s] = prof]
       /\ result' = "ok"
       /\ UNCHANGED <<nodes, knis, held, port, profiles, asked>>

\* (slip: the last pipe is not compared with the number of pipes)
PipeRangeFits_slip(first, last) == first \in PipeIds /\ first <= last

PipeRangeFits(first, last) ==
  /\ first \in PipeIds /\ last \in PipeIds
  /\ first <= last

\* rte_sched_pipe_config accepts the pipe.
PipeAccepted(name, i, prof) == i \in PipeIds /\ prof < sched[name].n_pipe

\* The pipes from first to last are configured one by one, up to the first the
\* library refuses.
tmgr_pipe_config(name, s, first, last, prof) ==
  IF \/ ~find("tmgr", name) \/ s \notin SubportIds
     \/ ~PipeRangeFits(first, last) \/ prof >= profiles.pipe
  THEN Refuse
  ELSE LET done == {i \in first .. last :
                      \A j \in first .. i : PipeAccepted(name, j, prof)}
       IN /\ sched' = [sched EXCEPT ![name].pipe[s] =
                         [i \in PipeIds |-> IF i \in done THEN prof ELSE @[i]]]
          /\ result' = IF done = first .. last THEN "ok" ELSE "failed"
          /\ UNCHANGED <<nodes, knis, held, port, profiles, asked>>

-----------------------------------------------------------------------------
Masks == SUBSET {"fwd", "lb"}

Create ==
  \/ \E name \in NamesOf["mempool"], fits \in BOOLEAN : mempool_create(name, fits)
  \/ \E name \in NamesOf["swq"], fits \in BOOLEAN : swq_create(name, fits)
  \/ \E name \in NamesOf["tap"] : tap_create(name)
  \/ \E name \in NamesOf["port_in_action"], mask \in Masks, size \in {8, 12} :
       port_in_action_profile_create(name, mask, size)
  \/ \E name \in NamesOf["table_action"], mask \in Masks, size \in {8, 12} :
       table_action_profile_create(name, mask, size)
  \/ \E name \in NamesOf["link"], p \in Ports, n_rxq \in 0 .. MaxRxQueues,
        rss \in SUBSET (0 .. MaxRxQueues) : link_create(name, p, n_rxq, rss)
  \/ \E name \in NamesOf["kni"], link \in NamesOf["link"] : kni_create(name, link)
  \/ \E name \in NamesOf["cryptodev"], d \in Devs, fits \in BOOLEAN :
       cryptodev_create(name, d, fits)
  \/ \E name \in NamesOf["tmgr"] : tmgr_port_create(name)

Configure ==
  \/ tmgr_subport_profile_add
  \/ tmgr_pipe_profile_add
  \/ \E name \in NamesOf["tmgr"], s \in 0 .. NSubports, prof \in 0 .. ProfileMax :
       tmgr_subport_config(name, s, prof)
  \/ \E name \in NamesOf["tmgr"], s \in 0 .. NSubports, prof \in 0 .. ProfileMax,
        first \in 0 .. NPipes, last \in 0 .. NPipes :
       tmgr_pipe_config(name, s, first, last, prof)

Next ==
  \/ Create
  \/ Configure
  \/ kni_handle_request
  \/ \E t \in held, req \in Requests : KernelAsks(t, req)

\* main calls kni_handle_request in every pass of its loop.
Spec == Init /\ [][Next]_vars /\ WF_vars(kni_handle_request)

-----------------------------------------------------------------------------
(* Properties                                                                *)

\* The nodes, the ports and the profiles have the shapes tmgr.h, link.h and
\* kni.h give them; an MTU above RTE_ETHER_MAX_LEN reaches no port.
TypeOK ==
  /\ \A n \in nodes : n.kind \in Kinds \ {"kni"} /\ n.name \in NamesOf[n.kind]
  /\ \A k \in ToSet(knis) : k.kind = "kni" /\ k.name \in NamesOf["kni"]
  /\ \A t \in held : t.kind \in Kinds
  /\ port \in [Ports -> [up : BOOLEAN, mtu : 0 .. EtherMaxLen]]
  /\ profiles \in [{"subport", "pipe"} -> 0 .. ProfileMax]
  /\ \A name \in NamesOf["tmgr"] : sched[name] # None =>
       /\ sched[name].subport \in [SubportIds -> 0 .. sched[name].n_sub - 1]
       /\ sched[name].pipe \in [SubportIds -> [PipeIds -> 0 .. sched[name].n_pipe - 1]]
  /\ asked \in [NamesOf["kni"] -> Requests \cup {None}]
  /\ result \in {"ok", "failed"}

(* Nodes and what they stand for keep together through every error path: a   *)
(* node's pool, port, device... is in the library; no two nodes share one, a *)
(* port or a device in particular; and what the library holds without a node *)
(* can only be a KNI device (kni.c:156) or a started crypto device           *)
(* (cryptodev.c:154), never a running port.                                  *)
Owned ==
  /\ \A n \in AllNodes : Thing(n.kind, n.id) \in held
  /\ \A n, o \in AllNodes : n.kind = o.kind /\ n.id = o.id => n = o
  /\ \A t \in held : \/ \E n \in AllNodes : Thing(n.kind, n.id) = t
                     \/ t.kind \in {"kni", "cryptodev"}

(* A command that fails leaves the registries and the traffic manager as     *)
(* they were: of the pipes of tmgr_pipe_config none has the new profile,     *)
(* because the only refusal of the library that is left does not depend on   *)
(* the pipe. (What the library holds may have grown: see Owned.)             *)
FailedChangesNothing ==
  [][result' = "failed" => UNCHANGED <<nodes, knis, profiles, sched>>]_vars

(* What the kernel asks of a KNI device with a node is answered. (A device   *)
(* that lost its node is held by the library and never visited.)             *)
RequestServed ==
  \A name \in NamesOf["kni"] :
    (find("kni", name) /\ asked[name] # None) ~> (asked[name] = None)
=============================================================================
