-------------------------- MODULE ResourcesProofs ---------------------------
(* Proofs about Resources, for any names, ports, devices and requests: nodes *)
(* and what the libraries hold keep together, and a command that fails       *)
(* changes no registry; and types, of the MTUs in particular, which come out *)
(* of a fold over the KNI list.                                              *)
EXTENDS Resources, WellFoundedInduction, TLAPS

-----------------------------------------------------------------------------
(* The inductive invariant                                                   *)

KniNodes == [kind : {"kni"}, name : NamesOf["kni"],
             id : [name : NamesOf["kni"], port : Ports]]

SchedType == [n_sub : Nat, n_pipe : Nat, subport : [SubportIds -> Nat],
              pipe : [SubportIds -> [PipeIds -> Nat]]]

\* The nodes of the registries. A traffic manager port stands for itself:
\* nothing else keeps two of them apart, for tmgr_port_create only looks in
\* its own registry.
Shapes ==
  /\ knis \in Seq(KniNodes)
  /\ \A n \in nodes : /\ n.kind # "kni"
                      /\ n.kind = "link" => n.id \in Ports
                      /\ n.kind = "tmgr" => n.id = n.name /\ n.name \in NamesOf["tmgr"]

\* Every node of a traffic manager port has its profiles.
Scheds ==
  /\ profiles \in [{"subport", "pipe"} -> Nat]
  /\ sched \in [NamesOf["tmgr"] -> SchedType \cup {None}]
  /\ \A n \in nodes : n.kind = "tmgr" => sched[n.name] \in SchedType

IInv == Shapes /\ Scheds /\ Owned

-----------------------------------------------------------------------------
(* The steps commands are made of                                            *)

\* The elements of the KNI list.
LEMMA KniList ==
  ASSUME Shapes
  PROVE  /\ \A k \in ToSet(knis) : k \in KniNodes
         /\ \A node : ToSet(Append(knis, node)) = ToSet(knis) \cup {node}
<1>1. knis \in Seq(KniNodes)
  BY DEF Shapes
<1>2. \A k \in ToSet(knis) : k \in KniNodes
  BY <1>1 DEF ToSet
<1>3. ASSUME NEW node
      PROVE  ToSet(Append(knis, node)) = ToSet(knis) \cup {node}
  <2>1. /\ DOMAIN Append(knis, node) = 1 .. Len(knis) + 1 /\ DOMAIN knis = 1 .. Len(knis)
        /\ Len(knis) \in Nat
        /\ Append(knis, node)[Len(knis) + 1] = node
        /\ \A i \in 1 .. Len(knis) : Append(knis, node)[i] = knis[i]
    BY <1>1
  <2>2. 1 .. Len(knis) + 1 = 1 .. Len(knis) \cup {Len(knis) + 1}
    BY <2>1
  <2>3. QED
    BY <2>1, <2>2 DEF ToSet
<1>4. QED
  BY <1>2, <1>3

\* A step that leaves all of it alone.
LEMMA Stays ==
  ASSUME IInv, UNCHANGED <<nodes, knis, held, profiles, sched>>
  PROVE  IInv'
  BY DEF IInv, Shapes, Scheds, Owned, AllNodes

\* A node is added: it has its shape, and no node of its kind stands for the
\* same thing.
LEMMA AddStep ==
  ASSUME IInv, NEW node, AddNode(node), Scheds',
         IF node.kind = "kni" THEN node \in KniNodes
         ELSE /\ node.kind = "link" => node.id \in Ports
              /\ node.kind = "tmgr" => node.id = node.name /\ node.name \in NamesOf["tmgr"],
         \A n \in AllNodes : ~(n.kind = node.kind /\ n.id = node.id)
  PROVE  IInv'
<1>1. /\ AllNodes' = AllNodes \cup {node}
      /\ held' = held \cup {Thing(node.kind, node.id)}
  BY KniList DEF AddNode, AllNodes, IInv
<1>2. Shapes'
  <2>1. CASE node.kind = "kni"
    <3>1. knis' = Append(knis, node) /\ nodes' = nodes
      BY <2>1 DEF AddNode
    <3>2. knis' \in Seq(KniNodes)
      BY <2>1, <3>1 DEF IInv, Shapes
    <3>3. QED
      BY <3>1, <3>2 DEF IInv, Shapes
  <2>2. CASE node.kind # "kni"
    <3>1. nodes' = nodes \cup {node} /\ knis' = knis
      BY <2>2 DEF AddNode
    <3>2. QED
      BY <2>2, <3>1 DEF IInv, Shapes
  <2>3. QED
    BY <2>1, <2>2
<1>3. Owned'
  <2>1. \A n \in AllNodes' : Thing(n.kind, n.id) \in held'
    BY <1>1 DEF IInv, Owned
  <2>2. \A n, o \in AllNodes' : n.kind = o.kind /\ n.id = o.id => n = o
    BY <1>1 DEF IInv, Owned
  <2>3. \A t \in held' : \/ \E n \in AllNodes' : Thing(n.kind, n.id) = t
                         \/ t.kind \in {"kni", "cryptodev"}
    BY <1>1 DEF IInv, Owned
  <2>4. QED
    BY <2>1, <2>2, <2>3 DEF Owned
<1>4. QED
  BY <1>2, <1>3 DEF IInv

\* A library keeps a device for which there was no memory for a node.
LEMMA LeftBehind ==
  ASSUME IInv, NEW kind \in {"kni", "cryptodev"}, NEW id,
         held' = held \cup {Thing(kind, id)}, ReturnNull
  PROVE  IInv'
<1>1. UNCHANGED <<nodes, knis, profiles, sched>>
  BY DEF ReturnNull
<1>2. Shapes' /\ Scheds'
  BY <1>1 DEF IInv, Shapes, Scheds
<1>3. Thing(kind, id).kind = kind
  BY DEF Thing
<1>4. Owned'
  BY <1>1, <1>3 DEF IInv, Owned, AllNodes
<1>5. QED
  BY <1>2, <1>4 DEF IInv

\* What no node stands for is free.
LEMMA NobodyHas ==
  ASSUME IInv, NEW kind, NEW id, Thing(kind, id) \notin held
  PROVE  \A n \in AllNodes : ~(n.kind = kind /\ n.id = id)
  BY DEF IInv, Owned

\* A refused command changes no registry and nothing the libraries hold.
LEMMA RefuseStays ==
  ASSUME Refuse
  PROVE  UNCHANGED <<nodes, knis, held, profiles, sched>>
  BY DEF Refuse, ReturnNull

-----------------------------------------------------------------------------
(* The commands                                                              *)

\* Pools, rings, TAP devices and action profiles.
LEMMA SimpleStep ==
  ASSUME IInv, NEW kind, NEW name, NEW fits, Simple(kind, name, fits),
         kind \notin {"kni", "link", "tmgr"}
  PROVE  IInv'
<1>1. CASE Refuse
  BY <1>1, RefuseStays, Stays
<1>2. CASE ~Refuse
  <2>1. PICK node : node = Node(kind, name, name)
    OBVIOUS
  <2>2. /\ Thing(kind, name) \notin held /\ AddNode(node) /\ UNCHANGED sched
    BY <1>2, <2>1 DEF Simple
  <2>3. node.kind = kind /\ node.id = name
    BY <2>1 DEF Node
  <2>4. Scheds'
    BY <2>2, <2>3 DEF IInv, Scheds, AddNode
  <2>5. QED
    BY <2>2, <2>3, <2>4, NobodyHas, AddStep
<1>3. QED
  BY <1>1, <1>2

\* A port of a failed link_create had no node (link.c:100-250).
LEMMA LinkStep ==
  ASSUME IInv, NEW name, NEW p \in Ports, NEW n_rxq, NEW rss, link_create(name, p, n_rxq, rss)
  PROVE  IInv'
<1>1. CASE Refuse
  BY <1>1, RefuseStays, Stays
<1>2. CASE ~Refuse
  <2>1. Thing("link", p) \notin held
    BY <1>2 DEF link_create
  <2>2. CASE link_create_undo(p)
    <3>1. held' = held
      BY <2>1, <2>2 DEF link_create_undo, dev_stop
    <3>2. QED
      BY <2>2, <3>1, Stays DEF link_create_undo, ReturnNull
  <2>3. CASE ~link_create_undo(p)
    <3>1. PICK node : node = Node("link", name, p)
      OBVIOUS
    <3>2. AddNode(node) /\ UNCHANGED sched
      BY <1>2, <2>3, <3>1 DEF link_create
    <3>3. node.kind = "link" /\ node.id = p
      BY <3>1 DEF Node
    <3>4. Scheds'
      BY <3>2, <3>3 DEF IInv, Scheds, AddNode
    <3>5. QED
      BY <2>1, <3>2, <3>3, <3>4, NobodyHas, AddStep
  <2>4. QED
    BY <2>2, <2>3
<1>3. QED
  BY <1>1, <1>2

\* A device of the library with the name is enough to refuse (kni.c:101-167).
LEMMA KniStep ==
  ASSUME IInv, NEW name \in NamesOf["kni"], NEW link, kni_create(name, link)
  PROVE  IInv'
<1>1. CASE Refuse
  BY <1>1, RefuseStays, Stays
<1>2. CASE ~Refuse
  <2>1. PICK id : id = [name |-> name, port |-> PortOf(link)]
    OBVIOUS
  <2>2. /\ find("link", link) /\ ~ \E t \in held : t.kind = "kni" /\ t.id.name = name
        /\ \/ held' = held \cup {Thing("kni", id)} /\ ReturnNull
           \/ AddNode(Node("kni", name, id)) /\ UNCHANGED sched
    BY <1>2, <2>1 DEF kni_create
  <2>3. CASE held' = held \cup {Thing("kni", id)} /\ ReturnNull
    BY <2>3, LeftBehind
  <2>4. CASE AddNode(Node("kni", name, id)) /\ UNCHANGED sched
    <3>1. PICK node : node = Node("kni", name, id)
      OBVIOUS
    <3>2. node.kind = "kni" /\ node.name = name /\ node.id = id /\ id.name = name
      BY <2>1, <3>1 DEF Node
    <3>3. PortOf(link) \in Ports
      <4>1. PICK n \in AllNodes : n.kind = "link" /\ n.name = link
        BY <2>2 DEF find
      <4>2. n \in nodes
        BY <4>1, KniList DEF AllNodes, IInv, KniNodes
      <4>3. PortOf(link) = (CHOOSE m \in nodes : m.kind = "link" /\ m.name = link).id
        BY DEF PortOf
      <4>4. QED
        BY <4>1, <4>2, <4>3 DEF IInv, Shapes
    <3>4. node \in KniNodes
      BY <2>1, <3>1, <3>3 DEF KniNodes, Node
    <3>5. Thing("kni", id) \notin held
      BY <2>2, <3>2 DEF Thing
    <3>6. Scheds'
      BY <2>4, <3>1, <3>2 DEF IInv, Scheds, AddNode
    <3>7. QED
      BY <2>4, <3>1, <3>2, <3>4, <3>5, <3>6, NobodyHas, AddStep
  <2>5. QED
    BY <2>2, <2>3, <2>4
<1>3. QED
  BY <1>1, <1>2

\* A started device is not configured again (cryptodev.c:50-163).
LEMMA CryptodevStep ==
  ASSUME IInv, NEW name, NEW d, NEW fits, cryptodev_create(name, d, fits)
  PROVE  IInv'
<1>1. CASE Refuse
  BY <1>1, RefuseStays, Stays
<1>2. CASE ~Refuse
  <2>1. PICK node : node = Node("cryptodev", name, d)
    OBVIOUS
  <2>2. /\ Thing("cryptodev", d) \notin held
        /\ \/ held' = held \cup {Thing("cryptodev", d)} /\ ReturnNull
           \/ AddNode(node) /\ UNCHANGED sched
    BY <1>2, <2>1 DEF cryptodev_create
  <2>3. CASE held' = held \cup {Thing("cryptodev", d)} /\ ReturnNull
    BY <2>3, LeftBehind
  <2>4. CASE AddNode(node) /\ UNCHANGED sched
    <3>1. node.kind = "cryptodev" /\ node.id = d
      BY <2>1 DEF Node
    <3>2. Scheds'
      BY <2>4, <3>1 DEF IInv, Scheds, AddNode
    <3>3. QED
      BY <2>2, <2>4, <3>1, <3>2, NobodyHas, AddStep
  <2>5. QED
    BY <2>2, <2>3, <2>4
<1>3. QED
  BY <1>1, <1>2

\* The port of a new node has profile 0 everywhere (tmgr.c:160-249).
LEMMA TmgrStep ==
  ASSUME IInv, NEW name \in NamesOf["tmgr"], tmgr_port_create(name)
  PROVE  IInv'
<1>1. CASE Refuse
  BY <1>1, RefuseStays, Stays
<1>2. CASE ~Refuse
  <2>1. PICK node : node = Node("tmgr", name, name)
    OBVIOUS
  <2>2. PICK s : s = Sched(profiles.subport, profiles.pipe)
    OBVIOUS
  <2>3. /\ ~find("tmgr", name) /\ AddNode(node) /\ sched' = [sched EXCEPT ![name] = s]
    BY <1>2, <2>1, <2>2 DEF tmgr_port_create
  <2>4. node.kind = "tmgr" /\ node.id = name /\ node.name = name
    BY <2>1 DEF Node
  <2>5. s \in SchedType
    BY <2>2 DEF Sched, SchedType, IInv, Scheds
  <2>6. nodes' = nodes \cup {node} /\ profiles' = profiles
    BY <2>3, <2>4 DEF AddNode
  <2>7. Scheds'
    <3>1. sched' \in [NamesOf["tmgr"] -> SchedType \cup {None}]
      BY <2>3, <2>5 DEF IInv, Scheds
    <3>2. \A n \in nodes' : n.kind = "tmgr" => sched'[n.name] \in SchedType
      BY <2>3, <2>4, <2>5, <2>6 DEF IInv, Scheds, Shapes
    <3>3. QED
      BY <2>6, <3>1, <3>2 DEF IInv, Scheds
  <2>8. \A n \in AllNodes : ~(n.kind = node.kind /\ n.id = node.id)
    <3>1. ASSUME NEW n \in AllNodes, n.kind = "tmgr", n.id = name
          PROVE  FALSE
      <4>1. n \in nodes
        BY <3>1, KniList DEF AllNodes, IInv, KniNodes
      <4>2. n.name = name
        BY <3>1, <4>1 DEF IInv, Shapes
      <4>3. QED
        BY <2>3, <3>1, <4>2 DEF find
    <3>2. QED
      BY <2>4, <3>1
  <2>9. QED
    BY <2>3, <2>4, <2>7, <2>8, AddStep
<1>3. QED
  BY <1>1, <1>2

\* A step on the profiles leaves the nodes and what is held alone.
LEMMA SchedsStep ==
  ASSUME IInv, UNCHANGED <<nodes, knis, held>>, Scheds'
  PROVE  IInv'
  BY DEF IInv, Shapes, Owned, AllNodes

\* A profile is added to the traffic manager's.
LEMMA ProfileStep ==
  ASSUME IInv, NEW kind \in {"subport", "pipe"}, profile_add(kind)
  PROVE  IInv'
<1>1. profiles' = [profiles EXCEPT ![kind] = @ + 1] /\ UNCHANGED <<nodes, knis, held, sched>>
  BY DEF profile_add
<1>2. profiles' \in [{"subport", "pipe"} -> Nat]
  BY <1>1 DEF IInv, Scheds
<1>3. Scheds'
  BY <1>1, <1>2 DEF IInv, Scheds
<1>4. QED
  BY <1>1, <1>3, SchedsStep

\* The profiles of a node's port.
LEMMA SchedOf ==
  ASSUME IInv, NEW name, find("tmgr", name)
  PROVE  name \in NamesOf["tmgr"] /\ sched[name] \in SchedType
<1>1. PICK n \in AllNodes : n.kind = "tmgr" /\ n.name = name
  BY DEF find
<1>2. n \in nodes
  BY <1>1, KniList DEF AllNodes, IInv, KniNodes
<1>3. QED
  BY <1>1, <1>2 DEF IInv, Shapes, Scheds

\* Profiles change in the port of a node.
LEMMA ChangedSched ==
  ASSUME IInv, NEW name, find("tmgr", name), NEW s \in SchedType,
         sched' = [sched EXCEPT ![name] = s], UNCHANGED <<nodes, knis, held, profiles>>
  PROVE  IInv'
<1>1. name \in NamesOf["tmgr"]
  BY SchedOf
<1>2. sched' \in [NamesOf["tmgr"] -> SchedType \cup {None}]
  BY DEF IInv, Scheds
<1>3. \A n \in nodes : n.kind = "tmgr" => sched'[n.name] \in SchedType
  BY <1>1 DEF IInv, Scheds, Shapes
<1>4. Scheds'
  BY <1>2, <1>3 DEF IInv, Scheds
<1>5. QED
  BY <1>4, SchedsStep

\* A subport gets another profile.
LEMMA SubportStep ==
  ASSUME IInv, NEW name, NEW s, NEW prof \in Nat, tmgr_subport_config(name, s, prof)
  PROVE  IInv'
<1>1. CASE Refuse
  BY <1>1, RefuseStays, Stays
<1>2. CASE ~Refuse
  <2>1. PICK new : new = [sched[name] EXCEPT !.subport[s] = prof]
    OBVIOUS
  <2>2. /\ find("tmgr", name) /\ s \in SubportIds
        /\ sched' = [sched EXCEPT ![name] = new]
        /\ UNCHANGED <<nodes, knis, held, profiles>>
    BY <1>2, <2>1 DEF tmgr_subport_config
  <2>3. new \in SchedType
    <3>1. sched[name] \in SchedType
      BY <2>2, SchedOf
    <3>2. QED
      BY <2>1, <2>2, <3>1 DEF SchedType
  <2>4. QED
    BY <2>2, <2>3, ChangedSched
<1>3. QED
  BY <1>1, <1>2

\* The pipes configured one by one: all of them or none (tmgr.c:280-317).
LEMMA AllOrNone ==
  ASSUME IInv, NEW name, NEW s, NEW first, NEW last, NEW prof \in Nat,
         tmgr_pipe_config(name, s, first, last, prof), ~Refuse
  PROVE  /\ find("tmgr", name) /\ UNCHANGED <<nodes, knis, held, profiles>>
         /\ \E new \in SchedType : sched' = [sched EXCEPT ![name] = new]
         /\ result' = "ok" \/ sched' = sched
<1>1. PICK done : done = {i \in first .. last : \A j \in first .. i : PipeAccepted(name, j, prof)}
  OBVIOUS
<1>2. PICK pipes : pipes = [i \in PipeIds |-> IF i \in done THEN prof ELSE sched[name].pipe[s][i]]
  OBVIOUS
<1>3. PICK new : new = [sched[name] EXCEPT !.pipe[s] = pipes]
  OBVIOUS
<1>4. /\ find("tmgr", name) /\ s \in SubportIds /\ first \in PipeIds /\ last \in PipeIds
      /\ sched' = [sched EXCEPT ![name].pipe[s] =
                     [i \in PipeIds |-> IF i \in done THEN prof ELSE @[i]]]
      /\ result' = IF done = first .. last THEN "ok" ELSE "failed"
      /\ UNCHANGED <<nodes, knis, held, profiles>>
  BY <1>1 DEF tmgr_pipe_config, PipeRangeFits
<1>5. sched[name] \in SchedType /\ name \in NamesOf["tmgr"]
  BY <1>4, SchedOf
<1>6. sched' = [sched EXCEPT ![name] = new]
  BY <1>2, <1>3, <1>4
<1>7. pipes \in [PipeIds -> Nat]
  BY <1>2, <1>4, <1>5 DEF SchedType
<1>8. new \in SchedType
  BY <1>3, <1>4, <1>5, <1>7 DEF SchedType
<1>9. first .. last \subseteq PipeIds
  BY <1>4, SizesPositive DEF PipeIds
<1>10. CASE prof < sched[name].n_pipe
  <2>1. done = first .. last
    <3>1. \A i \in first .. last : \A j \in first .. i : j \in first .. last
      BY <1>4, SizesPositive DEF PipeIds
    <3>2. QED
      BY <1>1, <1>9, <1>10, <3>1 DEF PipeAccepted
  <2>2. QED
    BY <1>4, <1>6, <1>8, <2>1
<1>11. CASE ~(prof < sched[name].n_pipe)
  <2>1. done = {}
    <3>1. \A i \in first .. last : i \in first .. i
      BY <1>4, SizesPositive DEF PipeIds
    <3>2. QED
      BY <1>1, <1>11, <3>1 DEF PipeAccepted
  <2>2. pipes = sched[name].pipe[s]
    <3>1. sched[name].pipe[s] \in [PipeIds -> Nat]
      BY <1>4, <1>5 DEF SchedType
    <3>2. pipes = [i \in PipeIds |-> sched[name].pipe[s][i]]
      BY <1>2, <2>1
    <3>3. QED
      BY <3>1, <3>2
  <2>3. new = sched[name]
    BY <1>3, <1>4, <1>5, <2>2 DEF SchedType
  <2>4. sched' = sched
    BY <1>5, <1>6, <2>3 DEF IInv, Scheds
  <2>5. QED
    BY <1>4, <1>6, <1>8, <2>4
<1>12. QED
  BY <1>10, <1>11

\* Pipes get another profile.
LEMMA PipeStep ==
  ASSUME IInv, NEW name, NEW s, NEW first, NEW last, NEW prof \in Nat,
         tmgr_pipe_config(name, s, first, last, prof)
  PROVE  IInv'
<1>1. CASE Refuse
  BY <1>1, RefuseStays, Stays
<1>2. CASE ~Refuse
  BY <1>2, AllOrNone, ChangedSched
<1>3. QED
  BY <1>1, <1>2

-----------------------------------------------------------------------------
(* The invariant is inductive                                                *)

\* Nothing is there at first.
LEMMA InitInv == Init => IInv
<1> SUFFICES ASSUME Init PROVE IInv
  OBVIOUS
<1>1. /\ nodes = {} /\ knis = <<>> /\ held = {} /\ ToSet(knis) = {}
  BY DEF Init, ToSet
<1>2. Shapes
  BY <1>1 DEF Shapes
<1>3. Scheds
  BY <1>1 DEF Init, Scheds
<1>4. Owned
  BY <1>1 DEF Owned, AllNodes
<1>5. QED
  BY <1>2, <1>3, <1>4 DEF IInv

\* Every create command keeps the invariant.
LEMMA CreateStep == IInv /\ Create => IInv'
<1> SUFFICES ASSUME IInv, Create PROVE IInv'
  OBVIOUS
<1>1. CASE \E name \in NamesOf["mempool"], fits \in BOOLEAN : mempool_create(name, fits)
  BY <1>1, SimpleStep DEF mempool_create
<1>2. CASE \E name \in NamesOf["swq"], fits \in BOOLEAN : swq_create(name, fits)
  BY <1>2, SimpleStep DEF swq_create
<1>3. CASE \E name \in NamesOf["tap"] : tap_create(name)
  BY <1>3, SimpleStep DEF tap_create
<1>4. CASE \E name \in NamesOf["port_in_action"], mask \in Masks, size \in {8, 12} :
             port_in_action_profile_create(name, mask, size)
  BY <1>4, SimpleStep DEF port_in_action_profile_create
<1>5. CASE \E name \in NamesOf["table_action"], mask \in Masks, size \in {8, 12} :
             table_action_profile_create(name, mask, size)
  BY <1>5, SimpleStep DEF table_action_profile_create
<1>6. QED
  BY <1>1, <1>2, <1>3, <1>4, <1>5, LinkStep, KniStep, CryptodevStep, TmgrStep DEF Create

\* So does every command on the traffic manager.
LEMMA ConfigureStep == IInv /\ Configure => IInv'
<1> SUFFICES ASSUME IInv, Configure PROVE IInv'
  OBVIOUS
<1>1. CASE tmgr_subport_profile_add \/ tmgr_pipe_profile_add
  BY <1>1, ProfileStep DEF tmgr_subport_profile_add, tmgr_pipe_profile_add
<1>2. 0 .. ProfileMax \subseteq Nat
  BY SizesPositive
<1>3. QED
  BY <1>1, <1>2, SubportStep, PipeStep DEF Configure

\* So does every step.
LEMMA NextInv == IInv /\ [Next]_vars => IInv'
<1> SUFFICES ASSUME IInv, [Next]_vars PROVE IInv'
  OBVIOUS
<1>1. CASE kni_handle_request
  BY <1>1, Stays DEF kni_handle_request
<1>2. CASE \E t \in held, req \in Requests : KernelAsks(t, req)
  BY <1>2, Stays DEF KernelAsks
<1>3. CASE UNCHANGED vars
  BY <1>3, Stays DEF vars
<1>4. QED
  BY <1>1, <1>2, <1>3, CreateStep, ConfigureStep DEF Next

\* So it always holds.
LEMMA Invariant == Spec => []IInv
  BY InitInv, NextInv, PTL DEF Spec

-----------------------------------------------------------------------------
(* What follows from it                                                      *)

\* Nodes have what they stand for and share none of it, and what is held
\* without a node is a KNI or a crypto device, after every failure of every
\* create function (kni.c:156, cryptodev.c:154, link.c:220).
THEOREM NodesOwn == Spec => []Owned
<1>1. IInv => Owned
  BY DEF IInv
<1>2. QED
  BY <1>1, Invariant, PTL

\* A step that says it failed has changed no registry and no profile in force
\* (tmgr.c:280-317 is the one that could have).
LEMMA FailedStep ==
  ASSUME IInv, Next, result' = "failed"
  PROVE  UNCHANGED <<nodes, knis, profiles, sched>>
<1>1. ASSUME NEW node
      PROVE  ~AddNode(node)
  BY DEF AddNode
<1>2. \A kind, name, fits : Simple(kind, name, fits) => Refuse
  BY <1>1 DEF Simple
<1>3. CASE Create
  <2>1. CASE Refuse
    BY <2>1, RefuseStays
  <2>2. CASE \E name \in NamesOf["link"], p \in Ports, n_rxq \in 0 .. MaxRxQueues,
                rss \in SUBSET (0 .. MaxRxQueues) : link_create(name, p, n_rxq, rss)
    BY <1>1, <2>2 DEF link_create, link_create_undo, Refuse, ReturnNull
  <2>3. CASE \E name \in NamesOf["kni"], link \in NamesOf["link"] : kni_create(name, link)
    BY <1>1, <2>3 DEF kni_create, Refuse, ReturnNull
  <2>4. CASE \E name \in NamesOf["cryptodev"], d \in Devs, fits \in BOOLEAN :
               cryptodev_create(name, d, fits)
    BY <1>1, <2>4 DEF cryptodev_create, Refuse, ReturnNull
  <2>5. CASE \E name \in NamesOf["tmgr"] : tmgr_port_create(name)
    BY <1>1, <2>5 DEF tmgr_port_create, Refuse, ReturnNull
  <2>6. QED
    BY <1>2, <1>3, <2>1, <2>2, <2>3, <2>4, <2>5
       DEF Create, mempool_create, swq_create, tap_create, port_in_action_profile_create,
           table_action_profile_create
<1>4. CASE Configure
  <2>1. CASE Refuse
    BY <2>1, RefuseStays
  <2>2. CASE ~Refuse
    <3>1. PICK name \in NamesOf["tmgr"], s \in 0 .. NSubports, prof \in 0 .. ProfileMax,
               first \in 0 .. NPipes, last \in 0 .. NPipes :
            tmgr_pipe_config(name, s, first, last, prof)
      BY <1>4, <2>2 DEF Configure, tmgr_subport_profile_add, tmgr_pipe_profile_add,
                        profile_add, tmgr_subport_config
    <3>2. prof \in Nat
      BY SizesPositive
    <3>3. QED
      BY <2>2, <3>1, <3>2, AllOrNone
  <2>3. QED
    BY <2>1, <2>2
<1>5. CASE kni_handle_request
  BY <1>5 DEF kni_handle_request
<1>6. CASE \E t \in held, req \in Requests : KernelAsks(t, req)
  BY <1>6 DEF KernelAsks
<1>7. QED
  BY <1>3, <1>4, <1>5, <1>6 DEF Next

\* A failed command leaves no trace in the registries or in the profiles in
\* force in the traffic manager.
THEOREM FailuresChangeNothing == Spec => FailedChangesNothing
<1>1. IInv /\ [Next]_vars => [result' = "failed" => UNCHANGED <<nodes, knis, profiles, sched>>]_vars
  BY FailedStep
<1>2. QED
  BY <1>1, Invariant, PTL DEF Spec, FailedChangesNothing

-----------------------------------------------------------------------------
(* Induction over the places of a list. The library's theorem of induction   *)
(* has the formula as a parameter; that every set of numbers has a least one *)
(* follows from WFMin, which has not.                                        *)

\* The least number of a set.
LEMMA Least ==
  ASSUME NEW T, T \subseteq Nat, T # {}
  PROVE \E x \in T : \A y \in T : x <= y
<1>1. PICK R : R = {p \in Nat \X Nat : p[1] < p[2]}
  OBVIOUS
<1>2. IsWellFoundedOn(R, Nat)
  BY <1>1, NatLessThanWellFounded DEF OpToRel
<1>3. PICK x \in T : \A y \in T : ~ (<<y, x>> \in R)
  BY <1>2, WFMin
<1>4. ASSUME NEW y \in T
      PROVE  x <= y
  <2>1. ~(y < x)
    BY <1>1, <1>3
  <2>2. QED
    BY <2>1
<1>5. QED
  BY <1>4

\* Induction over the numbers of a set.
LEMMA Induct ==
  ASSUME NEW T, 0 \in T, \A n \in Nat : n \in T => n + 1 \in T
  PROVE  \A n \in Nat : n \in T
<1> SUFFICES ASSUME Nat \ T # {} PROVE FALSE
  OBVIOUS
<1>1. PICK x \in Nat \ T : \A y \in Nat \ T : x <= y
  BY Least
<1>2. x - 1 \in Nat /\ ~(x <= x - 1)
  BY <1>1
<1>3. x - 1 \in T
  BY <1>1, <1>2
<1>4. x = (x - 1) + 1
  BY <1>2
<1>5. QED
  BY <1>2, <1>3, <1>4

\* The largest number of a set that has a bound is one of its numbers.
LEMMA Largest ==
  ASSUME NEW n \in Nat, NEW s, s \subseteq 1 .. n, s # {}
  PROVE  Max(s) \in s /\ \A y \in s : y <= Max(s)
<1>1. PICK T : T = {m \in Nat : \A y \in s : y <= m}
  OBVIOUS
<1>2. n \in T
  BY <1>1
<1>3. PICK m \in T : \A k \in T : m <= k
  BY <1>1, <1>2, Least
<1>4. m \in s
  <2> SUFFICES ASSUME m \notin s PROVE FALSE
    OBVIOUS
  <2>1. PICK z : z \in s
    OBVIOUS
  <2>2. m - 1 \in Nat /\ \A y \in s : y <= m - 1
    BY <1>1, <2>1
  <2>3. QED
    BY <1>1, <1>3, <2>2
<1>5. \A y \in s : m >= y
  BY <1>1
<1>6. QED
  BY <1>4, <1>5 DEF Max

\* Of the Ethernet ports and of what the kernel asks.
PortType == [Ports -> [up : BOOLEAN, mtu : 0 .. EtherMaxLen]]

AskedType == [NamesOf["kni"] -> Requests \cup {None}]

\* One device served: the MTU was compared with the limit.
LEMMA ServeTyped ==
  ASSUME asked \in AskedType, NEW refusing, NEW ports \in PortType, NEW kni \in KniNodes
  PROVE  Serve(refusing, ports, kni) \in PortType
<1>1. PICK req : req = asked[kni.name]
  OBVIOUS
<1>2. PICK p : p = kni.id.port
  OBVIOUS
<1>3. p \in Ports /\ req \in Requests \cup {None}
  BY <1>1, <1>2 DEF KniNodes, AskedType
<1>4. CASE req = None \/ kni.name \in refusing
  <2>1. Serve(refusing, ports, kni) = ports
    BY <1>1, <1>4, Zenon DEF Serve
  <2>2. QED
    BY <2>1
<1>5. CASE req # None /\ kni.name \notin refusing /\ req.what = "mtu"
  <2>1. Serve(refusing, ports, kni) = change_mtu(ports, p, req.mtu)
    BY <1>1, <1>2, <1>5, Zenon DEF Serve
  <2>2. req.mtu \in Nat
    BY <1>3, <1>5, RequestsKnown
  <2>3. QED
    BY <1>3, <2>1, <2>2, SizesPositive DEF change_mtu, PortType
<1>6. CASE req # None /\ kni.name \notin refusing /\ req.what # "mtu"
  <2>1. Serve(refusing, ports, kni) = config_network_interface(ports, p, req.what = "up")
    BY <1>1, <1>2, <1>6, Zenon DEF Serve
  <2>2. (req.what = "up") \in BOOLEAN
    OBVIOUS
  <2>3. PICK b \in BOOLEAN : b = (req.what = "up")
    BY <2>2
  <2>4. config_network_interface(ports, p, b) \in PortType
    BY <1>3 DEF config_network_interface, PortType
  <2>5. QED
    BY <2>1, <2>3, <2>4
<1>7. QED
  BY <1>4, <1>5, <1>6

\* A function of the places served that goes by the list q, the last place
\* after the others.
IsFold(refusing, g, places, base, q) ==
  g = [s \in SUBSET places |->
         IF s = {} THEN base ELSE Serve(refusing, g[s \ {Max(s)}], q[Max(s)])]

\* The fold over the list is such a function, if there is one.
LEMMA FoldIs ==
  ASSUME NEW refusing, NEW base, NEW q
  PROVE  \E iter : /\ iter = CHOOSE g : IsFold(refusing, g, DOMAIN q, base, q)
                   /\ ServeAll(refusing, base, q) = iter[DOMAIN q]
  BY DEF ServeAll, FoldLeft, MapThenFoldSet, IsFold

\* There is such a function.
LEMMA FoldDefined ==
  ASSUME NEW refusing, NEW base, NEW q
  PROVE  \A n \in Nat : \E g : IsFold(refusing, g, 1 .. n, base, q)
<1>1. PICK T : T = {n \in Nat : \E g : IsFold(refusing, g, 1 .. n, base, q)}
  OBVIOUS
<1>2. 0 \in T
  <2>1. PICK g : g = [s \in SUBSET (1 .. 0) |-> base]
    OBVIOUS
  <2>2. \A s \in SUBSET (1 .. 0) : s = {}
    OBVIOUS
  <2>3. IsFold(refusing, g, 1 .. 0, base, q)
    BY <2>1, <2>2 DEF IsFold
  <2>4. QED
    BY <1>1, <2>3
<1>3. ASSUME NEW n \in Nat, n \in T
      PROVE  n + 1 \in T
  <2>1. PICK g : IsFold(refusing, g, 1 .. n, base, q)
    BY <1>1, <1>3
  <2>2. PICK h : h = [s \in SUBSET (1 .. n + 1) |->
                        IF n + 1 \in s THEN Serve(refusing, g[s \ {n + 1}], q[n + 1]) ELSE g[s]]
    OBVIOUS
  <2>3. ASSUME NEW s \in SUBSET (1 .. n + 1)
        PROVE  h[s] = IF s = {} THEN base ELSE Serve(refusing, h[s \ {Max(s)}], q[Max(s)])
    <3>1. CASE n + 1 \in s
      <4>1. Max(s) = n + 1
        <5>1. n + 1 \in Nat /\ s \subseteq 1 .. n + 1 /\ s # {}
          BY <3>1
        <5>2. Max(s) \in s /\ \A y \in s : y <= Max(s)
          BY <5>1, Largest
        <5>3. Max(s) \in 1 .. n + 1 /\ n + 1 <= Max(s)
          BY <3>1, <5>1, <5>2
        <5>4. QED
          BY <5>3
      <4>2. s \ {n + 1} \in SUBSET (1 .. n) /\ s \ {n + 1} \in SUBSET (1 .. n + 1)
        OBVIOUS
      <4>3. h[s \ {n + 1}] = g[s \ {n + 1}]
        BY <2>2, <4>2
      <4>4. h[s] = Serve(refusing, g[s \ {n + 1}], q[n + 1])
        BY <2>2, <3>1
      <4>5. QED
        BY <3>1, <4>1, <4>3, <4>4
    <3>2. CASE n + 1 \notin s
      <4>1. s \in SUBSET (1 .. n)
        BY <3>2
      <4>2. s \ {Max(s)} \in SUBSET (1 .. n) /\ s \ {Max(s)} \in SUBSET (1 .. n + 1)
        BY <4>1
      <4>3. h[s \ {Max(s)}] = g[s \ {Max(s)}] /\ h[s] = g[s]
        BY <2>2, <3>2, <4>2
      <4>4. g[s] = IF s = {} THEN base ELSE Serve(refusing, g[s \ {Max(s)}], q[Max(s)])
        BY <2>1, <4>1 DEF IsFold
      <4>5. QED
        BY <4>3, <4>4
    <3>3. QED
      BY <3>1, <3>2
  <2>4. IsFold(refusing, h, 1 .. n + 1, base, q)
    <3>1. PICK k : k = [s \in SUBSET (1 .. n + 1) |->
                           IF s = {} THEN base ELSE Serve(refusing, h[s \ {Max(s)}], q[Max(s)])]
      OBVIOUS
    <3>2. \A s \in SUBSET (1 .. n + 1) : h[s] = k[s]
      BY <2>3, <3>1
    <3>3. h = k
      BY ZenonT(60), <2>2, <3>1, <3>2
    <3>4. QED
      BY <3>1, <3>3 DEF IsFold
  <2>5. QED
    BY <1>1, <2>4
<1>4. QED
  BY <1>1, <1>2, <1>3, Induct

\* Whatever is served, the ports keep their type.
LEMMA FoldTyped ==
  ASSUME asked \in AskedType, NEW refusing, NEW base \in PortType, NEW q \in Seq(KniNodes)
  PROVE  ServeAll(refusing, base, q) \in PortType
<1>1. PICK iter : /\ iter = CHOOSE g : IsFold(refusing, g, DOMAIN q, base, q)
                  /\ ServeAll(refusing, base, q) = iter[DOMAIN q]
  BY FoldIs
<1>2. DOMAIN q = 1 .. Len(q) /\ Len(q) \in Nat
  OBVIOUS
<1>3. iter = [s \in SUBSET DOMAIN q |->
                IF s = {} THEN base ELSE Serve(refusing, iter[s \ {Max(s)}], q[Max(s)])]
  <2>1. \E g : IsFold(refusing, g, DOMAIN q, base, q)
    BY <1>2, FoldDefined
  <2>2. IsFold(refusing, iter, DOMAIN q, base, q)
    BY <1>1, <2>1, Zenon
  <2>3. QED
    BY <2>2 DEF IsFold
<1>4. PICK T : T = {n \in Nat : n <= Len(q) => \A s \in SUBSET (1 .. n) : iter[s] \in PortType}
  OBVIOUS
<1>5. 0 \in T
  <2>1. \A s \in SUBSET (1 .. 0) : s = {}
    OBVIOUS
  <2>2. {} \in SUBSET DOMAIN q
    OBVIOUS
  <2>3. iter[{}] = base
    BY <1>3, <2>2
  <2>4. QED
    BY <1>4, <2>1, <2>3
<1>6. ASSUME NEW n \in Nat, n \in T
      PROVE  n + 1 \in T
  <2> SUFFICES ASSUME n + 1 <= Len(q), NEW s \in SUBSET (1 .. n + 1)
               PROVE  iter[s] \in PortType
    BY <1>4
  <2>1. s \in SUBSET DOMAIN q /\ \A t \in SUBSET (1 .. n) : iter[t] \in PortType
    BY <1>2, <1>4, <1>6
  <2>2. CASE s = {}
    BY <1>3, <2>1, <2>2
  <2>3. CASE s # {}
    <3>1. Max(s) \in s /\ \A y \in s : y <= Max(s)
      <4>1. n + 1 \in Nat /\ s \subseteq 1 .. n + 1 /\ s # {}
        BY <2>3
      <4>2. QED
        BY <4>1, Largest
    <3>2. s \ {Max(s)} \in SUBSET (1 .. n)
      <4>1. PICK m \in 1 .. n + 1 : m = Max(s) /\ \A y \in s : y <= m
        BY <3>1
      <4>2. ASSUME NEW y \in s \ {m}
            PROVE  y \in 1 .. n
        <5>1. y \in 1 .. n + 1 /\ y <= m /\ y # m
          BY <4>1
        <5>2. QED
          BY <5>1
      <4>3. QED
        BY <4>1, <4>2
    <3>3. q[Max(s)] \in KniNodes
      BY <1>2, <2>1, <3>1
    <3>4. Serve(refusing, iter[s \ {Max(s)}], q[Max(s)]) \in PortType
      BY <2>1, <3>2, <3>3, ServeTyped
    <3>5. QED
      BY <1>3, <2>1, <2>3, <3>4
  <2>4. QED
    BY <2>2, <2>3
<1>7. Len(q) \in T
  BY <1>2, <1>5, <1>6, Induct
<1>8. QED
  BY <1>1, <1>2, <1>4, <1>7

-----------------------------------------------------------------------------
(* Types                                                                     *)

\* The parts of TypeOK. Nodes and what is held are of a kind there is.
NodesTyped ==
  /\ \A n \in nodes : n.kind \in Kinds \ {"kni"} /\ n.name \in NamesOf[n.kind]
  /\ \A t \in held : t.kind \in Kinds

\* A profile in force is one the port was told of.
InRange(s) ==
  /\ s.subport \in [SubportIds -> 0 .. s.n_sub - 1]
  /\ s.pipe \in [SubportIds -> [PipeIds -> 0 .. s.n_pipe - 1]]

\* So are those of every port, that of a node in particular.
SchedsTyped ==
  \A name \in NamesOf["tmgr"] : sched[name] # None \/ find("tmgr", name) => InRange(sched[name])

\* The ports, the profiles, what is asked and the result.
RestTyped ==
  /\ port \in PortType
  /\ profiles \in [{"subport", "pipe"} -> 0 .. ProfileMax]
  /\ asked \in AskedType
  /\ result \in {"ok", "failed"}

Typed == NodesTyped /\ SchedsTyped /\ RestTyped

\* Nothing is there at first.
LEMMA InitTyped == Init => Typed
<1> SUFFICES ASSUME Init PROVE Typed
  OBVIOUS
<1>1. NodesTyped
  BY DEF Init, NodesTyped
<1>2. ToSet(knis) = {} /\ AllNodes = {}
  BY DEF Init, ToSet, AllNodes
<1>3. SchedsTyped
  BY <1>2 DEF Init, SchedsTyped, find
<1>4. port \in PortType
  BY SizesPositive DEF Init, PortType
<1>5. profiles \in [{"subport", "pipe"} -> 0 .. ProfileMax]
  BY SizesPositive DEF Init
<1>6. asked \in AskedType /\ result \in {"ok", "failed"}
  BY DEF Init, AskedType
<1>7. QED
  BY <1>1, <1>3, <1>4, <1>5, <1>6 DEF Typed, RestTyped

\* A refused command.
LEMMA RefuseTyped ==
  ASSUME Typed, Refuse
  PROVE  Typed'
  BY DEF Typed, NodesTyped, SchedsTyped, RestTyped, Refuse, ReturnNull, find, AllNodes

\* A device for which there was no memory for a node stays in its library.
LEMMA LeftTyped ==
  ASSUME Typed, NEW kind \in {"kni", "cryptodev"}, NEW id,
         held' = held \cup {Thing(kind, id)}, ReturnNull, UNCHANGED port
  PROVE  Typed'
<1>1. Thing(kind, id).kind \in Kinds
  BY DEF Thing, Kinds
<1>2. NodesTyped'
  BY <1>1 DEF Typed, NodesTyped, ReturnNull
<1>3. SchedsTyped' /\ RestTyped'
  BY DEF Typed, SchedsTyped, RestTyped, ReturnNull, find, AllNodes
<1>4. QED
  BY <1>2, <1>3 DEF Typed

\* A node is added, but for the traffic manager's.
LEMMA AddTyped ==
  ASSUME Typed, IInv, NEW node, AddNode(node), node.kind \in Kinds,
         node.name \in NamesOf[node.kind], node.kind # "tmgr", UNCHANGED sched, port' \in PortType
  PROVE  Typed'
<1>1. /\ AllNodes' = AllNodes \cup {node}
      /\ held' = held \cup {Thing(node.kind, node.id)}
      /\ UNCHANGED <<profiles, asked>> /\ result' = "ok"
  BY KniList DEF AddNode, AllNodes, IInv
<1>2. Thing(node.kind, node.id).kind = node.kind
  BY DEF Thing
<1>3. NodesTyped'
  BY <1>1, <1>2 DEF Typed, NodesTyped, AddNode
<1>4. SchedsTyped'
  BY <1>1 DEF Typed, SchedsTyped, find
<1>5. RestTyped'
  BY <1>1 DEF Typed, RestTyped
<1>6. QED
  BY <1>3, <1>4, <1>5 DEF Typed

\* Pools, rings, TAP devices and action profiles.
LEMMA SimpleTyped ==
  ASSUME Typed, IInv, NEW kind \in Kinds \ {"kni", "tmgr"}, NEW name \in NamesOf[kind], NEW fits,
         Simple(kind, name, fits)
  PROVE  Typed'
<1>1. CASE Refuse
  BY <1>1, RefuseTyped
<1>2. CASE ~Refuse
  <2>1. PICK node : node = Node(kind, name, name)
    OBVIOUS
  <2>2. AddNode(node) /\ UNCHANGED <<port, sched>>
    BY <1>2, <2>1 DEF Simple
  <2>3. node.kind = kind /\ node.name = name
    BY <2>1 DEF Node
  <2>4. port' \in PortType
    BY <2>2 DEF Typed, RestTyped
  <2>5. QED
    BY <2>2, <2>3, <2>4, AddTyped
<1>3. QED
  BY <1>1, <1>2

\* The port of a failed link_create is stopped again (link.c:100-250).
LEMMA LinkTyped ==
  ASSUME Typed, IInv, NEW name \in NamesOf["link"], NEW p \in Ports, NEW n_rxq, NEW rss,
         link_create(name, p, n_rxq, rss)
  PROVE  Typed'
<1>1. CASE Refuse
  BY <1>1, RefuseTyped
<1>2. CASE link_create_undo(p)
  <2>1. /\ held' = held \ {Thing("link", p)}
        /\ port' = [port EXCEPT ![p].up = FALSE]
        /\ result' = "failed" /\ UNCHANGED <<nodes, knis, profiles, sched, asked>>
    BY <1>2 DEF link_create_undo, dev_stop, ReturnNull
  <2>2. port' \in PortType
    BY <2>1 DEF Typed, RestTyped, PortType
  <2>3. NodesTyped' /\ RestTyped'
    BY <2>1, <2>2 DEF Typed, NodesTyped, RestTyped
  <2>4. SchedsTyped'
    BY <2>1 DEF Typed, SchedsTyped, find, AllNodes
  <2>5. QED
    BY <2>3, <2>4 DEF Typed
<1>3. CASE ~Refuse /\ ~link_create_undo(p)
  <2>1. PICK node : node = Node("link", name, p)
    OBVIOUS
  <2>2. AddNode(node) /\ UNCHANGED sched /\ port' = [port EXCEPT ![p].up = TRUE]
    BY <1>3, <2>1 DEF link_create
  <2>3. node.kind = "link" /\ node.name = name /\ node.kind \in Kinds
    BY <2>1 DEF Node, Kinds
  <2>4. port' \in PortType
    BY <2>2 DEF Typed, RestTyped, PortType
  <2>5. QED
    BY <2>2, <2>3, <2>4, AddTyped
<1>4. QED
  BY <1>1, <1>2, <1>3

\* KNI devices (kni.c:101-167).
LEMMA KniTyped ==
  ASSUME Typed, IInv, NEW name \in NamesOf["kni"], NEW link, kni_create(name, link)
  PROVE  Typed'
<1>1. CASE Refuse
  BY <1>1, RefuseTyped
<1>2. CASE ~Refuse
  <2>1. PICK id : id = [name |-> name, port |-> PortOf(link)]
    OBVIOUS
  <2>2. PICK node : node = Node("kni", name, id)
    OBVIOUS
  <2>3. \/ held' = held \cup {Thing("kni", id)} /\ ReturnNull /\ UNCHANGED port
        \/ AddNode(node) /\ UNCHANGED <<port, sched>>
    BY <1>2, <2>1, <2>2 DEF kni_create
  <2>4. node.kind = "kni" /\ node.name = name /\ node.kind \in Kinds
    BY <2>2 DEF Node, Kinds
  <2>5. port \in PortType
    BY DEF Typed, RestTyped
  <2>6. QED
    BY <2>3, <2>4, <2>5, LeftTyped, AddTyped
<1>3. QED
  BY <1>1, <1>2

\* Crypto devices (cryptodev.c:50-163).
LEMMA CryptodevTyped ==
  ASSUME Typed, IInv, NEW name \in NamesOf["cryptodev"], NEW d, NEW fits,
         cryptodev_create(name, d, fits)
  PROVE  Typed'
<1>1. CASE Refuse
  BY <1>1, RefuseTyped
<1>2. CASE ~Refuse
  <2>1. PICK node : node = Node("cryptodev", name, d)
    OBVIOUS
  <2>2. \/ held' = held \cup {Thing("cryptodev", d)} /\ ReturnNull /\ UNCHANGED port
        \/ AddNode(node) /\ UNCHANGED <<port, sched>>
    BY <1>2, <2>1 DEF cryptodev_create
  <2>3. node.kind = "cryptodev" /\ node.name = name /\ node.kind \in Kinds
    BY <2>1 DEF Node, Kinds
  <2>4. port \in PortType
    BY DEF Typed, RestTyped
  <2>5. QED
    BY <2>2, <2>3, <2>4, LeftTyped, AddTyped
<1>3. QED
  BY <1>1, <1>2

\* Every subport and pipe starts with profile 0, and there is one
\* (tmgr.c:160-249).
LEMMA TmgrTyped ==
  ASSUME Typed, IInv, NEW name \in NamesOf["tmgr"], tmgr_port_create(name)
  PROVE  Typed'
<1>1. CASE Refuse
  BY <1>1, RefuseTyped
<1>2. CASE ~Refuse
  <2>1. PICK node : node = Node("tmgr", name, name)
    OBVIOUS
  <2>2. PICK s : s = Sched(profiles.subport, profiles.pipe)
    OBVIOUS
  <2>3. /\ profiles.subport # 0 /\ profiles.pipe # 0
        /\ AddNode(node) /\ sched' = [sched EXCEPT ![name] = s] /\ UNCHANGED port
    BY <1>2, <2>1, <2>2 DEF tmgr_port_create
  <2>4. node.kind = "tmgr" /\ node.name = name /\ node.id = name /\ "tmgr" \in Kinds
    BY <2>1 DEF Node, Kinds
  <2>5. /\ AllNodes' = AllNodes \cup {node}
        /\ nodes' = nodes \cup {node}
        /\ held' = held \cup {Thing("tmgr", name)}
        /\ UNCHANGED <<profiles, asked>> /\ result' = "ok"
    BY <2>3, <2>4, KniList DEF AddNode, AllNodes, IInv
  <2>6. Thing("tmgr", name).kind = "tmgr"
    BY DEF Thing
  <2>7. NodesTyped'
    BY <2>4, <2>5, <2>6 DEF Typed, NodesTyped
  <2>8. InRange(s)
    <3>1. profiles.subport \in Nat \ {0} /\ profiles.pipe \in Nat \ {0}
      BY <2>3 DEF IInv, Scheds
    <3>2. /\ s.n_sub = profiles.subport /\ s.n_pipe = profiles.pipe
          /\ s.subport = [t \in SubportIds |-> 0]
          /\ s.pipe = [t \in SubportIds |-> [i \in PipeIds |-> 0]]
      BY <2>2 DEF Sched
    <3>3. QED
      BY <3>1, <3>2 DEF InRange
  <2>9. SchedsTyped'
    <3>1. sched \in [NamesOf["tmgr"] -> SchedType \cup {None}]
      BY DEF IInv, Scheds
    <3>2. ASSUME NEW other \in NamesOf["tmgr"], sched'[other] # None \/ find("tmgr", other)'
          PROVE  InRange(sched'[other])
      <4>1. CASE other = name
        BY <2>3, <2>8, <3>1, <4>1
      <4>2. CASE other # name
        <5>1. sched'[other] = sched[other]
          BY <2>3, <3>1, <4>2
        <5>2. find("tmgr", other)' => find("tmgr", other)
          BY <2>4, <2>5, <4>2 DEF find
        <5>3. QED
          BY <3>2, <5>1, <5>2 DEF Typed, SchedsTyped
      <4>3. QED
        BY <4>1, <4>2
    <3>3. QED
      BY <3>2 DEF SchedsTyped, InRange
  <2>10. RestTyped'
    BY <2>3, <2>5 DEF Typed, RestTyped
  <2>11. QED
    BY <2>7, <2>9, <2>10 DEF Typed
<1>3. QED
  BY <1>1, <1>2

\* A command on the profiles of one port: what else it leaves alone.
LEMMA ChangedTyped ==
  ASSUME Typed, IInv, NEW name, find("tmgr", name), NEW new, InRange(new),
         sched' = [sched EXCEPT ![name] = new],
         result' \in {"ok", "failed"}, UNCHANGED <<nodes, knis, held, port, profiles, asked>>
  PROVE  Typed'
<1>1. NodesTyped' /\ RestTyped'
  BY DEF Typed, NodesTyped, RestTyped
<1>2. sched \in [NamesOf["tmgr"] -> SchedType \cup {None}]
  BY DEF IInv, Scheds
<1>3. ASSUME NEW other \in NamesOf["tmgr"], sched'[other] # None \/ find("tmgr", other)'
      PROVE  InRange(sched'[other])
  <2>1. find("tmgr", other)' <=> find("tmgr", other)
    BY DEF find, AllNodes
  <2>2. CASE other = name
    BY <1>2, <2>2
  <2>3. CASE other # name
    BY <1>2, <1>3, <2>1, <2>3 DEF Typed, SchedsTyped
  <2>4. QED
    BY <2>2, <2>3
<1>4. SchedsTyped'
  BY <1>3 DEF SchedsTyped, InRange
<1>5. QED
  BY <1>1, <1>4 DEF Typed

\* Profiles are counted up to the bound.
LEMMA ProfileTyped ==
  ASSUME Typed, NEW kind \in {"subport", "pipe"}, profile_add(kind)
  PROVE  Typed'
<1>1. profiles' \in [{"subport", "pipe"} -> 0 .. ProfileMax]
  BY SizesPositive DEF profile_add, Typed, RestTyped
<1>2. NodesTyped' /\ RestTyped'
  BY <1>1 DEF Typed, NodesTyped, RestTyped, profile_add
<1>3. SchedsTyped'
  BY DEF Typed, SchedsTyped, find, AllNodes, profile_add
<1>4. QED
  BY <1>2, <1>3 DEF Typed

\* The library compares the profile with those the port was told of
\* (tmgr.c:252-277).
LEMMA SubportTyped ==
  ASSUME Typed, IInv, NEW name, NEW s, NEW prof \in Nat, tmgr_subport_config(name, s, prof)
  PROVE  Typed'
<1>1. CASE Refuse
  BY <1>1, RefuseTyped
<1>2. CASE ~Refuse
  <2>1. PICK new : new = [sched[name] EXCEPT !.subport[s] = prof]
    OBVIOUS
  <2>2. /\ find("tmgr", name) /\ s \in SubportIds /\ ~(prof >= sched[name].n_sub)
        /\ sched' = [sched EXCEPT ![name] = new] /\ result' = "ok"
        /\ UNCHANGED <<nodes, knis, held, port, profiles, asked>>
    BY <1>2, <2>1 DEF tmgr_subport_config
  <2>3. name \in NamesOf["tmgr"] /\ sched[name] \in SchedType
    BY <2>2, SchedOf
  <2>4. InRange(sched[name])
    BY <2>2, <2>3 DEF Typed, SchedsTyped
  <2>5. PICK n \in Nat : n = sched[name].n_sub
    BY <2>3 DEF SchedType
  <2>6. prof \in 0 .. n - 1
    BY <2>2, <2>5
  <2>7. /\ new.n_sub = n /\ new.n_pipe = sched[name].n_pipe /\ new.pipe = sched[name].pipe
        /\ new.subport = [sched[name].subport EXCEPT ![s] = prof]
    BY <2>1, <2>3, <2>5 DEF SchedType
  <2>8. InRange(new)
    BY <2>4, <2>5, <2>6, <2>7 DEF InRange
  <2>9. QED
    BY <2>2, <2>8, ChangedTyped
<1>3. QED
  BY <1>1, <1>2

\* So it does for every pipe, up to the first it refuses (tmgr.c:280-317).
LEMMA PipeTyped ==
  ASSUME Typed, IInv, NEW name, NEW s, NEW first, NEW last, NEW prof \in Nat,
         tmgr_pipe_config(name, s, first, last, prof)
  PROVE  Typed'
<1>1. CASE Refuse
  BY <1>1, RefuseTyped
<1>2. CASE ~Refuse
  <2>1. PICK done : done = {i \in first .. last : \A j \in first .. i : PipeAccepted(name, j, prof)}
    OBVIOUS
  <2>2. PICK pipes : pipes = [i \in PipeIds |-> IF i \in done THEN prof ELSE sched[name].pipe[s][i]]
    OBVIOUS
  <2>3. PICK new : new = [sched[name] EXCEPT !.pipe[s] = pipes]
    OBVIOUS
  <2>4. /\ find("tmgr", name) /\ s \in SubportIds /\ first \in PipeIds /\ last \in PipeIds
        /\ sched' = [sched EXCEPT ![name].pipe[s] =
                       [i \in PipeIds |-> IF i \in done THEN prof ELSE @[i]]]
        /\ result' = IF done = first .. last THEN "ok" ELSE "failed"
        /\ UNCHANGED <<nodes, knis, held, port, profiles, asked>>
    BY <1>2, <2>1 DEF tmgr_pipe_config, PipeRangeFits
  <2>5. sched' = [sched EXCEPT ![name] = new]
    BY <2>2, <2>3, <2>4
  <2>6. name \in NamesOf["tmgr"] /\ sched[name] \in SchedType
    BY <2>4, SchedOf
  <2>7. InRange(sched[name])
    BY <2>4, <2>6 DEF Typed, SchedsTyped
  <2>8. PICK n \in Nat : n = sched[name].n_pipe
    BY <2>6 DEF SchedType
  <2>9. ASSUME NEW i \in PipeIds
        PROVE  pipes[i] \in 0 .. n - 1
    <3>1. CASE i \in done
      <4>1. i \in first .. i
        BY <2>1, <2>4, <3>1, SizesPositive DEF PipeIds
      <4>2. prof < n
        BY <2>1, <2>8, <3>1, <4>1 DEF PipeAccepted
      <4>3. QED
        BY <2>2, <3>1, <4>2
    <3>2. CASE i \notin done
      BY <2>2, <2>4, <2>7, <2>8, <3>2 DEF InRange
    <3>3. QED
      BY <3>1, <3>2
  <2>10. pipes \in [PipeIds -> 0 .. n - 1]
    BY <2>2, <2>9
  <2>11. /\ new.n_pipe = n /\ new.n_sub = sched[name].n_sub /\ new.subport = sched[name].subport
         /\ new.pipe = [sched[name].pipe EXCEPT ![s] = pipes]
    BY <2>3, <2>6, <2>8 DEF SchedType
  <2>12. InRange(new)
    BY <2>7, <2>8, <2>10, <2>11 DEF InRange
  <2>13. QED
    BY <2>4, <2>5, <2>12, ChangedTyped
<1>3. QED
  BY <1>1, <1>2

\* The main loop serves the devices of the list (kni.c:170-176).
LEMMA HandleTyped ==
  ASSUME Typed, IInv, kni_handle_request
  PROVE  Typed'
<1>1. /\ \E refusing :
           port' = ServeAll(refusing, port, knis)
      /\ asked' = [n \in DOMAIN asked |->
                     IF \E k \in ToSet(knis) : k.name = n THEN None ELSE asked[n]]
      /\ UNCHANGED <<nodes, knis, held, profiles, sched, result>>
  BY DEF kni_handle_request, Visited
<1>2. port' \in PortType
  BY <1>1, FoldTyped DEF Typed, RestTyped, IInv, Shapes
<1>3. asked' \in AskedType
  BY <1>1 DEF Typed, RestTyped, AskedType
<1>4. NodesTyped' /\ RestTyped'
  BY <1>1, <1>2, <1>3 DEF Typed, NodesTyped, RestTyped
<1>5. SchedsTyped'
  BY <1>1 DEF Typed, SchedsTyped, find, AllNodes
<1>6. QED
  BY <1>4, <1>5 DEF Typed

\* The kernel asks.
LEMMA AsksTyped ==
  ASSUME Typed, NEW t, NEW req \in Requests, KernelAsks(t, req)
  PROVE  Typed'
<1>1. asked' \in AskedType
  BY DEF KernelAsks, Typed, RestTyped, AskedType
<1>2. NodesTyped' /\ RestTyped'
  BY <1>1 DEF Typed, NodesTyped, RestTyped, KernelAsks
<1>3. SchedsTyped'
  BY DEF Typed, SchedsTyped, find, AllNodes, KernelAsks
<1>4. QED
  BY <1>2, <1>3 DEF Typed

\* Every create command keeps the types.
LEMMA CreateTyped == Typed /\ IInv /\ Create => Typed'
<1> SUFFICES ASSUME Typed, IInv, Create PROVE Typed'
  OBVIOUS
<1>0. {"mempool", "swq", "tap", "port_in_action", "table_action"} \subseteq Kinds \ {"kni", "tmgr"}
  BY DEF Kinds
<1>1. CASE \E name \in NamesOf["mempool"], fits \in BOOLEAN : mempool_create(name, fits)
  BY <1>0, <1>1, SimpleTyped DEF mempool_create
<1>2. CASE \E name \in NamesOf["swq"], fits \in BOOLEAN : swq_create(name, fits)
  BY <1>0, <1>2, SimpleTyped DEF swq_create
<1>3. CASE \E name \in NamesOf["tap"] : tap_create(name)
  BY <1>0, <1>3, SimpleTyped DEF tap_create
<1>4. CASE \E name \in NamesOf["port_in_action"], mask \in Masks, size \in {8, 12} :
             port_in_action_profile_create(name, mask, size)
  BY <1>0, <1>4, SimpleTyped DEF port_in_action_profile_create
<1>5. CASE \E name \in NamesOf["table_action"], mask \in Masks, size \in {8, 12} :
             table_action_profile_create(name, mask, size)
  BY <1>0, <1>5, SimpleTyped DEF table_action_profile_create
<1>6. QED
  BY <1>1, <1>2, <1>3, <1>4, <1>5, LinkTyped, KniTyped, CryptodevTyped, TmgrTyped DEF Create

\* So does every command on the traffic manager.
LEMMA ConfigureTyped == Typed /\ IInv /\ Configure => Typed'
<1> SUFFICES ASSUME Typed, IInv, Configure PROVE Typed'
  OBVIOUS
<1>1. CASE tmgr_subport_profile_add \/ tmgr_pipe_profile_add
  BY <1>1, ProfileTyped DEF tmgr_subport_profile_add, tmgr_pipe_profile_add
<1>2. 0 .. ProfileMax \subseteq Nat
  BY SizesPositive
<1>3. QED
  BY <1>1, <1>2, SubportTyped, PipeTyped DEF Configure

\* So does every step.
LEMMA NextTyped == Typed /\ IInv /\ [Next]_vars => Typed'
<1> SUFFICES ASSUME Typed, IInv, [Next]_vars PROVE Typed'
  OBVIOUS
<1>1. CASE UNCHANGED vars
  BY <1>1 DEF Typed, NodesTyped, SchedsTyped, RestTyped, vars, find, AllNodes
<1>2. QED
  BY <1>1, CreateTyped, ConfigureTyped, HandleTyped, AsksTyped DEF Next

\* Nodes, ports and profiles keep the shapes link.h, kni.h and tmgr.h give them
\* through every command and every failure: a profile in force is always one
\* the library knows of, and whatever the kernel asks of the KNI devices, and
\* of however many of them in one pass, no port gets an MTU above
\* RTE_ETHER_MAX_LEN (kni.c:82-98).
THEOREM TypeCorrect == Spec => []TypeOK
<1>1. Typed /\ IInv => TypeOK
  <2> SUFFICES ASSUME Typed, IInv PROVE TypeOK
    OBVIOUS
  <2>1. \A k \in ToSet(knis) : k.kind = "kni" /\ k.name \in NamesOf["kni"]
    BY KniList DEF IInv, KniNodes
  <2>2. QED
    BY <2>1 DEF TypeOK, Typed, NodesTyped, SchedsTyped, RestTyped, InRange, PortType, AskedType
<1>2. QED
  BY <1>1, InitTyped, NextTyped, Invariant, PTL DEF Spec
=============================================================================
