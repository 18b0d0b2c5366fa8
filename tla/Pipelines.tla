------------------------------ MODULE Pipelines ------------------------------
(* pipeline.c and the side of thread.c that changes what a pipeline is made  *)
(* of: pipelines with their input ports, output ports and tables, the action *)
(* object of each table and the copies of the pointers to these objects that *)
(* a data plane thread keeps while it runs the pipeline. A command on a      *)
(* table goes to the object the main thread knows when the pipeline is not   *)
(* running, and otherwise to the one in the thread's copy, which is made     *)
(* when the pipeline is enabled. The main thread waits for the answer of the *)
(* data plane thread, so that a command is one step here; the exchange of    *)
(* messages itself is the subject of PipelineThreads.                        *)
EXTENDS Integers, FiniteSets, Sequences

CONSTANTS
  Pipes,        \* names of pipelines
  Threads,      \* data plane threads, all running
  Devices,      \* nodes of the registries: [kind, n_rxq, n_txq]
  Profiles,     \* table action profiles: the sets of actions
  PortProfiles, \* input port action profiles, or None
  TypesMade,    \* match types of the tables asked for
  PortInMax,    \* RTE_PIPELINE_PORT_IN_MAX, scaled
  PortOutMax,   \* RTE_PIPELINE_PORT_OUT_MAX, scaled
  TableMax,     \* RTE_PIPELINE_TABLE_MAX, scaled
  PipelinesMax, \* THREAD_PIPELINES_MAX, scaled
  MeterIds,     \* meter profiles
  MaxUses,      \* bound: rules installed and settings written to action objects
  None

TableIds == 0 .. TableMax - 1
Slots == 1 .. PipelinesMax
Masks == Profiles \cup {None}
TableTypes == {"acl", "array", "hash", "lpm", "stub"}

\* Names of action objects, and pointers to them.
ObjectIds == [kind : {"port_in", "table"}, p : Pipes, i : Nat]
Refs == ObjectIds \cup {None}

\* struct pipeline; `late` is of the model (see pipeline_table_create).
Pipeline ==
  [ports_in : Seq([a : Refs, table : TableIds \cup {None}]),
   n_ports_out : Nat,
   tables : Seq([type : TableTypes, mask : Masks, a : Refs, late : BOOLEAN]),
   enabled : BOOLEAN, thread : Threads \cup {None}]

ASSUME PipelinesAssumption ==
  /\ {PortInMax, PortOutMax, TableMax, PipelinesMax} \subseteq Nat \ {0}
  /\ MaxUses \in Nat
  /\ TypesMade \subseteq TableTypes
  /\ None \notin Pipeline \cup ObjectIds \cup Pipes

VARIABLES
  pipe,    \* pipeline_list: None or what the main thread knows of the pipeline
  lib,     \* what the library's rte_pipeline has: ports and tables
  objects, \* the action objects there are, with what was written to each
  data,    \* thread_data: the pipelines of each thread
  entries  \* the rules in the tables of the library

vars == <<pipe, lib, objects, data, entries>>

\* The action object of a table or of an input port of a pipeline.
Object(kind, p, i) == [kind |-> kind, p |-> p, i |-> i]

EmptySlot == [p |-> None, a |-> [i \in TableIds |-> None]]

\* The lists are empty and the threads' data is zero.
Init ==
  /\ pipe = [p \in Pipes |-> None]
  /\ lib = [p \in Pipes |-> [n_in |-> 0, n_out |-> 0, n_tables |-> 0]]
  /\ objects = <<>>
  /\ data = [t \in Threads |-> [n |-> 0, slot |-> [k \in Slots |-> EmptySlot]]]
  /\ entries = {}

Exists(p) == pipe[p] # None

NTables(p) == Len(pipe[p].tables)

-----------------------------------------------------------------------------
(* Creation. Every step may be refused by a library or for want of memory,   *)
(* which gives back what the steps before it took: nothing has changed then, *)
(* and there is no action for it. The action object of a port or a table is  *)
(* made first and then handed to the library with the port or the table.     *)

pipeline_create(p) ==
  /\ ~Exists(p)
  /\ pipe' = [pipe EXCEPT ![p] = [ports_in |-> <<>>, n_ports_out |-> 0, tables |-> <<>>,
                                  enabled |-> FALSE, thread |-> None]]
  /\ UNCHANGED <<lib, objects, data, entries>>

NewObject(obj, mask) ==
  objects' = [o \in DOMAIN objects \cup {obj} |->
                IF o = obj THEN [mask |-> mask, written |-> {}] ELSE objects[o]]

\* The object is made when the parameters name an action profile.
MakeObject(obj, mask) ==
  IF mask = None THEN UNCHANGED objects ELSE NewObject(obj, mask)

Ref(obj, mask) == IF mask = None THEN None ELSE obj

\* The device exists and has the queue; a source needs a pool only, and a
\* crypto device numbers its queues as a link does.
PortInFits(dev, queue) ==
  \/ dev.kind \in {"swq", "tmgr", "tap", "kni", "source"}
  \/ dev.kind \in {"link", "cryptodev"} /\ queue < dev.n_rxq

PortOutFits(dev, queue) ==
  \/ dev.kind \in {"swq", "tmgr", "tap", "kni", "sink"}
  \/ dev.kind \in {"link", "cryptodev"} /\ queue < dev.n_txq

\* Only the library compares the number of ports with its maximum.
pipeline_port_in_create(p, dev, queue, mask) ==
  /\ Exists(p) /\ PortInFits(dev, queue)
  /\ lib[p].n_in < PortInMax
  /\ LET obj == Object("port_in", p, Len(pipe[p].ports_in))
     IN /\ MakeObject(obj, mask)
        /\ pipe' = [pipe EXCEPT ![p].ports_in =
                      Append(@, [a |-> Ref(obj, mask), table |-> None])]
  /\ lib' = [lib EXCEPT ![p].n_in = @ + 1]
  /\ UNCHANGED <<data, entries>>

pipeline_port_in_connect_to_table(p, port, i) ==
  /\ Exists(p) /\ port \in DOMAIN pipe[p].ports_in /\ i < NTables(p)
  /\ pipe' = [pipe EXCEPT ![p].ports_in[port].table = i]
  /\ UNCHANGED <<lib, objects, data, entries>>

\* (slip: the port is counted whatever the library answers)
pipeline_port_out_create_slip(p, dev, queue) ==
  /\ Exists(p) /\ PortOutFits(dev, queue)
  /\ pipe' = [pipe EXCEPT ![p].n_ports_out = @ + 1]
  /\ lib' = [lib EXCEPT ![p].n_out = IF @ < PortOutMax THEN @ + 1 ELSE @]
  /\ UNCHANGED <<objects, data, entries>>

pipeline_port_out_create(p, dev, queue) ==
  /\ Exists(p) /\ PortOutFits(dev, queue)
  /\ lib[p].n_out < PortOutMax
  /\ pipe' = [pipe EXCEPT ![p].n_ports_out = @ + 1]
  /\ lib' = [lib EXCEPT ![p].n_out = @ + 1]
  /\ UNCHANGED <<objects, data, entries>>

\* Keys and rules are asked for, and the key has a size there is code for.
TableFits(type, n_keys, key_size) ==
  CASE type \in {"acl", "array"} -> n_keys > 0
    [] type = "hash" -> n_keys > 0 /\ key_size \in {8 * k : k \in 1 .. 8}
    [] type = "lpm" -> n_keys > 0 /\ key_size \in {4, 16}
    [] type = "stub" -> TRUE

(* A table may be made while the pipeline runs; the thread's copy does not   *)
(* follow. `late` remembers it, which the code does not.                     *)
pipeline_table_create(p, type, n_keys, key_size, mask) ==
  /\ Exists(p) /\ TableFits(type, n_keys, key_size)
  /\ NTables(p) < TableMax /\ lib[p].n_tables < TableMax
  /\ LET obj == Object("table", p, NTables(p))
     IN /\ MakeObject(obj, mask)
        /\ pipe' = [pipe EXCEPT ![p].tables =
                      Append(@, [type |-> type, mask |-> mask, a |-> Ref(obj, mask),
                                 late |-> pipe[p].enabled])]
  /\ lib' = [lib EXCEPT ![p].n_tables = @ + 1]
  /\ UNCHANGED <<data, entries>>

-----------------------------------------------------------------------------
(* Enabling and disabling                                                    *)

\* table_data[i].a for i < n_tables; what is above them stays as it was.
CopyTables(slot, p) ==
  [p |-> p, a |-> [i \in TableIds |-> IF i < NTables(p) THEN pipe[p].tables[i + 1].a
                                                        ELSE slot.a[i]]]

thread_pipeline_enable(t, p) ==
  /\ Exists(p) /\ ~pipe[p].enabled
  /\ pipe[p].ports_in # <<>> /\ pipe[p].n_ports_out # 0 /\ pipe[p].tables # <<>>
  /\ data[t].n < PipelinesMax
  /\ LET k == data[t].n + 1
     IN data' = [data EXCEPT ![t].n = k, ![t].slot[k] = CopyTables(@, p)]
  /\ pipe' = [pipe EXCEPT ![p].enabled = TRUE, ![p].thread = t]
  /\ UNCHANGED <<lib, objects, entries>>

\* The slot of the pipeline in the thread's data.
SlotOf(t, p) == CHOOSE k \in 1 .. data[t].n : data[t].slot[k].p = p

\* (slip: the last slot's pipeline is moved without its table data)
Moved_slip(d, k) ==
  [d EXCEPT !.n = @ - 1, !.slot[k].p = d.slot[d.n].p]

\* (slip: the slot is given up and nothing is moved into it)
Moved_dropped(d, k) == [d EXCEPT !.n = @ - 1]

\* The last slot takes the place of slot k; its content stays behind, too.
Moved(d, k) == [d EXCEPT !.n = @ - 1, !.slot[k] = d.slot[d.n]]

thread_pipeline_disable(t, p) ==
  /\ Exists(p) /\ pipe[p].enabled /\ pipe[p].thread = t
  /\ data' = [data EXCEPT ![t] = Moved(@, SlotOf(t, p))]
  /\ pipe' = [pipe EXCEPT ![p].enabled = FALSE]
  /\ UNCHANGED <<lib, objects, entries>>

-----------------------------------------------------------------------------
(* Commands on a table. The number of the table is compared with the tables  *)
(* the main thread knows.                                                    *)

\* The action object a command on table i reaches: p->table[i].a, or the
\* thread's table_data[i].a.
ActionOf(p, i) ==
  IF pipe[p].enabled
  THEN LET t == pipe[p].thread IN data[t].slot[SlotOf(t, p)].a[i]
  ELSE pipe[p].tables[i + 1].a

IsTable(p, i) == Exists(p) /\ i < NTables(p)

\* The rules and settings there are; their number is bounded.
Uses == Cardinality(entries) + Cardinality(UNION {objects[o].written : o \in DOMAIN objects})

Write(p, i, action, what) ==
  /\ IsTable(p, i) /\ Uses < MaxUses
  /\ LET o == ActionOf(p, i)
     IN /\ o # None /\ action \in objects[o].mask
        /\ ~ \E w \in objects[o].written : w.what = what
        /\ objects' = [objects EXCEPT ![o].written =
                         @ \cup {[what |-> what, p |-> p, i |-> i]}]
  /\ UNCHANGED <<pipe, lib, data, entries>>

Erase(p, i, action, what) ==
  /\ IsTable(p, i)
  /\ LET o == ActionOf(p, i)
     IN /\ o # None /\ action \in objects[o].mask
        /\ \E w \in objects[o].written : w.what = what
        /\ objects' = [objects EXCEPT ![o].written = {w \in @ : w.what # what}]
  /\ UNCHANGED <<pipe, lib, data, entries>>

\* An id is added once, and nothing looks whether rules use the one deleted.
pipeline_table_mtr_profile_add(p, i, id) == Write(p, i, "mtr", id)
pipeline_table_mtr_profile_delete(p, i, id) == Erase(p, i, "mtr", id)

\* The DSCP table is for meters and for the traffic manager.
pipeline_table_dscp_table_update(p, i) ==
  Write(p, i, "mtr", "dscp") \/ Write(p, i, "tm", "dscp")

\* (slip: one more than there are)
TargetExists_slip(p, fwd) ==
  CASE fwd.action = "port" -> fwd.id <= pipe[p].n_ports_out
    [] fwd.action = "table" -> fwd.id <= NTables(p)
    [] OTHER -> TRUE

TargetExists(p, fwd) ==
  CASE fwd.action = "port" -> fwd.id < pipe[p].n_ports_out
    [] fwd.action = "table" -> fwd.id < NTables(p)
    [] OTHER -> TRUE

\* The actions of a rule are exactly those of the table's profile. (Without a
\* profile there is no mask to compare with: the pointer is not looked at first.)
action_check(p, i, mask, fwd) ==
  LET own == pipe[p].tables[i + 1].mask
  IN own # None /\ mask = own /\ TargetExists(p, fwd)

action_default_check(p, mask, fwd) == mask = {"fwd"} /\ TargetExists(p, fwd)

Install(p, i, fwd, by, is_default) ==
  /\ Uses < MaxUses
  /\ entries' = entries \cup {[p |-> p, i |-> i, fwd |-> fwd, by |-> by,
                               is_default |-> is_default]}
  /\ UNCHANGED <<pipe, lib, objects, data>>

\* The object writes the bytes of the entry, action by action; one that lacks
\* an action of the rule refuses it.
action_convert(o, mask) == o # None /\ mask \subseteq objects[o].mask

pipeline_table_rule_add(p, i, type, mask, fwd) ==
  /\ IsTable(p, i) /\ type = pipe[p].tables[i + 1].type /\ type # "stub"
  /\ action_check(p, i, mask, fwd)
  /\ action_convert(ActionOf(p, i), mask)
  /\ Install(p, i, fwd, ActionOf(p, i), FALSE)

\* A default rule only forwards, and its entry is written without the object.
pipeline_table_rule_add_default(p, i, mask, fwd) ==
  /\ IsTable(p, i) /\ action_default_check(p, mask, fwd)
  /\ Install(p, i, fwd, None, TRUE)

pipeline_table_rule_delete(p, i, is_default) ==
  /\ IsTable(p, i)
  /\ \E e \in entries :
       /\ e.p = p /\ e.i = i /\ e.is_default = is_default
       /\ entries' = entries \ {e}
  /\ UNCHANGED <<pipe, lib, objects, data>>

-----------------------------------------------------------------------------
Forwards == [action : {"port"}, id : 0 .. PortOutMax]
            \cup [action : {"table"}, id : TableIds]
            \cup [action : {"drop"}, id : {0}]

Build ==
  \E p \in Pipes :
    \/ pipeline_create(p)
    \/ \E dev \in Devices, queue \in {0, 1}, mask \in PortProfiles :
         pipeline_port_in_create(p, dev, queue, mask)
    \/ \E dev \in Devices, queue \in {0, 1} : pipeline_port_out_create(p, dev, queue)
    \/ \E port \in 1 .. PortInMax, i \in TableIds :
         pipeline_port_in_connect_to_table(p, port, i)
    \/ \E type \in TypesMade, n_keys \in {0, 1}, key_size \in {4, 8}, mask \in Masks :
         pipeline_table_create(p, type, n_keys, key_size, mask)

Run ==
  \E t \in Threads, p \in Pipes :
    thread_pipeline_enable(t, p) \/ thread_pipeline_disable(t, p)

Command ==
  \E p \in Pipes, i \in TableIds :
    \/ \E id \in MeterIds : \/ pipeline_table_mtr_profile_add(p, i, id)
                            \/ pipeline_table_mtr_profile_delete(p, i, id)
    \/ pipeline_table_dscp_table_update(p, i)
    \/ \E type \in TypesMade, mask \in Profiles, fwd \in Forwards :
         pipeline_table_rule_add(p, i, type, mask, fwd)
    \/ \E fwd \in Forwards : pipeline_table_rule_add_default(p, i, {"fwd"}, fwd)
    \/ \E is_default \in BOOLEAN : pipeline_table_rule_delete(p, i, is_default)

Next == Build \/ Run \/ Command

Spec == Init /\ [][Next]_vars

-----------------------------------------------------------------------------
(* Properties                                                                *)

IsRef(obj) == obj = None \/ obj \in DOMAIN objects

\* Pipelines, their ports and tables and the threads' slots have the shapes
\* pipeline.h and thread.c declare; an enabled pipeline has one slot, on its
\* thread, and every pointer to an action object is to one that is there.
TypeOK ==
  /\ pipe \in [Pipes -> Pipeline \cup {None}]
  /\ data \in [Threads -> [n : 0 .. PipelinesMax,
                          slot : [Slots -> [p : Pipes \cup {None}, a : [TableIds -> Refs]]]]]
  /\ \A p \in Pipes : Exists(p) =>
       /\ \A i \in DOMAIN pipe[p].ports_in : IsRef(pipe[p].ports_in[i].a)
       /\ \A i \in DOMAIN pipe[p].tables : IsRef(pipe[p].tables[i].a)
       /\ pipe[p].enabled => \E k \in 1 .. data[pipe[p].thread].n :
                               data[pipe[p].thread].slot[k].p = p
  /\ \A t \in Threads :
       /\ \A k \in Slots : \A i \in TableIds : IsRef(data[t].slot[k].a[i])
       /\ \A k \in 1 .. data[t].n : pipe[data[t].slot[k].p].enabled

(* What the main thread counts is what the library has, at its limits and    *)
(* after failures too, and within the arrays of struct pipeline; the action  *)
(* objects there are are those the ports and tables refer to, each by one.   *)
LibraryAgrees ==
  /\ \A p \in Pipes : Exists(p) =>
       /\ lib[p] = [n_in |-> Len(pipe[p].ports_in), n_out |-> pipe[p].n_ports_out,
                    n_tables |-> NTables(p)]
       /\ Len(pipe[p].ports_in) <= PortInMax /\ NTables(p) <= TableMax
       /\ \A i \in DOMAIN pipe[p].ports_in :
            pipe[p].ports_in[i].table # None => pipe[p].ports_in[i].table < NTables(p)
  /\ \A o \in DOMAIN objects :
       /\ Exists(o.p)
       /\ IF o.kind = "table" THEN pipe[o.p].tables[o.i + 1].a = o
                              ELSE pipe[o.p].ports_in[o.i + 1].a = o

\* Table i of pipeline p was made while the pipeline ran.
Late(p, i) == pipe[p].tables[i + 1].late

(* A command on a table acts on the table's own action object, on whatever   *)
(* slot of whatever thread the pipeline runs and wherever it has been moved  *)
(* since: a rule is encoded by it, a meter profile and a DSCP table are      *)
(* written to it. The one exception are tables made while their pipeline     *)
(* ran: their entry of table_data is what an earlier pipeline left in the    *)
(* slot (thread.c:2800).                                                     *)
ActsOnOwn ==
  /\ \A e \in entries : ~e.is_default /\ ~Late(e.p, e.i) => e.by = Object("table", e.p, e.i)
  /\ \A o \in DOMAIN objects : \A w \in objects[o].written :
       Object("table", w.p, w.i) = o \/ Late(w.p, w.i)

(* A rule in a table of the library sends packets to a port or a table that  *)
(* its pipeline has, for as long as the rule is there.                       *)
TargetsExist ==
  \A e \in entries :
    CASE e.fwd.action = "port" -> e.fwd.id < lib[e.p].n_out
      [] e.fwd.action = "table" -> e.fwd.id < lib[e.p].n_tables
      [] OTHER -> TRUE
=============================================================================
