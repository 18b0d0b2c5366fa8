-------------------------- MODULE PipelinesProofs --------------------------
(* Proofs about Pipelines, for any pipelines, threads, profiles and limits:  *)
(* the counts agree with the library, a command on a table acts on the       *)
(* table's own action object, and rules only name ports and tables there     *)
(* are.                                                                      *)
EXTENDS Pipelines, TLAPS

-----------------------------------------------------------------------------
(* The inductive invariant                                                   *)

SlotType == [p : Pipes \cup {None}, a : [TableIds -> Refs]]
WriteType == [what : MeterIds \cup {"dscp"}, p : Pipes, i : TableIds]

\* Type correctness of what is stored.
Types ==
  /\ pipe \in [Pipes -> Pipeline \cup {None}]
  /\ lib \in [Pipes -> [n_in : Nat, n_out : Nat, n_tables : Nat]]
  /\ data \in [Threads -> [n : 0 .. PipelinesMax, slot : [Slots -> SlotType]]]
  /\ DOMAIN objects \subseteq ObjectIds
  /\ objects \in [DOMAIN objects -> [mask : Masks \cup PortProfiles, written : SUBSET WriteType]]

\* The library has what the main thread counts, and nothing for the name of a
\* pipeline that is not there.
Counts ==
  \A p \in Pipes :
    IF Exists(p)
    THEN /\ lib[p].n_in = Len(pipe[p].ports_in) /\ lib[p].n_out = pipe[p].n_ports_out
         /\ lib[p].n_tables = NTables(p)
         /\ Len(pipe[p].ports_in) <= PortInMax /\ NTables(p) <= TableMax
    ELSE lib[p].n_in = 0 /\ lib[p].n_out = 0 /\ lib[p].n_tables = 0

Connected ==
  \A p \in Pipes : Exists(p) =>
    \A i \in DOMAIN pipe[p].ports_in :
      pipe[p].ports_in[i].table # None => pipe[p].ports_in[i].table < NTables(p)

\* A port refers to an action object there is, a table to its own, or to none.
PortRef(p, i) == IsRef(pipe[p].ports_in[i].a)
TableRef(p, i) == /\ IsRef(pipe[p].tables[i].a)
                  /\ pipe[p].tables[i].a \in {None, Object("table", p, i - 1)}

Pointers ==
  \A p \in Pipes : Exists(p) =>
    /\ \A i \in DOMAIN pipe[p].ports_in : PortRef(p, i)
    /\ \A i \in DOMAIN pipe[p].tables : TableRef(p, i)

\* So do the copies of the threads, in use or not.
CopyPointers ==
  \A t \in Threads : \A k \in Slots : \A i \in TableIds : IsRef(data[t].slot[k].a[i])

\* Every object has the port or table it was made for.
Owned(o) ==
  /\ Exists(o.p)
  /\ o.kind = "table" => /\ o.i + 1 \in DOMAIN pipe[o.p].tables
                         /\ pipe[o.p].tables[o.i + 1].a = o
  /\ o.kind = "port_in" => /\ o.i + 1 \in DOMAIN pipe[o.p].ports_in
                           /\ pipe[o.p].ports_in[o.i + 1].a = o

Owners == \A o \in DOMAIN objects : Owned(o)

\* The slots in use and the enabled pipelines, one for one.
Places ==
  /\ \A t \in Threads : \A k \in 1 .. data[t].n :
       /\ data[t].slot[k].p \in Pipes /\ Exists(data[t].slot[k].p)
       /\ pipe[data[t].slot[k].p].enabled /\ pipe[data[t].slot[k].p].thread = t
  /\ \A t \in Threads : \A k, l \in 1 .. data[t].n :
       data[t].slot[k].p = data[t].slot[l].p => k = l
  /\ \A p \in Pipes : Exists(p) /\ pipe[p].enabled =>
       /\ pipe[p].thread \in Threads
       /\ \E k \in 1 .. data[pipe[p].thread].n : data[pipe[p].thread].slot[k].p = p

\* The copies in a slot in use are those of its pipeline, but for late tables.
Copies ==
  \A t \in Threads : \A k \in 1 .. data[t].n :
    \A i \in 0 .. NTables(data[t].slot[k].p) - 1 :
      ~Late(data[t].slot[k].p, i) =>
        data[t].slot[k].a[i] = pipe[data[t].slot[k].p].tables[i + 1].a

HasTable(p, i) == p \in Pipes /\ Exists(p) /\ i \in 0 .. NTables(p) - 1

Target(p, fwd) ==
  CASE fwd.action = "port" -> fwd.id < lib[p].n_out
    [] fwd.action = "table" -> fwd.id < lib[p].n_tables
    [] OTHER -> TRUE

\* What rules and settings refer to is there, and they were made by the right
\* object.
RulesOwn ==
  \A e \in entries :
    /\ HasTable(e.p, e.i) /\ e.fwd \in Forwards /\ Target(e.p, e.fwd)
    /\ ~e.is_default /\ ~Late(e.p, e.i) => e.by = Object("table", e.p, e.i)

SettingsOwn ==
  \A o \in DOMAIN objects : \A w \in objects[o].written :
    HasTable(w.p, w.i) /\ (Object("table", w.p, w.i) = o \/ Late(w.p, w.i))

IInv == /\ Types /\ Counts /\ Connected /\ Pointers /\ CopyPointers /\ Owners
        /\ Places /\ Copies /\ RulesOwn /\ SettingsOwn

-----------------------------------------------------------------------------
(* What the groups of actions leave alone                                    *)

\* The steps of Build: a pipeline gets more ports and tables, with action
\* objects of their own, and those it has stay as they are. A table is late if
\* its pipeline is running.
GrowsAt(q) ==
  /\ lib[q].n_out <= lib'[q].n_out /\ lib[q].n_tables <= lib'[q].n_tables
  /\ ~Exists(q) /\ Exists(q)' =>
       /\ ~pipe'[q].enabled
       /\ pipe'[q].ports_in = <<>> /\ pipe'[q].tables = <<>>
  /\ Exists(q) =>
       /\ Exists(q)'
       /\ pipe'[q].enabled = pipe[q].enabled /\ pipe'[q].thread = pipe[q].thread
       /\ Len(pipe[q].ports_in) <= Len(pipe'[q].ports_in)
       /\ \A i \in 1 .. Len(pipe[q].ports_in) :
            pipe'[q].ports_in[i].a = pipe[q].ports_in[i].a
       /\ \A i \in Len(pipe[q].ports_in) + 1 .. Len(pipe'[q].ports_in) : PortRef(q, i)'
       /\ NTables(q) <= NTables(q)'
       /\ \A i \in 1 .. NTables(q) : pipe'[q].tables[i] = pipe[q].tables[i]
       /\ \A i \in NTables(q) + 1 .. NTables(q)' :
            TableRef(q, i)' /\ (pipe[q].enabled => pipe'[q].tables[i].late)

Grows ==
  /\ data' = data /\ entries' = entries
  /\ DOMAIN objects \subseteq DOMAIN objects'
  /\ \A o \in DOMAIN objects' :
       /\ o \in DOMAIN objects \/ Owned(o)'
       /\ \A w \in objects'[o].written : o \in DOMAIN objects /\ w \in objects[o].written
  /\ \A q \in Pipes : GrowsAt(q)

\* The steps of Run: the pipelines stay what they are made of.
SameParts ==
  /\ UNCHANGED <<lib, objects, entries>>
  /\ \A q \in Pipes :
       /\ Exists(q)' = Exists(q)
       /\ Exists(q) => /\ pipe'[q].ports_in = pipe[q].ports_in
                       /\ pipe'[q].n_ports_out = pipe[q].n_ports_out
                       /\ pipe'[q].tables = pipe[q].tables

\* The fields of a pipeline have their types.
LEMMA FieldTypes ==
  ASSUME NEW r \in Pipeline
  PROVE  /\ r.ports_in \in Seq([a : Refs, table : TableIds \cup {None}])
         /\ r.n_ports_out \in Nat
         /\ r.tables \in Seq([type : TableTypes, mask : Masks, a : Refs, late : BOOLEAN])
         /\ r.enabled \in BOOLEAN /\ r.thread \in Threads \cup {None}
         /\ Len(r.tables) \in Nat /\ Len(r.ports_in) \in Nat
         /\ DOMAIN r.tables = 1 .. Len(r.tables)
         /\ DOMAIN r.ports_in = 1 .. Len(r.ports_in)
  BY DEF Pipeline

\* Slots in use keep their pipelines and their copies when pipelines grow.
LEMMA GrowsKeepsPlaces ==
  ASSUME Types, Types', Places, Copies, Grows
  PROVE  Places' /\ Copies'
<1>1. \A t \in Threads : data[t].n \in 0 .. PipelinesMax
  BY SMTT(60) DEF Types
<1>2. Places'
  <2>1. ASSUME NEW t \in Threads, NEW k \in 1 .. data[t].n, NEW p, p = data[t].slot[k].p
        PROVE  /\ p \in Pipes /\ Exists(p)'
               /\ pipe'[p].enabled /\ pipe'[p].thread = t
    <3>1. p \in Pipes /\ Exists(p) /\ pipe[p].enabled /\ pipe[p].thread = t
      BY <2>1 DEF Places
    <3>2. GrowsAt(p)
      BY <3>1 DEF Grows
    <3>3. QED
      BY <3>1, <3>2 DEF GrowsAt
  <2>2. ASSUME NEW p \in Pipes, Exists(p)', pipe'[p].enabled
        PROVE  Exists(p) /\ pipe[p].enabled /\ pipe'[p].thread = pipe[p].thread
    BY <2>2 DEF Grows, GrowsAt
  <2>3. data' = data
    BY DEF Grows, GrowsAt
  <2>4. QED
    BY <2>1, <2>2, <2>3 DEF Places, Exists
<1>3. ASSUME NEW t \in Threads, NEW k \in 1 .. data[t].n,
             NEW i \in 0 .. Len(pipe'[data[t].slot[k].p].tables) - 1,
             ~pipe'[data[t].slot[k].p].tables[i + 1].late
      PROVE  data[t].slot[k].a[i] = pipe'[data[t].slot[k].p].tables[i + 1].a
  <2>0. PICK q : q = data[t].slot[k].p
    OBVIOUS
  <2>1. q \in Pipes /\ Exists(q) /\ pipe[q].enabled
    BY <2>0 DEF Places
  <2>g. GrowsAt(q)
    BY <2>1 DEF Grows
  <2>h. /\ Exists(q)' /\ NTables(q) <= NTables(q)'
        /\ \A j \in 1 .. NTables(q) : pipe'[q].tables[j] = pipe[q].tables[j]
        /\ \A j \in NTables(q) + 1 .. NTables(q)' : pipe'[q].tables[j].late
    BY <2>1, <2>g DEF GrowsAt
  <2>p. pipe[q] \in Pipeline /\ pipe'[q] \in Pipeline
    BY <2>1, <2>h DEF Types, Exists
  <2>2. NTables(q) \in Nat /\ NTables(q)' \in Nat
    BY <2>p, FieldTypes DEF NTables
  <2>3. i + 1 \in 1 .. NTables(q)
    <3>1. i + 1 \in 1 .. NTables(q)'
      <4>1. PICK nt : nt = NTables(q)'
        OBVIOUS
      <4>2. nt \in Nat
        BY <2>2, <4>1, Zenon
      <4>3. i \in 0 .. nt - 1
        BY <2>0, <4>1, Zenon DEF NTables
      <4>4. i + 1 \in 1 .. nt
        BY <4>2, <4>3
      <4>5. QED
        BY <4>1, <4>4, Zenon
    <3>2. ~pipe'[q].tables[i + 1].late
      BY <1>3, <2>0, Zenon
    <3>3. QED
      BY <3>1, <3>2, <2>2, <2>h
  <2>4. pipe'[q].tables[i + 1] = pipe[q].tables[i + 1]
    BY <2>h, <2>3
  <2>5. ~Late(q, i)
    BY <1>3, <2>0, <2>4, Zenon DEF Late
  <2>6. i \in 0 .. NTables(q) - 1
    BY <2>2, <2>3
  <2>7. data[t].slot[k].a[i] = pipe[q].tables[i + 1].a
    BY <2>0, <2>5, <2>6, Zenon DEF Copies
  <2>8. QED
    BY <2>0, <2>4, <2>7, Zenon
<1>4. Copies'
  <2>1. data' = data
    BY DEF Grows
  <2>2. QED
    BY <1>3, <2>1, Zenon DEF Copies, NTables, Late
<1>5. QED
  BY <1>2, <1>4

\* Pointers to action objects are good when pipelines grow.
LEMMA GrowsKeepsPointers ==
  ASSUME Types, Types', Pointers, CopyPointers, Owners, Grows
  PROVE  Pointers' /\ CopyPointers' /\ Owners'
<1>1. ASSUME NEW obj, IsRef(obj)
      PROVE  IsRef(obj)'
  BY <1>1 DEF IsRef, Grows, GrowsAt
<1>2. ASSUME NEW q \in Pipes, Exists(q)', NEW i \in DOMAIN pipe'[q].ports_in
      PROVE  PortRef(q, i)'
  <2>1. DOMAIN pipe'[q].ports_in = 1 .. Len(pipe'[q].ports_in) /\ Len(pipe'[q].ports_in) \in Nat
    BY <1>2, FieldTypes DEF Types, Exists
  <2>2. Exists(q)
    BY <1>2 DEF Grows, GrowsAt
  <2>3. DOMAIN pipe[q].ports_in = 1 .. Len(pipe[q].ports_in) /\ Len(pipe[q].ports_in) \in Nat
    BY <2>2, FieldTypes DEF Types, Exists
  <2>4. CASE i \in 1 .. Len(pipe[q].ports_in)
    <3>1. PortRef(q, i) /\ pipe'[q].ports_in[i].a = pipe[q].ports_in[i].a
      BY <2>2, <2>3, <2>4 DEF Pointers, Grows, GrowsAt
    <3>2. QED
      BY <3>1, <1>1 DEF PortRef
  <2>5. CASE i \in Len(pipe[q].ports_in) + 1 .. Len(pipe'[q].ports_in)
    BY <2>2, <2>5 DEF Grows, GrowsAt
  <2>6. QED
    BY <2>1, <2>3, <2>4, <2>5
<1>3. ASSUME NEW q \in Pipes, Exists(q)', NEW i \in DOMAIN pipe'[q].tables
      PROVE  TableRef(q, i)'
  <2>1. DOMAIN pipe'[q].tables = 1 .. NTables(q)' /\ NTables(q)' \in Nat
    BY <1>3, FieldTypes DEF Types, Exists, NTables
  <2>2. Exists(q)
    BY <1>3 DEF Grows, GrowsAt
  <2>3. DOMAIN pipe[q].tables = 1 .. NTables(q) /\ NTables(q) \in Nat
    BY <2>2, FieldTypes DEF Types, Exists, NTables
  <2>4. CASE i \in 1 .. NTables(q)
    <3>1. TableRef(q, i) /\ pipe'[q].tables[i] = pipe[q].tables[i]
      BY <2>2, <2>3, <2>4 DEF Pointers, Grows, GrowsAt
    <3>2. QED
      BY <3>1, <1>1 DEF TableRef
  <2>5. CASE i \in NTables(q) + 1 .. NTables(q)'
    BY <2>2, <2>5 DEF Grows, GrowsAt
  <2>6. QED
    BY <2>1, <2>3, <2>4, <2>5
<1>4. CopyPointers'
  BY <1>1 DEF CopyPointers, Grows, GrowsAt
<1>5. ASSUME NEW o \in DOMAIN objects, Owned(o)
      PROVE  Owned(o)'
  <2>1. o.p \in Pipes /\ Exists(o.p) /\ Exists(o.p)'
    BY <1>5 DEF Types, ObjectIds, Owned, Grows, GrowsAt
  <2>2. /\ DOMAIN pipe[o.p].tables = 1 .. NTables(o.p) /\ NTables(o.p) \in Nat
        /\ DOMAIN pipe'[o.p].tables = 1 .. NTables(o.p)' /\ NTables(o.p)' \in Nat
        /\ DOMAIN pipe[o.p].ports_in = 1 .. Len(pipe[o.p].ports_in)
        /\ Len(pipe[o.p].ports_in) \in Nat
        /\ DOMAIN pipe'[o.p].ports_in = 1 .. Len(pipe'[o.p].ports_in)
        /\ Len(pipe'[o.p].ports_in) \in Nat
    BY <2>1, FieldTypes DEF Types, Exists, NTables
  <2>3. CASE o.kind = "table"
    BY SMTT(60), <1>5, <2>1, <2>2, <2>3 DEF Owned, Grows, GrowsAt
  <2>4. CASE o.kind = "port_in"
    <3>1. o.i + 1 \in 1 .. Len(pipe[o.p].ports_in) /\ pipe[o.p].ports_in[o.i + 1].a = o
      BY <1>5, <2>2, <2>4 DEF Owned
    <3>2. /\ pipe'[o.p].ports_in[o.i + 1].a = pipe[o.p].ports_in[o.i + 1].a
          /\ Len(pipe[o.p].ports_in) <= Len(pipe'[o.p].ports_in)
      BY ZenonT(60), <2>1, <3>1 DEF Grows, GrowsAt
    <3>3. o.i + 1 \in 1 .. Len(pipe'[o.p].ports_in)
      BY SMTT(60), <2>2, <3>1, <3>2
    <3>4. QED
      BY <2>1, <2>2, <2>4, <3>1, <3>2, <3>3 DEF Owned
  <2>5. QED
    BY <2>3, <2>4 DEF Types, ObjectIds
<1>6. Owners'
  BY <1>5 DEF Owners, Grows, GrowsAt
<1>7. QED
  BY <1>2, <1>3, <1>4, <1>6 DEF Pointers

\* Rules and settings keep their tables and targets when pipelines grow.
LEMMA GrowsKeepsRules ==
  ASSUME Types, Types', RulesOwn, SettingsOwn, Grows
  PROVE  RulesOwn' /\ SettingsOwn'
<1>1. ASSUME NEW p, NEW i, HasTable(p, i)
      PROVE  HasTable(p, i)' /\ Late(p, i)' = Late(p, i)
  <2>1. p \in Pipes /\ Exists(p) /\ Exists(p)' /\ NTables(p) \in Nat /\ NTables(p)' \in Nat
    BY <1>1, FieldTypes DEF HasTable, Types, Exists, NTables, Grows, GrowsAt
  <2>2. i \in 0 .. NTables(p)' - 1 /\ i + 1 \in 1 .. NTables(p)
    BY <1>1, <2>1 DEF HasTable, Grows, GrowsAt
  <2>3. QED
    BY <2>1, <2>2 DEF HasTable, Late, Grows, GrowsAt
<1>2. ASSUME NEW p \in Pipes, NEW fwd \in Forwards, Target(p, fwd)
      PROVE  Target(p, fwd)'
  <2>1. fwd.id \in Int
    BY PipelinesAssumption DEF Forwards, TableIds
  <2>2. QED
    BY <1>2, <2>1 DEF Target, Grows, GrowsAt, Types
<1>3. RulesOwn'
  <2>1. ASSUME NEW e \in entries
        PROVE  /\ HasTable(e.p, e.i)' /\ e.fwd \in Forwards /\ Target(e.p, e.fwd)'
               /\ ~e.is_default /\ ~Late(e.p, e.i)' => e.by = Object("table", e.p, e.i)
    BY <1>1, <1>2 DEF RulesOwn, HasTable
  <2>2. QED
    BY <2>1 DEF RulesOwn, Grows, GrowsAt
<1>4. SettingsOwn'
  BY <1>1 DEF SettingsOwn, Grows, GrowsAt
<1>5. QED
  BY <1>3, <1>4

\* A step of Build only has to count right.
LEMMA GrowsKeeps ==
  ASSUME IInv, Types', Counts', Connected', Grows
  PROVE  IInv'
  BY GrowsKeepsPlaces, GrowsKeepsPointers, GrowsKeepsRules DEF IInv

\* A step of Run only has to keep the slots.
LEMMA SamePartsKeeps ==
  ASSUME IInv, Types', CopyPointers', Places', Copies', SameParts
  PROVE  IInv'
<1>1. \A q \in Pipes : Exists(q) => NTables(q)' = NTables(q)
  BY DEF SameParts, NTables
<1>2. Counts'
  BY <1>1 DEF IInv, Counts, SameParts
<1>3. Connected'
  BY <1>1 DEF IInv, Connected, SameParts
<1>4. Pointers'
  BY DEF IInv, Pointers, PortRef, TableRef, IsRef, SameParts
<1>5. Owners'
  <2>1. ASSUME NEW o \in DOMAIN objects
        PROVE  Owned(o)'
    <3>1. o.p \in Pipes /\ Owned(o)
      BY DEF IInv, Types, ObjectIds, Owners
    <3>2. QED
      BY <3>1 DEF Owned, SameParts
  <2>2. QED
    BY <2>1 DEF Owners, SameParts
<1>6. ASSUME NEW p, NEW i, HasTable(p, i)
      PROVE  HasTable(p, i)' /\ Late(p, i)' = Late(p, i)
  BY <1>1, <1>6 DEF HasTable, Late, SameParts
<1>7. RulesOwn'
  BY <1>6 DEF IInv, RulesOwn, Target, SameParts
<1>8. SettingsOwn'
  BY <1>6 DEF IInv, SettingsOwn, SameParts
<1>9. QED
  BY <1>2, <1>3, <1>4, <1>5, <1>7, <1>8 DEF IInv

-----------------------------------------------------------------------------
(* Creation                                                                  *)

\* The pipelines a step is not about.
LEMMA OtherStays ==
  ASSUME Types, NEW q \in Pipes, pipe'[q] = pipe[q], lib'[q] = lib[q]
  PROVE  GrowsAt(q) /\ Exists(q)' = Exists(q) /\ NTables(q)' = NTables(q)
<1>1. Exists(q)' = Exists(q) /\ NTables(q)' = NTables(q)
  BY DEF Exists, NTables
<1>2. lib[q].n_out \in Nat /\ lib[q].n_tables \in Nat
  BY DEF Types
<1>3. CASE Exists(q)
  <2>1. Len(pipe[q].ports_in) \in Nat /\ NTables(q) \in Nat
    BY <1>3, FieldTypes DEF Types, Exists, NTables
  <2>2. /\ (Len(pipe[q].ports_in) + 1 .. Len(pipe'[q].ports_in)) = {}
        /\ (NTables(q) + 1 .. NTables(q)') = {}
    BY <1>1, <2>1
  <2>3. QED
    BY <1>1, <1>2, <1>3, <2>1, <2>2 DEF GrowsAt
<1>4. CASE ~Exists(q)
  BY <1>1, <1>2, <1>4 DEF GrowsAt
<1>5. QED
  BY <1>1, <1>3, <1>4

\* A new pipeline has no parts and does not run.
LEMMA CreateStep ==
  ASSUME IInv, NEW p \in Pipes, pipeline_create(p)
  PROVE  IInv'
<1> DEFINE r == [ports_in |-> <<>>, n_ports_out |-> 0, tables |-> <<>>,
                 enabled |-> FALSE, thread |-> None]
<1>1. r \in Pipeline /\ r # None
  <2>1. /\ <<>> \in Seq([a : Refs, table : TableIds \cup {None}])
        /\ <<>> \in Seq([type : TableTypes, mask : Masks, a : Refs, late : BOOLEAN])
    OBVIOUS
  <2>2. r \in Pipeline
    BY <2>1 DEF Pipeline
  <2>3. QED
    BY <2>2, PipelinesAssumption
<1>2. pipe' = [pipe EXCEPT ![p] = r] /\ ~Exists(p) /\ UNCHANGED <<lib, objects, data, entries>>
  BY DEF pipeline_create
<1>3. Types'
  <2>1. pipe' \in [Pipes -> Pipeline \cup {None}]
    BY <1>1, <1>2 DEF IInv, Types
  <2>2. QED
    BY <1>2, <2>1 DEF IInv, Types
<1>4. pipe'[p] = r /\ \A q \in Pipes \ {p} : pipe'[q] = pipe[q]
  BY <1>2 DEF IInv, Types
<1>5. Counts'
  <2>1. ASSUME NEW q \in Pipes \ {p}
        PROVE  lib'[q] = lib[q] /\ pipe'[q] = pipe[q] /\ NTables(q)' = NTables(q)
               /\ Exists(q)' = Exists(q)
    BY <1>2, <1>4 DEF NTables, Exists
  <2>2. lib'[p].n_in = 0 /\ lib'[p].n_out = 0 /\ lib'[p].n_tables = 0
    BY <1>2 DEF IInv, Counts
  <2>3. NTables(p)' = 0 /\ Len(pipe'[p].ports_in) = 0 /\ pipe'[p].n_ports_out = 0
    BY <1>4 DEF NTables
  <2>4. PortInMax \in Nat /\ TableMax \in Nat
    BY PipelinesAssumption
  <2>5. QED
    BY <2>1, <2>2, <2>3, <2>4 DEF IInv, Counts
<1>6. Connected'
  BY <1>4 DEF IInv, Connected, Exists, NTables
<1>7. Grows
  <2>1. GrowsAt(p)
    <3>1. lib'[p] = lib[p] /\ lib[p].n_out \in Nat /\ lib[p].n_tables \in Nat
      BY <1>2 DEF IInv, Types
    <3>2. ~pipe'[p].enabled /\ pipe'[p].ports_in = <<>> /\ pipe'[p].tables = <<>>
      BY <1>4
    <3>3. ~Exists(p)
      BY <1>2
    <3>4. QED
      BY <3>1, <3>2, <3>3 DEF GrowsAt
  <2>2. \A q \in Pipes \ {p} : GrowsAt(q)
    BY <1>2, <1>4, OtherStays DEF IInv
  <2>3. QED
    BY <1>2, <2>1, <2>2 DEF Grows, GrowsAt
<1>8. QED
  BY <1>3, <1>5, <1>6, <1>7, GrowsKeeps

LibType == [n_in : Nat, n_out : Nat, n_tables : Nat]
ObjectType == [mask : Masks \cup PortProfiles, written : SUBSET WriteType]

\* What adding a part to a pipeline has to do: count it and leave the rest.
LEMMA PartStep ==
  ASSUME IInv, NEW p \in Pipes, Exists(p), NEW r \in Pipeline,
         pipe' = [pipe EXCEPT ![p] = r],
         NEW l \in LibType, lib' = [lib EXCEPT ![p] = l],
         l.n_in = Len(r.ports_in), l.n_out = r.n_ports_out, l.n_tables = Len(r.tables),
         Len(r.ports_in) <= PortInMax, Len(r.tables) <= TableMax,
         \A i \in DOMAIN r.ports_in :
           r.ports_in[i].table # None => r.ports_in[i].table < Len(r.tables),
         DOMAIN objects' \subseteq ObjectIds, objects' \in [DOMAIN objects' -> ObjectType],
         DOMAIN objects \subseteq DOMAIN objects',
         \A o \in DOMAIN objects' :
           /\ o \in DOMAIN objects \/ Owned(o)'
           /\ \A w \in objects'[o].written : o \in DOMAIN objects /\ w \in objects[o].written,
         GrowsAt(p), data' = data, entries' = entries
  PROVE  IInv'
<1>1. /\ pipe'[p] = r /\ lib'[p] = l
      /\ \A q \in Pipes \ {p} : pipe'[q] = pipe[q] /\ lib'[q] = lib[q]
  BY DEF IInv, Types
<1>2. Types'
  <2>1. pipe' \in [Pipes -> Pipeline \cup {None}]
    BY DEF IInv, Types
  <2>2. lib' \in [Pipes -> LibType]
    BY DEF IInv, Types, LibType
  <2>3. QED
    BY <2>1, <2>2 DEF IInv, Types, LibType, ObjectType
<1>3. Exists(p)' /\ NTables(p)' = Len(r.tables)
  BY <1>1, PipelinesAssumption DEF Exists, NTables
<1>4. \A q \in Pipes \ {p} : GrowsAt(q) /\ Exists(q)' = Exists(q) /\ NTables(q)' = NTables(q)
  BY <1>1, OtherStays DEF IInv
<1>5. Counts'
  BY <1>1, <1>3, <1>4 DEF IInv, Counts
<1>6. Connected'
  BY <1>1, <1>3, <1>4 DEF IInv, Connected
<1>7. Grows
  BY <1>4 DEF Grows, GrowsAt
<1>8. QED
  BY <1>2, <1>5, <1>6, <1>7, GrowsKeeps

\* The action object of a new port or table.
LEMMA MadeObject ==
  ASSUME IInv, NEW obj \in ObjectIds, NEW mask \in Masks \cup PortProfiles,
         MakeObject(obj, mask)
  PROVE  /\ DOMAIN objects \subseteq DOMAIN objects' /\ DOMAIN objects' \subseteq ObjectIds
         /\ objects' \in [DOMAIN objects' -> ObjectType]
         /\ \A o \in DOMAIN objects' :
              /\ o \in DOMAIN objects \/ (o = obj /\ Ref(obj, mask) = obj)
              /\ \A w \in objects'[o].written : o \in DOMAIN objects /\ w \in objects[o].written
         /\ Ref(obj, mask) \in {None, obj} /\ Ref(obj, mask) \in Refs
         /\ IsRef(Ref(obj, mask))'
<1>1. /\ DOMAIN objects \subseteq ObjectIds
      /\ objects \in [DOMAIN objects -> ObjectType]
  BY DEF IInv, Types, ObjectType
<1>2. CASE mask = None
  BY <1>1, <1>2 DEF MakeObject, Ref, Refs, IsRef
<1>3. CASE mask # None
  <2> DEFINE new == [mask |-> mask, written |-> {}]
  <2>1. objects' = [o \in DOMAIN objects \cup {obj} |-> IF o = obj THEN new ELSE objects[o]]
    BY <1>3 DEF MakeObject, NewObject
  <2>2. new \in ObjectType /\ new.written = {}
    BY DEF ObjectType
  <2> HIDE DEF new
  <2>3. DOMAIN objects' = DOMAIN objects \cup {obj}
    BY <2>1
  <2>4. \A o \in DOMAIN objects' : objects'[o] = IF o = obj THEN new ELSE objects[o]
    BY <2>1, <2>3
  <2>5. objects' \in [DOMAIN objects' -> ObjectType]
    BY <1>1, <2>1, <2>2
  <2>6. Ref(obj, mask) = obj /\ obj \in Refs /\ IsRef(obj)'
    BY <1>3, <2>3 DEF Ref, Refs, IsRef
  <2>7. QED
    BY <1>1, <2>2, <2>3, <2>4, <2>5, <2>6
<1>4. QED
  BY <1>2, <1>3

\* What a sequence is after Append.
LEMMA Appended ==
  ASSUME NEW S, NEW s \in Seq(S), NEW x \in S
  PROVE  /\ Append(s, x) \in Seq(S) /\ Len(Append(s, x)) = Len(s) + 1
         /\ DOMAIN Append(s, x) = 1 .. Len(s) + 1
         /\ Len(s) \in Nat
         /\ \A i \in 1 .. Len(s) : Append(s, x)[i] = s[i]
         /\ Append(s, x)[Len(s) + 1] = x
  OBVIOUS

\* The counts of a pipeline there is.
LEMMA CountsOf ==
  ASSUME IInv, NEW p \in Pipes, Exists(p)
  PROVE  /\ pipe[p] \in Pipeline /\ lib[p] \in LibType
         /\ lib[p].n_in = Len(pipe[p].ports_in) /\ lib[p].n_out = pipe[p].n_ports_out
         /\ lib[p].n_tables = Len(pipe[p].tables)
         /\ Len(pipe[p].ports_in) <= PortInMax /\ Len(pipe[p].tables) <= TableMax
         /\ \A i \in DOMAIN pipe[p].ports_in :
              pipe[p].ports_in[i].table # None => pipe[p].ports_in[i].table < Len(pipe[p].tables)
  BY DEF IInv, Types, Counts, Connected, Exists, NTables, LibType

\* An input port, with or without an action object (pipeline.c:218-367).
LEMMA PortInStep ==
  ASSUME IInv, NEW p \in Pipes, NEW dev, NEW queue, NEW mask \in PortProfiles,
         pipeline_port_in_create(p, dev, queue, mask)
  PROVE  IInv'
<1> DEFINE S == [a : Refs, table : TableIds \cup {None}]
<1>a. PICK obj : obj = Object("port_in", p, Len(pipe[p].ports_in))
  OBVIOUS
<1>b. PICK x : x = [a |-> Ref(obj, mask), table |-> None]
  OBVIOUS
<1>c. PICK s : s = Append(pipe[p].ports_in, x)
  OBVIOUS
<1>d. PICK r : r = [pipe[p] EXCEPT !.ports_in = s]
  OBVIOUS
<1>e. PICK l : l = [lib[p] EXCEPT !.n_in = @ + 1]
  OBVIOUS
<1>1. /\ Exists(p) /\ lib[p].n_in < PortInMax /\ MakeObject(obj, mask)
      /\ pipe' = [pipe EXCEPT ![p] = r] /\ lib' = [lib EXCEPT ![p] = l]
      /\ data' = data /\ entries' = entries
  BY <1>a, <1>b, <1>c, <1>d, <1>e DEF pipeline_port_in_create
<1>2. /\ pipe[p] \in Pipeline /\ lib[p] \in LibType
      /\ pipe[p].ports_in \in Seq(S) /\ Len(pipe[p].ports_in) \in Nat
      /\ DOMAIN pipe[p].ports_in = 1 .. Len(pipe[p].ports_in)
  BY <1>1, CountsOf, FieldTypes
<1>3. obj \in ObjectIds
  BY <1>2, <1>a DEF Object, ObjectIds
<1>4. MakeObject(obj, mask) /\ mask \in Masks \cup PortProfiles
  BY <1>1
<1>5. /\ x \in S /\ x.table = None /\ x.a = Ref(obj, mask) /\ IsRef(x.a)'
  BY <1>3, <1>4, <1>b, MadeObject
<1>6. /\ s \in Seq(S) /\ Len(s) = Len(pipe[p].ports_in) + 1
      /\ DOMAIN s = 1 .. Len(pipe[p].ports_in) + 1
      /\ \A i \in 1 .. Len(pipe[p].ports_in) : s[i] = pipe[p].ports_in[i]
      /\ s[Len(pipe[p].ports_in) + 1] = x
  BY <1>2, <1>5, <1>c, Appended
<1> HIDE DEF S
<1>7. /\ r \in Pipeline /\ r.ports_in = s
      /\ r.n_ports_out = pipe[p].n_ports_out /\ r.tables = pipe[p].tables
      /\ r.enabled = pipe[p].enabled /\ r.thread = pipe[p].thread
  BY <1>2, <1>6, <1>d DEF Pipeline, S
<1>8. /\ l \in LibType /\ l.n_in = lib[p].n_in + 1 /\ l.n_out = lib[p].n_out
      /\ l.n_tables = lib[p].n_tables
  BY <1>2, <1>e DEF LibType
<1>9. /\ l.n_in = Len(r.ports_in) /\ l.n_out = r.n_ports_out /\ l.n_tables = Len(r.tables)
      /\ Len(r.ports_in) <= PortInMax /\ Len(r.tables) <= TableMax
  BY SMTT(60), <1>1, <1>2, <1>6, <1>7, <1>8, CountsOf, PipelinesAssumption DEF LibType
<1>10. \A i \in DOMAIN r.ports_in :
         r.ports_in[i].table # None => r.ports_in[i].table < Len(r.tables)
  BY SMTT(60), <1>1, <1>2, <1>5, <1>6, <1>7, CountsOf
<1>11. pipe'[p] = r /\ lib'[p] = l
  BY <1>1 DEF IInv, Types
<1>12. GrowsAt(p)
  <2>1. /\ Exists(p)' /\ NTables(p)' = NTables(p) /\ NTables(p) \in Nat
    BY <1>1, <1>2, <1>7, <1>11, PipelinesAssumption, FieldTypes DEF Exists, NTables
  <2>2. NTables(p) + 1 .. NTables(p)' = {}
    BY <2>1
  <2>3. ASSUME NEW i \in Len(pipe[p].ports_in) + 1 .. Len(pipe'[p].ports_in)
        PROVE  PortRef(p, i)'
    <3>1. i = Len(pipe[p].ports_in) + 1 /\ pipe'[p].ports_in = s
      BY <1>2, <1>6, <1>7, <1>11
    <3>2. pipe'[p].ports_in[i] = x
      BY <1>6, <3>1
    <3>3. QED
      BY <1>5, <3>2 DEF PortRef, IsRef
  <2>4. /\ lib[p].n_out <= lib'[p].n_out /\ lib[p].n_tables <= lib'[p].n_tables
    BY <1>2, <1>8, <1>11 DEF LibType
  <2>5. /\ pipe'[p].enabled = pipe[p].enabled /\ pipe'[p].thread = pipe[p].thread
        /\ pipe'[p].tables = pipe[p].tables
        /\ Len(pipe[p].ports_in) <= Len(pipe'[p].ports_in)
        /\ NTables(p) <= NTables(p)'
        /\ \A i \in 1 .. Len(pipe[p].ports_in) :
             pipe'[p].ports_in[i].a = pipe[p].ports_in[i].a
    BY SMTT(60), <1>2, <1>6, <1>7, <1>11, <2>1
  <2>6. QED
    BY <1>1, <2>1, <2>2, <2>3, <2>4, <2>5 DEF GrowsAt
<1>13. \A o \in DOMAIN objects' :
         /\ o \in DOMAIN objects \/ Owned(o)'
         /\ \A w \in objects'[o].written : o \in DOMAIN objects /\ w \in objects[o].written
  <2>1. ASSUME Ref(obj, mask) = obj
        PROVE  Owned(obj)'
    <3>1. obj.p = p /\ obj.kind = "port_in" /\ obj.i + 1 = Len(pipe[p].ports_in) + 1
      BY <1>2, <1>a DEF Object
    <3>2. obj.i + 1 \in DOMAIN pipe'[p].ports_in /\ pipe'[p].ports_in[obj.i + 1].a = obj
      BY <1>2, <1>5, <1>6, <1>7, <1>11, <2>1, <3>1
    <3>3. Exists(p)'
      BY <1>7, <1>11, PipelinesAssumption DEF Exists
    <3>4. QED
      BY <3>1, <3>2, <3>3 DEF Owned
  <2>2. QED
    BY <1>3, <1>4, <2>1, MadeObject
<1>14. /\ DOMAIN objects' \subseteq ObjectIds /\ objects' \in [DOMAIN objects' -> ObjectType]
       /\ DOMAIN objects \subseteq DOMAIN objects'
  BY <1>3, <1>4, MadeObject
<1>15. QED
  BY <1>1, <1>7, <1>8, <1>9, <1>10, <1>12, <1>13, <1>14, PartStep

\* What PartStep asks of the objects holds when they stay.
LEMMA SameObjects ==
  ASSUME IInv, objects' = objects
  PROVE  /\ DOMAIN objects' \subseteq ObjectIds /\ objects' \in [DOMAIN objects' -> ObjectType]
         /\ DOMAIN objects \subseteq DOMAIN objects'
         /\ \A o \in DOMAIN objects' :
              /\ o \in DOMAIN objects \/ Owned(o)'
              /\ \A w \in objects'[o].written : o \in DOMAIN objects /\ w \in objects[o].written
  BY DEF IInv, Types, ObjectType

\* A pipeline that stays but for the table of a port or the number of output
\* ports has grown.
LEMMA SameTables ==
  ASSUME IInv, NEW p \in Pipes, Exists(p), NEW r \in Pipeline, NEW l \in LibType,
         pipe'[p] = r, lib'[p] = l,
         lib[p].n_out <= l.n_out, lib[p].n_tables <= l.n_tables,
         r.enabled = pipe[p].enabled, r.thread = pipe[p].thread,
         r.tables = pipe[p].tables, Len(r.ports_in) = Len(pipe[p].ports_in),
         \A i \in 1 .. Len(pipe[p].ports_in) : r.ports_in[i].a = pipe[p].ports_in[i].a
  PROVE  GrowsAt(p)
<1>1. Exists(p)' /\ NTables(p)' = NTables(p)
  BY PipelinesAssumption DEF Exists, NTables
<1>2. Len(pipe[p].ports_in) \in Nat /\ NTables(p) \in Nat
  BY CountsOf, FieldTypes DEF NTables
<1>3. /\ (Len(pipe[p].ports_in) + 1 .. Len(pipe'[p].ports_in)) = {}
      /\ (NTables(p) + 1 .. NTables(p)') = {}
  BY <1>1, <1>2
<1>4. QED
  BY <1>1, <1>2, <1>3 DEF GrowsAt

\* A port is connected to a table there is (pipeline.c:369-394).
LEMMA ConnectStep ==
  ASSUME IInv, NEW p \in Pipes, NEW port, NEW i \in TableIds,
         pipeline_port_in_connect_to_table(p, port, i)
  PROVE  IInv'
<1> DEFINE S == [a : Refs, table : TableIds \cup {None}]
<1>a. PICK x : x = [pipe[p].ports_in[port] EXCEPT !.table = i]
  OBVIOUS
<1>b. PICK s : s = [pipe[p].ports_in EXCEPT ![port] = x]
  OBVIOUS
<1>c. PICK r : r = [pipe[p] EXCEPT !.ports_in = s]
  OBVIOUS
<1>d. PICK l : l = lib[p]
  OBVIOUS
<1>1. /\ Exists(p) /\ port \in DOMAIN pipe[p].ports_in /\ i < NTables(p)
      /\ pipe' = [pipe EXCEPT ![p] = r]
      /\ lib' = lib /\ objects' = objects /\ data' = data /\ entries' = entries
  BY <1>a, <1>b, <1>c DEF pipeline_port_in_connect_to_table
<1>2. /\ pipe[p] \in Pipeline /\ lib[p] \in LibType
      /\ pipe[p].ports_in \in Seq(S) /\ Len(pipe[p].ports_in) \in Nat
      /\ DOMAIN pipe[p].ports_in = 1 .. Len(pipe[p].ports_in)
  BY <1>1, CountsOf, FieldTypes
<1> HIDE DEF S
<1>3. /\ x \in S /\ x.table = i /\ x.a = pipe[p].ports_in[port].a
  <2>1. pipe[p].ports_in[port] \in S
    BY <1>1, <1>2
  <2>2. QED
    BY <2>1, <1>a DEF S
<1>4. /\ s \in Seq(S) /\ Len(s) = Len(pipe[p].ports_in)
      /\ DOMAIN s = DOMAIN pipe[p].ports_in
      /\ \A j \in DOMAIN s : s[j] = IF j = port THEN x ELSE pipe[p].ports_in[j]
  <2>1. s \in [1 .. Len(pipe[p].ports_in) -> S]
    <3>1. pipe[p].ports_in \in [1 .. Len(pipe[p].ports_in) -> S]
      BY <1>2
    <3>2. QED
      BY <1>3, <1>b, <3>1
  <2>2. s \in Seq(S) /\ Len(s) = Len(pipe[p].ports_in)
    BY <1>2, <2>1
  <2>3. QED
    BY <1>2, <1>b, <2>1, <2>2
<1>5. /\ r \in Pipeline /\ r.ports_in = s
      /\ r.n_ports_out = pipe[p].n_ports_out /\ r.tables = pipe[p].tables
      /\ r.enabled = pipe[p].enabled /\ r.thread = pipe[p].thread
  BY <1>2, <1>4, <1>c DEF Pipeline, S
<1>6. /\ l.n_in = Len(r.ports_in) /\ l.n_out = r.n_ports_out /\ l.n_tables = Len(r.tables)
      /\ Len(r.ports_in) <= PortInMax /\ Len(r.tables) <= TableMax
  BY <1>1, <1>4, <1>5, <1>d, CountsOf
<1>7. \A j \in DOMAIN r.ports_in :
        r.ports_in[j].table # None => r.ports_in[j].table < Len(r.tables)
  BY <1>1, <1>3, <1>4, <1>5, CountsOf DEF NTables
<1>8. pipe'[p] = r /\ lib'[p] = l /\ lib' = [lib EXCEPT ![p] = l] /\ l \in LibType
  BY <1>1, <1>2, <1>d DEF IInv, Types
<1>9. \A j \in 1 .. Len(pipe[p].ports_in) : r.ports_in[j].a = pipe[p].ports_in[j].a
  BY <1>2, <1>3, <1>4, <1>5
<1>10. lib[p].n_out <= l.n_out /\ lib[p].n_tables <= l.n_tables
  BY <1>2, <1>d DEF LibType
<1>11. GrowsAt(p)
  BY <1>1, <1>4, <1>5, <1>8, <1>9, <1>10, SameTables
<1>12. QED
  BY <1>1, <1>5, <1>6, <1>7, <1>8, <1>11, SameObjects, PartStep

\* An output port is counted when the library has it (pipeline.c:481-630).
LEMMA PortOutStep ==
  ASSUME IInv, NEW p \in Pipes, NEW dev, NEW queue, pipeline_port_out_create(p, dev, queue)
  PROVE  IInv'
<1>a. PICK r : r = [pipe[p] EXCEPT !.n_ports_out = @ + 1]
  OBVIOUS
<1>b. PICK l : l = [lib[p] EXCEPT !.n_out = @ + 1]
  OBVIOUS
<1>1. /\ Exists(p) /\ pipe' = [pipe EXCEPT ![p] = r] /\ lib' = [lib EXCEPT ![p] = l]
      /\ objects' = objects /\ data' = data /\ entries' = entries
  BY <1>a, <1>b DEF pipeline_port_out_create
<1>2. pipe[p] \in Pipeline /\ lib[p] \in LibType
  BY <1>1, CountsOf
<1>3. /\ r \in Pipeline /\ r.ports_in = pipe[p].ports_in
      /\ r.n_ports_out = pipe[p].n_ports_out + 1 /\ r.tables = pipe[p].tables
      /\ r.enabled = pipe[p].enabled /\ r.thread = pipe[p].thread
  BY SMTT(60), <1>2, <1>a DEF Pipeline
<1>4. /\ l \in LibType /\ l.n_in = lib[p].n_in /\ l.n_out = lib[p].n_out + 1
      /\ l.n_tables = lib[p].n_tables
  BY <1>2, <1>b DEF LibType
<1>5. /\ l.n_in = Len(r.ports_in) /\ l.n_out = r.n_ports_out /\ l.n_tables = Len(r.tables)
      /\ Len(r.ports_in) <= PortInMax /\ Len(r.tables) <= TableMax
      /\ \A i \in DOMAIN r.ports_in :
           r.ports_in[i].table # None => r.ports_in[i].table < Len(r.tables)
  BY <1>1, <1>3, <1>4, CountsOf
<1>6. pipe'[p] = r /\ lib'[p] = l
  BY <1>1 DEF IInv, Types
<1>7. lib[p].n_out <= l.n_out /\ lib[p].n_tables <= l.n_tables
  BY <1>2, <1>4 DEF LibType
<1>8. GrowsAt(p)
  BY <1>1, <1>3, <1>4, <1>6, <1>7, SameTables
<1>9. QED
  BY <1>1, <1>3, <1>4, <1>5, <1>8, SameObjects, PartStep

\* A table, while the pipeline runs or not (pipeline.c:1582-1731).
LEMMA TableStep ==
  ASSUME IInv, NEW p \in Pipes, NEW type \in TypesMade, NEW n_keys, NEW key_size,
         NEW mask \in Masks, pipeline_table_create(p, type, n_keys, key_size, mask)
  PROVE  IInv'
<1> DEFINE S == [type : TableTypes, mask : Masks, a : Refs, late : BOOLEAN]
<1>a. PICK obj : obj = Object("table", p, Len(pipe[p].tables))
  OBVIOUS
<1>b. PICK x : x = [type |-> type, mask |-> mask, a |-> Ref(obj, mask),
                    late |-> pipe[p].enabled]
  OBVIOUS
<1>c. PICK s : s = Append(pipe[p].tables, x)
  OBVIOUS
<1>d. PICK r : r = [pipe[p] EXCEPT !.tables = s]
  OBVIOUS
<1>e. PICK l : l = [lib[p] EXCEPT !.n_tables = @ + 1]
  OBVIOUS
<1>1. /\ Exists(p) /\ Len(pipe[p].tables) < TableMax /\ MakeObject(obj, mask)
      /\ pipe' = [pipe EXCEPT ![p] = r] /\ lib' = [lib EXCEPT ![p] = l]
      /\ data' = data /\ entries' = entries
  BY <1>a, <1>b, <1>c, <1>d, <1>e DEF pipeline_table_create, NTables
<1>2. /\ pipe[p] \in Pipeline /\ lib[p] \in LibType
      /\ pipe[p].tables \in Seq(S) /\ Len(pipe[p].tables) \in Nat
      /\ DOMAIN pipe[p].tables = 1 .. Len(pipe[p].tables)
      /\ pipe[p].enabled \in BOOLEAN /\ Len(pipe[p].ports_in) \in Nat
  BY <1>1, CountsOf, FieldTypes
<1>3. obj \in ObjectIds
  BY <1>2, <1>a DEF Object, ObjectIds
<1>4. MakeObject(obj, mask) /\ mask \in Masks \cup PortProfiles
  BY <1>1
<1>5. /\ x.a = Ref(obj, mask) /\ x.a \in {None, obj} /\ x.late = pipe[p].enabled
      /\ x.a \in Refs /\ IsRef(x.a)'
  BY <1>3, <1>4, <1>b, MadeObject
<1>6. x \in S
  BY <1>2, <1>5, <1>b, PipelinesAssumption
<1> HIDE DEF S
<1>7. /\ s \in Seq(S) /\ Len(s) = Len(pipe[p].tables) + 1
      /\ DOMAIN s = 1 .. Len(pipe[p].tables) + 1
      /\ \A i \in 1 .. Len(pipe[p].tables) : s[i] = pipe[p].tables[i]
      /\ s[Len(pipe[p].tables) + 1] = x
  BY <1>2, <1>6, <1>c, Appended
<1>8. /\ r \in Pipeline /\ r.tables = s
      /\ r.n_ports_out = pipe[p].n_ports_out /\ r.ports_in = pipe[p].ports_in
      /\ r.enabled = pipe[p].enabled /\ r.thread = pipe[p].thread
  BY <1>2, <1>7, <1>d DEF Pipeline, S
<1>9. /\ l \in LibType /\ l.n_tables = lib[p].n_tables + 1 /\ l.n_out = lib[p].n_out
      /\ l.n_in = lib[p].n_in
  BY <1>2, <1>e DEF LibType
<1>10. /\ l.n_in = Len(r.ports_in) /\ l.n_out = r.n_ports_out /\ l.n_tables = Len(r.tables)
       /\ Len(r.ports_in) <= PortInMax /\ Len(r.tables) <= TableMax
  BY SMTT(60), <1>1, <1>2, <1>7, <1>8, <1>9, CountsOf, PipelinesAssumption DEF LibType
<1>11. ASSUME NEW i \in DOMAIN r.ports_in, r.ports_in[i].table # None
       PROVE  r.ports_in[i].table < Len(r.tables)
  <2>1. i \in DOMAIN pipe[p].ports_in /\ r.ports_in[i].table = pipe[p].ports_in[i].table
    BY <1>8
  <2>2. pipe[p].ports_in[i].table \in TableIds
    <3> DEFINE P == [a : Refs, table : TableIds \cup {None}]
    <3>1. pipe[p].ports_in \in Seq(P)
      BY <1>2, FieldTypes
    <3> HIDE DEF P
    <3>2. pipe[p].ports_in[i] \in P
      BY <2>1, <3>1
    <3>3. QED
      BY <1>11, <2>1, <3>2 DEF P
  <2>3. pipe[p].ports_in[i].table < Len(pipe[p].tables)
    BY <1>1, <1>11, <2>1, CountsOf
  <2>4. Len(r.tables) = Len(pipe[p].tables) + 1
    BY <1>7, <1>8
  <2>5. pipe[p].ports_in[i].table \in Int
    BY <2>2, PipelinesAssumption DEF TableIds
  <2>6. QED
    BY <1>2, <2>1, <2>3, <2>4, <2>5
<1>12. pipe'[p] = r /\ lib'[p] = l
  BY <1>1 DEF IInv, Types
<1>13. /\ Exists(p)' /\ NTables(p)' = Len(pipe[p].tables) + 1
       /\ NTables(p) = Len(pipe[p].tables)
  BY <1>7, <1>8, <1>12, PipelinesAssumption DEF Exists, NTables
<1>14. GrowsAt(p)
  <2>1. (Len(pipe[p].ports_in) + 1 .. Len(pipe'[p].ports_in)) = {}
    BY <1>2, <1>8, <1>12
  <2>2. ASSUME NEW i \in NTables(p) + 1 .. NTables(p)'
        PROVE  TableRef(p, i)' /\ (pipe[p].enabled => pipe'[p].tables[i].late)
    <3>1. i = Len(pipe[p].tables) + 1 /\ pipe'[p].tables = s
      BY <1>2, <1>8, <1>12, <1>13
    <3>2. pipe'[p].tables[i] = x /\ i - 1 = Len(pipe[p].tables)
      BY <1>2, <1>7, <3>1
    <3>3. x.a \in {None, Object("table", p, i - 1)}
      BY <1>5, <1>a, <3>2
    <3>4. TableRef(p, i)'
      BY <1>5, <3>2, <3>3 DEF TableRef, IsRef, Object
    <3>5. QED
      BY <1>5, <3>2, <3>4
  <2>3. /\ lib[p].n_out <= lib'[p].n_out /\ lib[p].n_tables <= lib'[p].n_tables
    BY <1>2, <1>9, <1>12 DEF LibType
  <2>4. /\ pipe'[p].enabled = pipe[p].enabled /\ pipe'[p].thread = pipe[p].thread
        /\ pipe'[p].ports_in = pipe[p].ports_in
        /\ Len(pipe[p].ports_in) <= Len(pipe'[p].ports_in)
        /\ NTables(p) <= NTables(p)'
        /\ \A i \in 1 .. NTables(p) : pipe'[p].tables[i] = pipe[p].tables[i]
    BY SMTT(60), <1>2, <1>7, <1>8, <1>12, <1>13
  <2>5. QED
    BY <1>1, <1>13, <2>1, <2>2, <2>3, <2>4 DEF GrowsAt
<1>15. \A o \in DOMAIN objects' :
         /\ o \in DOMAIN objects \/ Owned(o)'
         /\ \A w \in objects'[o].written : o \in DOMAIN objects /\ w \in objects[o].written
  <2>1. ASSUME Ref(obj, mask) = obj
        PROVE  Owned(obj)'
    <3>1. obj.p = p /\ obj.kind = "table" /\ obj.i + 1 = Len(pipe[p].tables) + 1
      BY <1>2, <1>a DEF Object
    <3>2. obj.i + 1 \in DOMAIN pipe'[p].tables /\ pipe'[p].tables[obj.i + 1].a = obj
      BY SMTT(60), <1>2, <1>5, <1>7, <1>8, <1>12, <2>1, <3>1
    <3>3. QED
      BY <1>13, <3>1, <3>2 DEF Owned
  <2>2. QED
    BY <1>3, <1>4, <2>1, MadeObject
<1>16. /\ DOMAIN objects' \subseteq ObjectIds /\ objects' \in [DOMAIN objects' -> ObjectType]
       /\ DOMAIN objects \subseteq DOMAIN objects'
  BY <1>3, <1>4, MadeObject
<1>17. QED
  BY <1>1, <1>8, <1>9, <1>10, <1>11, <1>14, <1>15, <1>16, PartStep

-----------------------------------------------------------------------------
(* Enabling and disabling                                                    *)

\* A pipeline that runs has a slot, and SlotOf finds it.
LEMMA SlotOfFinds ==
  ASSUME IInv, NEW p \in Pipes, Exists(p), pipe[p].enabled
  PROVE  /\ pipe[p].thread \in Threads
         /\ SlotOf(pipe[p].thread, p) \in 1 .. data[pipe[p].thread].n
         /\ data[pipe[p].thread].slot[SlotOf(pipe[p].thread, p)].p = p
  BY Zenon DEF IInv, Places, SlotOf

\* A slot in use has a pipeline that is there and runs on the slot's thread.
LEMMA OfSlot ==
  ASSUME IInv, NEW t \in Threads, NEW k \in 1 .. data[t].n
  PROVE  /\ data[t].slot[k].p \in Pipes
         /\ Exists(data[t].slot[k].p)
         /\ pipe[data[t].slot[k].p].enabled
         /\ pipe[data[t].slot[k].p].thread = t
  BY Zenon DEF IInv, Places

\* The data of a thread has its type.
LEMMA DataType ==
  ASSUME Types, NEW t \in Threads
  PROVE  /\ data[t] \in [n : 0 .. PipelinesMax, slot : [Slots -> SlotType]]
         /\ data[t].n \in 0 .. PipelinesMax /\ 1 .. data[t].n \subseteq Slots
         /\ data[t].slot \in [Slots -> SlotType]
         /\ \A k \in Slots : data[t].slot[k] \in SlotType
<1>1. data[t] \in [n : 0 .. PipelinesMax, slot : [Slots -> SlotType]]
  BY DEF Types
<1>2. PipelinesMax \in Nat
  BY PipelinesAssumption
<1>3. QED
  BY <1>1, <1>2 DEF Slots

\* The slot after the last gets the pipeline and the copies (thread.c:456-490).
LEMMA EnableStep ==
  ASSUME IInv, NEW t \in Threads, NEW p \in Pipes, thread_pipeline_enable(t, p)
  PROVE  IInv'
<1>a. PICK k : k = data[t].n + 1
  OBVIOUS
<1>b. PICK c : c = CopyTables(data[t].slot[k], p)
  OBVIOUS
<1>c. PICK r : r = [pipe[p] EXCEPT !.enabled = TRUE, !.thread = t]
  OBVIOUS
<1>d. PICK d : d = [data[t] EXCEPT !.n = k, !.slot[k] = c]
  OBVIOUS
<1>1. /\ Exists(p) /\ ~pipe[p].enabled /\ data[t].n < PipelinesMax
      /\ pipe[p] \in Pipeline /\ NTables(p) \in Nat /\ NTables(p) <= TableMax
      /\ UNCHANGED <<lib, objects, entries>>
  BY CountsOf, FieldTypes DEF thread_pipeline_enable, NTables
<1>2. data' = [data EXCEPT ![t] = d] /\ pipe' = [pipe EXCEPT ![p] = r]
  <2>1. data' = [data EXCEPT ![t].n = k, ![t].slot[k] = CopyTables(@, p)]
    BY <1>a DEF thread_pipeline_enable
  <2>2. pipe' = [pipe EXCEPT ![p].enabled = TRUE, ![p].thread = t]
    BY DEF thread_pipeline_enable
  <2>3. data \in [Threads -> [n : 0 .. PipelinesMax, slot : [Slots -> SlotType]]]
    BY DEF IInv, Types
  <2>4. QED
    BY <2>1, <2>2, <2>3, <1>b, <1>c, <1>d
<1>3. /\ data[t] \in [n : 0 .. PipelinesMax, slot : [Slots -> SlotType]]
      /\ data[t].n \in 0 .. PipelinesMax
      /\ data[t].slot \in [Slots -> SlotType]
  BY DataType DEF IInv
<1>4. k \in Slots /\ k \in 0 .. PipelinesMax /\ 1 .. k = 1 .. data[t].n \cup {k}
  BY SMTT(60), <1>1, <1>3, <1>a, PipelinesAssumption DEF Slots
<1>5. /\ c.p = p
      /\ \A i \in TableIds : c.a[i] = IF i < NTables(p) THEN pipe[p].tables[i + 1].a
                                                        ELSE data[t].slot[k].a[i]
      /\ c = [p |-> p, a |-> [i \in TableIds |-> c.a[i]]]
  BY <1>b DEF CopyTables
<1>6. ASSUME NEW i \in TableIds
      PROVE  c.a[i] \in Refs /\ IsRef(c.a[i])
  <2>1. CASE i < NTables(p)
    <3>1. i + 1 \in DOMAIN pipe[p].tables
      BY <1>1, <2>1, FieldTypes, PipelinesAssumption DEF NTables, TableIds
    <3>2. IsRef(pipe[p].tables[i + 1].a)
      BY <1>1, <3>1 DEF IInv, Pointers, TableRef
    <3>3. QED
      BY <1>5, <2>1, <3>2 DEF IsRef, Refs, IInv, Types
  <2>2. CASE ~(i < NTables(p))
    <3>1. IsRef(data[t].slot[k].a[i])
      BY <1>4 DEF IInv, CopyPointers
    <3>2. QED
      BY <1>5, <2>2, <3>1 DEF IsRef, Refs, IInv, Types
  <2>3. QED
    BY <2>1, <2>2
<1>7. c \in SlotType
  BY <1>5, <1>6 DEF SlotType
<1>8. /\ d \in [n : 0 .. PipelinesMax, slot : [Slots -> SlotType]]
      /\ d.n = k /\ \A j \in Slots : d.slot[j] = IF j = k THEN c ELSE data[t].slot[j]
  BY <1>3, <1>4, <1>7, <1>d
<1>9. /\ r \in Pipeline /\ r.enabled /\ r.thread = t
      /\ r.ports_in = pipe[p].ports_in /\ r.n_ports_out = pipe[p].n_ports_out
      /\ r.tables = pipe[p].tables
  BY <1>1, <1>c DEF Pipeline
<1>10. /\ data'[t] = d /\ \A u \in Threads \ {t} : data'[u] = data[u]
       /\ pipe'[p] = r /\ \A q \in Pipes \ {p} : pipe'[q] = pipe[q]
  BY <1>2 DEF IInv, Types
<1>11. Types'
  <2>1. data' \in [Threads -> [n : 0 .. PipelinesMax, slot : [Slots -> SlotType]]]
    BY <1>2, <1>8 DEF IInv, Types
  <2>2. pipe' \in [Pipes -> Pipeline \cup {None}]
    BY <1>2, <1>9 DEF IInv, Types
  <2>3. QED
    BY <1>1, <2>1, <2>2 DEF IInv, Types
<1>12. SameParts
  BY <1>1, <1>9, <1>10, PipelinesAssumption DEF SameParts, Exists
<1>13. CopyPointers'
  BY <1>1, <1>6, <1>8, <1>10 DEF IInv, CopyPointers, IsRef
<1>14. ASSUME NEW u \in Threads, NEW j \in 1 .. data[u].n
       PROVE  /\ j \in Slots
              /\ data'[u].slot[j] = data[u].slot[j]
              /\ data[u].slot[j].p \in Pipes \ {p}
              /\ Exists(data[u].slot[j].p) /\ pipe[data[u].slot[j].p].enabled
              /\ pipe[data[u].slot[j].p].thread = u
  <2>1. j \in Slots
    BY DataType DEF IInv
  <2>2. u = t => j # k
    BY <1>3, <1>a
  <2>3. QED
    BY <1>1, <1>8, <1>10, <2>1, <2>2 DEF IInv, Places
<1>15. ASSUME NEW u \in Threads, NEW j \in 1 .. data'[u].n
       PROVE  j \in 1 .. data[u].n \/ (u = t /\ j = k /\ data'[u].slot[j] = c)
  BY <1>4, <1>8, <1>10
<1>16. \A q \in Pipes : Exists(q)' = Exists(q) /\ NTables(q)' = NTables(q)
  BY <1>1, <1>9, <1>10, PipelinesAssumption DEF Exists, NTables
<1>17. Places'
  <2>1. ASSUME NEW u \in Threads, NEW j \in 1 .. data'[u].n
        PROVE  /\ data'[u].slot[j].p \in Pipes /\ pipe'[data'[u].slot[j].p] # None
               /\ pipe'[data'[u].slot[j].p].enabled /\ pipe'[data'[u].slot[j].p].thread = u
    <3>1. CASE j \in 1 .. data[u].n
      BY SMTT(60), <1>10, <1>14, <3>1 DEF Exists
    <3>2. CASE u = t /\ j = k /\ data'[u].slot[j] = c
      BY <1>5, <1>9, <1>10, <3>2, PipelinesAssumption
    <3>3. QED
      BY <1>15, <3>1, <3>2
  <2>2. ASSUME NEW u \in Threads, NEW j \in 1 .. data'[u].n, NEW m \in 1 .. data'[u].n,
               data'[u].slot[j].p = data'[u].slot[m].p
        PROVE  j = m
    <3>1. CASE j \in 1 .. data[u].n /\ m \in 1 .. data[u].n
      BY SMTT(60), <1>14, <2>2, <3>1 DEF IInv, Places
    <3>2. CASE j \in 1 .. data[u].n /\ ~(m \in 1 .. data[u].n)
      BY <1>5, <1>14, <1>15, <2>2, <3>2
    <3>3. CASE ~(j \in 1 .. data[u].n) /\ m \in 1 .. data[u].n
      BY <1>5, <1>14, <1>15, <2>2, <3>3
    <3>4. CASE ~(j \in 1 .. data[u].n) /\ ~(m \in 1 .. data[u].n)
      BY <1>15, <3>4
    <3>5. QED
      BY <3>1, <3>2, <3>3, <3>4
  <2>3. ASSUME NEW q \in Pipes, Exists(q)', pipe'[q].enabled
        PROVE  /\ pipe'[q].thread \in Threads
               /\ \E j \in 1 .. data'[pipe'[q].thread].n : data'[pipe'[q].thread].slot[j].p = q
    <3>1. CASE q = p
      BY <1>4, <1>5, <1>8, <1>9, <1>10, <3>1
    <3>2. CASE q # p
      <4>1. PICK j \in 1 .. data[pipe[q].thread].n : data[pipe[q].thread].slot[j].p = q
        BY <1>10, <1>16, <2>3, <3>2 DEF IInv, Places
      <4>2. pipe'[q].thread = pipe[q].thread /\ pipe[q].thread \in Threads
        BY <1>10, <1>16, <2>3, <3>2 DEF IInv, Places
      <4>3. j \in 1 .. data'[pipe[q].thread].n
        BY <1>4, <1>8, <1>10, <4>1, <4>2
      <4>4. QED
        BY <1>14, <4>1, <4>2, <4>3
    <3>3. QED
      BY <3>1, <3>2
  <2>4. QED
    BY <2>1, <2>2, <2>3 DEF Places, Exists
<1>18. ASSUME NEW u \in Threads, NEW j \in 1 .. data'[u].n, NEW q, q = data'[u].slot[j].p,
              NEW i \in 0 .. NTables(q)' - 1, ~Late(q, i)'
       PROVE  data'[u].slot[j].a[i] = pipe'[q].tables[i + 1].a
  <2>1. CASE j \in 1 .. data[u].n
    <3>1. /\ q \in Pipes \ {p} /\ q = data[u].slot[j].p
          /\ data'[u].slot[j] = data[u].slot[j] /\ pipe'[q] = pipe[q]
      BY <1>10, <1>14, <1>18, <2>1
    <3>2. NTables(q)' = NTables(q) /\ ~Late(q, i)
      BY <1>16, <1>18, <3>1 DEF Late
    <3>c. Copies /\ i \in 0 .. NTables(q) - 1
      BY <1>18, <3>2, Zenon DEF IInv
    <3>3. data[u].slot[j].a[i] = pipe[q].tables[i + 1].a
      BY <2>1, <3>1, <3>2, <3>c, Zenon DEF Copies
    <3>4. QED
      BY <3>1, <3>3, Zenon
  <2>2. CASE u = t /\ j = k /\ data'[u].slot[j] = c
    <3>1. q = p /\ i < NTables(p) /\ i \in TableIds
      BY <1>1, <1>5, <1>16, <1>18, <2>2, PipelinesAssumption DEF TableIds
    <3>2. QED
      BY <1>5, <1>9, <1>10, <2>2, <3>1
  <2>3. QED
    BY <1>15, <2>1, <2>2
<1>19. Copies'
  BY <1>18 DEF Copies
<1>20. QED
  BY <1>11, <1>12, <1>13, <1>17, <1>19, SamePartsKeeps

\* The last slot takes the place of the one given up (thread.c:506-521).
LEMMA DisableStep ==
  ASSUME IInv, NEW t \in Threads, NEW p \in Pipes, thread_pipeline_disable(t, p)
  PROVE  IInv'
<1>a. PICK k : k = SlotOf(t, p)
  OBVIOUS
<1>b. PICK n : n = data[t].n
  OBVIOUS
<1>c. PICK r : r = [pipe[p] EXCEPT !.enabled = FALSE]
  OBVIOUS
<1>d. PICK d : d = Moved(data[t], k)
  OBVIOUS
<1>1. /\ Exists(p) /\ pipe[p].enabled /\ pipe[p].thread = t /\ pipe[p] \in Pipeline
      /\ data' = [data EXCEPT ![t] = d] /\ pipe' = [pipe EXCEPT ![p] = r]
      /\ UNCHANGED <<lib, objects, entries>>
  BY <1>a, <1>c, <1>d, CountsOf DEF thread_pipeline_disable
<1>2. k \in 1 .. n /\ data[t].slot[k].p = p
  BY <1>1, <1>a, <1>b, SlotOfFinds
<1>3. /\ data[t] \in [n : 0 .. PipelinesMax, slot : [Slots -> SlotType]]
      /\ n \in 0 .. PipelinesMax /\ 1 .. n \subseteq Slots
  BY <1>b, DataType DEF IInv
<1>4. n \in Nat /\ n - 1 \in 0 .. PipelinesMax /\ k \in Slots /\ n \in Slots
  BY <1>2, <1>3, PipelinesAssumption
<1>5. /\ d \in [n : 0 .. PipelinesMax, slot : [Slots -> SlotType]] /\ d.n = n - 1
      /\ \A j \in Slots : d.slot[j] = IF j = k THEN data[t].slot[n] ELSE data[t].slot[j]
  <2>1. d = [data[t] EXCEPT !.n = n - 1, !.slot[k] = data[t].slot[n]]
    BY <1>b, <1>d DEF Moved
  <2>2. data[t].slot \in [Slots -> SlotType] /\ data[t].slot[n] \in SlotType
    BY <1>3, <1>4
  <2>3. QED
    BY <1>3, <1>4, <2>1, <2>2
<1>6. /\ r \in Pipeline /\ ~r.enabled
      /\ r.ports_in = pipe[p].ports_in /\ r.n_ports_out = pipe[p].n_ports_out
      /\ r.tables = pipe[p].tables
  BY <1>1, <1>c DEF Pipeline
<1>7. /\ data'[t] = d /\ \A u \in Threads \ {t} : data'[u] = data[u]
      /\ pipe'[p] = r /\ \A q \in Pipes \ {p} : pipe'[q] = pipe[q]
  BY <1>1 DEF IInv, Types
<1>8. Types'
  <2>1. data' \in [Threads -> [n : 0 .. PipelinesMax, slot : [Slots -> SlotType]]]
    BY <1>1, <1>5 DEF IInv, Types
  <2>2. pipe' \in [Pipes -> Pipeline \cup {None}]
    BY <1>1, <1>6 DEF IInv, Types
  <2>3. QED
    BY <1>1, <2>1, <2>2 DEF IInv, Types
<1>9. SameParts
  BY <1>1, <1>6, <1>7, PipelinesAssumption DEF SameParts, Exists
<1>10. CopyPointers'
  <2>1. ASSUME NEW u \in Threads, NEW j \in Slots
        PROVE  \E m \in Slots : data'[u].slot[j] = data[u].slot[m]
    BY <1>4, <1>5, <1>7
  <2>2. ASSUME NEW u \in Threads, NEW j \in Slots, NEW i \in TableIds
        PROVE  data'[u].slot[j].a[i] = None \/ data'[u].slot[j].a[i] \in DOMAIN objects
    <3>1. PICK m \in Slots : data'[u].slot[j] = data[u].slot[m]
      BY <2>1
    <3>2. IsRef(data[u].slot[m].a[i])
      BY DEF IInv, CopyPointers
    <3>3. QED
      BY <3>1, <3>2 DEF IsRef
  <2>3. QED
    BY <1>1, <2>2 DEF CopyPointers, IsRef
\* Each slot in use after the step has what a slot in use had before, and
\* that slot is not the one given up.
<1> DEFINE From(u, j) == IF u = t /\ j = k THEN n ELSE j
<1>11. ASSUME NEW u \in Threads, NEW j \in 1 .. data'[u].n
       PROVE  /\ From(u, j) \in 1 .. data[u].n
              /\ data'[u].slot[j] = data[u].slot[From(u, j)]
              /\ data[u].slot[From(u, j)].p \in Pipes \ {p}
              /\ Exists(data[u].slot[From(u, j)].p)
              /\ pipe[data[u].slot[From(u, j)].p].enabled
              /\ pipe[data[u].slot[From(u, j)].p].thread = u
  <2>1. CASE u = t
    <3>1. j \in 1 .. n - 1 /\ j \in Slots
      BY <1>3, <1>4, <1>5, <1>7, <2>1
    <3>2. From(u, j) \in 1 .. n /\ From(u, j) # k
      BY <1>2, <1>4, <2>1, <3>1
    <3>3. data'[u].slot[j] = data[u].slot[From(u, j)]
      BY <1>5, <1>7, <2>1, <3>1
    <3> HIDE DEF From
    <3>p. PICK m : m = From(u, j)
      OBVIOUS
    <3>4. data[u].slot[m].p # p
      BY <1>2, <1>b, <2>1, <3>2, <3>p DEF IInv, Places
    <3>5. /\ data[u].slot[m].p \in Pipes
          /\ Exists(data[u].slot[m].p)
          /\ pipe[data[u].slot[m].p].enabled
          /\ pipe[data[u].slot[m].p].thread = u
      BY <1>b, <2>1, <3>2, <3>p, OfSlot
    <3>6. QED
      BY <1>b, <2>1, <3>2, <3>3, <3>4, <3>5, <3>p
  <2>2. CASE u # t
    <3>1. From(u, j) = j /\ data'[u] = data[u] /\ j \in 1 .. data[u].n
      BY <1>7, <2>2
    <3> HIDE DEF From
    <3>2. /\ data[u].slot[j].p \in Pipes
          /\ Exists(data[u].slot[j].p)
          /\ pipe[data[u].slot[j].p].enabled
          /\ pipe[data[u].slot[j].p].thread = u
      BY <3>1, OfSlot
    <3>3. data[u].slot[j].p # p
      BY <1>1, <1>b, <2>2, <3>2
    <3>4. QED
      BY <3>1, <3>2, <3>3
  <2>3. QED
    BY <2>1, <2>2
<1>12. ASSUME NEW u \in Threads, NEW j \in 1 .. data'[u].n, NEW m \in 1 .. data'[u].n,
              From(u, j) = From(u, m)
       PROVE  j = m
  BY <1>4, <1>5, <1>7, <1>12
<1>13. \A q \in Pipes : Exists(q)' = Exists(q) /\ NTables(q)' = NTables(q)
  BY <1>1, <1>6, <1>7, PipelinesAssumption DEF Exists, NTables
<1>14. Places'
  <2>1. ASSUME NEW u \in Threads, NEW j \in 1 .. data'[u].n
        PROVE  /\ data'[u].slot[j].p \in Pipes /\ pipe'[data'[u].slot[j].p] # None
               /\ pipe'[data'[u].slot[j].p].enabled /\ pipe'[data'[u].slot[j].p].thread = u
    <3> HIDE DEF From
    <3>1. PICK m : m = From(u, j)
      OBVIOUS
    <3>2. PICK q : q = data[u].slot[m].p
      OBVIOUS
    <3>3. /\ data'[u].slot[j].p = q /\ q \in Pipes \ {p} /\ Exists(q)
          /\ pipe[q].enabled /\ pipe[q].thread = u
      BY <1>11, <3>1, <3>2
    <3>4. pipe'[q] = pipe[q]
      BY <1>7, <3>3, Zenon
    <3>5. QED
      BY <3>3, <3>4, Zenon DEF Exists
  <2>2. ASSUME NEW u \in Threads, NEW j \in 1 .. data'[u].n, NEW m \in 1 .. data'[u].n,
               data'[u].slot[j].p = data'[u].slot[m].p
        PROVE  j = m
    <3> HIDE DEF From
    <3>1. /\ From(u, j) \in 1 .. data[u].n
          /\ data'[u].slot[j] = data[u].slot[From(u, j)]
      BY <1>11
    <3>m. /\ From(u, m) \in 1 .. data[u].n
          /\ data'[u].slot[m] = data[u].slot[From(u, m)]
      BY <1>11
    <3>2. data[u].slot[From(u, j)].p = data[u].slot[From(u, m)].p
      BY <3>1, <3>m, <2>2, Zenon
    <3>3. From(u, j) = From(u, m)
      BY <3>1, <3>m, <3>2, Zenon DEF IInv, Places
    <3>4. QED
      BY <1>12, <3>3
  <2>3. ASSUME NEW q \in Pipes, Exists(q)', pipe'[q].enabled
        PROVE  /\ pipe'[q].thread \in Threads
               /\ \E j \in 1 .. data'[pipe'[q].thread].n : data'[pipe'[q].thread].slot[j].p = q
    <3>1. q # p /\ pipe'[q] = pipe[q] /\ Exists(q)
      BY <1>6, <1>7, <1>13, <2>3
    <3>2. PICK j \in 1 .. data[pipe[q].thread].n : data[pipe[q].thread].slot[j].p = q
      BY <2>3, <3>1 DEF IInv, Places
    <3>3. pipe[q].thread \in Threads
      BY <2>3, <3>1 DEF IInv, Places
    <3>4. CASE pipe[q].thread = t
      <4>1. j \in 1 .. n /\ j # k
        BY <1>2, <1>b, <3>1, <3>2, <3>4
      <4>2. CASE j = n
        <5>1. k \in 1 .. n - 1 /\ d.slot[k].p = q
          BY <1>2, <1>4, <1>5, <3>2, <3>4, <4>1, <4>2
        <5>2. QED
          BY <1>5, <1>7, <3>1, <3>3, <3>4, <5>1
      <4>3. CASE j # n
        <5>1. j \in 1 .. n - 1 /\ d.slot[j].p = q
          BY <1>3, <1>4, <1>5, <3>2, <3>4, <4>1, <4>3
        <5>2. QED
          BY <1>5, <1>7, <3>1, <3>3, <3>4, <5>1
      <4>4. QED
        BY <4>2, <4>3
    <3>5. CASE pipe[q].thread # t
      BY SMTT(60), <1>7, <3>1, <3>2, <3>3, <3>5
    <3>6. QED
      BY <3>4, <3>5
  <2>4. QED
    BY <2>1, <2>2, <2>3 DEF Places, Exists
<1>15. ASSUME NEW u \in Threads, NEW j \in 1 .. data'[u].n, NEW q, q = data'[u].slot[j].p,
              NEW i \in 0 .. NTables(q)' - 1, ~Late(q, i)'
       PROVE  data'[u].slot[j].a[i] = pipe'[q].tables[i + 1].a
  <2> HIDE DEF From
  <2>1. PICK m \in 1 .. data[u].n :
          data'[u].slot[j] = data[u].slot[m] /\ data[u].slot[m].p \in Pipes \ {p}
    BY <1>11
  <2>2. q = data[u].slot[m].p /\ q \in Pipes \ {p}
    BY <1>15, <2>1, Zenon
  <2>3. pipe'[q] = pipe[q]
    BY <1>7, <2>2, Zenon
  <2>4. NTables(q)' = NTables(q) /\ ~Late(q, i)
    BY <1>15, <2>3 DEF NTables, Late
  <2>5. i \in 0 .. NTables(q) - 1
    BY <2>4, Zenon
  <2>6. Copies
    BY DEF IInv
  <2>7. data[u].slot[m].a[i] = pipe[q].tables[i + 1].a
    BY <2>2, <2>4, <2>5, <2>6, Zenon DEF Copies
  <2>8. QED
    BY <2>1, <2>3, <2>7, Zenon
<1>16. Copies'
  BY <1>15 DEF Copies
<1>17. QED
  BY <1>8, <1>9, <1>10, <1>14, <1>16, SamePartsKeeps

-----------------------------------------------------------------------------
(* Commands                                                                  *)

\* The action object a command reaches is there, and it is the table's own
\* unless the table is late.
LEMMA ActionOfOwn ==
  ASSUME IInv, NEW p \in Pipes, NEW i \in TableIds, IsTable(p, i), ActionOf(p, i) # None
  PROVE  /\ HasTable(p, i) /\ ActionOf(p, i) \in DOMAIN objects
         /\ ~Late(p, i) => ActionOf(p, i) = Object("table", p, i)
<1>1. Exists(p) /\ i < NTables(p) /\ NTables(p) \in Nat /\ i \in Nat
  BY CountsOf, FieldTypes, PipelinesAssumption DEF IsTable, NTables, TableIds
<1>2. HasTable(p, i)
  BY <1>1 DEF HasTable
<1>3. i + 1 \in DOMAIN pipe[p].tables /\ (i + 1) - 1 = i
  BY <1>1, CountsOf, FieldTypes DEF NTables
<1>4. TableRef(p, i + 1)
  BY <1>1, <1>3 DEF IInv, Pointers
<1>5. CASE ~pipe[p].enabled
  BY <1>2, <1>3, <1>4, <1>5 DEF ActionOf, TableRef, IsRef
<1>6. CASE pipe[p].enabled
  <2>1. PICK t : t = pipe[p].thread
    OBVIOUS
  <2>2. PICK k : k = SlotOf(t, p)
    OBVIOUS
  <2>3. t \in Threads /\ k \in 1 .. data[t].n /\ data[t].slot[k].p = p
    BY <1>1, <1>6, <2>1, <2>2, SlotOfFinds
  <2>4. ActionOf(p, i) = data[t].slot[k].a[i]
    BY <1>6, <2>1, <2>2 DEF ActionOf
  <2>5. k \in Slots
    BY <2>3, DataType DEF IInv
  <2>6. IsRef(data[t].slot[k].a[i])
    BY <2>3, <2>5 DEF IInv, CopyPointers
  <2>7. ~Late(p, i) => data[t].slot[k].a[i] = pipe[p].tables[i + 1].a
    BY <1>1, <2>3 DEF IInv, Copies
  <2>8. QED
    BY <1>2, <1>3, <1>4, <2>4, <2>6, <2>7 DEF TableRef, IsRef
<1>7. QED
  BY <1>5, <1>6

\* What is said of pipelines and slots alone stays with them.
LEMMA PipesStay ==
  ASSUME IInv, UNCHANGED <<pipe, lib, data>>
  PROVE  Counts' /\ Connected' /\ Places' /\ Copies'
<1>1. Counts'
  BY DEF IInv, Counts, Exists, NTables
<1>2. Connected'
  BY DEF IInv, Connected, Exists, NTables
<1>3. Places'
  BY DEF IInv, Places, Exists
<1>4. Copies'
  BY Zenon DEF IInv, Copies, NTables, Late
<1>5. QED
  BY <1>1, <1>2, <1>3, <1>4

\* A step that only changes what was written to one object.
LEMMA WrittenStep ==
  ASSUME IInv, NEW o \in DOMAIN objects, NEW W \in SUBSET WriteType,
         objects' = [objects EXCEPT ![o].written = W],
         \A w \in W : HasTable(w.p, w.i) /\ (Object("table", w.p, w.i) = o \/ Late(w.p, w.i)),
         UNCHANGED <<pipe, lib, data, entries>>
  PROVE  IInv'
<1>1. objects \in [DOMAIN objects -> ObjectType]
  BY DEF IInv, Types, ObjectType
<1>2. /\ DOMAIN objects' = DOMAIN objects
      /\ objects' \in [DOMAIN objects' -> ObjectType]
      /\ objects'[o].written = W
      /\ \A x \in DOMAIN objects \ {o} : objects'[x] = objects[x]
  <2>1. objects[o] \in ObjectType
    BY <1>1
  <2>2. [objects[o] EXCEPT !.written = W] \in ObjectType
    BY <2>1 DEF ObjectType
  <2>3. objects' = [objects EXCEPT ![o] = [objects[o] EXCEPT !.written = W]]
    OBVIOUS
  <2>4. [objects[o] EXCEPT !.written = W].written = W
    BY <2>1 DEF ObjectType
  <2>5. QED
    BY <1>1, <2>2, <2>3, <2>4
<1>3. Types'
  BY <1>2 DEF IInv, Types, ObjectType
<1>4. Counts' /\ Connected' /\ Places' /\ Copies'
  BY PipesStay
<1>5. Pointers' /\ CopyPointers'
  BY <1>2 DEF IInv, Pointers, PortRef, TableRef, CopyPointers, IsRef, Exists
<1>6. Owners'
  BY <1>2 DEF IInv, Owners, Owned, Exists
<1>7. RulesOwn'
  BY DEF IInv, RulesOwn, HasTable, Target, Late, Exists, NTables
<1>8. SettingsOwn'
  <2>1. ASSUME NEW x \in DOMAIN objects, NEW w \in objects'[x].written
        PROVE  HasTable(w.p, w.i) /\ (Object("table", w.p, w.i) = x \/ Late(w.p, w.i))
    BY <1>2 DEF IInv, SettingsOwn
  <2>2. QED
    BY <1>2, <2>1 DEF SettingsOwn, HasTable, Late, Exists, NTables
<1>9. QED
  BY <1>3, <1>4, <1>5, <1>6, <1>7, <1>8 DEF IInv

\* A setting is written by the object the command reaches.
LEMMA WriteStep ==
  ASSUME IInv, NEW p \in Pipes, NEW i \in TableIds, NEW action,
         NEW what \in MeterIds \cup {"dscp"}, Write(p, i, action, what)
  PROVE  IInv'
<1>a. PICK o : o = ActionOf(p, i)
  OBVIOUS
<1>b. PICK w : w = [what |-> what, p |-> p, i |-> i]
  OBVIOUS
<1>c. PICK W : W = objects[o].written \cup {w}
  OBVIOUS
<1>1. /\ IsTable(p, i) /\ o # None /\ objects' = [objects EXCEPT ![o].written = W]
      /\ UNCHANGED <<pipe, lib, data, entries>>
  BY <1>a, <1>b, <1>c DEF Write
<1>2. /\ HasTable(p, i) /\ o \in DOMAIN objects
      /\ ~Late(p, i) => o = Object("table", p, i)
  BY <1>1, <1>a, ActionOfOwn
<1>3. W \in SUBSET WriteType
  BY <1>2, <1>b, <1>c DEF WriteType, IInv, Types
<1>4. \A v \in W : HasTable(v.p, v.i) /\ (Object("table", v.p, v.i) = o \/ Late(v.p, v.i))
  BY <1>2, <1>b, <1>c DEF IInv, SettingsOwn
<1>5. QED
  BY <1>1, <1>2, <1>3, <1>4, WrittenStep

\* A setting is taken back.
LEMMA EraseStep ==
  ASSUME IInv, NEW p \in Pipes, NEW i \in TableIds, NEW action, NEW what,
         Erase(p, i, action, what)
  PROVE  IInv'
<1>a. PICK o : o = ActionOf(p, i)
  OBVIOUS
<1>b. PICK W : W = {w \in objects[o].written : w.what # what}
  OBVIOUS
<1>1. /\ IsTable(p, i) /\ o # None /\ objects' = [objects EXCEPT ![o].written = W]
      /\ UNCHANGED <<pipe, lib, data, entries>>
  BY <1>a, <1>b DEF Erase
<1>2. o \in DOMAIN objects
  BY <1>1, <1>a, ActionOfOwn
<1>3. W \in SUBSET WriteType
  BY <1>2, <1>b DEF IInv, Types
<1>4. \A v \in W : HasTable(v.p, v.i) /\ (Object("table", v.p, v.i) = o \/ Late(v.p, v.i))
  BY <1>2, <1>b DEF IInv, SettingsOwn
<1>5. QED
  BY <1>1, <1>2, <1>3, <1>4, WrittenStep

\* A step that only changes the rules, to rules of tables and targets there
\* are.
LEMMA EntriesStep ==
  ASSUME IInv, UNCHANGED <<pipe, lib, objects, data>>,
         \A e \in entries' :
           /\ HasTable(e.p, e.i) /\ e.fwd \in Forwards /\ Target(e.p, e.fwd)
           /\ ~e.is_default /\ ~Late(e.p, e.i) => e.by = Object("table", e.p, e.i)
  PROVE  IInv'
<1>1. Types'
  BY DEF IInv, Types
<1>2. Counts' /\ Connected' /\ Places' /\ Copies'
  BY PipesStay
<1>3. Pointers' /\ CopyPointers' /\ Owners'
  BY DEF IInv, Pointers, PortRef, TableRef, CopyPointers, IsRef, Owners, Owned, Exists
<1>4. RulesOwn'
  BY DEF RulesOwn, HasTable, Target, Late, Exists, NTables
<1>5. SettingsOwn'
  BY DEF IInv, SettingsOwn, HasTable, Late, Exists, NTables
<1>6. QED
  BY <1>1, <1>2, <1>3, <1>4, <1>5 DEF IInv

\* What is looked at when a rule is added is what the library has.
LEMMA TargetIsThere ==
  ASSUME IInv, NEW p \in Pipes, Exists(p), NEW fwd, TargetExists(p, fwd)
  PROVE  Target(p, fwd)
  BY CountsOf DEF TargetExists, Target, NTables

\* A rule of a table and with a target there are.
LEMMA InstallStep ==
  ASSUME IInv, NEW p, NEW i, NEW fwd \in Forwards, NEW by, NEW is_default \in BOOLEAN,
         Install(p, i, fwd, by, is_default), HasTable(p, i), Target(p, fwd),
         ~is_default /\ ~Late(p, i) => by = Object("table", p, i)
  PROVE  IInv'
<1>a. PICK e : e = [p |-> p, i |-> i, fwd |-> fwd, by |-> by, is_default |-> is_default]
  OBVIOUS
<1>1. entries' = entries \cup {e} /\ UNCHANGED <<pipe, lib, objects, data>>
  BY <1>a DEF Install
<1>2. e.p = p /\ e.i = i /\ e.fwd = fwd /\ e.by = by /\ e.is_default = is_default
  BY <1>a
<1>3. \A x \in entries' :
        /\ HasTable(x.p, x.i) /\ x.fwd \in Forwards /\ Target(x.p, x.fwd)
        /\ ~x.is_default /\ ~Late(x.p, x.i) => x.by = Object("table", x.p, x.i)
  BY <1>1, <1>2 DEF IInv, RulesOwn
<1>4. QED
  BY <1>1, <1>3, EntriesStep

\* A rule is encoded by the object the command reaches (thread.c:1326-1438).
LEMMA RuleAddStep ==
  ASSUME IInv, NEW p \in Pipes, NEW i \in TableIds, NEW type, NEW mask, NEW fwd \in Forwards,
         pipeline_table_rule_add(p, i, type, mask, fwd)
  PROVE  IInv'
<1>a. PICK o : o = ActionOf(p, i)
  OBVIOUS
<1>1. /\ IsTable(p, i) /\ TargetExists(p, fwd) /\ ActionOf(p, i) # None
      /\ Install(p, i, fwd, o, FALSE)
  BY <1>a DEF pipeline_table_rule_add, action_check, action_convert
<1>2. HasTable(p, i) /\ (~Late(p, i) => o = Object("table", p, i))
  BY <1>1, <1>a, ActionOfOwn
<1>3. Target(p, fwd)
  BY <1>1, TargetIsThere DEF IsTable
<1>4. QED
  BY <1>1, <1>2, <1>3, InstallStep

\* A default rule is encoded without the object (thread.c:1441-1536).
LEMMA DefaultAddStep ==
  ASSUME IInv, NEW p \in Pipes, NEW i \in TableIds, NEW mask, NEW fwd \in Forwards,
         pipeline_table_rule_add_default(p, i, mask, fwd)
  PROVE  IInv'
<1>1. IsTable(p, i) /\ TargetExists(p, fwd) /\ Install(p, i, fwd, None, TRUE)
  BY DEF pipeline_table_rule_add_default, action_default_check
<1>2. HasTable(p, i)
  BY <1>1, CountsOf, FieldTypes, PipelinesAssumption DEF IsTable, HasTable, TableIds, NTables
<1>3. Target(p, fwd)
  BY <1>1, TargetIsThere DEF IsTable
<1>4. QED
  BY <1>1, <1>2, <1>3, InstallStep

\* A rule is deleted (thread.c:1655-1720).
LEMMA RuleDeleteStep ==
  ASSUME IInv, NEW p \in Pipes, NEW i \in TableIds, NEW is_default,
         pipeline_table_rule_delete(p, i, is_default)
  PROVE  IInv'
<1>1. entries' \subseteq entries /\ UNCHANGED <<pipe, lib, objects, data>>
  BY DEF pipeline_table_rule_delete
<1>2. \A x \in entries' :
        /\ HasTable(x.p, x.i) /\ x.fwd \in Forwards /\ Target(x.p, x.fwd)
        /\ ~x.is_default /\ ~Late(x.p, x.i) => x.by = Object("table", x.p, x.i)
  BY <1>1 DEF IInv, RulesOwn
<1>3. QED
  BY <1>1, <1>2, EntriesStep

-----------------------------------------------------------------------------
(* The invariant is inductive                                                *)

\* Nothing is there at first.
LEMMA InitInv == Init => IInv
<1> SUFFICES ASSUME Init PROVE IInv
  OBVIOUS
<1>1. /\ \A p \in Pipes : pipe[p] = None /\ ~Exists(p)
      /\ \A p \in Pipes : lib[p].n_in = 0 /\ lib[p].n_out = 0 /\ lib[p].n_tables = 0
      /\ DOMAIN objects = {} /\ entries = {}
      /\ \A t \in Threads : data[t].n = 0 /\ \A k \in Slots : data[t].slot[k] = EmptySlot
  BY DEF Init, Exists
<1>2. EmptySlot \in SlotType /\ \A i \in TableIds : EmptySlot.a[i] = None
  BY DEF EmptySlot, SlotType, Refs
<1>3. Types
  <2>1. pipe \in [Pipes -> Pipeline \cup {None}]
    BY DEF Init
  <2>2. lib \in [Pipes -> [n_in : Nat, n_out : Nat, n_tables : Nat]]
    BY DEF Init
  <2>3. data \in [Threads -> [n : 0 .. PipelinesMax, slot : [Slots -> SlotType]]]
    BY <1>2, PipelinesAssumption DEF Init
  <2>4. objects \in [DOMAIN objects -> ObjectType]
    BY DEF Init
  <2>5. QED
    BY <1>1, <2>1, <2>2, <2>3, <2>4 DEF Types, ObjectType
<1>4. Counts /\ Connected /\ Pointers
  BY <1>1 DEF Counts, Connected, Pointers
<1>5. CopyPointers
  BY <1>1, <1>2 DEF CopyPointers, IsRef
<1>6. Owners /\ RulesOwn /\ SettingsOwn
  BY <1>1 DEF Owners, RulesOwn, SettingsOwn
<1>7. Places /\ Copies
  BY <1>1 DEF Places, Copies
<1>8. QED
  BY <1>3, <1>4, <1>5, <1>6, <1>7 DEF IInv

\* Every step keeps the invariant.
LEMMA NextInv == IInv /\ [Next]_vars => IInv'
<1> SUFFICES ASSUME IInv, [Next]_vars PROVE IInv'
  OBVIOUS
<1>1. CASE Build
  <2>1. PICK p \in Pipes :
          \/ pipeline_create(p)
          \/ \E dev \in Devices, queue \in {0, 1}, mask \in PortProfiles :
               pipeline_port_in_create(p, dev, queue, mask)
          \/ \E dev \in Devices, queue \in {0, 1} : pipeline_port_out_create(p, dev, queue)
          \/ \E port \in 1 .. PortInMax, i \in TableIds :
               pipeline_port_in_connect_to_table(p, port, i)
          \/ \E type \in TypesMade, n_keys \in {0, 1}, key_size \in {4, 8}, mask \in Masks :
               pipeline_table_create(p, type, n_keys, key_size, mask)
    BY <1>1 DEF Build
  <2>2. QED
    BY <2>1, CreateStep, PortInStep, PortOutStep, ConnectStep, TableStep
<1>2. CASE Run
  BY <1>2, EnableStep, DisableStep DEF Run
<1>3. CASE Command
  <2>1. PICK p \in Pipes, i \in TableIds :
          \/ \E id \in MeterIds : \/ pipeline_table_mtr_profile_add(p, i, id)
                                  \/ pipeline_table_mtr_profile_delete(p, i, id)
          \/ pipeline_table_dscp_table_update(p, i)
          \/ \E type \in TypesMade, mask \in Profiles, fwd \in Forwards :
               pipeline_table_rule_add(p, i, type, mask, fwd)
          \/ \E fwd \in Forwards : pipeline_table_rule_add_default(p, i, {"fwd"}, fwd)
          \/ \E is_default \in BOOLEAN : pipeline_table_rule_delete(p, i, is_default)
    BY <1>3 DEF Command
  <2>2. CASE \E id \in MeterIds : \/ pipeline_table_mtr_profile_add(p, i, id)
                                  \/ pipeline_table_mtr_profile_delete(p, i, id)
    BY <2>2, WriteStep, EraseStep
       DEF pipeline_table_mtr_profile_add, pipeline_table_mtr_profile_delete
  <2>3. CASE pipeline_table_dscp_table_update(p, i)
    BY <2>3, WriteStep DEF pipeline_table_dscp_table_update
  <2>4. QED
    BY <2>1, <2>2, <2>3, RuleAddStep, DefaultAddStep, RuleDeleteStep
<1>4. CASE UNCHANGED vars
  <2>1. UNCHANGED <<pipe, lib, objects, data>> /\ entries' = entries
    BY <1>4 DEF vars
  <2>2. \A x \in entries' :
          /\ HasTable(x.p, x.i) /\ x.fwd \in Forwards /\ Target(x.p, x.fwd)
          /\ ~x.is_default /\ ~Late(x.p, x.i) => x.by = Object("table", x.p, x.i)
    BY <2>1 DEF IInv, RulesOwn
  <2>3. QED
    BY <2>1, <2>2, EntriesStep
<1>5. QED
  BY <1>1, <1>2, <1>3, <1>4 DEF Next

\* So it always holds.
LEMMA Invariant == Spec => []IInv
  BY InitInv, NextInv, PTL DEF Spec

-----------------------------------------------------------------------------
(* What follows from it                                                      *)

\* The shapes of pipelines and slots, the slot of each running pipeline and
\* pointers to action objects there are, whatever is created, enabled and
\* disabled in whatever order (pipeline.c, thread.c:264-427).
THEOREM TypeCorrect == Spec => []TypeOK
<1>1. IInv => TypeOK
  <2> SUFFICES ASSUME IInv PROVE TypeOK
    OBVIOUS
  <2>1. data \in [Threads -> [n : 0 .. PipelinesMax,
                              slot : [Slots -> [p : Pipes \cup {None}, a : [TableIds -> Refs]]]]]
    BY DEF IInv, Types, SlotType
  <2>2. ASSUME NEW p \in Pipes, Exists(p)
        PROVE  /\ \A i \in DOMAIN pipe[p].ports_in : IsRef(pipe[p].ports_in[i].a)
               /\ \A i \in DOMAIN pipe[p].tables : IsRef(pipe[p].tables[i].a)
               /\ pipe[p].enabled => \E k \in 1 .. data[pipe[p].thread].n :
                                       data[pipe[p].thread].slot[k].p = p
    BY <2>2 DEF IInv, Pointers, PortRef, TableRef, Places
  <2>3. ASSUME NEW t \in Threads
        PROVE  /\ \A k \in Slots : \A i \in TableIds : IsRef(data[t].slot[k].a[i])
               /\ \A k \in 1 .. data[t].n : pipe[data[t].slot[k].p].enabled
    BY DEF IInv, CopyPointers, Places
  <2>4. pipe \in [Pipes -> Pipeline \cup {None}]
    BY DEF IInv, Types
  <2>5. QED
    BY <2>1, <2>2, <2>3, <2>4 DEF TypeOK
<1>2. QED
  BY <1>1, Invariant, PTL

\* The counts of pipeline.c and those of the library agree, at the limits and
\* below, and every action object has its one port or table (pipeline.c:218-1731).
THEOREM CountsAgree == Spec => []LibraryAgrees
<1>1. IInv => LibraryAgrees
  <2> SUFFICES ASSUME IInv PROVE LibraryAgrees
    OBVIOUS
  <2>1. ASSUME NEW p \in Pipes, Exists(p)
        PROVE  /\ lib[p] = [n_in |-> Len(pipe[p].ports_in), n_out |-> pipe[p].n_ports_out,
                            n_tables |-> NTables(p)]
               /\ Len(pipe[p].ports_in) <= PortInMax /\ NTables(p) <= TableMax
               /\ \A i \in DOMAIN pipe[p].ports_in :
                    pipe[p].ports_in[i].table # None => pipe[p].ports_in[i].table < NTables(p)
    <3>1. lib[p] \in LibType
      BY <2>1, CountsOf
    <3>2. QED
      BY <2>1, <3>1, CountsOf DEF NTables, LibType
  <2>2. ASSUME NEW o \in DOMAIN objects
        PROVE  /\ Exists(o.p)
               /\ IF o.kind = "table" THEN pipe[o.p].tables[o.i + 1].a = o
                                      ELSE pipe[o.p].ports_in[o.i + 1].a = o
    BY DEF IInv, Types, ObjectIds, Owners, Owned
  <2>3. QED
    BY <2>1, <2>2 DEF LibraryAgrees
<1>2. QED
  BY <1>1, Invariant, PTL

\* A command acts on the action object of its own table, unless the table was
\* made while the pipeline ran (thread.c:286-296, 502-524, 2800).
THEOREM CommandsActOnOwn == Spec => []ActsOnOwn
<1>1. IInv => ActsOnOwn
  BY DEF IInv, RulesOwn, SettingsOwn, ActsOnOwn
<1>2. QED
  BY <1>1, Invariant, PTL

\* The port or table a rule sends packets to is there as long as the rule is
\* (thread.c:1111-1121, 1167-1175).
THEOREM RulesHaveTargets == Spec => []TargetsExist
<1>1. IInv => TargetsExist
  BY DEF IInv, RulesOwn, Target, TargetsExist
<1>2. QED
  BY <1>1, Invariant, PTL
=============================================================================
