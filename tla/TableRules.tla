----------------------------- MODULE TableRules -----------------------------
(***************************************************************************)
(* The rules of a table, kept twice.  The main thread has a list of the    *)
(* rules (struct table: rules, rule_default) for the user to see; the      *)
(* table of the data plane has an entry for each key, and every rule of    *)
(* the list points at its entry (rule->data), whose counters are read      *)
(* through it.  A call changes the table first, itself or by a message,    *)
(* and the list when that was successful.  The calls of one pipeline do    *)
(* not overlap and take effect at once (ControlRpc).                       *)
(***************************************************************************)
EXTENDS Naturals, Sequences

CONSTANTS
  MatchTypes,  \* match types of tables; ACL tables of raw bytes apart
  Keys,      \* what the library compares: the ACL fields, the masked key, the prefix
  Extras,    \* the rest of a struct table_rule_match: the priority, the bits masked out
  Actions,   \* struct table_rule_action
  Entries,   \* the places of the table; of one bucket, if its hash forgets
  BulkMax,   \* bound on the rules of a bulk file
  MaxPkts,   \* bound on the counters: no packet once one is there
  None

ASSUME RulesAssumption ==
  /\ MatchTypes \subseteq {"acl", "raw", "hash_ext", "hash_lru", "lpm"}
  /\ BulkMax \in Nat /\ MaxPkts \in Nat
  /\ None \notin Keys \cup Actions \cup Entries

VARIABLES
  match_type,    \* table.params.match_type
  rules,         \* table.rules
  rule_default,  \* table.rule_default's action, None for NULL
  entry,         \* the table of the data plane: key and action of an entry, or NoEntry
  default_entry, \* its default entry's action; None drops
  counter,       \* the counter in the data of every entry
  bulk,          \* the rules of the bulk call in progress, with the entries written back
  step, n,       \* where it is, and its loop variable
  before,        \* the table, with hits and astray, when a bulk call in progress began
  hits,          \* ghost: packets that hit the key since its rule was added or cleared
  astray         \* ghost: keys that a deletion since then got wrong, and what came of it

listVars  == <<rules, rule_default>>
tableVars == <<entry, default_entry, counter>>
otherVars == <<match_type, bulk, step, n, before>>
ghosts    == <<hits, astray>>
vars      == <<listVars, tableVars, otherVars, ghosts>>

Matches == [key : Keys, extra : Extras]
Rules   == [match : Matches, action : Actions, data : Entries \cup {None}]
ListedRules == [match : Matches, action : Actions, data : Entries]
NoEntry == [key |-> None, action |-> None]
Files   == UNION {[1..k -> [match : Matches, action : Actions, data : {None}]] : k \in 1..BulkMax}

NoTable == <<[e \in Entries |-> NoEntry], [e \in Entries |-> 0], [k \in Keys |-> 0], {}>>

TableType == [Entries -> [key : Keys, action : Actions] \cup {NoEntry}]

\* Types: a rule that is listed has an entry (rule->data is never NULL).
TypeOK ==
  /\ match_type \in MatchTypes
  /\ rules \in Seq(ListedRules)
  /\ rule_default \in Actions \cup {None} /\ default_entry \in Actions \cup {None}
  /\ entry \in TableType
  /\ counter \in [Entries -> Nat]
  /\ bulk \in Seq(Rules) /\ n \in Nat /\ step \in {"idle", "table", "list"}
  /\ before \in TableType \X [Entries -> Nat] \X [Keys -> Nat] \X SUBSET Keys
  /\ hits \in [Keys -> Nat] /\ astray \subseteq Keys

Init ==
  /\ match_type \in MatchTypes
  /\ rules = <<>> /\ rule_default = None
  /\ entry = [e \in Entries |-> NoEntry] /\ default_entry = None
  /\ counter = [e \in Entries |-> 0]
  /\ hits = [k \in Keys |-> 0] /\ astray = {}
  /\ bulk = <<>> /\ step = "idle" /\ n = 0 /\ before = NoTable

-----------------------------------------------------------------------------
(* The list of the main thread.                                            *)

table_rule_find(m) == {i \in 1..Len(rules) : rules[i].match = m}

\* (slips: the list gets a second rule for the match; an old rule stays as it was)
AppendAlways(r) == rules' = Append(rules, r)
KeepOld(r) == rules' = IF table_rule_find(r.match) = {} THEN Append(rules, r) ELSE rules

\* A rule for the same match is replaced where it is.
table_rule_add(r) ==
  rules' = IF table_rule_find(r.match) = {} THEN Append(rules, r)
           ELSE [i \in 1..Len(rules) |-> IF i \in table_rule_find(r.match) THEN r ELSE rules[i]]

table_rule_delete(m) ==
  IF table_rule_find(m) = {} THEN UNCHANGED rules
  ELSE \E i \in table_rule_find(m) : rules' = SubSeq(rules, 1, i - 1) \o SubSeq(rules, i + 1, Len(rules))

-----------------------------------------------------------------------------
(* The table of the data plane.                                            *)

\* What the match of a deletion is for the library, which compares every byte of the
\* fields (an addition's is the key).  The deletions from an ACL table write
\* acl_add.category_mask in the union with acl_delete: by the layout of the library it is
\* overwritten or left in a field, and nothing has that key.  Those of raw bytes write
\* most fields to acl_add's, and what acl_delete has then may be any other key.
match_convert(m) ==
  {m.key} \cup (IF match_type = "raw" THEN Keys \cup {None}
                ELSE IF match_type = "acl" THEN {None} ELSE {})

EntriesOf(k) == {e \in Entries : entry[e].key = k}
Free == {e \in Entries : entry[e] = NoEntry}

\* Where the library puts a key: over its entry, in a free one, over the least
\* recently used one if the table forgets, nowhere if it is full.
PlacesFor(k) ==
  IF EntriesOf(k) # {} THEN EntriesOf(k)
  ELSE IF Free # {} THEN Free
  ELSE IF match_type = "hash_lru" THEN Entries ELSE {}

\* (slip: the counter goes on)
EntryAddKeeps(m, a, e) ==
  /\ e \in PlacesFor(m.key)
  /\ entry' = [entry EXCEPT ![e] = [key |-> m.key, action |-> a]]
  /\ hits' = [hits EXCEPT ![m.key] = 0] /\ astray' = astray \ {m.key}
  /\ UNCHANGED counter

\* rte_pipeline_table_entry_add: action_convert has set the counter in the data to 0.
EntryAdd(m, a, e) ==
  /\ e \in PlacesFor(m.key)
  /\ entry' = [entry EXCEPT ![e] = [key |-> m.key, action |-> a]]
  /\ counter' = [counter EXCEPT ![e] = 0]
  /\ hits' = [hits EXCEPT ![m.key] = 0] /\ astray' = astray \ {m.key}

-----------------------------------------------------------------------------
(* Calls.  Those that fail before the table is changed change nothing.     *)

Idle == step = "idle"

pipeline_table_rule_add(m, a) ==
  /\ Idle
  /\ \E e \in Entries :
       /\ EntryAdd(m, a, e)
       /\ table_rule_add([match |-> m, action |-> a, data |-> e])
  /\ UNCHANGED <<rule_default, default_entry, otherVars>>

\* A key that is not there is not an error.
pipeline_table_rule_delete(m) ==
  /\ Idle
  /\ \E k \in match_convert(m) :
       /\ entry' = [e \in Entries |-> IF entry[e].key = k THEN NoEntry ELSE entry[e]]
       /\ astray' = (astray \ {m.key}) \cup (IF k = m.key THEN {} ELSE {m.key, k} \cap Keys)
  /\ table_rule_delete(m)
  /\ hits' = [hits EXCEPT ![m.key] = 0]
  /\ UNCHANGED <<rule_default, default_entry, counter, otherVars>>

pipeline_table_rule_add_default(a) ==
  /\ Idle
  /\ default_entry' = a /\ rule_default' = a
  /\ UNCHANGED <<rules, entry, counter, otherVars, ghosts>>

pipeline_table_rule_delete_default ==
  /\ Idle
  /\ default_entry' = None /\ rule_default' = None
  /\ UNCHANGED <<rules, entry, counter, otherVars, ghosts>>

pipeline_table_rule_add_bulk(l) ==
  /\ Idle /\ l # <<>>
  /\ bulk' = l /\ step' = "table" /\ n' = 0 /\ before' = <<entry, counter, hits, astray>>
  /\ UNCHANGED <<match_type, listVars, tableVars, ghosts>>

EndBulk == bulk' = <<>> /\ step' = "idle" /\ n' = 0 /\ before' = NoTable /\ UNCHANGED match_type

\* One turn of the loop that adds the rules to the table.
table_rule_add_bulk_ll ==
  /\ step = "table" /\ n < Len(bulk)
  /\ \E e \in Entries :
       /\ EntryAdd(bulk[n + 1].match, bulk[n + 1].action, e)
       /\ bulk' = [bulk EXCEPT ![n + 1] = [match |-> @.match, action |-> @.action, data |-> e]]
  /\ n' = n + 1
  /\ UNCHANGED <<match_type, listVars, default_entry, step, before>>

TableDone ==
  /\ step = "table" /\ n > 0
  /\ \/ n = Len(bulk)
     \/ n < Len(bulk) /\ match_type \notin {"acl", "raw"} /\ PlacesFor(bulk[n + 1].match.key) = {}

\* (slip: the list gets all the rules of the file)
ToList(l) ==
  /\ TableDone
  /\ bulk' = l /\ step' = "list" /\ n' = 0
  /\ UNCHANGED <<match_type, listVars, tableVars, before, ghosts>>

ToListAll == ToList(bulk)

\* All are added, or the table is full: the rules that were added stay in it ("No
\* roll-back") unless it is an ACL table, and go to the list.
bulk_to_list == ToList(SubSeq(bulk, 1, n))

AddFails ==
  /\ step = "table" /\ n < Len(bulk)
  /\ n = 0 \/ match_type \in {"acl", "raw"}
  /\ PlacesFor(bulk[n + 1].match.key) = {}

\* (slip: an ACL table keeps what it had added)
FailsHalfway ==
  /\ AddFails
  /\ EndBulk
  /\ UNCHANGED <<listVars, tableVars, ghosts>>

\* An error, at the first rule or in an ACL table: nothing is added.
bulk_fails ==
  /\ AddFails
  /\ entry' = before[1] /\ counter' = before[2] /\ hits' = before[3] /\ astray' = before[4]
  /\ EndBulk
  /\ UNCHANGED <<listVars, default_entry>>

\* One turn of the loop that moves the added rules to the list.
table_rule_add_bulk ==
  /\ step = "list" /\ n < Len(bulk)
  /\ table_rule_add(bulk[n + 1])
  /\ n' = n + 1
  /\ UNCHANGED <<match_type, rule_default, tableVars, bulk, step, before, ghosts>>

bulk_done ==
  /\ step = "list" /\ n = Len(bulk)
  /\ EndBulk
  /\ UNCHANGED <<listVars, tableVars, ghosts>>

\* A read that clears a rule's counters, through the pointer in the list: those of another
\* key, if a deletion took the rule's entry and the place is another's now.
pipeline_table_rule_stats_read(m) ==
  /\ Idle
  /\ \E i \in table_rule_find(m) :
       /\ counter' = [counter EXCEPT ![rules[i].data] = 0]
       /\ hits' = [hits EXCEPT ![m.key] = 0]
       /\ astray' = astray \cup (IF m.key \in astray THEN {entry[rules[i].data].key} \cap Keys ELSE {})
  /\ UNCHANGED <<listVars, entry, default_entry, otherVars>>

\* A packet hits an entry: while the worker is not handling a request.
packet(e) ==
  /\ step # "table"
  /\ entry[e] # NoEntry
  /\ \A k \in Keys : hits[k] < MaxPkts
  /\ \A d \in Entries : counter[d] < MaxPkts
  /\ counter' = [counter EXCEPT ![e] = @ + 1]
  /\ hits' = [hits EXCEPT ![entry[e].key] = @ + 1]
  /\ UNCHANGED <<listVars, entry, default_entry, otherVars, astray>>

Next ==
  \/ \E m \in Matches, a \in Actions : pipeline_table_rule_add(m, a)
  \/ \E m \in Matches : pipeline_table_rule_delete(m) \/ pipeline_table_rule_stats_read(m)
  \/ \E a \in Actions : pipeline_table_rule_add_default(a)
  \/ pipeline_table_rule_delete_default
  \/ \E l \in Files : pipeline_table_rule_add_bulk(l)
  \/ table_rule_add_bulk_ll \/ bulk_to_list \/ bulk_fails
  \/ table_rule_add_bulk \/ bulk_done
  \/ \E e \in Entries : packet(e)

Spec == Init /\ [][Next]_vars

-----------------------------------------------------------------------------
(* Properties.  Between calls, what the list says of the table is true.    *)

Listed == {rules[i] : i \in 1..Len(rules)}

\* A match is listed once (table_rule_find returns the first): so the rule that a
\* deletion takes from the list is the only one there was.
Distinct == \A i, j \in 1..Len(rules) : rules[i].match = rules[j].match => i = j

\* The rules whose key no deletion got wrong since they were added (see match_convert):
\* of the others nothing is claimed.
Kept == {r \in Listed : r.match.key \notin astray}

\* A listed rule is in the table, if its hash does not forget keys: the entry it points
\* at has its key and its action, so table_rule_show tells what the data plane does.
DataValid ==
  Idle /\ match_type # "hash_lru" =>
    \A r \in Kept : r.data # None /\ entry[r.data] = [key |-> r.match.key, action |-> r.action]

\* The table has nothing that the list hides, also after a bulk call that stopped
\* halfway: an entry is the key of a listed rule, which a deletion can name; or a deletion
\* of its key from an ACL table has missed it.
NoHidden ==
  Idle => \A e \in Entries : entry[e] # NoEntry /\ entry[e].key \notin astray =>
            \E r \in Listed : r.match.key = entry[e].key

\* The statistics of a rule count the packets that hit its key since the rule was added
\* or last cleared, and no packet of another rule (if the hash does not forget keys).
StatsOwn ==
  Idle /\ match_type # "hash_lru" =>
    \A r \in Kept : counter[r.data] = hits[r.match.key]
=============================================================================
