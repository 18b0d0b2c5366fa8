-------------------------- MODULE TableRulesProofs --------------------------
(***************************************************************************)
(* Proofs about TableRules, for any keys, places, actions and bulk files:  *)
(* the list of the main thread and the table of the data plane tell the    *)
(* same, also when a bulk call stopped halfway.                            *)
(***************************************************************************)
EXTENDS TableRules, SequenceTheorems, TLAPS

USE RulesAssumption

-----------------------------------------------------------------------------
(* The inductive invariant.                                                *)

\* The rules of a bulk call that are in the table and not in the list yet.
Pending == IF step = "table" THEN 1..n ELSE (n + 1)..Len(bulk)

\* Where a bulk call is.
BulkInv ==
  /\ n \in 0..Len(bulk)
  /\ step = "idle" => bulk = <<>>
  /\ step = "table" => \A i \in 1..n : bulk[i].data \in Entries
  /\ step = "list" => bulk \in Seq(ListedRules)

\* No key has two entries.
OneEntry(table) == \A d, e \in Entries : table[d] # NoEntry /\ table[d].key = table[e].key => d = e

UniqueInv == OneEntry(entry) /\ OneEntry(before[1])

\* An entry is the key of a rule that is listed or about to be; an entry to go back
\* to, of one that is listed; or a deletion got the key wrong.
HiddenInv ==
  /\ \A e \in Entries : entry[e] # NoEntry =>
       \/ entry[e].key \in astray
       \/ \E r \in Listed : r.match.key = entry[e].key
       \/ \E j \in Pending : bulk[j].match.key = entry[e].key
  /\ step = "table" => \A e \in Entries : before[1][e] # NoEntry =>
       before[1][e].key \in before[4] \/ \E r \in Listed : r.match.key = before[1][e].key

\* What a rule's data points at in a table with its counters and hits.
InTable(r, table, counters, h) ==
  /\ table[r.data] = [key |-> r.match.key, action |-> r.action]
  /\ counters[r.data] = h[r.match.key]

\* A rule tells the truth of a table, unless a deletion got its key wrong.
TrueOf(r, table, counters, h, wrong) == r.match.key \in wrong \/ InTable(r, table, counters, h)

Told(r) == TrueOf(r, entry, counter, hits, astray)
TrueNext(r) == TrueOf(r, entry', counter', hits', astray')

\* A rule tells the truth of the table unless a later one of the bulk call replaces it.
ListedInv == match_type # "hash_lru" =>
  /\ \A r \in Listed : \/ Told(r)
                       \/ \E j \in Pending : bulk[j].match = r.match
  /\ \A i \in Pending : \/ Told(bulk[i])
                        \/ \E j \in Pending : j > i /\ bulk[j].match = bulk[i].match
  /\ step = "table" => \A r \in Listed : TrueOf(r, before[1], before[2], before[3], before[4])

-----------------------------------------------------------------------------
(* The list: what an addition and a deletion make of the set of its rules. *)

\* A listed rule is a rule.
LEMMA ListedType ==
  ASSUME rules \in Seq(ListedRules)
  PROVE  Listed \subseteq ListedRules
BY DEF Listed

\* An addition puts the rule in the place of the one with its match, or at the end
\* (table_rule_add).
LEMMA AddProps ==
  ASSUME rules \in Seq(ListedRules), NEW r \in ListedRules, table_rule_add(r)
  PROVE  /\ rules' \in Seq(ListedRules)
         /\ Listed' = {s \in Listed : s.match # r.match} \cup {r}
         /\ Distinct => Distinct'
<1> DEFINE S == ListedRules
<1>0. rules \in Seq(S) /\ r \in S OBVIOUS
<1>1. CASE table_rule_find(r.match) = {}
  <2>0. rules' = Append(rules, r) BY <1>1 DEF table_rule_add
  <2>n. \A i \in 1..Len(rules) : rules[i].match # r.match BY <1>1 DEF table_rule_find
  <2> HIDE DEF S
  <2>1. /\ rules' \in Seq(S) /\ Len(rules') = Len(rules) + 1
        /\ \A i \in 1..Len(rules) : rules'[i] = rules[i]
        /\ rules'[Len(rules) + 1] = r
    BY <2>0, <1>0
  <2>2. Listed' = {s \in Listed : s.match # r.match} \cup {r}
    <3>1. Len(rules) \in Nat BY <1>0
    <3>2. Listed' = {rules[i] : i \in 1..Len(rules)} \cup {r}
      BY <2>1, <3>1 DEF Listed
    <3> QED BY <3>2, <2>n DEF Listed
  <2>3. Distinct => Distinct'
    <3>1. Len(rules) \in Nat BY <1>0
    <3> QED BY <2>1, <2>n, <3>1 DEF Distinct
  <2> QED BY <2>1, <2>2, <2>3 DEF S
<1>2. CASE table_rule_find(r.match) # {}
  <2>0. rules' = [i \in 1..Len(rules) |-> IF rules[i].match = r.match THEN r ELSE rules[i]]
    BY <1>2 DEF table_rule_add, table_rule_find
  <2>x. PICK k \in 1..Len(rules) : rules[k].match = r.match BY <1>2 DEF table_rule_find
  <2> HIDE DEF S
  <2>l. Len(rules) \in Nat /\ \A i \in 1..Len(rules) : rules[i] \in S BY <1>0
  <2>1. rules' \in Seq(S) /\ Len(rules') = Len(rules)
    BY <2>0, <1>0, <2>l
  <2>2. Listed' = {s \in Listed : s.match # r.match} \cup {r}
    BY <2>0, <2>1, <2>x DEF Listed
  <2>3. Distinct => Distinct'
    BY <2>0, <2>1 DEF Distinct
  <2> QED BY <2>1, <2>2, <2>3 DEF S
<1> QED BY <1>1, <1>2

\* Taking the rule at i out of a sequence.
Cut(s, i) == SubSeq(s, 1, i - 1) \o SubSeq(s, i + 1, Len(s))

\* What is left are the rules before and after it, in their order.
LEMMA CutProps ==
  ASSUME NEW S, NEW s \in Seq(S), NEW i \in 1..Len(s)
  PROVE  /\ Cut(s, i) \in Seq(S) /\ Len(Cut(s, i)) = Len(s) - 1
         /\ \A j \in 1..(Len(s) - 1) : Cut(s, i)[j] = IF j < i THEN s[j] ELSE s[j + 1]
<1>l. Len(s) \in Nat /\ i - 1 \in Int /\ i + 1 \in Int /\ \A j \in 1..Len(s) : s[j] \in S OBVIOUS
<1> DEFINE a == SubSeq(s, 1, i - 1)
           b == SubSeq(s, i + 1, Len(s))
<1>1. /\ a \in Seq(S) /\ Len(a) = i - 1
      /\ \A j \in 1..(i - 1) : a[j] = s[j]
  <2>1. \A j \in 1..(i - 1) : s[j] \in S BY <1>l
  <2>2. /\ a \in Seq(S) /\ Len(a) = IF 1 <= i - 1 THEN (i - 1) - 1 + 1 ELSE 0
        /\ \A j \in 1..((i - 1) - 1 + 1) : a[j] = s[1 + j - 1]
    BY <1>l, <2>1, SubSeqProperties
  <2> HIDE DEF a
  <2> QED BY <2>2
<1>2. /\ b \in Seq(S) /\ Len(b) = Len(s) - i
      /\ \A j \in 1..(Len(s) - i) : b[j] = s[i + j]
  <2>1. \A j \in (i + 1)..Len(s) : s[j] \in S BY <1>l
  <2>2. /\ b \in Seq(S) /\ Len(b) = IF i + 1 <= Len(s) THEN Len(s) - (i + 1) + 1 ELSE 0
        /\ \A j \in 1..(Len(s) - (i + 1) + 1) : b[j] = s[(i + 1) + j - 1]
    BY <1>l, <2>1, SubSeqProperties
  <2> HIDE DEF b
  <2>3. \A j \in 1..(Len(s) - i) : b[j] = s[i + j]
    <3> SUFFICES ASSUME NEW j \in 1..(Len(s) - i) PROVE b[j] = s[i + j] OBVIOUS
    <3>1. j \in 1..(Len(s) - (i + 1) + 1) /\ (i + 1) + j - 1 = i + j BY <1>l
    <3> QED BY <3>1, <2>2
  <2> QED BY <2>2, <2>3, <1>l
<1>0. PICK t : t = Cut(s, i) OBVIOUS
<1>t. t = a \o b BY <1>0 DEF Cut
<1> HIDE DEF a, b
<1>3. /\ t \in Seq(S) /\ Len(t) = Len(a) + Len(b)
      /\ \A j \in 1..(Len(a) + Len(b)) : t[j] = IF j <= Len(a) THEN a[j] ELSE b[j - Len(a)]
  <2>0. a \in Seq(S) /\ b \in Seq(S) BY <1>1, <1>2
  <2> HIDE RulesAssumption
  <2>1. /\ a \o b \in Seq(S) /\ Len(a \o b) = Len(a) + Len(b)
        /\ \A j \in 1..(Len(a) + Len(b)) : (a \o b)[j] = IF j <= Len(a) THEN a[j] ELSE b[j - Len(a)]
    BY <2>0, ConcatProperties, ZenonT(60)
  <2> QED BY <2>1, <1>t, Zenon
<1>4. \A j \in 1..(Len(s) - 1) : t[j] = IF j < i THEN s[j] ELSE s[j + 1]
  <2> SUFFICES ASSUME NEW j \in 1..(Len(s) - 1) PROVE t[j] = IF j < i THEN s[j] ELSE s[j + 1]
    OBVIOUS
  <2>0. t[j] = IF j <= i - 1 THEN a[j] ELSE b[j - (i - 1)] BY <1>3, <1>1, <1>2, <1>l
  <2>1. CASE j < i
    <3>1. j \in 1..(i - 1) BY <2>1
    <3> QED BY <3>1, <2>0, <2>1, <1>1
  <2>2. CASE ~(j < i)
    <3>1. j - (i - 1) \in 1..(Len(s) - i) /\ i + (j - (i - 1)) = j + 1 /\ ~(j <= i - 1) BY <2>2, <1>l
    <3>2. b[j - (i - 1)] = s[i + (j - (i - 1))] BY <3>1, <1>2
    <3> QED BY <3>1, <3>2, <2>2, <2>0
  <2> QED BY <2>1, <2>2
<1>5. Len(t) = Len(s) - 1 BY <1>3, <1>1, <1>2, <1>l
<1> QED BY <1>0, <1>3, <1>4, <1>5, Zenon

\* A deletion takes the rule with this match out and no other (table_rule_delete).
LEMMA DeleteProps ==
  ASSUME rules \in Seq(ListedRules), Distinct, NEW m, table_rule_delete(m)
  PROVE  /\ rules' \in Seq(ListedRules)
         /\ Listed' = {s \in Listed : s.match # m}
         /\ Distinct'
<1> DEFINE S == ListedRules
<1>0. rules \in Seq(S) OBVIOUS
<1>1. CASE table_rule_find(m) = {}
  <2>1. rules' = rules /\ \A i \in 1..Len(rules) : rules[i].match # m
    BY <1>1 DEF table_rule_delete, table_rule_find
  <2> QED BY <2>1 DEF Listed, Distinct
<1>2. CASE table_rule_find(m) # {}
  <2>0. PICK i \in 1..Len(rules) :
          /\ rules[i].match = m
          /\ rules' = SubSeq(rules, 1, i - 1) \o SubSeq(rules, i + 1, Len(rules))
    BY <1>2 DEF table_rule_delete, table_rule_find
  <2>n. \A j \in 1..Len(rules) : rules[j].match = m => j = i BY <2>0 DEF Distinct
  <2> HIDE DEF S
  <2>l. Len(rules) \in Nat BY <1>0
  <2>1. /\ rules' \in Seq(S) /\ Len(rules') = Len(rules) - 1
        /\ \A j \in 1..(Len(rules) - 1) : rules'[j] = IF j < i THEN rules[j] ELSE rules[j + 1]
    <3>1. PICK s : s = rules OBVIOUS
    <3>2. s \in Seq(S) /\ i \in 1..Len(s) /\ rules' = Cut(s, i) BY <3>1, <2>0, <1>0 DEF Cut
    <3>3. /\ Cut(s, i) \in Seq(S) /\ Len(Cut(s, i)) = Len(s) - 1
          /\ \A j \in 1..(Len(s) - 1) : Cut(s, i)[j] = IF j < i THEN s[j] ELSE s[j + 1]
      BY <3>2, CutProps, Zenon
    <3> QED BY <3>1, <3>2, <3>3, Zenon
  <2>2. Listed' = {s \in Listed : s.match # m}
    <3>1. ASSUME NEW s \in Listed' PROVE s \in Listed /\ s.match # m
      <4>1. PICK j \in 1..(Len(rules) - 1) : s = rules'[j] BY <3>1, <2>1 DEF Listed
      <4>2. CASE j < i BY <4>1, <4>2, <2>1, <2>n, <2>l DEF Listed
      <4>3. CASE ~(j < i)
        <5>1. s = rules[j + 1] /\ j + 1 \in 1..Len(rules) /\ j + 1 # i BY <4>1, <4>3, <2>1, <2>l
        <5> QED BY <5>1, <2>n DEF Listed
      <4> QED BY <4>2, <4>3
    <3>2. ASSUME NEW s \in Listed, s.match # m PROVE s \in Listed'
      <4>1. PICK j \in 1..Len(rules) : s = rules[j] BY <3>2 DEF Listed
      <4>2. j # i BY <4>1, <3>2, <2>0
      <4>3. CASE j < i
        <5>1. j \in 1..Len(rules') /\ rules'[j] = s BY <4>1, <4>3, <2>1, <2>l
        <5> QED BY <5>1 DEF Listed
      <4>4. CASE j > i
        <5>1. j - 1 \in 1..Len(rules') /\ rules'[j - 1] = s BY <4>1, <4>4, <2>1, <2>l
        <5> QED BY <5>1 DEF Listed
      <4> QED BY <4>2, <4>3, <4>4, <2>l
    <3> QED BY <3>1, <3>2
  <2>3. Distinct'
    <3> SUFFICES ASSUME NEW j \in 1..Len(rules'), NEW k \in 1..Len(rules'), rules'[j].match = rules'[k].match
                 PROVE  j = k
      BY DEF Distinct
    <3> DEFINE Old(x) == IF x < i THEN x ELSE x + 1
    <3>1. Old(j) \in 1..Len(rules) /\ Old(k) \in 1..Len(rules) /\ rules'[j] = rules[Old(j)] /\ rules'[k] = rules[Old(k)]
      BY <2>1, <2>l
    <3>2. Old(j) = Old(k) BY <3>1 DEF Distinct
    <3> QED BY <3>2, <2>1, <2>l
  <2> QED BY <2>1, <2>2, <2>3 DEF S
<1> QED BY <1>1, <1>2

-----------------------------------------------------------------------------
(* The table: what an addition makes of its entries.                       *)

\* An entry is a rule's or free.
LEMMA EntryType ==
  ASSUME TypeOK, NEW e \in Entries
  PROVE  /\ entry[e] \in [key : Keys, action : Actions] \cup {NoEntry}
         /\ entry[e] # NoEntry => entry[e].key \in Keys
         /\ entry[e].key # None => entry[e] # NoEntry
         /\ entry[e] = NoEntry => entry[e].key = None
BY DEF TypeOK, TableType, NoEntry

\* An addition writes one entry: one that is free or its key's, unless the table may
\* forget a key (hash_lru), and its counters start again.
LEMMA EntryAddProps ==
  ASSUME TypeOK, NEW m \in Matches, NEW a \in Actions, NEW e \in Entries, EntryAdd(m, a, e)
  PROVE  /\ entry' \in TableType /\ counter' \in [Entries -> Nat] /\ hits' \in [Keys -> Nat]
         /\ entry'[e] = [key |-> m.key, action |-> a] /\ counter'[e] = 0 /\ hits'[m.key] = 0
         /\ \A d \in Entries : d # e => entry'[d] = entry[d] /\ counter'[d] = counter[d]
         /\ \A k \in Keys : k # m.key => hits'[k] = hits[k]
         /\ match_type # "hash_lru" => entry[e] = NoEntry \/ entry[e].key = m.key
         /\ entry[e].key = m.key \/ \A d \in Entries : entry[d].key # m.key
         /\ astray' = astray \ {m.key} /\ astray' \subseteq Keys
<1>0. m.key \in Keys /\ m.key # None BY DEF Matches
<1>1. astray' = astray \ {m.key} /\ astray' \subseteq Keys BY DEF EntryAdd, TypeOK
<1>2. entry \in TableType /\ counter \in [Entries -> Nat] /\ hits \in [Keys -> Nat] BY DEF TypeOK
<1>3. /\ entry' = [entry EXCEPT ![e] = [key |-> m.key, action |-> a]]
      /\ counter' = [counter EXCEPT ![e] = 0] /\ hits' = [hits EXCEPT ![m.key] = 0]
      /\ e \in PlacesFor(m.key)
  BY DEF EntryAdd
<1>4. [key |-> m.key, action |-> a] \in [key : Keys, action : Actions] BY <1>0
<1>5. entry' \in TableType BY <1>2, <1>3, <1>4 DEF TableType
<1>6. /\ match_type # "hash_lru" => entry[e] = NoEntry \/ entry[e].key = m.key
      /\ entry[e].key = m.key \/ \A d \in Entries : entry[d].key # m.key
  BY <1>3 DEF PlacesFor, EntriesOf, Free
<1>7. entry'[e] = [key |-> m.key, action |-> a] /\ \A d \in Entries : d # e => entry'[d] = entry[d]
  BY <1>2, <1>3 DEF TableType
<1>8. /\ counter' \in [Entries -> Nat] /\ counter'[e] = 0
      /\ \A d \in Entries : d # e => counter'[d] = counter[d]
  BY <1>2, <1>3
<1>9. /\ hits' \in [Keys -> Nat] /\ hits'[m.key] = 0
      /\ \A k \in Keys : k # m.key => hits'[k] = hits[k]
  BY <1>0, <1>2, <1>3
<1> QED BY <1>1, <1>5, <1>6, <1>7, <1>8, <1>9

\* An addition leaves one entry to every key: it goes over the one its key has.
LEMMA EntryAddUnique ==
  ASSUME TypeOK, UniqueInv, NEW m \in Matches, NEW a \in Actions, NEW e \in Entries, EntryAdd(m, a, e)
  PROVE  OneEntry(entry')
<1>1. m.key \in Keys /\ m.key # None BY DEF Matches
<1>2. /\ entry'[e] = [key |-> m.key, action |-> a]
      /\ \A d \in Entries : d # e => entry'[d] = entry[d]
      /\ entry[e].key = m.key \/ \A d \in Entries : entry[d].key # m.key
  BY TypeOK, EntryAdd(m, a, e), EntryAddProps
<1>3. entry'[e].key = m.key BY <1>2
<1>4. ASSUME NEW d \in Entries, d # e PROVE entry[d].key # m.key
  <2>1. CASE entry[e].key = m.key
    <3>1. entry[e] # NoEntry BY <2>1, <1>1, EntryType
    <3> QED BY <3>1, <2>1, <1>4 DEF UniqueInv, OneEntry
  <2> QED BY <2>1, <1>2
<1>5. \A d \in Entries : d # e => entry'[d] = entry[d] /\ entry'[d].key # m.key
  BY <1>2, <1>4
<1> QED BY <1>3, <1>5 DEF UniqueInv, OneEntry

-----------------------------------------------------------------------------
(* The parts of the invariant that every table keeps: types, where a bulk  *)
(* call is, and that the list has no match and the table no key twice.     *)

CoreInv == TypeOK /\ BulkInv /\ Distinct /\ UniqueInv

LEMMA CoreInit == Init => CoreInv
<1> SUFFICES ASSUME Init PROVE CoreInv OBVIOUS
<1>1. entry \in TableType BY DEF Init, TableType
<1>2. Len(rules) = 0 /\ Len(bulk) = 0 BY DEF Init
<1>3. before = <<entry, counter, hits, astray>> BY DEF Init, NoTable
<1>a. counter \in [Entries -> Nat] /\ hits \in [Keys -> Nat] /\ astray \subseteq Keys BY DEF Init
<1>b. before \in TableType \X [Entries -> Nat] \X [Keys -> Nat] \X SUBSET Keys BY <1>1, <1>a, <1>3
<1>c. rules \in Seq(ListedRules) /\ bulk \in Seq(Rules) BY DEF Init
<1>4. TypeOK BY <1>1, <1>a, <1>b, <1>c DEF Init, TypeOK
<1>5. OneEntry(entry)
  <2>1. \A d \in Entries : entry[d] = NoEntry BY DEF Init
  <2> QED BY <2>1 DEF OneEntry
<1> QED BY <1>2, <1>3, <1>4, <1>5 DEF Init, CoreInv, BulkInv, Distinct, UniqueInv

\* What a match and a rule of a bulk file are.
LEMMA BulkType ==
  ASSUME TypeOK, NEW i \in 1..Len(bulk)
  PROVE  /\ bulk[i].match \in Matches /\ bulk[i].action \in Actions
         /\ bulk[i].match.key \in Keys /\ bulk[i].match.key # None
         /\ \A e \in Entries : [bulk[i] EXCEPT !.data = e] \in Rules
<1> DEFINE S == Rules
<1>1. bulk \in Seq(S) BY DEF TypeOK
<1> HIDE DEF S
<1>2. bulk[i] \in S BY <1>1
<1> QED BY <1>2 DEF S, Rules, Matches

LEMMA AddCore ==
  ASSUME CoreInv, NEW m \in Matches, NEW a \in Actions, pipeline_table_rule_add(m, a)
  PROVE  CoreInv'
<1>1. PICK e \in Entries : EntryAdd(m, a, e) /\ table_rule_add([match |-> m, action |-> a, data |-> e])
  BY DEF pipeline_table_rule_add
<1>2. [match |-> m, action |-> a, data |-> e] \in ListedRules BY DEF ListedRules
<1>3. rules' \in Seq(ListedRules) /\ Distinct'
  BY <1>1, <1>2, AddProps DEF CoreInv, TypeOK
<1>4. entry' \in TableType /\ counter' \in [Entries -> Nat] /\ hits' \in [Keys -> Nat] /\ astray' \subseteq Keys
  BY <1>1, EntryAddProps DEF CoreInv
<1>5. OneEntry(entry') BY <1>1, EntryAddUnique DEF CoreInv, UniqueInv
<1>6. TypeOK' BY <1>3, <1>4 DEF CoreInv, TypeOK, pipeline_table_rule_add, otherVars
<1>7. BulkInv' BY DEF CoreInv, BulkInv, pipeline_table_rule_add, otherVars
<1>8. UniqueInv' BY <1>5 DEF CoreInv, UniqueInv, OneEntry, pipeline_table_rule_add, otherVars
<1> QED BY <1>3, <1>6, <1>7, <1>8 DEF CoreInv

\* What a deletion leaves of the table: it takes the entry of one key, and if that is
\* not its own, both keys are noted.
LEMMA DeleteEntries ==
  ASSUME TypeOK, NEW m \in Matches, pipeline_table_rule_delete(m)
  PROVE  /\ entry' \in TableType /\ astray' \subseteq Keys
         /\ \A d \in Entries : entry'[d] = NoEntry \/ entry'[d] = entry[d]
         /\ m.key \in astray' \/ \A d \in Entries : entry'[d].key # m.key
         /\ \A d \in Entries : entry[d] # NoEntry /\ entry[d].key # m.key /\ entry[d].key \notin astray'
                                => entry'[d] = entry[d]
         /\ \A k \in Keys : k # m.key /\ k \in astray => k \in astray'
<1>0. m.key \in Keys /\ m.key # None BY DEF Matches
<1>1. PICK k \in match_convert(m) :
        /\ entry' = [e \in Entries |-> IF entry[e].key = k THEN NoEntry ELSE entry[e]]
        /\ astray' = (astray \ {m.key}) \cup (IF k = m.key THEN {} ELSE {m.key, k} \cap Keys)
  BY DEF pipeline_table_rule_delete
<1>3. entry \in TableType /\ astray \subseteq Keys BY DEF TypeOK
<1>4. entry' \in TableType BY <1>1, <1>3 DEF TableType
<1>5. \A d \in Entries : entry'[d] = NoEntry \/ entry'[d] = entry[d] BY <1>1
<1>6. m.key \in astray' \/ \A d \in Entries : entry'[d].key # m.key
  <2>1. CASE k = m.key BY <2>1, <1>0, <1>1 DEF NoEntry
  <2>2. CASE k # m.key BY <2>2, <1>0, <1>1
  <2> QED BY <2>1, <2>2
<1>7. ASSUME NEW d \in Entries, entry[d] # NoEntry, entry[d].key # m.key, entry[d].key \notin astray'
      PROVE  entry'[d] = entry[d]
  <2>1. entry[d].key \in Keys BY <1>7, EntryType
  <2>2. entry[d].key # k BY <2>1, <1>1, <1>7
  <2> QED BY <2>2, <1>1
<1>8. astray' \subseteq Keys /\ \A j \in Keys : j # m.key /\ j \in astray => j \in astray'
  BY <1>1, <1>3
<1> QED BY <1>4, <1>5, <1>6, <1>7, <1>8

LEMMA DeleteCore ==
  ASSUME CoreInv, NEW m \in Matches, pipeline_table_rule_delete(m)
  PROVE  CoreInv'
<1>1. rules' \in Seq(ListedRules) /\ Distinct'
  BY DeleteProps DEF CoreInv, TypeOK, pipeline_table_rule_delete
<1>2. /\ entry' \in TableType /\ astray' \subseteq Keys
      /\ \A d \in Entries : entry'[d] = NoEntry \/ entry'[d] = entry[d]
  BY DeleteEntries DEF CoreInv
<1>3. m.key \in Keys BY DEF Matches
<1>4. hits' \in [Keys -> Nat] BY <1>3 DEF CoreInv, TypeOK, pipeline_table_rule_delete
<1>5. OneEntry(entry')
  <2> SUFFICES ASSUME NEW d \in Entries, NEW e \in Entries, entry'[d] # NoEntry, entry'[d].key = entry'[e].key
               PROVE  d = e
    BY DEF OneEntry
  <2>1. entry'[d] = entry[d] /\ entry[d].key # None BY SMTT(60), <1>2, EntryType DEF CoreInv, TypeOK, TableType, NoEntry
  <2>2. entry'[e] = entry[e] BY <1>2, <2>1 DEF NoEntry
  <2> QED BY <2>1, <2>2 DEF CoreInv, UniqueInv, OneEntry
<1>6. TypeOK' BY <1>1, <1>2, <1>4 DEF CoreInv, TypeOK, pipeline_table_rule_delete, otherVars
<1>7. BulkInv' BY DEF CoreInv, BulkInv, pipeline_table_rule_delete, otherVars
<1>8. UniqueInv' BY <1>5 DEF CoreInv, UniqueInv, OneEntry, pipeline_table_rule_delete, otherVars
<1> QED BY <1>1, <1>6, <1>7, <1>8 DEF CoreInv

LEMMA DefaultCore ==
  ASSUME CoreInv, (\E a \in Actions : pipeline_table_rule_add_default(a)) \/ pipeline_table_rule_delete_default
  PROVE  CoreInv'
<1>1. /\ rule_default' \in Actions \cup {None} /\ default_entry' \in Actions \cup {None}
      /\ UNCHANGED <<rules, entry, counter, otherVars, ghosts>>
  BY DEF pipeline_table_rule_add_default, pipeline_table_rule_delete_default
<1>2. TypeOK' BY <1>1 DEF CoreInv, TypeOK, otherVars, ghosts
<1>3. BulkInv' BY <1>1 DEF CoreInv, BulkInv, otherVars
<1>4. Distinct' BY <1>1 DEF CoreInv, Distinct
<1>5. UniqueInv' BY <1>1 DEF CoreInv, UniqueInv, OneEntry, otherVars
<1> QED BY <1>2, <1>3, <1>4, <1>5 DEF CoreInv

\* The list and the entries are as before: enough for Distinct and UniqueInv.
LEMMA SameLists ==
  ASSUME CoreInv, rules' = rules, entry' = entry, before' = before
  PROVE  Distinct' /\ UniqueInv'
BY DEF CoreInv, Distinct, UniqueInv, OneEntry

LEMMA StatsCore ==
  ASSUME CoreInv, NEW m \in Matches, pipeline_table_rule_stats_read(m)
  PROVE  CoreInv'
<1>1. PICK i \in table_rule_find(m) : counter' = [counter EXCEPT ![rules[i].data] = 0]
  BY DEF pipeline_table_rule_stats_read
<1>2. m.key \in Keys BY DEF Matches
<1>3. counter' \in [Entries -> Nat] BY <1>1 DEF CoreInv, TypeOK
<1>4. hits' \in [Keys -> Nat] /\ astray' \subseteq Keys
  BY <1>2 DEF CoreInv, TypeOK, pipeline_table_rule_stats_read
<1>5. UNCHANGED <<listVars, entry, default_entry, otherVars>> BY DEF pipeline_table_rule_stats_read
<1>6. TypeOK' BY <1>3, <1>4, <1>5 DEF CoreInv, TypeOK, listVars, otherVars
<1>7. BulkInv' BY <1>5 DEF CoreInv, BulkInv, otherVars
<1>8. Distinct' /\ UniqueInv' BY <1>5, SameLists DEF listVars, otherVars
<1> QED BY <1>6, <1>7, <1>8 DEF CoreInv

LEMMA PacketCore ==
  ASSUME CoreInv, NEW e \in Entries, packet(e)
  PROVE  CoreInv'
<1>1. entry[e] # NoEntry /\ counter' = [counter EXCEPT ![e] = @ + 1] /\ hits' = [hits EXCEPT ![entry[e].key] = @ + 1]
  BY DEF packet
<1>2. entry[e].key \in Keys BY <1>1, EntryType DEF CoreInv
<1>3. counter' \in [Entries -> Nat] /\ hits' \in [Keys -> Nat] BY SMTT(60), <1>1, <1>2 DEF CoreInv, TypeOK
<1>5. UNCHANGED <<listVars, entry, default_entry, otherVars, astray>> BY DEF packet
<1>6. TypeOK' BY <1>3, <1>5 DEF CoreInv, TypeOK, listVars, otherVars
<1>7. BulkInv' BY <1>5 DEF CoreInv, BulkInv, otherVars
<1>8. Distinct' /\ UniqueInv' BY <1>5, SameLists DEF listVars, otherVars
<1> QED BY <1>6, <1>7, <1>8 DEF CoreInv

LEMMA BulkBeginCore ==
  ASSUME CoreInv, NEW l \in Files, pipeline_table_rule_add_bulk(l)
  PROVE  CoreInv'
<1>1. /\ bulk' = l /\ step' = "table" /\ n' = 0 /\ before' = <<entry, counter, hits, astray>>
      /\ UNCHANGED <<match_type, listVars, tableVars, ghosts>>
  BY DEF pipeline_table_rule_add_bulk
<1>2. l \in Seq(Rules) /\ Len(l) \in Nat
  <2>1. PICK k \in 1..BulkMax : l \in [1..k -> [match : Matches, action : Actions, data : {None}]]
    BY DEF Files
  <2>2. [match : Matches, action : Actions, data : {None}] \subseteq Rules BY DEF Rules
  <2> DEFINE S == Rules
             T == [match : Matches, action : Actions, data : {None}]
  <2> HIDE DEF S, T
  <2>3. l \in [1..k -> T] /\ T \subseteq S /\ k \in Nat BY <2>1, <2>2 DEF S, T
  <2>4. l \in Seq(S) BY <2>3
  <2> QED BY <2>4 DEF S
<1>3. before' \in TableType \X [Entries -> Nat] \X [Keys -> Nat] \X SUBSET Keys BY <1>1 DEF CoreInv, TypeOK
<1>4. TypeOK' BY <1>1, <1>2, <1>3 DEF CoreInv, TypeOK, listVars, tableVars, ghosts
<1>5. BulkInv' BY <1>1, <1>2 DEF BulkInv
<1>6. Distinct' BY <1>1 DEF CoreInv, Distinct, listVars
<1>7. before'[1] = entry /\ entry' = entry BY <1>1 DEF tableVars
<1>8. UniqueInv' BY <1>7 DEF CoreInv, UniqueInv, OneEntry
<1> QED BY <1>4, <1>5, <1>6, <1>8 DEF CoreInv

\* One turn of the loop over the table: the entry is written to the rule.
LEMMA BulkTurn ==
  ASSUME CoreInv, table_rule_add_bulk_ll
  PROVE  \E e \in Entries :
           /\ EntryAdd(bulk[n + 1].match, bulk[n + 1].action, e)
           /\ n + 1 \in 1..Len(bulk) /\ step = "table" /\ step' = "table" /\ n' = n + 1
           /\ bulk' \in Seq(Rules) /\ Len(bulk') = Len(bulk)
           /\ bulk'[n + 1].match = bulk[n + 1].match /\ bulk'[n + 1].action = bulk[n + 1].action
           /\ bulk'[n + 1].data = e
           /\ \A i \in 1..Len(bulk) : i # n + 1 => bulk'[i] = bulk[i]
           /\ UNCHANGED <<match_type, listVars, default_entry, before>>
<1>0. n \in Nat /\ n < Len(bulk) /\ Len(bulk) \in Nat /\ n + 1 \in 1..Len(bulk)
  BY DEF CoreInv, TypeOK, table_rule_add_bulk_ll
<1>1. PICK e \in Entries :
        /\ EntryAdd(bulk[n + 1].match, bulk[n + 1].action, e)
        /\ bulk' = [bulk EXCEPT ![n + 1] = [match |-> @.match, action |-> @.action, data |-> e]]
  BY DEF table_rule_add_bulk_ll
<1> DEFINE S == Rules
           r == [match |-> bulk[n + 1].match, action |-> bulk[n + 1].action, data |-> e]
<1>2. r \in S BY <1>0, BulkType DEF CoreInv, Rules
<1>3. r.match = bulk[n + 1].match /\ r.action = bulk[n + 1].action /\ r.data = e OBVIOUS
<1>4. bulk \in Seq(S) /\ bulk' = [bulk EXCEPT ![n + 1] = r] BY <1>1 DEF CoreInv, TypeOK
<1> HIDE DEF S, r
<1>5. /\ bulk' \in Seq(S) /\ Len(bulk') = Len(bulk) /\ bulk'[n + 1] = r
      /\ \A i \in 1..Len(bulk) : i # n + 1 => bulk'[i] = bulk[i]
  BY <1>0, <1>2, <1>4
<1> QED BY <1>0, <1>1, <1>3, <1>5 DEF S, table_rule_add_bulk_ll

LEMMA BulkTurnCore ==
  ASSUME CoreInv, table_rule_add_bulk_ll
  PROVE  CoreInv'
<1>1. PICK e \in Entries :
           /\ EntryAdd(bulk[n + 1].match, bulk[n + 1].action, e)
           /\ n + 1 \in 1..Len(bulk) /\ step = "table" /\ step' = "table" /\ n' = n + 1
           /\ bulk' \in Seq(Rules) /\ Len(bulk') = Len(bulk)
           /\ bulk'[n + 1].data = e
           /\ \A i \in 1..Len(bulk) : i # n + 1 => bulk'[i] = bulk[i]
           /\ UNCHANGED <<match_type, listVars, default_entry, before>>
  BY BulkTurn
<1>2. bulk[n + 1].match \in Matches /\ bulk[n + 1].action \in Actions
  BY <1>1, BulkType DEF CoreInv
<1>3. entry' \in TableType /\ counter' \in [Entries -> Nat] /\ hits' \in [Keys -> Nat] /\ astray' \subseteq Keys
  BY <1>1, <1>2, EntryAddProps DEF CoreInv
<1>4. OneEntry(entry') BY <1>1, <1>2, EntryAddUnique DEF CoreInv
<1>5. TypeOK' BY <1>1, <1>3 DEF CoreInv, TypeOK, listVars
<1>6. BulkInv'
  <2>1. n \in Nat /\ Len(bulk) \in Nat /\ \A i \in 1..n : bulk[i].data \in Entries
    BY <1>1 DEF CoreInv, TypeOK, BulkInv
  <2>2. \A i \in 1..(n + 1) : bulk'[i].data \in Entries
    <3> SUFFICES ASSUME NEW i \in 1..(n + 1) PROVE bulk'[i].data \in Entries OBVIOUS
    <3>1. CASE i = n + 1 BY <3>1, <1>1
    <3>2. CASE i # n + 1
      <4>1. i \in 1..n /\ i \in 1..Len(bulk) BY <3>2, <2>1, <1>1
      <4> QED BY <4>1, <3>2, <2>1, <1>1
    <3> QED BY <3>1, <3>2
  <2> QED BY <1>1, <2>1, <2>2 DEF BulkInv
<1>7. Distinct' BY <1>1 DEF CoreInv, Distinct, listVars
<1>8. UniqueInv' BY <1>1, <1>4 DEF CoreInv, UniqueInv, OneEntry
<1> QED BY <1>5, <1>6, <1>7, <1>8 DEF CoreInv

\* What goes to the list: the rules that were added, as they are.
LEMMA ToListProps ==
  ASSUME CoreInv, bulk_to_list
  PROVE  /\ step = "table" /\ step' = "list" /\ n' = 0 /\ n \in 1..Len(bulk) /\ Len(bulk) \in Nat
         /\ bulk' \in Seq(ListedRules) /\ Len(bulk') = n
         /\ \A i \in 1..n : bulk'[i] = bulk[i]
         /\ UNCHANGED <<match_type, listVars, tableVars, before, ghosts>>
<1>1. /\ step = "table" /\ step' = "list" /\ n' = 0 /\ n > 0
      /\ bulk' = SubSeq(bulk, 1, n)
      /\ UNCHANGED <<match_type, listVars, tableVars, before, ghosts>>
  BY DEF bulk_to_list, ToList, TableDone
<1>2. Len(bulk) \in Nat /\ n \in 1..Len(bulk) /\ bulk \in Seq(Rules) /\ \A i \in 1..n : bulk[i].data \in Entries
  BY <1>1 DEF CoreInv, TypeOK, BulkInv
<1> DEFINE S == ListedRules
           T == Rules
<1>3. \A i \in 1..n : bulk[i] \in S
  <2> SUFFICES ASSUME NEW i \in 1..n PROVE bulk[i] \in S OBVIOUS
  <2>1. bulk[i] \in T
    <3> HIDE DEF T
    <3>1. bulk \in Seq(T) BY <1>2 DEF T
    <3> QED BY <3>1, <1>2
  <2> QED BY <2>1, <1>2 DEF Rules, ListedRules
<1> HIDE DEF S
<1>4. /\ bulk' \in Seq(S) /\ Len(bulk') = IF 1 <= n THEN n - 1 + 1 ELSE 0
      /\ \A i \in 1..(n - 1 + 1) : bulk'[i] = bulk[1 + i - 1]
  <2>1. 1 \in Int /\ n \in Int BY <1>2
  <2> QED BY <1>1, <1>3, <2>1, SubSeqProperties
<1>5. Len(bulk') = n BY <1>4, <1>2
<1>6. \A i \in 1..n : bulk'[i] = bulk[i]
  <2> SUFFICES ASSUME NEW i \in 1..n PROVE bulk'[i] = bulk[i] OBVIOUS
  <2>1. i \in 1..(n - 1 + 1) /\ 1 + i - 1 = i BY <1>2
  <2> QED BY <2>1, <1>4
<1> QED BY <1>1, <1>2, <1>4, <1>5, <1>6 DEF S

LEMMA ToListCore ==
  ASSUME CoreInv, bulk_to_list
  PROVE  CoreInv'
<1>1. /\ step' = "list" /\ n' = 0 /\ bulk' \in Seq(ListedRules)
      /\ UNCHANGED <<match_type, listVars, tableVars, before, ghosts>>
  BY ToListProps
<1>2. bulk' \in Seq(Rules) /\ Len(bulk') \in Nat
  <2> DEFINE S == ListedRules
             T == Rules
  <2>1. S \subseteq T BY DEF ListedRules, Rules
  <2>2. bulk' \in Seq(S) BY <1>1
  <2> HIDE DEF S, T
  <2>3. bulk' \in Seq(T) BY <2>1, <2>2
  <2> QED BY <2>3 DEF T
<1>3. TypeOK' BY <1>1, <1>2 DEF CoreInv, TypeOK, listVars, tableVars, ghosts
<1>4. BulkInv' BY <1>1, <1>2 DEF BulkInv
<1>5. Distinct' /\ UniqueInv' BY <1>1, SameLists DEF listVars, tableVars
<1> QED BY <1>3, <1>4, <1>5 DEF CoreInv

\* The call is over, whatever it did, with no table to go back to.
LEMMA EndBulkInv ==
  ASSUME EndBulk
  PROVE  /\ BulkInv' /\ bulk' \in Seq(Rules) /\ step' = "idle" /\ n' = 0
         /\ before' \in TableType \X [Entries -> Nat] \X [Keys -> Nat] \X SUBSET Keys
         /\ OneEntry(before'[1]) /\ match_type' = match_type
<1>1. BulkInv' /\ bulk' \in Seq(Rules) /\ step' = "idle" /\ n' = 0 /\ match_type' = match_type
  BY DEF EndBulk, BulkInv
<1>2. before' = <<[e \in Entries |-> NoEntry], [e \in Entries |-> 0], [k \in Keys |-> 0], {}>>
  BY DEF EndBulk, NoTable
<1>3. [e \in Entries |-> NoEntry] \in TableType BY DEF TableType
<1>4. before' \in TableType \X [Entries -> Nat] \X [Keys -> Nat] \X SUBSET Keys BY <1>2, <1>3
<1>5. before'[1] = [e \in Entries |-> NoEntry] BY <1>2
<1>6. \A e \in Entries : before'[1][e] = NoEntry BY <1>5
<1> QED BY <1>1, <1>4, <1>6 DEF OneEntry

LEMMA FailsCore ==
  ASSUME CoreInv, bulk_fails
  PROVE  CoreInv'
<1>1. /\ entry' = before[1] /\ counter' = before[2] /\ hits' = before[3] /\ astray' = before[4] /\ EndBulk
      /\ UNCHANGED <<listVars, default_entry>>
  BY DEF bulk_fails
<1>2. entry' \in TableType /\ counter' \in [Entries -> Nat] /\ hits' \in [Keys -> Nat] /\ astray' \subseteq Keys
  BY <1>1 DEF CoreInv, TypeOK
<1>4. TypeOK' BY <1>1, <1>2, EndBulkInv DEF CoreInv, TypeOK, listVars
<1>5. Distinct' BY <1>1 DEF CoreInv, Distinct, listVars
<1>6. UniqueInv' BY <1>1, EndBulkInv DEF CoreInv, UniqueInv, OneEntry
<1> QED BY <1>1, <1>4, <1>5, <1>6, EndBulkInv DEF CoreInv

\* One turn of the loop over the list.
LEMMA BulkListTurn ==
  ASSUME CoreInv, table_rule_add_bulk
  PROVE  /\ step = "list" /\ n + 1 \in 1..Len(bulk) /\ Len(bulk) \in Nat /\ n' = n + 1
         /\ bulk[n + 1] \in ListedRules
         /\ rules' \in Seq(ListedRules) /\ Distinct'
         /\ Listed' = {s \in Listed : s.match # bulk[n + 1].match} \cup {bulk[n + 1]}
         /\ UNCHANGED <<match_type, rule_default, tableVars, bulk, step, before, ghosts>>
<1>1. /\ step = "list" /\ n < Len(bulk) /\ table_rule_add(bulk[n + 1]) /\ n' = n + 1
      /\ UNCHANGED <<match_type, rule_default, tableVars, bulk, step, before, ghosts>>
  BY DEF table_rule_add_bulk
<1>2. n \in Nat /\ Len(bulk) \in Nat /\ n + 1 \in 1..Len(bulk) BY <1>1 DEF CoreInv, TypeOK
<1>3. bulk[n + 1] \in ListedRules
  <2> DEFINE S == ListedRules
  <2>1. bulk \in Seq(S) BY <1>1 DEF CoreInv, BulkInv
  <2> HIDE DEF S
  <2>2. bulk[n + 1] \in S BY <2>1, <1>2
  <2> QED BY <2>2 DEF S
<1>4. PICK r : r = bulk[n + 1] OBVIOUS
<1>5. rules \in Seq(ListedRules) /\ r \in ListedRules /\ table_rule_add(r) /\ Distinct
  BY <1>1, <1>3, <1>4 DEF CoreInv, TypeOK
<1>6. rules' \in Seq(ListedRules) /\ Distinct' /\ Listed' = {s \in Listed : s.match # r.match} \cup {r}
  BY <1>5, AddProps
<1> QED BY <1>1, <1>2, <1>3, <1>4, <1>6

LEMMA BulkListTurnCore ==
  ASSUME CoreInv, table_rule_add_bulk
  PROVE  CoreInv'
<1>1. /\ n + 1 \in 1..Len(bulk) /\ n' = n + 1 /\ step = "list"
      /\ rules' \in Seq(ListedRules) /\ Distinct'
      /\ UNCHANGED <<match_type, rule_default, tableVars, bulk, step, before, ghosts>>
  BY BulkListTurn
<1>2. TypeOK' BY <1>1 DEF CoreInv, TypeOK, tableVars, ghosts
<1>3. BulkInv' BY <1>1 DEF CoreInv, BulkInv
<1>4. UniqueInv' BY <1>1 DEF CoreInv, UniqueInv, OneEntry, tableVars
<1> QED BY <1>1, <1>2, <1>3, <1>4 DEF CoreInv

LEMMA DoneCore ==
  ASSUME CoreInv, bulk_done
  PROVE  CoreInv'
<1>1. EndBulk /\ UNCHANGED <<listVars, tableVars, ghosts>> BY DEF bulk_done
<1>3. TypeOK' BY <1>1, EndBulkInv DEF CoreInv, TypeOK, listVars, tableVars, ghosts
<1>4. Distinct' BY <1>1 DEF CoreInv, Distinct, listVars
<1>5. UniqueInv' BY <1>1, EndBulkInv DEF CoreInv, UniqueInv, OneEntry, tableVars
<1> QED BY <1>1, <1>3, <1>4, <1>5, EndBulkInv DEF CoreInv

LEMMA StutterCore == CoreInv /\ UNCHANGED vars => CoreInv'
<1> SUFFICES ASSUME CoreInv, UNCHANGED vars PROVE CoreInv' OBVIOUS
<1>1. TypeOK' BY DEF CoreInv, TypeOK, vars, listVars, tableVars, otherVars, ghosts
<1>2. BulkInv' BY DEF CoreInv, BulkInv, vars, otherVars
<1>3. Distinct' /\ UniqueInv' BY SameLists DEF vars, listVars, tableVars, otherVars
<1> QED BY <1>1, <1>2, <1>3 DEF CoreInv

LEMMA NextCore == CoreInv /\ [Next]_vars => CoreInv'
<1> SUFFICES ASSUME CoreInv, [Next]_vars PROVE CoreInv' OBVIOUS
<1>1. ASSUME NEW m \in Matches, NEW a \in Actions, pipeline_table_rule_add(m, a) PROVE CoreInv'
  BY <1>1, AddCore
<1>2. ASSUME NEW m \in Matches, pipeline_table_rule_delete(m) PROVE CoreInv' BY <1>2, DeleteCore
<1>3. ASSUME NEW m \in Matches, pipeline_table_rule_stats_read(m) PROVE CoreInv' BY <1>3, StatsCore
<1>4. ASSUME NEW a \in Actions, pipeline_table_rule_add_default(a) PROVE CoreInv' BY <1>4, DefaultCore
<1>5. CASE pipeline_table_rule_delete_default BY <1>5, DefaultCore
<1>6. ASSUME NEW l \in Files, pipeline_table_rule_add_bulk(l) PROVE CoreInv' BY <1>6, BulkBeginCore
<1>7. CASE table_rule_add_bulk_ll BY <1>7, BulkTurnCore
<1>8. CASE bulk_to_list BY <1>8, ToListCore
<1>9. CASE bulk_fails BY <1>9, FailsCore
<1>10. CASE table_rule_add_bulk BY <1>10, BulkListTurnCore
<1>11. CASE bulk_done BY <1>11, DoneCore
<1>12. ASSUME NEW e \in Entries, packet(e) PROVE CoreInv' BY <1>12, PacketCore
<1>13. CASE UNCHANGED vars BY <1>13, StutterCore
<1> QED
  BY <1>1, <1>2, <1>3, <1>4, <1>5, <1>6, <1>7, <1>8, <1>9, <1>10, <1>11, <1>12, <1>13 DEF Next

\* Types, the place of a bulk call, no match listed twice and no key twice in the table:
\* in every reachable state.
THEOREM CoreHolds == Spec => []CoreInv
BY CoreInit, NextCore, PTL DEF Spec

\* A listed rule has an entry (rule->data is never NULL), and a bulk call is where its
\* loops put it.
THEOREM TypeCorrect == Spec => []TypeOK
<1>1. CoreInv => TypeOK BY DEF CoreInv
<1> QED BY CoreHolds, <1>1, PTL

\* table_rule_find has never two rules to choose from, also while a bulk call moves its
\* rules to the list.
THEOREM ListedOnce == Spec => []Distinct
<1>1. CoreInv => Distinct BY DEF CoreInv
<1> QED BY CoreHolds, <1>1, PTL

-----------------------------------------------------------------------------
(* The table has nothing that the list hides.                              *)

\* Between calls no rule is on its way to the list.
LEMMA NothingPending == CoreInv /\ Idle => Pending = {}
BY DEF CoreInv, BulkInv, Idle, Pending

\* Nor is one after a step that ends a call.
LEMMA NothingPendingNext == BulkInv' /\ Idle' => Pending' = {}
BY DEF BulkInv, Idle, Pending

\* Neither the list nor the entries nor the bulk call have changed.
LEMMA HiddenSame ==
  ASSUME HiddenInv, UNCHANGED <<rules, entry, otherVars>>, astray \subseteq astray'
  PROVE  HiddenInv'
<1>1. Listed' = Listed BY DEF Listed
<1>2. Pending' = Pending BY DEF Pending, otherVars
<1> QED BY <1>1, <1>2 DEF HiddenInv, otherVars

\* A table whose entries are all listed, with no rule on its way.
AllListed(table, wrong) ==
  \A e \in Entries : table[e] # NoEntry /\ table[e].key \notin wrong => \E r \in Listed : r.match.key = table[e].key

\* Between calls every entry is a listed rule's.
LEMMA HiddenIdle ==
  ASSUME CoreInv, HiddenInv, Idle
  PROVE  AllListed(entry, astray)
BY NothingPending DEF HiddenInv, AllListed

LEMMA AddHidden ==
  ASSUME CoreInv, HiddenInv, NEW m \in Matches, NEW a \in Actions, pipeline_table_rule_add(m, a), CoreInv'
  PROVE  HiddenInv'
<1>1. PICK e \in Entries : EntryAdd(m, a, e) /\ table_rule_add([match |-> m, action |-> a, data |-> e])
  BY DEF pipeline_table_rule_add
<1>2. PICK r : r = [match |-> m, action |-> a, data |-> e] OBVIOUS
<1>3. r \in ListedRules /\ table_rule_add(r) /\ rules \in Seq(ListedRules)
  BY <1>1, <1>2 DEF ListedRules, CoreInv, TypeOK
<1>4. Listed' = {s \in Listed : s.match # r.match} \cup {r} BY <1>3, AddProps
<1>5. /\ entry'[e] = [key |-> m.key, action |-> a] /\ \A d \in Entries : d # e => entry'[d] = entry[d]
      /\ astray' = astray \ {m.key}
  BY <1>1, EntryAddProps DEF CoreInv
<1>6. Idle /\ step' = step BY DEF pipeline_table_rule_add, otherVars
<1>7. AllListed(entry, astray) BY <1>6, HiddenIdle
<1>8. ASSUME NEW d \in Entries, entry'[d] # NoEntry, entry'[d].key \notin astray'
      PROVE  \E s \in Listed' : s.match.key = entry'[d].key
  <2>0. r \in Listed' /\ r.match = m BY <1>2, <1>4
  <2>1. CASE entry'[d].key = m.key BY <2>0, <2>1
  <2>2. CASE entry'[d].key # m.key
    <3>0. d # e /\ entry'[d].key \notin astray BY <2>2, <1>5, <1>8
    <3>1. PICK s \in Listed : s.match.key = entry'[d].key BY <3>0, <1>5, <1>7, <1>8 DEF AllListed
    <3>2. s \in Listed' \/ s.match = m BY <1>4, <2>0
    <3> QED BY <3>1, <3>2, <2>0
  <2> QED BY <2>1, <2>2
<1> QED BY <1>6, <1>8 DEF HiddenInv, Idle

LEMMA DeleteHidden ==
  ASSUME CoreInv, HiddenInv, NEW m \in Matches, pipeline_table_rule_delete(m), CoreInv'
  PROVE  HiddenInv'
<1>1. Listed' = {s \in Listed : s.match # m}
  BY DeleteProps DEF CoreInv, TypeOK, pipeline_table_rule_delete
<1>2. /\ \A d \in Entries : entry'[d] = NoEntry \/ entry'[d] = entry[d]
      /\ m.key \in astray' \/ \A d \in Entries : entry'[d].key # m.key
      /\ \A k \in Keys : k # m.key /\ k \in astray => k \in astray'
  BY DeleteEntries DEF CoreInv
<1>3. Idle /\ step' = step BY DEF pipeline_table_rule_delete, otherVars
<1>4. AllListed(entry, astray) BY <1>3, HiddenIdle
<1>5. ASSUME NEW d \in Entries, entry'[d] # NoEntry, entry'[d].key \notin astray'
      PROVE  \E s \in Listed' : s.match.key = entry'[d].key
  <2>1. entry'[d] = entry[d] /\ entry'[d].key # m.key BY <1>2, <1>5
  <2>2. entry[d].key \in Keys BY <2>1, <1>5, EntryType DEF CoreInv
  <2>3. entry[d].key \notin astray BY <2>1, <2>2, <1>2, <1>5
  <2>4. PICK s \in Listed : s.match.key = entry'[d].key BY <2>1, <2>3, <1>4, <1>5 DEF AllListed
  <2>5. s.match # m BY <2>1, <2>4
  <2> QED BY <2>4, <2>5, <1>1
<1> QED BY <1>3, <1>5 DEF HiddenInv, Idle

LEMMA BulkBeginHidden ==
  ASSUME CoreInv, HiddenInv, NEW l \in Files, pipeline_table_rule_add_bulk(l)
  PROVE  HiddenInv'
<1>1. Idle /\ before' = <<entry, counter, hits, astray>> /\ entry' = entry /\ rules' = rules /\ astray' = astray
  BY DEF pipeline_table_rule_add_bulk, listVars, tableVars, ghosts
<1>2. before'[1] = entry /\ before'[4] = astray BY <1>1
<1>3. Listed' = Listed BY <1>1 DEF Listed
<1>4. AllListed(entry, astray) BY <1>1, HiddenIdle
<1> QED BY <1>1, <1>2, <1>3, <1>4 DEF HiddenInv, AllListed

LEMMA BulkTurnHidden ==
  ASSUME CoreInv, HiddenInv, table_rule_add_bulk_ll
  PROVE  HiddenInv'
<1>1. PICK e \in Entries :
           /\ EntryAdd(bulk[n + 1].match, bulk[n + 1].action, e)
           /\ n + 1 \in 1..Len(bulk) /\ step = "table" /\ step' = "table" /\ n' = n + 1
           /\ bulk'[n + 1].match = bulk[n + 1].match
           /\ \A i \in 1..Len(bulk) : i # n + 1 => bulk'[i] = bulk[i]
           /\ UNCHANGED <<match_type, listVars, before>>
  BY BulkTurn
<1>2. bulk[n + 1].match \in Matches /\ bulk[n + 1].action \in Actions
  BY <1>1, BulkType DEF CoreInv
<1>3. /\ entry'[e] = [key |-> bulk[n + 1].match.key, action |-> bulk[n + 1].action]
      /\ \A d \in Entries : d # e => entry'[d] = entry[d]
      /\ astray' = astray \ {bulk[n + 1].match.key}
  BY <1>1, <1>2, EntryAddProps DEF CoreInv
<1>4. Listed' = Listed BY <1>1 DEF Listed, listVars
<1>5. n \in Nat /\ Len(bulk) \in Nat /\ Pending = 1..n /\ Pending' = 1..(n + 1)
  BY <1>1 DEF CoreInv, TypeOK, Pending
<1>6. \A j \in Pending : j \in Pending' /\ bulk'[j].match = bulk[j].match
  <2> SUFFICES ASSUME NEW j \in Pending PROVE j \in Pending' /\ bulk'[j].match = bulk[j].match OBVIOUS
  <2>1. j \in 1..(n + 1) /\ j \in 1..Len(bulk) /\ j # n + 1 BY <1>1, <1>5
  <2> QED BY <2>1, <1>1, <1>5
<1>7. n + 1 \in Pending' BY <1>5
<1>8. ASSUME NEW d \in Entries, entry'[d] # NoEntry, entry'[d].key \notin astray'
      PROVE  \/ \E r \in Listed' : r.match.key = entry'[d].key
             \/ \E j \in Pending' : bulk'[j].match.key = entry'[d].key
  <2>1. CASE entry'[d].key = bulk[n + 1].match.key
    <3>1. bulk'[n + 1].match.key = entry'[d].key BY <2>1, <1>1
    <3> QED BY <3>1, <1>7
  <2>2. CASE entry'[d].key # bulk[n + 1].match.key
    <3>0. d # e BY <2>2, <1>3
    <3>1. entry'[d] = entry[d] /\ entry[d].key \notin astray BY <3>0, <2>2, <1>3, <1>8
    <3>2. \/ \E r \in Listed : r.match.key = entry[d].key
          \/ \E j \in Pending : bulk[j].match.key = entry[d].key
      BY <3>1, <1>8 DEF HiddenInv
    <3> QED BY <3>1, <3>2, <1>4, <1>6
  <2> QED BY <2>1, <2>2
<1>9. \A d \in Entries : before'[1][d] # NoEntry =>
        before'[1][d].key \in before'[4] \/ \E r \in Listed' : r.match.key = before'[1][d].key
  BY <1>1, <1>4 DEF HiddenInv
<1> QED BY <1>8, <1>9 DEF HiddenInv

LEMMA ToListHidden ==
  ASSUME CoreInv, HiddenInv, bulk_to_list
  PROVE  HiddenInv'
<1>1. /\ step = "table" /\ step' = "list" /\ n' = 0 /\ n \in 1..Len(bulk) /\ Len(bulk) \in Nat
      /\ Len(bulk') = n
      /\ \A i \in 1..n : bulk'[i] = bulk[i]
      /\ UNCHANGED <<match_type, listVars, tableVars, before, ghosts>>
  BY ToListProps
<1>2. Pending = 1..n /\ Pending' = 1..n BY <1>1 DEF Pending
<1>3. Listed' = Listed /\ entry' = entry /\ astray' = astray BY <1>1 DEF Listed, listVars, tableVars, ghosts
<1> QED BY SMTT(60), <1>1, <1>2, <1>3 DEF HiddenInv

LEMMA FailsHidden ==
  ASSUME CoreInv, HiddenInv, bulk_fails
  PROVE  HiddenInv'
<1>1. step = "table" /\ entry' = before[1] /\ astray' = before[4] /\ EndBulk /\ UNCHANGED listVars
  BY DEF bulk_fails, AddFails
<1>2. Listed' = Listed /\ step' = "idle"
  BY <1>1 DEF Listed, listVars, EndBulk
<1> QED BY <1>1, <1>2 DEF HiddenInv

LEMMA BulkListTurnHidden ==
  ASSUME CoreInv, HiddenInv, table_rule_add_bulk
  PROVE  HiddenInv'
<1>1. /\ step = "list" /\ n + 1 \in 1..Len(bulk) /\ Len(bulk) \in Nat /\ n' = n + 1
      /\ Listed' = {s \in Listed : s.match # bulk[n + 1].match} \cup {bulk[n + 1]}
      /\ UNCHANGED <<match_type, tableVars, bulk, step, ghosts>>
  BY BulkListTurn
<1>2. n \in Nat /\ Pending = (n + 1)..Len(bulk) /\ Pending' = ((n + 1) + 1)..Len(bulk)
  BY <1>1 DEF CoreInv, TypeOK, Pending
<1>3. \A j \in Pending : j = n + 1 \/ j \in Pending' BY <1>1, <1>2
<1>4. bulk[n + 1] \in Listed' BY <1>1
<1>5. \A s \in Listed : s \in Listed' \/ s.match = bulk[n + 1].match BY <1>1
<1>6. bulk' = bulk /\ entry' = entry /\ astray' = astray /\ step' # "table" BY <1>1 DEF tableVars, ghosts
<1>7. ASSUME NEW d \in Entries, entry[d] # NoEntry, entry[d].key \notin astray
      PROVE  \/ \E r \in Listed' : r.match.key = entry[d].key
             \/ \E j \in Pending' : bulk[j].match.key = entry[d].key
  <2>1. CASE \E r \in Listed : r.match.key = entry[d].key BY <2>1, <1>4, <1>5
  <2>2. CASE \E j \in Pending : bulk[j].match.key = entry[d].key BY <2>2, <1>3, <1>4
  <2> QED BY <2>1, <2>2, <1>7 DEF HiddenInv
<1> QED BY <1>6, <1>7 DEF HiddenInv

LEMMA DoneHidden ==
  ASSUME CoreInv, HiddenInv, bulk_done
  PROVE  HiddenInv'
<1>1. /\ step = "list" /\ n = Len(bulk) /\ EndBulk /\ UNCHANGED <<listVars, tableVars, ghosts>> BY DEF bulk_done
<1>2. Listed' = Listed /\ entry' = entry /\ astray' = astray /\ step' = "idle"
  BY <1>1 DEF Listed, listVars, tableVars, ghosts, EndBulk
<1>3. Pending = {} BY <1>1 DEF Pending, CoreInv, TypeOK
<1> QED BY <1>2, <1>3 DEF HiddenInv

LEMMA HiddenInit == Init => HiddenInv
<1> SUFFICES ASSUME Init PROVE HiddenInv OBVIOUS
<1>1. step = "idle" /\ \A e \in Entries : entry[e] = NoEntry BY DEF Init
<1> QED BY <1>1 DEF HiddenInv

LEMMA NextHidden == CoreInv /\ HiddenInv /\ [Next]_vars => HiddenInv'
<1> SUFFICES ASSUME CoreInv, HiddenInv, [Next]_vars PROVE HiddenInv' OBVIOUS
<1>0. CoreInv' BY NextCore
<1>1. ASSUME NEW m \in Matches, NEW a \in Actions, pipeline_table_rule_add(m, a) PROVE HiddenInv'
  BY <1>0, <1>1, AddHidden
<1>2. ASSUME NEW m \in Matches, pipeline_table_rule_delete(m) PROVE HiddenInv' BY <1>0, <1>2, DeleteHidden
<1>3. ASSUME NEW m \in Matches, pipeline_table_rule_stats_read(m) PROVE HiddenInv'
  BY <1>3, HiddenSame DEF pipeline_table_rule_stats_read, listVars
<1>4. ASSUME NEW a \in Actions, pipeline_table_rule_add_default(a) PROVE HiddenInv'
  BY <1>4, HiddenSame DEF pipeline_table_rule_add_default, ghosts
<1>5. CASE pipeline_table_rule_delete_default BY <1>5, HiddenSame DEF pipeline_table_rule_delete_default, ghosts
<1>6. ASSUME NEW l \in Files, pipeline_table_rule_add_bulk(l) PROVE HiddenInv' BY <1>6, BulkBeginHidden
<1>7. CASE table_rule_add_bulk_ll BY <1>7, BulkTurnHidden
<1>8. CASE bulk_to_list BY <1>8, ToListHidden
<1>9. CASE bulk_fails BY <1>9, FailsHidden
<1>10. CASE table_rule_add_bulk BY <1>10, BulkListTurnHidden
<1>11. CASE bulk_done BY <1>11, DoneHidden
<1>12. ASSUME NEW e \in Entries, packet(e) PROVE HiddenInv'
  BY <1>12, HiddenSame DEF packet, listVars
<1>13. CASE UNCHANGED vars BY <1>13, HiddenSame DEF vars, listVars, tableVars, ghosts
<1> QED
  BY <1>1, <1>2, <1>3, <1>4, <1>5, <1>6, <1>7, <1>8, <1>9, <1>10, <1>11, <1>12, <1>13 DEF Next

\* A rule that the table acts on can be seen and deleted, also after a bulk call that
\* stopped halfway, for any number of rules of one key that differ in the rest, unless a
\* deletion from an ACL table has missed it.
THEOREM NothingHidden == Spec => []NoHidden
<1>1. CoreInv /\ HiddenInv => NoHidden
  <2> SUFFICES ASSUME CoreInv, HiddenInv, Idle PROVE AllListed(entry, astray)
    BY DEF NoHidden, AllListed
  <2> QED BY HiddenIdle
<1>2. Spec => [](CoreInv /\ HiddenInv)
  BY CoreInit, HiddenInit, NextCore, NextHidden, PTL DEF Spec
<1> QED BY <1>1, <1>2, PTL

-----------------------------------------------------------------------------
(* The list tells what is in the table.  Where two rules may differ in     *)
(* the rest of the match only, the table keeps the last of them and the    *)
(* list both: so this is about tables whose matches are told apart by the  *)
(* key.                                                                    *)

MatchIsKey == \A x, y \in Extras : x = y

\* Two matches of one key are one match: there is nothing else to tell them apart.
LEMMA SameKey ==
  ASSUME MatchIsKey, NEW p \in Matches, NEW q \in Matches, p.key = q.key
  PROVE  p = q
BY DEF MatchIsKey, Matches

\* What InTable is about.
LEMMA ListedFields ==
  ASSUME CoreInv, NEW r \in Listed
  PROVE  r.match \in Matches /\ r.data \in Entries /\ r.match.key \in Keys /\ r.match.key # None
<1>1. r \in ListedRules BY ListedType DEF CoreInv, TypeOK
<1> QED BY <1>1 DEF ListedRules, Matches

\* A rule on its way has a match and an entry.
LEMMA PendingFields ==
  ASSUME CoreInv, NEW i \in Pending
  PROVE  /\ i \in 1..Len(bulk) /\ i \in Nat
         /\ bulk[i].match \in Matches /\ bulk[i].data \in Entries
         /\ bulk[i].match.key \in Keys /\ bulk[i].match.key # None
<1>0. n \in Nat /\ Len(bulk) \in Nat /\ n <= Len(bulk) BY DEF CoreInv, TypeOK, BulkInv
<1>1. i \in 1..Len(bulk) /\ i \in Nat BY <1>0 DEF Pending
<1>2. bulk[i].data \in Entries
  <2>1. CASE step = "table" BY <2>1 DEF CoreInv, BulkInv, Pending
  <2>2. CASE step = "list"
    <3> DEFINE S == ListedRules
    <3>1. bulk \in Seq(S) BY <2>2 DEF CoreInv, BulkInv
    <3> HIDE DEF S
    <3>2. bulk[i] \in S BY <1>1, <3>1
    <3> QED BY <3>2 DEF S, ListedRules
  <2>3. CASE step = "idle"
    <3>1. Pending = {} BY <2>3, NothingPending DEF Idle
    <3> QED BY <3>1
  <2> QED BY <2>1, <2>2, <2>3 DEF CoreInv, TypeOK
<1> QED BY <1>1, <1>2, BulkType DEF CoreInv

\* An addition leaves the other rules true, and makes its own true.
LEMMA AddKeeps ==
  ASSUME CoreInv, MatchIsKey, match_type # "hash_lru",
         NEW m \in Matches, NEW a \in Actions, NEW e \in Entries, EntryAdd(m, a, e),
         NEW r, r.match \in Matches, r.data \in Entries, r.match # m, Told(r)
  PROVE  TrueNext(r)
<1>1. r.match.key # m.key BY SameKey
<1>2. r.match.key \in Keys /\ r.match.key # None BY DEF Matches
<1>0. astray' = astray \ {m.key}
  <2>1. TypeOK BY DEF CoreInv
  <2> QED BY <2>1, EntryAdd(m, a, e), EntryAddProps
<1>a. CASE r.match.key \in astray BY <1>a, <1>0, <1>1 DEF TrueNext, TrueOf
<1> SUFFICES ASSUME r.match.key \notin astray PROVE TrueNext(r) BY <1>a
<1>i. InTable(r, entry, counter, hits) BY DEF Told, TrueOf
<1>3. entry[r.data].key = r.match.key BY <1>i DEF InTable
<1>4. entry[r.data] # NoEntry BY <1>2, <1>3, EntryType DEF CoreInv
<1>5. /\ match_type # "hash_lru" => entry[e] = NoEntry \/ entry[e].key = m.key
      /\ \A d \in Entries : d # e => entry'[d] = entry[d] /\ counter'[d] = counter[d]
      /\ \A k \in Keys : k # m.key => hits'[k] = hits[k]
  <2>1. TypeOK BY DEF CoreInv
  <2>2. /\ entry' \in TableType /\ counter' \in [Entries -> Nat] /\ hits' \in [Keys -> Nat]
        /\ entry'[e] = [key |-> m.key, action |-> a] /\ counter'[e] = 0 /\ hits'[m.key] = 0
        /\ \A d \in Entries : d # e => entry'[d] = entry[d] /\ counter'[d] = counter[d]
        /\ \A k \in Keys : k # m.key => hits'[k] = hits[k]
        /\ match_type # "hash_lru" => entry[e] = NoEntry \/ entry[e].key = m.key
        /\ entry[e].key = m.key \/ \A d \in Entries : entry[d].key # m.key
    BY <2>1, EntryAdd(m, a, e), EntryAddProps
  <2> QED BY <2>2
<1>6. r.data # e BY <1>1, <1>3, <1>4, <1>5
<1>7. entry'[r.data] = entry[r.data] /\ counter'[r.data] = counter[r.data] /\ hits'[r.match.key] = hits[r.match.key]
  BY <1>1, <1>2, <1>5, <1>6
<1> QED BY <1>7, <1>i DEF TrueNext, TrueOf, InTable

\* The entry that was just added is what the table's new rule says.
LEMMA AddMakes ==
  ASSUME CoreInv, NEW m \in Matches, NEW a \in Actions, NEW e \in Entries, EntryAdd(m, a, e),
         NEW r, r.match = m, r.action = a, r.data = e
  PROVE  TrueNext(r)
<1>1. entry'[e] = [key |-> m.key, action |-> a] /\ counter'[e] = 0 /\ hits'[m.key] = 0
  <2>1. TypeOK BY DEF CoreInv
  <2> QED BY <2>1, EntryAdd(m, a, e), EntryAddProps
<1> QED BY <1>1 DEF TrueNext, TrueOf, InTable

\* Between calls every listed rule is true.
ListTrue == \A r \in Listed : Told(r)

LEMMA ListedIdle ==
  ASSUME CoreInv, ListedInv, Idle, match_type # "hash_lru"
  PROVE  ListTrue
BY NothingPending DEF ListedInv, ListTrue

LEMMA ListedIdleNext ==
  ASSUME CoreInv', Idle', ListTrue'
  PROVE  ListedInv'
<1>1. Pending' = {} BY NothingPendingNext DEF CoreInv
<1> QED BY <1>1 DEF ListedInv, ListTrue, Idle

LEMMA AddListed ==
  ASSUME CoreInv, ListedInv, MatchIsKey, CoreInv',
         NEW m \in Matches, NEW a \in Actions, pipeline_table_rule_add(m, a)
  PROVE  ListedInv'
<1> SUFFICES ASSUME match_type # "hash_lru" PROVE ListedInv'
  BY DEF ListedInv, pipeline_table_rule_add, otherVars
<1>1. PICK e \in Entries : EntryAdd(m, a, e) /\ table_rule_add([match |-> m, action |-> a, data |-> e])
  BY DEF pipeline_table_rule_add
<1>2. PICK r : r = [match |-> m, action |-> a, data |-> e] OBVIOUS
<1>3. r \in ListedRules /\ table_rule_add(r) /\ rules \in Seq(ListedRules)
  BY <1>1, <1>2 DEF ListedRules, CoreInv, TypeOK
<1>4. Listed' = {s \in Listed : s.match # r.match} \cup {r} BY <1>3, AddProps
<1>5. Idle /\ Idle' BY DEF pipeline_table_rule_add, otherVars, Idle
<1>6. ListTrue BY <1>5, ListedIdle
<1>7. r.match = m /\ r.action = a /\ r.data = e BY <1>2
<1>8. TrueNext(r) BY <1>1, <1>7, AddMakes
<1>9. ASSUME NEW s \in Listed, s.match # m PROVE TrueNext(s)
  <2>1. s.match \in Matches /\ s.data \in Entries BY ListedFields
  <2>2. Told(s) BY <1>6 DEF ListTrue
  <2> QED BY <2>1, <2>2, <1>1, <1>9, AddKeeps
<1>10. ListTrue' BY <1>4, <1>7, <1>8, <1>9 DEF ListTrue, Told, TrueNext, TrueOf, InTable
<1> QED BY <1>5, <1>10, ListedIdleNext

LEMMA DeleteListed ==
  ASSUME CoreInv, ListedInv, MatchIsKey, CoreInv', NEW m \in Matches, pipeline_table_rule_delete(m)
  PROVE  ListedInv'
<1> SUFFICES ASSUME match_type # "hash_lru" PROVE ListedInv'
  BY DEF ListedInv, pipeline_table_rule_delete, otherVars
<1>1. Listed' = {s \in Listed : s.match # m}
  BY DeleteProps DEF CoreInv, TypeOK, pipeline_table_rule_delete
<1>2. /\ \A d \in Entries : entry[d] # NoEntry /\ entry[d].key # m.key /\ entry[d].key \notin astray'
                             => entry'[d] = entry[d]
      /\ \A k \in Keys : k # m.key /\ k \in astray => k \in astray'
  BY DeleteEntries DEF CoreInv
<1>3. Idle /\ Idle' /\ counter' = counter BY DEF pipeline_table_rule_delete, otherVars, Idle
<1>4. ListTrue BY <1>3, ListedIdle
<1>5. \A k \in Keys : k # m.key => hits'[k] = hits[k]
  BY DEF pipeline_table_rule_delete, CoreInv, TypeOK
<1>6. ASSUME NEW s \in Listed, s.match # m PROVE TrueNext(s)
  <2>1. s.match \in Matches /\ s.data \in Entries /\ s.match.key \in Keys /\ s.match.key # None BY ListedFields
  <2>2. s.match.key # m.key BY <2>1, <1>6, SameKey
  <2>a. CASE s.match.key \in astray' BY <2>a DEF TrueNext, TrueOf
  <2>b. CASE s.match.key \notin astray'
    <3>0. s.match.key \notin astray BY <2>1, <2>2, <2>b, <1>2
    <3>3. entry[s.data] = [key |-> s.match.key, action |-> s.action] /\ counter[s.data] = hits[s.match.key]
      BY <3>0, <1>4 DEF ListTrue, Told, TrueOf, InTable
    <3>4. entry[s.data].key = s.match.key /\ entry[s.data] # NoEntry BY <2>1, <3>3, EntryType DEF CoreInv
    <3>5. entry'[s.data] = entry[s.data] BY <2>1, <2>2, <2>b, <3>4, <1>2
    <3> QED BY <2>1, <2>2, <3>3, <3>5, <1>3, <1>5 DEF TrueNext, TrueOf, InTable
  <2> QED BY <2>a, <2>b
<1>7. ListTrue' BY <1>1, <1>6 DEF ListTrue, Told, TrueNext, TrueOf, InTable
<1> QED BY <1>3, <1>7, ListedIdleNext

\* The counter of one key and its entry change together: no other rule has that entry.
LEMMA CountKeeps ==
  ASSUME CoreInv, NEW k \in Keys, NEW e \in Entries, entry[e].key = k, entry' = entry,
         NEW v \in Nat, NEW w \in Nat, counter[e] = hits[k] => v = w,
         counter' = [counter EXCEPT ![e] = v], hits' = [hits EXCEPT ![k] = w],
         NEW r, r.match \in Matches, r.data \in Entries, InTable(r, entry, counter, hits)
  PROVE  InTable(r, entry', counter', hits')
<1>0. counter \in [Entries -> Nat] /\ hits \in [Keys -> Nat] BY DEF CoreInv, TypeOK
<1>1. r.match.key \in Keys /\ r.match.key # None BY DEF Matches
<1>2. entry[r.data] = [key |-> r.match.key, action |-> r.action] /\ counter[r.data] = hits[r.match.key]
  BY DEF InTable
<1>2k. entry[r.data].key = r.match.key BY <1>2
<1>3. entry[r.data] # NoEntry BY <1>1, <1>2k, EntryType DEF CoreInv
<1>4. r.match.key = k <=> r.data = e
  <2>1. ASSUME r.match.key = k PROVE r.data = e
    BY <2>1, <1>2k, <1>3 DEF CoreInv, UniqueInv, OneEntry
  <2>2. ASSUME r.data = e PROVE r.match.key = k BY <2>2, <1>2k
  <2> QED BY <2>1, <2>2
<1>5. counter'[r.data] = hits'[r.match.key]
  <2>1. CASE r.data = e
    <3>1. counter'[r.data] = v /\ hits'[r.match.key] = w BY <2>1, <1>0, <1>1, <1>4
    <3>2. counter[e] = hits[k] BY <2>1, <1>2, <1>4
    <3> QED BY <3>1, <3>2
  <2>2. CASE r.data # e
    <3>1. counter'[r.data] = counter[r.data] /\ hits'[r.match.key] = hits[r.match.key]
      BY <2>2, <1>0, <1>1, <1>4
    <3> QED BY <3>1, <1>2
  <2> QED BY <2>1, <2>2
<1> QED BY <1>2, <1>5 DEF InTable

LEMMA StatsListed ==
  ASSUME CoreInv, ListedInv, CoreInv', NEW m \in Matches, pipeline_table_rule_stats_read(m)
  PROVE  ListedInv'
<1> SUFFICES ASSUME match_type # "hash_lru" PROVE ListedInv'
  BY DEF ListedInv, pipeline_table_rule_stats_read, otherVars
<1>1. PICK i \in table_rule_find(m) :
        /\ counter' = [counter EXCEPT ![rules[i].data] = 0] /\ hits' = [hits EXCEPT ![m.key] = 0]
        /\ astray' = astray \cup (IF m.key \in astray THEN {entry[rules[i].data].key} \cap Keys ELSE {})
  BY DEF pipeline_table_rule_stats_read
<1>2. Idle /\ Idle' /\ rules' = rules /\ entry' = entry
  BY DEF pipeline_table_rule_stats_read, otherVars, listVars, Idle
<1>3. ListTrue BY <1>2, ListedIdle
<1>4. rules[i] \in Listed /\ rules[i].match = m BY DEF table_rule_find, Listed
<1>5. PICK e \in Entries : e = rules[i].data BY <1>4, ListedFields
<1>6. m.key \in Keys BY DEF Matches
<1>7. PICK k \in Keys : k = m.key BY <1>6
<1>8. /\ counter' = [counter EXCEPT ![e] = 0] /\ hits' = [hits EXCEPT ![k] = 0]
      /\ astray' = astray \cup (IF k \in astray THEN {entry[e].key} \cap Keys ELSE {})
  BY <1>1, <1>5, <1>7
<1>9. ASSUME NEW r \in Listed PROVE TrueNext(r)
  <2>1. r.match \in Matches /\ r.data \in Entries /\ r.match.key \in Keys BY ListedFields
  <2>2. Told(r) BY <1>3 DEF ListTrue
  <2>a. CASE r.match.key \in astray' BY <2>a DEF TrueNext, TrueOf
  <2>b. CASE r.match.key \notin astray'
    <3>1. InTable(r, entry, counter, hits) BY <2>2, <2>b, <1>8 DEF Told, TrueOf
    <3>2. CASE k \notin astray
      <4>1. InTable(rules[i], entry, counter, hits) BY <3>2, <1>3, <1>4, <1>7 DEF ListTrue, Told, TrueOf
      <4>2. entry[e].key = k BY <4>1, <1>4, <1>5, <1>7 DEF InTable
      <4>3. InTable(r, entry', counter', hits') BY <2>1, <3>1, <4>2, <1>2, <1>8, CountKeeps
      <4> QED BY <4>3 DEF TrueNext, TrueOf
    <3>3. CASE k \in astray
      <4>1. entry[r.data] = [key |-> r.match.key, action |-> r.action] /\ counter[r.data] = hits[r.match.key]
        BY <3>1 DEF InTable
      <4>2. entry[r.data].key = r.match.key BY <4>1
      <4>3. r.match.key # entry[e].key BY <2>1, <2>b, <3>3, <1>8
      <4>4. r.data # e BY <4>2, <4>3
      <4>5. r.match.key # k BY <2>b, <3>3, <1>8
      <4>6. counter'[r.data] = counter[r.data] /\ hits'[r.match.key] = hits[r.match.key]
        BY <2>1, <4>4, <4>5, <1>8 DEF CoreInv, TypeOK
      <4> QED BY <4>1, <4>6, <1>2 DEF TrueNext, TrueOf, InTable
    <3> QED BY <3>2, <3>3
  <2> QED BY <2>a, <2>b
<1>l. Listed' = Listed BY <1>2 DEF Listed
<1>10. ListTrue' BY <1>l, <1>9 DEF ListTrue, Told, TrueNext, TrueOf, InTable
<1> QED BY <1>2, <1>10, ListedIdleNext

LEMMA PacketListed ==
  ASSUME CoreInv, ListedInv, NEW e \in Entries, packet(e)
  PROVE  ListedInv'
<1> SUFFICES ASSUME match_type # "hash_lru" PROVE ListedInv'
  BY DEF ListedInv, packet, otherVars
<1>1. /\ step # "table" /\ entry[e] # NoEntry
      /\ counter' = [counter EXCEPT ![e] = @ + 1] /\ hits' = [hits EXCEPT ![entry[e].key] = @ + 1]
      /\ UNCHANGED <<listVars, entry, default_entry, otherVars, astray>>
  BY DEF packet
<1>2. entry[e].key \in Keys BY <1>1, EntryType DEF CoreInv
<1>3. PICK k \in Keys : k = entry[e].key BY <1>2
<1>4. counter[e] \in Nat /\ hits[k] \in Nat BY DEF CoreInv, TypeOK
<1>5. PICK v \in Nat : v = counter[e] + 1 BY <1>4
<1>6. PICK w \in Nat : w = hits[k] + 1 BY <1>4
<1>7. /\ entry[e].key = k /\ entry' = entry /\ (counter[e] = hits[k] => v = w)
      /\ counter' = [counter EXCEPT ![e] = v] /\ hits' = [hits EXCEPT ![k] = w]
  BY <1>1, <1>3, <1>5, <1>6
<1>8. ASSUME NEW r, r.match \in Matches, r.data \in Entries, Told(r)
      PROVE  TrueNext(r)
  <2>1. CASE r.match.key \in astray BY <2>1, <1>1 DEF TrueNext, TrueOf
  <2>2. CASE r.match.key \notin astray
    <3>1. InTable(r, entry, counter, hits) BY <2>2, <1>8 DEF Told, TrueOf
    <3>2. InTable(r, entry', counter', hits') BY <3>1, <1>7, <1>8, CountKeeps
    <3> QED BY <3>2 DEF TrueNext, TrueOf
  <2> QED BY <2>1, <2>2
<1>9. Listed' = Listed /\ Pending' = Pending /\ bulk' = bulk /\ step' = step
  BY <1>1 DEF Listed, Pending, listVars, otherVars
<1>10. ASSUME NEW r \in Listed
       PROVE  TrueNext(r) \/ \E j \in Pending : bulk[j].match = r.match
  <2>1. Told(r) \/ \E j \in Pending : bulk[j].match = r.match BY DEF ListedInv
  <2>2. r.match \in Matches /\ r.data \in Entries BY ListedFields
  <2> QED BY <2>1, <2>2, <1>8
<1>11. ASSUME NEW i \in Pending
       PROVE  \/ TrueNext(bulk[i])
              \/ \E j \in Pending : j > i /\ bulk[j].match = bulk[i].match
  <2>1. Told(bulk[i]) \/ \E j \in Pending : j > i /\ bulk[j].match = bulk[i].match BY DEF ListedInv
  <2>2. bulk[i].match \in Matches /\ bulk[i].data \in Entries BY PendingFields
  <2> QED BY <2>1, <2>2, <1>8
<1> QED BY <1>1, <1>9, <1>10, <1>11 DEF ListedInv, Told, TrueNext, TrueOf, InTable

LEMMA ListedSame ==
  ASSUME ListedInv, UNCHANGED <<rules, entry, counter, otherVars, ghosts>>
  PROVE  ListedInv'
<1>1. Listed' = Listed BY DEF Listed
<1>2. Pending' = Pending BY DEF Pending, otherVars
<1>3. hits' = hits /\ astray' = astray BY DEF ghosts
<1> QED BY <1>3, <1>1, <1>2 DEF ListedInv, Told, TrueOf, InTable, otherVars, ghosts

LEMMA BulkBeginListed ==
  ASSUME CoreInv, ListedInv, NEW l \in Files, pipeline_table_rule_add_bulk(l)
  PROVE  ListedInv'
<1> SUFFICES ASSUME match_type # "hash_lru" PROVE ListedInv'
  BY DEF ListedInv, pipeline_table_rule_add_bulk
<1>1. /\ Idle /\ before' = <<entry, counter, hits, astray>> /\ step' = "table" /\ n' = 0
      /\ entry' = entry /\ counter' = counter /\ hits' = hits /\ astray' = astray /\ rules' = rules
  BY DEF pipeline_table_rule_add_bulk, listVars, tableVars, ghosts
<1>2. Listed' = Listed BY <1>1 DEF Listed
<1>3. ListTrue BY <1>1, ListedIdle
<1>4. before'[1] = entry /\ before'[2] = counter /\ before'[3] = hits /\ before'[4] = astray BY <1>1
<1>5. \A r \in Listed : Told(r) BY <1>3 DEF ListTrue, Told, TrueNext, TrueOf, InTable
<1>6. Pending' = {} BY <1>1 DEF Pending
<1>7. \A r \in Listed' : TrueNext(r) BY <1>1, <1>2, <1>5 DEF Told, TrueNext, TrueOf, InTable
<1>8. \A r \in Listed' : TrueOf(r, before'[1], before'[2], before'[3], before'[4]) BY <1>2, <1>4, <1>5 DEF Told
<1> QED BY <1>6, <1>7, <1>8 DEF ListedInv, Told, TrueNext, TrueOf, InTable

LEMMA BulkTurnListed ==
  ASSUME CoreInv, ListedInv, MatchIsKey, table_rule_add_bulk_ll
  PROVE  ListedInv'
<1>1. PICK e \in Entries :
           /\ EntryAdd(bulk[n + 1].match, bulk[n + 1].action, e)
           /\ n + 1 \in 1..Len(bulk) /\ step = "table" /\ step' = "table" /\ n' = n + 1
           /\ bulk'[n + 1].match = bulk[n + 1].match /\ bulk'[n + 1].action = bulk[n + 1].action
           /\ bulk'[n + 1].data = e
           /\ \A i \in 1..Len(bulk) : i # n + 1 => bulk'[i] = bulk[i]
           /\ UNCHANGED <<match_type, listVars, before>>
  BY BulkTurn
<1> SUFFICES ASSUME match_type # "hash_lru" PROVE ListedInv'
  BY <1>1 DEF ListedInv
<1>2. bulk[n + 1].match \in Matches /\ bulk[n + 1].action \in Actions
  BY <1>1, BulkType DEF CoreInv
<1>3. PICK m \in Matches, a \in Actions : m = bulk[n + 1].match /\ a = bulk[n + 1].action BY <1>2
<1>4. EntryAdd(m, a, e) BY <1>1, <1>3
<1>5. Listed' = Listed BY <1>1 DEF Listed, listVars
<1>6. n \in Nat /\ Len(bulk) \in Nat /\ Pending = 1..n /\ Pending' = 1..(n + 1)
  BY <1>1 DEF CoreInv, TypeOK, Pending
<1>7. \A j \in Pending : j \in Pending' /\ bulk'[j] = bulk[j] /\ j < n + 1
  <2> SUFFICES ASSUME NEW j \in Pending PROVE j \in Pending' /\ bulk'[j] = bulk[j] /\ j < n + 1 OBVIOUS
  <2>1. j \in 1..(n + 1) /\ j \in 1..Len(bulk) /\ j # n + 1 /\ j < n + 1 BY <1>1, <1>6
  <2> QED BY <2>1, <1>1, <1>6
<1>8. n + 1 \in Pending' /\ bulk'[n + 1].match = m BY <1>1, <1>3, <1>6
<1>9. ASSUME NEW r, r.match \in Matches, r.data \in Entries, Told(r)
      PROVE  TrueNext(r) \/ r.match = m
  BY <1>4, <1>9, AddKeeps
<1>10. ASSUME NEW r \in Listed
       PROVE  TrueNext(r) \/ \E j \in Pending' : bulk'[j].match = r.match
  <2>1. Told(r) \/ \E j \in Pending : bulk[j].match = r.match BY DEF ListedInv
  <2>2. r.match \in Matches /\ r.data \in Entries BY ListedFields
  <2>3. CASE Told(r) BY <2>2, <2>3, <1>8, <1>9
  <2>4. CASE \E j \in Pending : bulk[j].match = r.match BY <2>4, <1>7
  <2> QED BY <2>1, <2>3, <2>4
<1>11. ASSUME NEW i \in Pending'
       PROVE  \/ TrueNext(bulk'[i])
              \/ \E j \in Pending' : j > i /\ bulk'[j].match = bulk'[i].match
  <2>1. CASE i = n + 1
    <3>1. PICK r : r = bulk'[n + 1] OBVIOUS
    <3>2. r.match = m /\ r.action = a /\ r.data = e BY <3>1, <1>1, <1>3
    <3>3. TrueNext(r) BY <3>2, <1>4, AddMakes
    <3> QED BY <2>1, <3>1, <3>3
  <2>2. CASE i # n + 1
    <3>0. i \in Pending BY <2>2, <1>6
    <3>1. bulk'[i] = bulk[i] /\ n + 1 > i BY <3>0, <1>6, <1>7
    <3>2. Told(bulk[i]) \/ \E j \in Pending : j > i /\ bulk[j].match = bulk[i].match
      BY <3>0 DEF ListedInv
    <3>3. bulk[i].match \in Matches /\ bulk[i].data \in Entries BY <3>0, PendingFields
    <3>4. CASE Told(bulk[i])
      <4>1. TrueNext(bulk[i]) \/ bulk[i].match = m BY <3>3, <3>4, <1>9
      <4> QED BY <4>1, <3>1, <1>8
    <3>5. CASE \E j \in Pending : j > i /\ bulk[j].match = bulk[i].match
      BY <3>1, <3>5, <1>7
    <3> QED BY <3>2, <3>4, <3>5
  <2> QED BY <2>1, <2>2
<1>12. \A r \in Listed : TrueOf(r, before'[1], before'[2], before'[3], before'[4])
  BY <1>1 DEF ListedInv
<1> QED BY <1>5, <1>10, <1>11, <1>12 DEF ListedInv, Told, TrueNext, TrueOf, InTable

LEMMA ToListListed ==
  ASSUME CoreInv, ListedInv, bulk_to_list
  PROVE  ListedInv'
<1>1. /\ step = "table" /\ step' = "list" /\ n' = 0 /\ n \in 1..Len(bulk) /\ Len(bulk) \in Nat
      /\ Len(bulk') = n
      /\ \A i \in 1..n : bulk'[i] = bulk[i]
      /\ UNCHANGED <<match_type, listVars, tableVars, before, ghosts>>
  BY ToListProps
<1> SUFFICES ASSUME match_type # "hash_lru" PROVE ListedInv'
  BY <1>1 DEF ListedInv
<1>2. Pending = 1..n /\ Pending' = 1..n BY <1>1 DEF Pending
<1>3. /\ Listed' = Listed /\ entry' = entry /\ counter' = counter /\ hits' = hits /\ astray' = astray
  BY <1>1 DEF Listed, listVars, tableVars, ghosts
<1>4. \A i \in Pending : bulk'[i] = bulk[i] BY <1>1, <1>2
<1>5. Pending' = Pending /\ step' # "table" BY <1>1, <1>2
<1>6. \A r : TrueNext(r) <=> Told(r) BY <1>3 DEF TrueNext, Told
<1>7. /\ \A r \in Listed' : TrueNext(r) \/ \E j \in Pending' : bulk'[j].match = r.match
      /\ \A i \in Pending' : TrueNext(bulk'[i]) \/ \E j \in Pending' : j > i /\ bulk'[j].match = bulk'[i].match
  BY <1>1, <1>3, <1>4, <1>5, <1>6 DEF ListedInv
<1> QED BY <1>5, <1>7 DEF ListedInv, Told, TrueNext, TrueOf, InTable

LEMMA FailsListed ==
  ASSUME CoreInv, ListedInv, bulk_fails, CoreInv'
  PROVE  ListedInv'
<1> SUFFICES ASSUME match_type # "hash_lru" PROVE ListedInv'
  BY DEF ListedInv, bulk_fails, EndBulk
<1>1. /\ step = "table" /\ EndBulk /\ UNCHANGED listVars
      /\ entry' = before[1] /\ counter' = before[2] /\ hits' = before[3] /\ astray' = before[4]
  BY DEF bulk_fails, AddFails
<1>2. Listed' = Listed /\ Idle' BY <1>1 DEF Listed, listVars, EndBulk, Idle
<1>3. \A r \in Listed : TrueOf(r, before[1], before[2], before[3], before[4]) BY <1>1 DEF ListedInv
<1>4. \A r \in Listed' : TrueNext(r) BY <1>1, <1>2, <1>3 DEF TrueNext
<1>5. ListTrue' BY <1>4 DEF ListTrue, Told, TrueNext, TrueOf, InTable
<1> QED BY <1>2, <1>5, ListedIdleNext

LEMMA BulkListTurnListed ==
  ASSUME CoreInv, ListedInv, table_rule_add_bulk
  PROVE  ListedInv'
<1>1. /\ step = "list" /\ n + 1 \in 1..Len(bulk) /\ Len(bulk) \in Nat /\ n' = n + 1
      /\ Listed' = {s \in Listed : s.match # bulk[n + 1].match} \cup {bulk[n + 1]}
      /\ UNCHANGED <<match_type, tableVars, bulk, step, ghosts>>
  BY BulkListTurn
<1> SUFFICES ASSUME match_type # "hash_lru" PROVE ListedInv'
  BY <1>1 DEF ListedInv
<1>2. n \in Nat /\ Pending = (n + 1)..Len(bulk) /\ Pending' = ((n + 1) + 1)..Len(bulk)
  BY <1>1 DEF CoreInv, TypeOK, Pending
<1>3. \A j \in Pending : j = n + 1 \/ j \in Pending' BY <1>1, <1>2
<1>4. n + 1 \in Pending /\ \A j \in Pending' : j \in Pending BY <1>1, <1>2
<1>5. \A i, j \in Pending : j > i => j \in Pending' BY <1>1, <1>2
<1>6. /\ bulk' = bulk /\ entry' = entry /\ counter' = counter /\ hits' = hits /\ astray' = astray
      /\ match_type' = match_type /\ step' # "table"
  BY <1>1 DEF tableVars, ghosts
<1>7. ASSUME NEW i \in Pending
      PROVE  Told(bulk[i]) \/ \E j \in Pending' : j > i /\ bulk[j].match = bulk[i].match
  BY <1>5 DEF ListedInv
<1>8. ASSUME NEW r \in Listed' PROVE Told(r) \/ \E j \in Pending' : bulk[j].match = r.match
  <2>1. CASE r = bulk[n + 1] BY <2>1, <1>4, <1>7
  <2>2. CASE r \in Listed /\ r.match # bulk[n + 1].match
    <3>1. Told(r) \/ \E j \in Pending : bulk[j].match = r.match BY <2>2 DEF ListedInv
    <3> QED BY <2>2, <3>1, <1>3
  <2> QED BY <2>1, <2>2, <1>1
<1> QED BY <1>4, <1>6, <1>7, <1>8 DEF ListedInv, Told, TrueNext, TrueOf, InTable

LEMMA DoneListed ==
  ASSUME CoreInv, ListedInv, bulk_done, CoreInv'
  PROVE  ListedInv'
<1> SUFFICES ASSUME match_type # "hash_lru" PROVE ListedInv'
  BY DEF ListedInv, bulk_done, EndBulk
<1>1. step = "list" /\ n = Len(bulk) /\ EndBulk /\ UNCHANGED <<listVars, tableVars, ghosts>> BY DEF bulk_done
<1>2. /\ Listed' = Listed /\ entry' = entry /\ counter' = counter /\ hits' = hits /\ astray' = astray /\ Idle'
  BY <1>1 DEF Listed, listVars, tableVars, ghosts, EndBulk, Idle
<1>3. Pending = {} BY <1>1 DEF Pending, CoreInv, TypeOK
<1>4. \A r \in Listed' : TrueNext(r) BY <1>2, <1>3 DEF ListedInv, Told, TrueNext, TrueOf, InTable
<1>5. ListTrue' BY <1>4 DEF ListTrue, Told, TrueNext, TrueOf, InTable
<1> QED BY <1>2, <1>5, ListedIdleNext

LEMMA ListedInit == Init => ListedInv
<1> SUFFICES ASSUME Init PROVE ListedInv OBVIOUS
<1>1. Listed = {} /\ step = "idle" BY DEF Init, Listed
<1>2. Pending = {} BY DEF Init, Pending
<1> QED BY <1>1, <1>2 DEF ListedInv

LEMMA NextListed == MatchIsKey /\ CoreInv /\ ListedInv /\ [Next]_vars => ListedInv'
<1> SUFFICES ASSUME MatchIsKey, CoreInv, ListedInv, [Next]_vars PROVE ListedInv' OBVIOUS
<1>0. CoreInv' BY NextCore
<1>1. ASSUME NEW m \in Matches, NEW a \in Actions, pipeline_table_rule_add(m, a) PROVE ListedInv'
  BY <1>0, <1>1, AddListed
<1>2. ASSUME NEW m \in Matches, pipeline_table_rule_delete(m) PROVE ListedInv' BY <1>0, <1>2, DeleteListed
<1>3. ASSUME NEW m \in Matches, pipeline_table_rule_stats_read(m) PROVE ListedInv' BY <1>0, <1>3, StatsListed
<1>4. ASSUME NEW a \in Actions, pipeline_table_rule_add_default(a) PROVE ListedInv'
  BY <1>4, ListedSame DEF pipeline_table_rule_add_default, ghosts
<1>5. CASE pipeline_table_rule_delete_default BY <1>5, ListedSame DEF pipeline_table_rule_delete_default, ghosts
<1>6. ASSUME NEW l \in Files, pipeline_table_rule_add_bulk(l) PROVE ListedInv' BY <1>6, BulkBeginListed
<1>7. CASE table_rule_add_bulk_ll BY <1>7, BulkTurnListed
<1>8. CASE bulk_to_list BY <1>8, ToListListed
<1>9. CASE bulk_fails BY <1>0, <1>9, FailsListed
<1>10. CASE table_rule_add_bulk BY <1>10, BulkListTurnListed
<1>11. CASE bulk_done BY <1>0, <1>11, DoneListed
<1>12. ASSUME NEW e \in Entries, packet(e) PROVE ListedInv' BY <1>12, PacketListed
<1>13. CASE UNCHANGED vars BY <1>13, ListedSame DEF vars, listVars, tableVars, ghosts
<1> QED
  BY <1>1, <1>2, <1>3, <1>4, <1>5, <1>6, <1>7, <1>8, <1>9, <1>10, <1>11, <1>12, <1>13 DEF Next

LEMMA ListedHolds == MatchIsKey /\ Spec => [](CoreInv /\ ListedInv)
<1> SUFFICES ASSUME MatchIsKey PROVE Spec => [](CoreInv /\ ListedInv) OBVIOUS
<1>1. Init => CoreInv /\ ListedInv BY CoreInit, ListedInit
<1>2. (CoreInv /\ ListedInv) /\ [Next]_vars => (CoreInv /\ ListedInv)' BY NextCore, NextListed
<1> QED BY <1>1, <1>2, PTL DEF Spec

\* What table_rule_show tells of a rule is what the data plane does with its key, after
\* any additions, deletions and bulk calls, also those that stopped halfway.
THEOREM ShownIsDone == MatchIsKey /\ Spec => []DataValid
<1>1. CoreInv /\ ListedInv => DataValid
  <2> SUFFICES ASSUME CoreInv, ListedInv, Idle, match_type # "hash_lru", NEW r \in Kept
               PROVE  r.data # None /\ entry[r.data] = [key |-> r.match.key, action |-> r.action]
    BY DEF DataValid
  <2>1. r \in Listed /\ r.match.key \notin astray BY DEF Kept
  <2>2. Told(r) BY <2>1, ListedIdle DEF ListTrue
  <2>3. r.data \in Entries BY <2>1, ListedFields
  <2> QED BY <2>1, <2>2, <2>3 DEF Told, TrueOf, InTable
<1> QED BY ListedHolds, <1>1, PTL

\* The counters read through a rule's pointer are those of its own packets, although the
\* entry it points at may have been another key's before.
THEOREM OwnStats == MatchIsKey /\ Spec => []StatsOwn
<1>1. CoreInv /\ ListedInv => StatsOwn
  <2> SUFFICES ASSUME CoreInv, ListedInv, Idle, match_type # "hash_lru", NEW r \in Kept
               PROVE  counter[r.data] = hits[r.match.key]
    BY DEF StatsOwn
  <2>1. r \in Listed /\ r.match.key \notin astray BY DEF Kept
  <2>2. Told(r) BY <2>1, ListedIdle DEF ListTrue
  <2> QED BY <2>1, <2>2 DEF Told, TrueOf, InTable
<1> QED BY ListedHolds, <1>1, PTL

=============================================================================
