--------------------------- MODULE RuleFilesProofs ---------------------------
(* For any files, numbers and tokens: the entries of the rules compare the   *)
(* bits that their depths say; and a list has the rules of its file, line by *)
(* line, or none, when each line by itself is read as it says.               *)
EXTENDS RuleFiles, FiniteSetTheorems, SequenceTheorems, TLAPS

-----------------------------------------------------------------------------
(* What parse_line finds                                                     *)

\* A number of the line is a number (parser_read_uint32 and the others).
LEMMA NumberRead ==
  ASSUME NEW slot, NEW tok, slot.type = "u32", Reads(slot, tok)
  PROVE  Number(tok) \in Nat
<1>1. \E n \in Numbers : ToString(n) = tok
  BY LexiconNamed DEF Reads, Limit
<1>2. QED
  BY <1>1, NumbersNatural DEF Number

\* What a slot is named, and how its value is read.
LEMMA WordField == ASSUME NEW word PROVE W(word).name # "sa_depth" /\ W(word).name # "da_depth"
BY DEF W

\* The same of a value.
LEMMA ValueFields ==
  ASSUME NEW n, NEW t PROVE V(n, t).name = n /\ V(n, t).type = t
BY DEF V

\* The depths of an ACL rule are numbers (parse_match, acl).
LEMMA AclDepths ==
  ASSUME NEW id, NEW version, NEW type, NEW tokens, Fits(AclAddr(id, version, type), tokens)
  PROVE  LET v == Values(AclAddr(id, version, type), tokens)
         IN Number(v.sa_depth) \in Nat /\ Number(v.da_depth) \in Nat
<1> PICK form : form = AclAddr(id, version, type)
  OBVIOUS
<1> PICK s : s = form.slots
  OBVIOUS
<1>1. s = <<W("match"), W("acl"), W("priority"), V("priority", "u32"), W(version),
             V("sa", type), V("sa_depth", "u32"), V("da", type), V("da_depth", "u32"),
             V("sp0", "u16"), V("sp1", "u16"), V("dp0", "u16"), V("dp1", "u16"), V("proto", "u8")>>
  BY DEF AclAddr, Form
<1>2. /\ DOMAIN s = 1 .. 14
      /\ \A i \in 1 .. 14 : i = 1 \/ i = 2 \/ i = 3 \/ i = 4 \/ i = 5 \/ i = 6 \/ i = 7 \/ i = 8
                           \/ i = 9 \/ i = 10 \/ i = 11 \/ i = 12 \/ i = 13 \/ i = 14
  BY <1>1
<1>3. /\ s[1] = W("match") /\ s[2] = W("acl") /\ s[3] = W("priority") /\ s[4] = V("priority", "u32")
      /\ s[5] = W(version) /\ s[6] = V("sa", type) /\ s[7] = V("sa_depth", "u32")
      /\ s[8] = V("da", type) /\ s[9] = V("da_depth", "u32") /\ s[10] = V("sp0", "u16")
      /\ s[11] = V("sp1", "u16") /\ s[12] = V("dp0", "u16") /\ s[13] = V("dp1", "u16")
      /\ s[14] = V("proto", "u8")
  BY <1>1
<1>4. /\ s[7].name = "sa_depth" /\ s[7].type = "u32"
      /\ s[9].name = "da_depth" /\ s[9].type = "u32"
  BY <1>3, ValueFields
<1>5. \A i \in 1 .. 14 : (s[i].name = "sa_depth" => i = 7) /\ (s[i].name = "da_depth" => i = 9)
  BY <1>2, <1>3, WordField, ValueFields
<1>6. {"sa_depth", "da_depth"} \subseteq Names(form)
  BY <1>2, <1>4 DEF Names
<1>7. (CHOOSE i \in DOMAIN s : s[i].name = "sa_depth") = 7
  BY <1>2, <1>4, <1>5
<1>8. (CHOOSE i \in DOMAIN s : s[i].name = "da_depth") = 9
  BY <1>2, <1>4, <1>5
<1>9. Values(form, tokens).sa_depth = tokens[7] /\ Values(form, tokens).da_depth = tokens[9]
  BY <1>6, <1>7, <1>8 DEF Values
<1>10. Reads(s[7], tokens[7]) /\ Reads(s[9], tokens[9])
  BY <1>2, <1>4 DEF Fits
<1>12. QED
  BY <1>4, <1>9, <1>10, NumberRead

\* The forms by their ids (enum table_type).
LEMMA FormIds ==
  /\ AclAddr("acl_ipv4", "ipv4", "ip4").id = "acl_ipv4"
  /\ AclAddr("acl_ipv6", "ipv6", "ip6").id = "acl_ipv6"
  /\ AclRaw.id = "acl_raw" /\ Array.id = "array"
  /\ Lpm("lpm_ipv4", "ipv4", "ip4").id = "lpm_ipv4"
  /\ Lpm("lpm_ipv6", "ipv6", "ip6").id = "lpm_ipv6"
<1>1. \A id, slots : Form(id, slots).id = id
  BY DEF Form
<1>2. QED
  BY <1>1 DEF AclAddr, AclRaw, Array, Lpm

\* No form of a hash rule has the id of another kind.
LEMMA HashIds ==
  \A f \in HashForms : f.id \notin {"acl_ipv4", "acl_ipv6", "acl_raw", "array", "lpm_ipv4", "lpm_ipv6"}
<1>1. ASSUME NEW key, NEW slots
      PROVE  /\ HashForm("hash_raw", key, slots).id = "hash_raw"
             /\ HashForm("hash_ipv4_5tuple", key, slots).id = "hash_ipv4_5tuple"
             /\ HashForm("hash_ipv6_5tuple", key, slots).id = "hash_ipv6_5tuple"
             /\ HashForm("hash_ipv4_addr", key, slots).id = "hash_ipv4_addr"
             /\ HashForm("hash_ipv6_addr", key, slots).id = "hash_ipv6_addr"
             /\ HashForm("hash_qinq", key, slots).id = "hash_qinq"
  BY DEF HashForm, Form
<1>2. QED
  BY <1>1 DEF HashForms

\* The kind of table for the id of a match (match_check).
LEMMA MatchTypes ==
  /\ MatchType("acl_ipv4") = "acl" /\ MatchType("acl_ipv6") = "acl" /\ MatchType("acl_raw") = "acl"
  /\ \A f \in HashForms : MatchType(f.id) = "hash"
<1>1. MatchType("acl_ipv4") = "acl" /\ MatchType("acl_ipv6") = "acl" /\ MatchType("acl_raw") = "acl"
  BY HashIds DEF MatchType
<1>2. ASSUME NEW f \in HashForms PROVE MatchType(f.id) = "hash"
  <2>1. f.id \in {g.id : g \in HashForms}
    BY <1>2
  <2>2. f.id \notin {"acl_ipv4", "acl_ipv6", "acl_raw"} /\ f.id # "array"
        /\ f.id \notin {"lpm_ipv4", "lpm_ipv6"}
    BY <1>2, HashIds
  <2>3. QED
    BY <2>1, <2>2, Zenon DEF MatchType
<1>3. QED
  BY <1>1, <1>2

\* A rule with the id of an ACL rule is one (parse_match).
LEMMA AclMatch ==
  ASSUME NEW f \in MatchForms, NEW tokens, NEW m, m = Match(f, Values(f, tokens)),
         m.id \in {"acl_ipv4", "acl_ipv6"}
  PROVE  /\ m.values = Values(f, tokens)
         /\ \E version, type : f = AclAddr(m.id, version, type)
<1>1. CASE f \in HashForms
  <2>1. m.id = "hash_raw"
    BY <1>1, MatchTypes DEF Match
  <2>2. QED
    BY <2>1
<1>2. CASE f \notin HashForms
  <2>1. m = [id |-> f.id, values |-> Values(f, tokens)] \/ m.id = "hash_raw"
    BY DEF Match
  <2>2. m.id = f.id /\ m.values = Values(f, tokens)
    BY <2>1
  <2>3. QED
    BY <1>2, <2>2, FormIds DEF MatchForms
<1>3. QED
  BY <1>1, <1>2

-----------------------------------------------------------------------------
(* Formats and fields                                                        *)

\* r is s with t behind it, place by place.
Glue(r, s, t, S) ==
  /\ r \in Seq(S) /\ Len(r) = Len(s) + Len(t)
  /\ \A i \in 1 .. Len(s) : r[i] = s[i]
  /\ \A j \in 1 .. Len(t) : r[Len(s) + j] = t[j]

\* So is a concatenation.
LEMMA Glued ==
  ASSUME NEW S, NEW s \in Seq(S), NEW t \in Seq(S)
  PROVE  \E r : r = s \o t /\ Glue(r, s, t, S)
<1>1. PICK r : r = s \o t
  OBVIOUS
<1>2. /\ s \o t \in Seq(S) /\ Len(s \o t) = Len(s) + Len(t)
      /\ \A i \in 1 .. Len(s) + Len(t) :
           (s \o t)[i] = IF i <= Len(s) THEN s[i] ELSE t[i - Len(s)]
  BY ConcatProperties, ZenonT(60)
<1>3. /\ r \in Seq(S) /\ Len(r) = Len(s) + Len(t)
      /\ \A i \in 1 .. Len(s) + Len(t) : r[i] = IF i <= Len(s) THEN s[i] ELSE t[i - Len(s)]
  BY <1>1, <1>2, ZenonT(60)
<1> PICK m \in Nat, n \in Nat : m = Len(s) /\ n = Len(t)
  OBVIOUS
<1>4. \A i \in 1 .. m : r[i] = s[i]
  BY <1>3
<1>5. ASSUME NEW j \in 1 .. n PROVE r[m + j] = t[j]
  <2>1. PICK k : k = m + j
    OBVIOUS
  <2>2. k \in 1 .. Len(s) + Len(t) /\ ~(k <= Len(s)) /\ k - Len(s) = j
    BY <2>1
  <2>3. r[k] = t[j]
    BY <1>3, <2>2, Zenon
  <2>4. QED
    BY <2>1, <2>3
<1>6. QED
  BY <1>1, <1>3, <1>4, <1>5 DEF Glue

\* r is four sequences one behind the other, of 1, 4, 4 and 2 places.
Glue4(r, a, b, c, d, S) ==
  /\ r \in Seq(S) /\ Len(r) = 11
  /\ r[1] = a[1]
  /\ \A j \in 1 .. 4 : r[1 + j] = b[j] /\ r[5 + j] = c[j]
  /\ \A j \in 1 .. 2 : r[9 + j] = d[j]

\* A function of the first n numbers is a sequence.
LEMMA Places ==
  ASSUME NEW S, NEW n \in Nat, NEW s \in [1 .. n -> S]
  PROVE  s \in Seq(S) /\ Len(s) = n
<1>1. s \in Seq(S)
  OBVIOUS
<1>2. QED
  BY <1>1, LenProperties

\* One of four parts, as the formats and fields of ipv6 rules are.
LEMMA FourGlued ==
  ASSUME NEW S, NEW a \in Seq(S), NEW b \in Seq(S), NEW c \in Seq(S), NEW d \in Seq(S),
         Len(a) = 1, Len(b) = 4, Len(c) = 4, Len(d) = 2
  PROVE  \E r : r = a \o b \o c \o d /\ Glue4(r, a, b, c, d, S)
<1> PICK ab : ab = a \o b /\ Glue(ab, a, b, S)
  BY Glued
<1>1. /\ ab \in Seq(S) /\ Len(ab) = 5 /\ ab[1] = a[1]
      /\ \A j \in 1 .. 4 : ab[1 + j] = b[j]
  <2>1. /\ ab \in Seq(S) /\ Len(ab) = 1 + 4 /\ \A i \in 1 .. 1 : ab[i] = a[i]
        /\ \A j \in 1 .. 4 : ab[1 + j] = b[j]
    BY Zenon DEF Glue
  <2>2. 1 \in 1 .. 1 /\ 1 + 4 = 5
    OBVIOUS
  <2>3. QED
    BY <2>1, <2>2, Zenon
<1> PICK abc : abc = ab \o c /\ Glue(abc, ab, c, S)
  BY <1>1, Glued
<1>2. /\ abc \in Seq(S) /\ Len(abc) = 9
      /\ \A i \in 1 .. 5 : abc[i] = ab[i]
      /\ \A j \in 1 .. 4 : abc[5 + j] = c[j]
  BY <1>1 DEF Glue
<1> PICK r : r = abc \o d /\ Glue(r, abc, d, S)
  BY <1>2, Glued
<1>3. /\ r \in Seq(S) /\ Len(r) = 11
      /\ \A i \in 1 .. 9 : r[i] = abc[i]
      /\ \A j \in 1 .. 2 : r[9 + j] = d[j]
  BY <1>2 DEF Glue
<1>4. ASSUME NEW j \in 1 .. 4 PROVE r[1 + j] = b[j] /\ r[5 + j] = c[j]
  <2>1. 1 + j \in 1 .. 5 /\ 1 + j \in 1 .. 9 /\ 5 + j \in 1 .. 9
    OBVIOUS
  <2>2. QED
    BY <1>1, <1>2, <1>3, <2>1
<1>5. r = a \o b \o c \o d
  OBVIOUS
<1>6. r[1] = a[1]
  BY <1>1, <1>2, <1>3
<1>7. Glue4(r, a, b, c, d, S)
  BY <1>3, <1>4, <1>6 DEF Glue4
<1>8. QED
  BY <1>5, <1>7

\* Tuples as sequences.
LEMMA Tuples ==
  ASSUME NEW S, NEW x \in S, NEW y \in S, NEW z \in S
  PROVE  /\ <<x>> \in Seq(S) /\ Len(<<x>>) = 1 /\ <<x>>[1] = x
         /\ <<x, y>> \in Seq(S) /\ Len(<<x, y>>) = 2 /\ <<x, y>>[1] = x /\ <<x, y>>[2] = y
         /\ <<x, y, z>> \in Seq(S) /\ Len(<<x, y, z>>) = 3
         /\ <<x, y, z>>[1] = x /\ <<x, y, z>>[2] = y /\ <<x, y, z>>[3] = z
OBVIOUS

\* Where the words of the addresses are, in the format of an ipv4 table.
LEMMA Format4 ==
  LET format == table_acl_field_format_ipv4
  IN /\ Len(format) = 5 /\ DOMAIN format = 1 .. 5
     /\ format[2].word = 0 /\ format[3].word = 0
     /\ {k \in DOMAIN format : format[k].type = "MASK" /\ format[k].at = "sa"} = {2}
     /\ {k \in DOMAIN format : format[k].type = "MASK" /\ format[k].at = "da"} = {3}
<1> PICK proto, sa, da, sp, dp :
      /\ proto = Field("BITMASK", 1, "proto", 0)
      /\ sa = Field("MASK", 4, "sa", 0) /\ da = Field("MASK", 4, "da", 0)
      /\ sp = Field("RANGE", 2, "sp", 0) /\ dp = Field("RANGE", 2, "dp", 0)
  OBVIOUS
<1> PICK S : S = {proto, sa, da, sp, dp}
  OBVIOUS
<1>0. PICK head, ports : head = <<proto, sa, da>> /\ ports = <<sp, dp>>
  OBVIOUS
<1>1. /\ head \in Seq(S) /\ Len(head) = 3
      /\ head[1] = proto /\ head[2] = sa /\ head[3] = da
      /\ ports \in Seq(S) /\ Len(ports) = 2 /\ ports[1] = sp /\ ports[2] = dp
  BY <1>0, Tuples
<1>2. PICK r : r = head \o ports /\ Glue(r, head, ports, S)
  BY <1>1, Glued
<1>3. /\ Len(r) = 5 /\ DOMAIN r = 1 .. 5
      /\ r[1] = proto /\ r[2] = sa /\ r[3] = da /\ r[4] = sp /\ r[5] = dp
  BY <1>1, <1>2 DEF Glue
<1>4. r = table_acl_field_format_ipv4
  BY <1>0, <1>2 DEF table_acl_field_format_ipv4, Ports
<1>5. /\ proto.type # "MASK" /\ sp.type # "MASK" /\ dp.type # "MASK"
      /\ sa.type = "MASK" /\ sa.at = "sa" /\ sa.word = 0
      /\ da.type = "MASK" /\ da.at = "da" /\ da.word = 0
  BY DEF Field
<1>6. \A k \in DOMAIN r : k = 1 \/ k = 2 \/ k = 3 \/ k = 4 \/ k = 5
  BY <1>3
<1>7. QED
  BY <1>3, <1>4, <1>5, <1>6

\* The same of an ipv6 table: four words of each address.
LEMMA Format6 ==
  LET format == table_acl_field_format_ipv6
  IN /\ Len(format) = 11 /\ DOMAIN format = 1 .. 11
     /\ \A j \in 1 .. 4 : format[1 + j].word = j - 1 /\ format[5 + j].word = j - 1
     /\ {k \in DOMAIN format : format[k].type = "MASK" /\ format[k].at = "sa"} = 2 .. 5
     /\ {k \in DOMAIN format : format[k].type = "MASK" /\ format[k].at = "da"} = 6 .. 9
<1>1. PICK proto, sa, da, sp, dp :
      /\ proto = Field("BITMASK", 1, "proto", 0)
      /\ sa = [k \in 1 .. 4 |-> Field("MASK", 4, "sa", k - 1)]
      /\ da = [k \in 1 .. 4 |-> Field("MASK", 4, "da", k - 1)]
      /\ sp = Field("RANGE", 2, "sp", 0) /\ dp = Field("RANGE", 2, "dp", 0)
  OBVIOUS
<1>2. PICK head, ports, S : /\ head = <<proto>> /\ ports = <<sp, dp>>
                            /\ S = {proto, sp, dp} \cup {sa[k] : k \in 1 .. 4}
                                     \cup {da[k] : k \in 1 .. 4}
  OBVIOUS
<1>3. /\ head \in Seq(S) /\ Len(head) = 1 /\ head[1] = proto
      /\ ports \in Seq(S) /\ Len(ports) = 2 /\ ports[1] = sp /\ ports[2] = dp
  BY <1>2, Tuples
<1>4. sa \in Seq(S) /\ Len(sa) = 4 /\ da \in Seq(S) /\ Len(da) = 4
  BY <1>1, <1>2
<1>5. PICK r : r = head \o sa \o da \o ports /\ Glue4(r, head, sa, da, ports, S)
  BY <1>3, <1>4, FourGlued
<1>6. Glue4(r, head, sa, da, ports, S)
  BY <1>5
<1>7. /\ Len(r) = 11 /\ DOMAIN r = 1 .. 11
      /\ r[1] = proto /\ r[10] = sp /\ r[11] = dp
      /\ \A j \in 1 .. 4 : r[1 + j] = sa[j] /\ r[5 + j] = da[j]
  BY <1>3, <1>6 DEF Glue4
<1>8. r = table_acl_field_format_ipv6
  BY <1>1, <1>2, <1>5 DEF table_acl_field_format_ipv6, Ports
<1>9. /\ proto.type # "MASK" /\ sp.type # "MASK" /\ dp.type # "MASK"
      /\ \A j \in 1 .. 4 : /\ sa[j].type = "MASK" /\ sa[j].at = "sa" /\ sa[j].word = j - 1
                           /\ da[j].type = "MASK" /\ da[j].at = "da" /\ da[j].word = j - 1
  BY <1>1 DEF Field
<1>10. ASSUME NEW k \in 1 .. 11
      PROVE  /\ (r[k].type = "MASK" /\ r[k].at = "sa") = (k \in 2 .. 5)
             /\ (r[k].type = "MASK" /\ r[k].at = "da") = (k \in 6 .. 9)
  <2>1. CASE k \in 2 .. 5
    <3>1. PICK j \in 1 .. 4 : k = 1 + j
      BY <2>1
    <3>2. QED
      BY <1>7, <1>9, <2>1, <3>1
  <2>2. CASE k \in 6 .. 9
    <3>1. PICK j \in 1 .. 4 : k = 5 + j
      BY <2>2
    <3>2. QED
      BY <1>7, <1>9, <2>2, <3>1
  <2>3. CASE k = 1 \/ k = 10 \/ k = 11
    BY <1>7, <1>9, <2>3
  <2>4. QED
    BY <2>1, <2>2, <2>3
<1>11. QED
  BY <1>7, <1>8, <1>9, <1>10

-----------------------------------------------------------------------------
(* Depths                                                                    *)

\* match_convert_ipv6_depth: each word has at most its 32 bits, and together
\* they have the first depth ones.
LEMMA DepthOfWords ==
  ASSUME NEW depth \in Nat, depth <= 128
  PROVE  LET w == match_convert_ipv6_depth(depth)
         IN /\ \A k \in 1 .. 4 : w[k] \in 0 .. 32
            /\ \A k \in 1 .. 4 : \A b \in 0 .. w[k] - 1 : 32 * (k - 1) + b \in 0 .. depth - 1
            /\ \A x \in 0 .. depth - 1 : \E k \in 1 .. 4 : \E b \in 0 .. w[k] - 1 :
                 x = 32 * (k - 1) + b
<1> PICK w : w = match_convert_ipv6_depth(depth)
  OBVIOUS
<1> PICK q, r : q = depth \div 32 /\ r = depth % 32
  OBVIOUS
<1>1. q \in 0 .. 4 /\ r \in 0 .. 31 /\ depth = 32 * q + r
  OBVIOUS
<1>2. \A k \in 1 .. 4 : w[k] = IF k <= q THEN 32 ELSE IF k = q + 1 THEN r ELSE 0
  BY DEF match_convert_ipv6_depth
<1>3. \A k \in 1 .. 4 : w[k] \in 0 .. 32
  BY <1>1, <1>2
<1>4. ASSUME NEW k \in 1 .. 4, NEW b \in 0 .. w[k] - 1
      PROVE  32 * (k - 1) + b \in 0 .. depth - 1
  <2>1. CASE k <= q
    BY <1>1, <1>2, <2>1
  <2>2. CASE k = q + 1
    BY <1>1, <1>2, <2>2
  <2>3. CASE k > q + 1
    BY <1>1, <1>2, <2>3
  <2>4. QED
    BY <1>1, <2>1, <2>2, <2>3
<1>5. ASSUME NEW x \in 0 .. depth - 1
      PROVE  \E k \in 1 .. 4 : \E b \in 0 .. w[k] - 1 : x = 32 * (k - 1) + b
  <2>1. PICK y, b : y = x \div 32 /\ b = x % 32
    OBVIOUS
  <2>2. y \in 0 .. 3 /\ b \in 0 .. 31 /\ x = 32 * y + b
    BY <2>1
  <2>3. y + 1 \in 1 .. 4 /\ x = 32 * (y + 1 - 1) + b
    BY <2>2
  <2>4. CASE y < q
    <3>1. w[y + 1] = 32
      BY <1>1, <1>2, <2>2, <2>4
    <3>2. QED
      BY <2>2, <2>3, <3>1
  <2>5. CASE y >= q
    <3>1. y = q /\ b < r
      BY <1>1, <2>2, <2>5
    <3>2. w[y + 1] = r
      BY <1>1, <1>2, <2>2, <3>1
    <3>3. QED
      BY <1>1, <2>2, <2>3, <3>1, <3>2
  <2>6. QED
    BY <1>1, <2>2, <2>4, <2>5
<1>6. QED
  BY <1>3, <1>4, <1>5

\* The address is in the four fields after `off`, each with its part of the depth.
FourWords(entry, format, addr, off, depth) ==
  /\ {k \in DOMAIN format : format[k].type = "MASK" /\ format[k].at = addr} = off + 1 .. off + 4
  /\ \A j \in 1 .. 4 : /\ format[off + j].word = j - 1
                       /\ entry.fields[off + j][2] = match_convert_ipv6_depth(depth)[j]

\* Four words next to one another cover the address.
LEMMA CoversWords ==
  ASSUME NEW entry, NEW format, NEW addr, NEW off \in Nat, NEW depth \in Nat, depth <= 128,
         FourWords(entry, format, addr, off, depth)
  PROVE  Covers(entry, format, addr, depth)
<1> PICK w : w = match_convert_ipv6_depth(depth)
  OBVIOUS
<1> PICK words : words = off + 1 .. off + 4
  OBVIOUS
<1>1. \A k \in words : \E j \in 1 .. 4 : k = off + j
  <2> SUFFICES ASSUME NEW k \in words PROVE k - off \in 1 .. 4 /\ k = off + (k - off)
    OBVIOUS
  <2> QED
    OBVIOUS
<1>2. \A j \in 1 .. 4 : /\ off + j \in words
                        /\ format[off + j].word = j - 1 /\ entry.fields[off + j][2] = w[j]
  BY DEF FourWords
<1>3. ASSUME NEW k \in words PROVE entry.fields[k][2] \in 0 .. 32
  <2>1. PICK j \in 1 .. 4 : k = off + j
    BY <1>1
  <2>2. w[j] \in 0 .. 32
    BY DepthOfWords
  <2>3. entry.fields[k][2] = w[j]
    BY <1>2, <2>1
  <2>4. QED
    BY <2>2, <2>3
<1>4. PICK bits : bits = UNION {{32 * format[k].word + b : b \in 0 .. entry.fields[k][2] - 1}
                                  : k \in words}
  OBVIOUS
<1>5. ASSUME NEW x \in bits PROVE x \in 0 .. depth - 1
  <2>1. PICK k \in words : x \in {32 * format[k].word + b : b \in 0 .. entry.fields[k][2] - 1}
    BY <1>4
  <2>2. PICK j \in 1 .. 4 : k = off + j
    BY <1>1
  <2>3. format[k].word = j - 1 /\ entry.fields[k][2] = w[j]
    BY <1>2, <2>2
  <2>4. PICK b \in 0 .. w[j] - 1 : x = 32 * (j - 1) + b
    BY <2>1, <2>3
  <2>5. QED
    BY <2>4, DepthOfWords
<1>6. ASSUME NEW x \in 0 .. depth - 1 PROVE x \in bits
  <2>1. PICK j \in 1 .. 4 : \E b \in 0 .. w[j] - 1 : x = 32 * (j - 1) + b
    BY DepthOfWords
  <2>2. PICK k : k = off + j
    OBVIOUS
  <2>3. x \in {32 * format[k].word + b : b \in 0 .. entry.fields[k][2] - 1}
    BY <1>2, <2>1, <2>2
  <2>4. k \in words
    BY <1>2, <2>2
  <2>5. QED
    BY <1>4, <2>3, <2>4, ZenonT(60)
<1>7. bits = 0 .. depth - 1
  BY <1>5, <1>6
<1>8. {k \in DOMAIN format : format[k].type = "MASK" /\ format[k].at = addr} = words
  BY DEF FourWords
<1>9. QED
  BY <1>3, <1>4, <1>7, <1>8, Zenon DEF Covers

\* The address is in field k, with the whole of the depth.
OneWord(entry, format, addr, k, depth) ==
  /\ {x \in DOMAIN format : format[x].type = "MASK" /\ format[x].at = addr} = {k}
  /\ format[k].word = 0 /\ entry.fields[k][2] = depth

\* One word covers it, up to 32 bits.
LEMMA CoversOne ==
  ASSUME NEW entry, NEW format, NEW addr, NEW k, NEW depth \in 0 .. 32,
         OneWord(entry, format, addr, k, depth)
  PROVE  Covers(entry, format, addr, depth)
<1>0. /\ {x \in DOMAIN format : format[x].type = "MASK" /\ format[x].at = addr} = {k}
      /\ format[k].word = 0 /\ entry.fields[k][2] = depth
  BY DEF OneWord
<1>1. {32 * format[k].word + b : b \in 0 .. entry.fields[k][2] - 1} = 0 .. depth - 1
  BY <1>0
<1>2. UNION {{32 * format[x].word + b : b \in 0 .. entry.fields[x][2] - 1} : x \in {k}}
      = 0 .. depth - 1
  BY <1>1
<1>3. QED
  BY <1>0, <1>2 DEF Covers

\* The depths of an entry's fields (match_convert).
LEMMA Fields4 ==
  ASSUME NEW m, m.id = "acl_ipv4"
  PROVE  /\ Len(AclFields(m)) = 5
         /\ AclFields(m)[2][2] = Number(m.values.sa_depth)
         /\ AclFields(m)[3][2] = Number(m.values.da_depth)
<1> PICK v : v = m.values
  OBVIOUS
<1>1. PICK proto, sa, da, sp, dp :
      /\ proto = <<v.proto, "0">>
      /\ sa = <<v.sa, Number(v.sa_depth)>> /\ da = <<v.da, Number(v.da_depth)>>
      /\ sp = <<v.sp0, v.sp1>> /\ dp = <<v.dp0, v.dp1>>
  OBVIOUS
<1>2. PICK head, ports, S : /\ head = <<proto, sa, da>> /\ ports = <<sp, dp>>
                            /\ S = {proto, sa, da, sp, dp}
  OBVIOUS
<1>3. /\ head \in Seq(S) /\ Len(head) = 3 /\ head[2] = sa /\ head[3] = da
      /\ ports \in Seq(S) /\ Len(ports) = 2
  BY <1>2, Tuples
<1>4. PICK r : r = head \o ports /\ Glue(r, head, ports, S)
  BY <1>3, Glued
<1>5. Glue(r, head, ports, S)
  BY <1>4
<1>6. Len(r) = 5 /\ r[2] = sa /\ r[3] = da
  BY <1>3, <1>5 DEF Glue
<1>7. AclFields(m) = r
  BY <1>1, <1>2, <1>4, Zenon DEF AclFields
<1>8. sa[2] = Number(v.sa_depth) /\ da[2] = Number(v.da_depth)
  BY <1>1
<1>9. QED
  BY <1>6, <1>7, <1>8

\* The same of an ipv6 rule, the four words of each address in their order.
LEMMA Fields6 ==
  ASSUME NEW m, m.id = "acl_ipv6"
  PROVE  /\ Len(AclFields(m)) = 11
         /\ \A j \in 1 .. 4 :
              /\ AclFields(m)[1 + j][2] = match_convert_ipv6_depth(Number(m.values.sa_depth))[j]
              /\ AclFields(m)[5 + j][2] = match_convert_ipv6_depth(Number(m.values.da_depth))[j]
<1> PICK v : v = m.values
  OBVIOUS
<1>1. PICK ws, wd : /\ ws = match_convert_ipv6_depth(Number(v.sa_depth))
                    /\ wd = match_convert_ipv6_depth(Number(v.da_depth))
  OBVIOUS
<1>2. PICK proto, sa, da, sp, dp :
      /\ proto = <<v.proto, "0">>
      /\ sa = [k \in 1 .. 4 |-> <<v.sa \o "/" \o ToString(k), ws[k]>>]
      /\ da = [k \in 1 .. 4 |-> <<v.da \o "/" \o ToString(k), wd[k]>>]
      /\ sp = <<v.sp0, v.sp1>> /\ dp = <<v.dp0, v.dp1>>
  OBVIOUS
<1>3. PICK head, ports, S : /\ head = <<proto>> /\ ports = <<sp, dp>>
                            /\ S = {proto, sp, dp} \cup {sa[k] : k \in 1 .. 4}
                                     \cup {da[k] : k \in 1 .. 4}
  OBVIOUS
<1>4. /\ head \in Seq(S) /\ Len(head) = 1
      /\ ports \in Seq(S) /\ Len(ports) = 2
  BY <1>3, Tuples
<1>5. sa \in Seq(S) /\ Len(sa) = 4 /\ da \in Seq(S) /\ Len(da) = 4
  <2>1. \A k \in 1 .. 4 : sa[k] \in S /\ da[k] \in S
    BY <1>3
  <2>2. DOMAIN sa = 1 .. 4 /\ sa = [k \in 1 .. 4 |-> sa[k]]
    BY <1>2
  <2>3. DOMAIN da = 1 .. 4 /\ da = [k \in 1 .. 4 |-> da[k]]
    BY <1>2
  <2>4. sa \in [1 .. 4 -> S] /\ da \in [1 .. 4 -> S]
    BY <2>1, <2>2, <2>3
  <2>5. \A f \in [1 .. 4 -> S] : f \in Seq(S) /\ Len(f) = 4
    <3>1. \A n \in Nat : \A f \in [1 .. n -> S] : f \in Seq(S) /\ Len(f) = n
      BY Places, Zenon
    <3>2. QED
      BY <3>1
  <2>6. QED
    BY <2>4, <2>5, Zenon
<1>6. PICK r : r = head \o sa \o da \o ports /\ Glue4(r, head, sa, da, ports, S)
  BY <1>4, <1>5, FourGlued
<1>7. Glue4(r, head, sa, da, ports, S)
  BY <1>6
<1>8. Len(r) = 11 /\ \A j \in 1 .. 4 : r[1 + j] = sa[j] /\ r[5 + j] = da[j]
  BY <1>7 DEF Glue4
<1>9. AclFields(m) = r
  BY <1>1, <1>2, <1>3, <1>6, Zenon DEF AclFields
<1>10. \A j \in 1 .. 4 : sa[j][2] = ws[j] /\ da[j][2] = wd[j]
  BY <1>2
<1>11. QED
  BY <1>1, <1>8, <1>9, <1>10

\* Of a raw rule and a raw table: one field for each byte and the protocol.
LEMMA FieldsRaw ==
  ASSUME NEW m, m.id = "acl_raw"
  PROVE  Len(AclFields(m)) = Len(Format(2))
<1> PICK v : v = m.values
  OBVIOUS
<1>1. PICK head, bytes, S :
      /\ head = <<<<v.proto, v.proto_mask>>>>
      /\ bytes = [k \in 1 .. NFilter |-> <<v["origin" \o ToString(k)], v["mask" \o ToString(k)]>>]
      /\ S = {<<v.proto, v.proto_mask>>} \cup {bytes[k] : k \in 1 .. NFilter}
  OBVIOUS
<1>2. head \in Seq(S) /\ Len(head) = 1
  BY <1>1, Tuples
<1>3. bytes \in Seq(S) /\ Len(bytes) = NFilter /\ NFilter \in Nat
  BY <1>1, SizesNatural
<1>4. PICK r : r = head \o bytes /\ Glue(r, head, bytes, S)
  BY <1>2, <1>3, Glued
<1>5. Len(r) = 1 + NFilter
  BY <1>2, <1>3, <1>4 DEF Glue
<1>6. AclFields(m) = r
  BY <1>1, <1>4, Zenon DEF AclFields
<1>7. Format(2) = table_acl_field_format_raw
  BY DEF Format
<1>8. Len(table_acl_field_format_raw) = 1 + NFilter
  BY <1>3 DEF table_acl_field_format_raw
<1>9. QED
  BY <1>5, <1>6, <1>7, <1>8

\* The entry of a rule that match_check takes compares what the rule says.
LEMMA EntryIsRight ==
  ASSUME NEW f \in MatchForms, NEW tokens, Fits(f, tokens), NEW m, m = Match(f, Values(f, tokens)),
         NEW table, match_check(table, m),
         m.id \in {"acl_ipv4", "acl_ipv6"}, IpVersion(m) = table.ip_version
  PROVE  LET e == match_convert(m)
             format == Format(table.ip_version)
         IN /\ Len(e.fields) = Len(format)
            /\ Covers(e, format, "sa", Number(m.values.sa_depth))
            /\ Covers(e, format, "da", Number(m.values.da_depth))
<1> PICK e, format, ds, dd : /\ e = match_convert(m) /\ format = Format(table.ip_version)
                            /\ ds = Number(m.values.sa_depth) /\ dd = Number(m.values.da_depth)
  OBVIOUS
<1>1. ds \in Nat /\ dd \in Nat
  BY AclMatch, AclDepths
<1>2. DepthsOf(m) = {m.values.sa_depth, m.values.da_depth}
  BY Zenon DEF DepthsOf
<1>3. e.fields = AclFields(m)
  <2>1. MatchType(m.id) = "acl"
    BY MatchTypes
  <2>2. e = [id |-> m.id, priority |-> m.values.priority, fields |-> AclFields(m)]
    BY <2>1 DEF match_convert
  <2>3. QED
    BY <2>2
<1>4. CASE m.id = "acl_ipv4"
  <2>1. IpVersion(m) = 1
    BY <1>4 DEF IpVersion
  <2>2. ds \in 0 .. 32 /\ dd \in 0 .. 32
    BY <1>1, <1>2, <2>1 DEF match_check
  <2>3. Format(1) = table_acl_field_format_ipv4
    BY DEF Format
  <2>4. format = table_acl_field_format_ipv4
    BY <2>1, <2>3
  <2>5. Len(e.fields) = 5 /\ e.fields[2][2] = ds /\ e.fields[3][2] = dd
    BY <1>3, <1>4, Fields4
  <2>6. /\ Len(format) = 5 /\ format[2].word = 0 /\ format[3].word = 0
        /\ {k \in DOMAIN format : format[k].type = "MASK" /\ format[k].at = "sa"} = {2}
        /\ {k \in DOMAIN format : format[k].type = "MASK" /\ format[k].at = "da"} = {3}
    BY <2>4, Format4
  <2>7. OneWord(e, format, "sa", 2, ds) /\ OneWord(e, format, "da", 3, dd)
    BY <2>5, <2>6, Zenon DEF OneWord
  <2>8. Covers(e, format, "sa", ds) /\ Covers(e, format, "da", dd)
    BY <2>2, <2>7, CoversOne
  <2>9. QED
    BY <2>5, <2>6, <2>8
<1>5. CASE m.id = "acl_ipv6"
  <2>1. IpVersion(m) = 0
    BY <1>5 DEF IpVersion
  <2>2. ds <= 128 /\ dd <= 128
    BY <1>1, <1>2, <2>1 DEF match_check
  <2>3. Format(0) = table_acl_field_format_ipv6
    BY DEF Format
  <2>4. format = table_acl_field_format_ipv6
    BY <2>1, <2>3
  <2> PICK ws, wd : ws = match_convert_ipv6_depth(ds) /\ wd = match_convert_ipv6_depth(dd)
    OBVIOUS
  <2>5. /\ Len(e.fields) = 11
        /\ \A n \in 1 .. 4 : e.fields[1 + n][2] = ws[n] /\ e.fields[5 + n][2] = wd[n]
    BY <1>3, <1>5, Fields6
  <2>6. /\ Len(format) = 11
        /\ \A n \in 1 .. 4 : format[1 + n].word = n - 1 /\ format[5 + n].word = n - 1
        /\ {k \in DOMAIN format : format[k].type = "MASK" /\ format[k].at = "sa"} = 2 .. 5
        /\ {k \in DOMAIN format : format[k].type = "MASK" /\ format[k].at = "da"} = 6 .. 9
    BY <2>4, Format6
  <2>7. Covers(e, format, "sa", ds)
    <3>1. {k \in DOMAIN format : format[k].type = "MASK" /\ format[k].at = "sa"} = 1 + 1 .. 1 + 4
      BY <2>6
    <3>2. \A j \in 1 .. 4 : /\ format[1 + j].word = j - 1
                            /\ e.fields[1 + j][2] = match_convert_ipv6_depth(ds)[j]
      BY <2>5, <2>6
    <3>3. FourWords(e, format, "sa", 1, ds)
      BY <3>1, <3>2, Zenon DEF FourWords
    <3>4. QED
      BY <1>1, <2>2, <3>3, CoversWords
  <2>8. Covers(e, format, "da", dd)
    <3>1. {k \in DOMAIN format : format[k].type = "MASK" /\ format[k].at = "da"} = 5 + 1 .. 5 + 4
      BY <2>6
    <3>2. \A j \in 1 .. 4 : /\ format[5 + j].word = j - 1
                            /\ e.fields[5 + j][2] = match_convert_ipv6_depth(dd)[j]
      BY <2>5, <2>6
    <3>3. FourWords(e, format, "da", 5, dd)
      BY <3>1, <3>2, Zenon DEF FourWords
    <3>4. QED
      BY <1>1, <2>2, <3>3, CoversWords
  <2>9. QED
    BY <2>5, <2>6, <2>7, <2>8
<1>6. QED
  BY <1>4, <1>5

\* A rule that is taken begins with one of the forms of parse_match.
LEMMA LineParsed ==
  ASSUME NEW tokens, parse_line(tokens) # Refused
  PROVE  \E f \in MatchForms : /\ Fits(f, tokens)
                               /\ parse_line(tokens).match = Match(f, Values(f, tokens))
<1> PICK forms : forms = parse_match(tokens)
  OBVIOUS
<1> PICK m : m = CHOOSE f \in forms : TRUE
  OBVIOUS
<1>1. forms # {} /\ parse_line(tokens).match = Match(m, Values(m, tokens))
  BY DEF parse_line
<1>2. m \in MatchForms /\ Fits(m, tokens)
  BY <1>1 DEF parse_match
<1>3. QED
  BY <1>1, <1>2

-----------------------------------------------------------------------------
(* The list and the entries                                                  *)

\* A list with one more at its end.
LEMMA OneMore ==
  ASSUME NEW s, s \in Seq({s[i] : i \in DOMAIN s}), NEW x
  PROVE  LET r == Append(s, x)
         IN /\ r \in Seq({r[i] : i \in DOMAIN r})
            /\ Len(s) \in Nat /\ Len(r) = Len(s) + 1
            /\ DOMAIN s = 1 .. Len(s) /\ DOMAIN r = 1 .. Len(s) + 1
            /\ r[Len(s) + 1] = x /\ \A i \in DOMAIN s : r[i] = s[i]
<1> PICK S : S = {s[i] : i \in DOMAIN s} \cup {x}
  OBVIOUS
<1> PICK n : n = Len(s)
  OBVIOUS
<1>1. s \in Seq(S) /\ n \in Nat /\ DOMAIN s = 1 .. n
  OBVIOUS
<1>2. PICK r : r = Append(s, x)
  OBVIOUS
<1>3. /\ r \in Seq(S) /\ Len(r) = n + 1 /\ DOMAIN r = 1 .. n + 1
      /\ r[n + 1] = x /\ \A i \in 1 .. n : r[i] = s[i]
  BY <1>1, <1>2
<1>4. r \in Seq({r[i] : i \in DOMAIN r})
  BY <1>3
<1>5. QED
  BY <1>1, <1>2, <1>3, <1>4

\* The lines of a file are a sequence.
LEMMA LinesOfFile ==
  ASSUME NEW f \in Files
  PROVE  Len(f.lines) \in Nat /\ DOMAIN f.lines = 1 .. Len(f.lines)
BY FilesAreLines

\* A rule read from the file stays one.
LEMMA ParsedKept ==
  ASSUME file' = file, NEW rule, Parsed(rule)
  PROVE  Parsed(rule)'
BY DEF Parsed

\* The rules of the list are read from the file, and the entries are theirs.
LEMMA ListIsRead == Spec => []ListInv
<1>1. Init => ListInv
  <2> SUFFICES ASSUME Init PROVE ListInv
    OBVIOUS
  <2>1. Len(file.lines) \in Nat
    BY LinesOfFile DEF Init
  <2>2. line_id \in 1 .. End
    BY <2>1 DEF Init, End
  <2>3. list \in Seq({list[i] : i \in DOMAIN list}) /\ DOMAIN list = {}
    BY DEF Init
  <2>4. QED
    BY <2>2, <2>3 DEF Init, ListInv
<1>2. ASSUME ListInv, [Next]_vars
      PROVE  ListInv'
  <2>1. file' = file /\ End' = End
    BY <1>2 DEF Next, vars, SkipLine, ReadRule, RefuseLine, EndOfFile,
       pipeline_table_rule_add_bulk, End
  <2>2. file \in Files /\ Len(file.lines) \in Nat /\ DOMAIN file.lines = 1 .. Len(file.lines)
    BY <1>2, LinesOfFile DEF ListInv
  <2>3. Reading => line_id + 1 \in 1 .. End
    BY <1>2, <2>2 DEF ListInv, Reading, End
  <2>4. UNCHANGED list => (\A i \in DOMAIN list : Parsed(list[i]))'
    <3> SUFFICES ASSUME UNCHANGED list, NEW i \in DOMAIN list PROVE Parsed(list[i])'
      OBVIOUS
    <3>1. Parsed(list[i])
      BY <1>2 DEF ListInv
    <3>2. QED
      BY <2>1, <3>1, ParsedKept
  <2>5. CASE SkipLine
    <3>1. /\ line_id' \in 1 .. End /\ status = "reading" /\ status' = status
          /\ list' = list /\ entries' = entries
      BY <2>3, <2>5 DEF SkipLine, Reading
    <3>2. (list \in Seq({list[i] : i \in DOMAIN list}))'
      BY <1>2, <3>1 DEF ListInv
    <3>3. QED
      BY <1>2, <2>1, <2>4, <3>1, <3>2 DEF ListInv
  <2>6. CASE ReadRule
    <3>1. PICK r : r = parse_line(Tokens)
      OBVIOUS
    <3>2. /\ r # Refused /\ list' = Append(list, r) /\ line_id' = line_id + 1
          /\ status' = status /\ entries' = entries /\ status = "reading" /\ Reading
      BY <2>6, <3>1 DEF ReadRule, RuleLine, Reading
    <3>3. Parsed(r)
      <4>1. PICK f \in MatchForms : Fits(f, Tokens) /\ r.match = Match(f, Values(f, Tokens))
        BY <3>1, <3>2, LineParsed
      <4>2. line_id \in DOMAIN file.lines
        BY <1>2, <2>2, <3>2 DEF ListInv, Reading, End
      <4>3. QED
        BY <4>1, <4>2 DEF Parsed, Tokens, Line
    <3>4. PICK n, new : n = Len(list) /\ new = Append(list, r)
      OBVIOUS
    <3>5. /\ new \in Seq({new[i] : i \in DOMAIN new}) /\ n \in Nat
          /\ DOMAIN list = 1 .. n /\ DOMAIN new = 1 .. n + 1
          /\ new[n + 1] = r /\ \A i \in DOMAIN list : new[i] = list[i]
      BY <1>2, <3>4, OneMore DEF ListInv
    <3>6. ASSUME NEW i \in DOMAIN new PROVE Parsed(new[i])'
      <4>1. CASE i = n + 1
        BY <2>1, <3>3, <3>5, <4>1, ParsedKept
      <4>2. CASE i \in 1 .. n
        <5>1. Parsed(list[i])
          BY <1>2, <3>5, <4>2 DEF ListInv
        <5>2. QED
          BY <2>1, <3>5, <4>2, <5>1, ParsedKept
      <4>3. QED
        BY <3>5, <4>1, <4>2
    <3>7. list' = new
      BY <3>2, <3>4
    <3>8. (\A i \in DOMAIN list : Parsed(list[i]))'
      BY <3>6, <3>7
    <3>9. (list \in Seq({list[i] : i \in DOMAIN list}))'
      BY <3>5, <3>7
    <3>10. QED
      BY <1>2, <2>1, <2>3, <3>2, <3>8, <3>9 DEF ListInv
  <2>7. CASE RefuseLine
    <3>1. (list \in Seq({list[i] : i \in DOMAIN list}))' /\ (DOMAIN list = {})'
      BY <2>7 DEF RefuseLine
    <3>2. QED
      BY <1>2, <2>1, <2>7, <3>1 DEF ListInv, RefuseLine, RuleLine, Reading
  <2>8. CASE EndOfFile
    BY <1>2, <2>1, <2>4, <2>8 DEF ListInv, EndOfFile
  <2>9. CASE pipeline_table_rule_add_bulk
    <3>1. UNCHANGED <<file, line_id, list>> /\ status = "read" /\ entries = <<>>
      BY <1>2, <2>9 DEF pipeline_table_rule_add_bulk, ListInv
    <3>2. \/ status' = "refused" /\ UNCHANGED entries
          \/ /\ status' = "added" /\ Checked(into')
             /\ entries' = [i \in DOMAIN list |-> match_convert(list[i].match)]
      BY <2>9 DEF pipeline_table_rule_add_bulk
    <3>3. Checked(into') => Checked(into)'
      BY <3>1 DEF Checked
    <3>4. QED
      BY <1>2, <2>1, <2>4, <3>1, <3>2, <3>3 DEF ListInv
  <2>10. CASE UNCHANGED vars
    <3>1. Checked(into)' = Checked(into)
      BY <2>10 DEF vars, Checked
    <3>2. QED
      BY <1>2, <2>1, <2>4, <2>10, <3>1 DEF ListInv, vars
  <2>11. QED
    BY <1>2, <2>5, <2>6, <2>7, <2>8, <2>9, <2>10 DEF Next
<1>3. QED
  BY <1>1, <1>2, PTL DEF Spec

\* Whatever the file, an entry of an ACL table has a value for every field of the
\* table and compares as many bits of each address as its rule says.
THEOREM EntriesCover == Spec => []EntryCovers
<1>1. ASSUME ListInv PROVE EntryCovers
  <2> SUFFICES ASSUME NEW i \in DOMAIN entries
               PROVE  LET m == list[i].match
                          e == entries[i]
                          format == Format(into.ip_version)
                      IN /\ m.id = "acl_raw" /\ into.ip_version = 2 => Len(e.fields) = Len(format)
                         /\ m.id \in {"acl_ipv4", "acl_ipv6"} /\ IpVersion(m) = into.ip_version =>
                              /\ Len(e.fields) = Len(format)
                              /\ Covers(e, format, "sa", Number(m.values.sa_depth))
                              /\ Covers(e, format, "da", Number(m.values.da_depth))
    BY DEF EntryCovers
  <2> PICK m, e : m = list[i].match /\ e = entries[i]
    OBVIOUS
  <2>1. /\ i \in DOMAIN list /\ e = match_convert(m) /\ Checked(into)
    BY <1>1 DEF ListInv
  <2>2. match_check(into, m)
    BY <2>1 DEF Checked
  <2>3. PICK f, tokens : f \in MatchForms /\ Fits(f, tokens) /\ m = Match(f, Values(f, tokens))
    BY <1>1, <2>1 DEF ListInv, Parsed
  <2>4. ASSUME m.id = "acl_raw", into.ip_version = 2
        PROVE  Len(e.fields) = Len(Format(into.ip_version))
    <3>1. e.fields = AclFields(m)
      BY <2>1, <2>4, MatchTypes DEF match_convert
    <3>2. QED
      BY <2>4, <3>1, FieldsRaw
  <2>5. QED
    BY <2>1, <2>2, <2>3, <2>4, EntryIsRight
<1>2. QED
  BY <1>1, ListIsRead, PTL

-----------------------------------------------------------------------------
(* The list and the lines of the file                                        *)

\* What a line is read as, against what it says (ReadsAsSaid).
LEMMA LineSaid ==
  ASSUME NEW line, NEW shown, NEW read, ReadsAsSaid(line, shown), read = ReadAlone(line)
  PROVE  /\ read = <<>> => line.says = <<>>
         /\ read = <<Refused>> => line.says # <<>> /\ Lost(line.says, shown)
         /\ \A r : r # Refused /\ read = <<r>> =>
              /\ line.says # <<>> /\ ~Lost(line.says, shown)
              /\ r = IF shown THEN line.says[1] ELSE AsRead(line.says[1])
<1>1. /\ line.says = <<>> => read = <<>>
      /\ line.says # <<>> /\ Lost(line.says, shown) => read = <<Refused>>
      /\ line.says # <<>> /\ ~Lost(line.says, shown) =>
           /\ read = <<IF shown THEN line.says[1] ELSE AsRead(line.says[1])>>
           /\ read # <<Refused>>
  BY Zenon DEF ReadsAsSaid
<1>2. /\ \A x : <<x>> # <<>>
      /\ \A x, y : <<x>> = <<y>> => x = y
  OBVIOUS
<1>3. QED
  BY <1>1, <1>2, Zenon

\* The lines of the beginning of a file that say something are so many, and one
\* more when the next does.
LEMMA Telling1 ==
  ASSUME NEW n \in Nat, n # 0
  PROVE  /\ IsFiniteSet(Telling(n)) /\ Cardinality(Telling(n)) \in Nat
         /\ \A j \in Telling(n) : j \in 1 .. n - 1
         /\ file.lines[n].says = <<>> => Telling(n + 1) = Telling(n)
         /\ file.lines[n].says # <<>> =>
              /\ Telling(n + 1) = Telling(n) \cup {n}
              /\ Cardinality(Telling(n + 1)) = Cardinality(Telling(n)) + 1
<1>1. IsFiniteSet(Telling(n))
  <2>1. IsFiniteSet(1 .. n - 1)
    BY FS_Interval
  <2>2. Telling(n) \in SUBSET (1 .. n - 1)
    BY DEF Telling
  <2>3. QED
    BY <2>1, <2>2, FS_Subset
<1>2. Cardinality(Telling(n)) \in Nat
  BY <1>1, FS_CardinalityType
<1>3. \A j \in Telling(n) : j \in 1 .. n - 1
  BY DEF Telling
<1>4. file.lines[n].says = <<>> => Telling(n + 1) = Telling(n)
  BY DEF Telling
<1>5. file.lines[n].says # <<>> => Telling(n + 1) = Telling(n) \cup {n}
  BY DEF Telling
<1>6. n \notin Telling(n)
  BY DEF Telling
<1>7. Cardinality(Telling(n) \cup {n}) = Cardinality(Telling(n)) + 1
  BY <1>1, <1>6, FS_AddElement
<1>8. QED
  BY <1>1, <1>2, <1>3, <1>4, <1>5, <1>7

\* Fewer of them come before one of them than before a later line.
LEMMA TellingBefore ==
  ASSUME NEW n \in Nat, n # 0, NEW j \in Telling(n)
  PROVE  /\ Cardinality(Telling(j)) \in Nat
         /\ Cardinality(Telling(j)) + 1 <= Cardinality(Telling(n))
<1>1. j \in 1 .. n - 1 /\ file.lines[j].says # <<>>
  BY DEF Telling
<1>2. j \in Nat /\ j # 0
  BY <1>1
<1>3. Telling(j + 1) \in SUBSET Telling(n)
  BY <1>1 DEF Telling
<1>4. Cardinality(Telling(j + 1)) = Cardinality(Telling(j)) + 1 /\ Cardinality(Telling(j)) \in Nat
  BY <1>1, <1>2, Telling1
<1>5. Cardinality(Telling(j + 1)) <= Cardinality(Telling(n))
  BY <1>3, Telling1, FS_Subset
<1>6. QED
  BY <1>4, <1>5

\* The list `l` is what the lines before line n mean.
KeptUpTo(l, n) ==
  /\ Len(l) = Cardinality(Telling(n))
  /\ \A j \in Telling(n) : l[Cardinality(Telling(j)) + 1] = Meant(j)

\* It is still when a line is read that means nothing, and when the rule of a
\* line that means one is put at its end (SkipLine, ReadRule).
LEMMA KeptGrows ==
  ASSUME NEW l, l \in Seq({l[i] : i \in DOMAIN l}), NEW n \in Nat, n # 0, KeptUpTo(l, n)
  PROVE  /\ file.lines[n].says = <<>> => KeptUpTo(l, n + 1)
         /\ file.lines[n].says # <<>> => KeptUpTo(Append(l, Meant(n)), n + 1)
<1>1. CASE file.lines[n].says = <<>>
  <2>1. Telling(n + 1) = Telling(n)
    BY <1>1, Telling1
  <2>2. QED
    BY <1>1, <2>1 DEF KeptUpTo
<1>2. CASE file.lines[n].says # <<>>
  <2>1. PICK r, c : r = Append(l, Meant(n)) /\ c = Cardinality(Telling(n))
    OBVIOUS
  <2>2. /\ c \in Nat /\ Telling(n + 1) = Telling(n) \cup {n}
        /\ Cardinality(Telling(n + 1)) = c + 1
    BY <1>2, <2>1, Telling1
  <2>3. Len(l) = c /\ \A j \in Telling(n) : l[Cardinality(Telling(j)) + 1] = Meant(j)
    BY <2>1 DEF KeptUpTo
  <2>4. /\ Len(r) = c + 1 /\ DOMAIN l = 1 .. c
        /\ r[c + 1] = Meant(n) /\ \A i \in DOMAIN l : r[i] = l[i]
    BY <2>1, <2>3, OneMore
  <2>5. ASSUME NEW j \in Telling(n + 1)
        PROVE  r[Cardinality(Telling(j)) + 1] = Meant(j)
    <3>1. CASE j = n
      BY <2>1, <2>4, <3>1
    <3>2. CASE j \in Telling(n)
      <4>1. Cardinality(Telling(j)) + 1 \in 1 .. c
        BY <2>1, <2>2, <3>2, TellingBefore
      <4>2. QED
        BY <2>3, <2>4, <3>2, <4>1
    <3>3. QED
      BY <2>2, <3>1, <3>2
  <2>6. KeptUpTo(r, n + 1)
    BY <2>2, <2>4, <2>5 DEF KeptUpTo
  <2>7. QED
    BY <1>2, <2>1, <2>6
<1>3. QED
  BY <1>1, <1>2

\* ReadInv of a list, a line and a status.
ReadSoFar(l, n, st) ==
  /\ st # "failed" => KeptUpTo(l, n)
  /\ \A j \in Telling(n) : ~Lost(file.lines[j].says, file.shown)
  /\ st \notin {"reading", "failed"} => n = End
  /\ st = "failed" =>
       /\ n # End /\ l = <<>>
       /\ file.lines[n].says # <<>> /\ Lost(file.lines[n].says, file.shown)

\* It is ReadInv.
LEMMA ReadInvIs == ReadInv <=> ReadSoFar(list, line_id, status)
<1>1. ListIs([j \in Telling(line_id) |-> Meant(j)], line_id) <=> KeptUpTo(list, line_id)
  BY DEF ListIs, KeptUpTo
<1>2. QED
  BY <1>1, Zenon DEF ReadInv, ReadSoFar

\* The file stays, and with it what its lines mean.
LEMMA FileStays ==
  ASSUME [Next]_vars
  PROVE  /\ file' = file /\ End' = End /\ LinesReadAsSaid' = LinesReadAsSaid
         /\ \A n : Telling(n)' = Telling(n)
         /\ \A j : Meant(j)' = Meant(j)
         /\ ReadSoFar(list, line_id, status)' <=> ReadSoFar(list', line_id', status')
<1>1. file' = file
  BY DEF Next, vars, SkipLine, ReadRule, RefuseLine, EndOfFile, pipeline_table_rule_add_bulk
<1>2. End' = End /\ \A n : Telling(n)' = Telling(n)
  BY <1>1 DEF End, Telling
<1>3. \A j : Meant(j)' = Meant(j)
  BY <1>1 DEF Meant
<1>4. LinesReadAsSaid' = LinesReadAsSaid
  BY <1>1 DEF LinesReadAsSaid
<1>5. KeptUpTo(list, line_id)' <=> KeptUpTo(list', line_id')
  BY <1>2, <1>3 DEF KeptUpTo
<1>6. ReadSoFar(list, line_id, status)' <=> ReadSoFar(list', line_id', status')
  BY <1>1, <1>2, <1>5 DEF ReadSoFar
<1>7. QED
  BY <1>1, <1>2, <1>3, <1>4, <1>6

\* Each step keeps the list what the lines read so far mean, if each of them by
\* itself is read as it says.
LEMMA ReadStep ==
  ASSUME ListInv, LinesReadAsSaid, ReadInv, [Next]_vars
  PROVE  ReadInv'
<1> PICK n : n = line_id
  OBVIOUS
<1>1. /\ Len(file.lines) \in Nat /\ DOMAIN file.lines = 1 .. Len(file.lines)
      /\ n \in 1 .. End /\ n \in Nat /\ n # 0
  BY LinesOfFile DEF ListInv, End
<1>2. list \in Seq({list[i] : i \in DOMAIN list})
  BY DEF ListInv
<1>3. /\ status # "failed" => KeptUpTo(list, n)
      /\ \A j \in Telling(n) : ~Lost(file.lines[j].says, file.shown)
      /\ status \notin {"reading", "failed"} => n = End
      /\ status = "failed" =>
           /\ n # End /\ list = <<>>
           /\ file.lines[n].says # <<>> /\ Lost(file.lines[n].says, file.shown)
  BY ReadInvIs DEF ReadSoFar
<1>4. SUFFICES ReadSoFar(list', line_id', status')
  <2>1. ReadInv' <=> ReadSoFar(list, line_id, status)'
    BY ReadInvIs, PTL
  <2>2. QED
    BY <2>1, FileStays
<1>5. ASSUME Reading
      PROVE  n \in DOMAIN file.lines /\ ReadsAsSaid(file.lines[n], file.shown)
  BY <1>1, <1>5 DEF Reading, LinesReadAsSaid
<1> PICK read : read = ReadAlone(Line)
  OBVIOUS
<1>6. Line = file.lines[n] /\ Tokens = Line.tokens
  BY DEF Line, Tokens
<1>7. CASE SkipLine
  <2>1. /\ Reading /\ status # "failed" /\ read = <<>>
        /\ line_id' = n + 1 /\ list' = list /\ status' = status /\ status = "reading"
    BY <1>6, <1>7 DEF SkipLine, Reading, ReadAlone
  <2>2. file.lines[n].says = <<>>
    BY <1>5, <1>6, <2>1, LineSaid
  <2>3. Telling(n + 1) = Telling(n)
    BY <1>1, <2>2, Telling1
  <2>4. KeptUpTo(list, n + 1)
    BY <1>1, <1>2, <1>3, <2>1, <2>2, KeptGrows
  <2>5. QED
    BY <1>3, <2>1, <2>3, <2>4 DEF ReadSoFar
<1>8. CASE ReadRule
  <2>1. PICK r : r = parse_line(Tokens)
    OBVIOUS
  <2>2. /\ Reading /\ r # Refused /\ read = <<r>> /\ list' = Append(list, r)
        /\ line_id' = n + 1 /\ status' = status /\ status = "reading"
    <3>1. /\ Reading /\ Tokens # <<>> /\ ~is_comment(Line) /\ Len(Tokens) <= MaxTokens
          /\ r # Refused /\ list' = Append(list, r)
          /\ line_id' = n + 1 /\ status' = status
      BY <1>8, <2>1 DEF ReadRule, RuleLine
    <3>2. status = "reading"
      BY <3>1 DEF Reading
    <3>3. ~(Len(Tokens) > MaxTokens)
      <4>1. Tokens \in Seq(STRING)
        BY <1>5, <1>6, <3>1, FilesAreLines DEF ListInv
      <4>2. QED
        BY <3>1, <4>1, MaxTokensNatural
    <3>4. read = <<r>>
      BY <2>1, <1>6, <3>1, <3>3, Zenon DEF ReadAlone
    <3>5. QED
      BY <3>1, <3>2, <3>4
  <2>3. /\ file.lines[n].says # <<>> /\ ~Lost(file.lines[n].says, file.shown)
        /\ r = IF file.shown THEN file.lines[n].says[1] ELSE AsRead(file.lines[n].says[1])
    BY <1>5, <1>6, <2>2, LineSaid
  <2>4. r = Meant(n)
    BY <2>3 DEF Meant
  <2>5. Telling(n + 1) = Telling(n) \cup {n}
    BY <1>1, <2>3, Telling1
  <2>6. KeptUpTo(Append(list, Meant(n)), n + 1)
    BY <1>1, <1>2, <1>3, <2>2, <2>3, KeptGrows
  <2>7. QED
    BY <1>3, <2>2, <2>3, <2>4, <2>5, <2>6 DEF ReadSoFar
<1>9. CASE RefuseLine
  <2>1. /\ Reading /\ read = <<Refused>> /\ list' = <<>> /\ line_id' = n /\ status' = "failed"
    BY <1>6, <1>9 DEF RefuseLine, RuleLine, ReadAlone
  <2>2. file.lines[n].says # <<>> /\ Lost(file.lines[n].says, file.shown)
    BY <1>5, <1>6, <2>1, LineSaid
  <2>3. n # End
    BY <1>1, <1>5, <2>1 DEF End
  <2>4. QED
    BY <1>3, <2>1, <2>2, <2>3 DEF ReadSoFar
<1>10. CASE EndOfFile
  <2>1. n = End
    BY <1>1, <1>10 DEF EndOfFile, End
  <2>2. status = "reading" /\ status' = "read" /\ line_id' = n /\ list' = list
    BY <1>10 DEF EndOfFile
  <2>3. QED
    BY <1>3, <2>1, <2>2 DEF ReadSoFar
<1>11. CASE pipeline_table_rule_add_bulk
  <2>1. status = "read" /\ status' \in {"refused", "added"} /\ line_id' = n /\ list' = list
    BY <1>11 DEF pipeline_table_rule_add_bulk
  <2>2. QED
    BY <1>3, <2>1 DEF ReadSoFar
<1>12. CASE UNCHANGED vars
  BY <1>3, <1>12 DEF vars, ReadSoFar
<1>13. QED
  BY <1>7, <1>8, <1>9, <1>10, <1>11, <1>12 DEF Next

\* At every moment, if each line of the file by itself is read as it says.
LEMMA LinesAreKept == Spec => [](ListInv /\ (LinesReadAsSaid => ReadInv))
<1>1. Init => (LinesReadAsSaid => ReadInv)
  <2> SUFFICES ASSUME Init PROVE ReadInv
    OBVIOUS
  <2>1. line_id = 1 /\ list = <<>> /\ status = "reading"
    BY DEF Init
  <2>2. Telling(line_id) = {} /\ Cardinality(Telling(line_id)) = 0
    BY <2>1, FS_EmptySet DEF Telling
  <2>3. KeptUpTo(list, line_id)
    BY <2>1, <2>2 DEF KeptUpTo
  <2>4. QED
    BY <2>1, <2>2, <2>3, ReadInvIs DEF ReadSoFar
<1>2. ListInv /\ (LinesReadAsSaid => ReadInv) /\ [Next]_vars => (LinesReadAsSaid => ReadInv)'
  BY FileStays, ReadStep
<1>3. QED
  BY <1>1, <1>2, ListIsRead, PTL DEF Spec

\* Whatever the file, the numbers and the tokens: a file written by hand whose
\* lines by themselves are read as they say is taken as a whole, each rule once
\* and in order, or is given up at its first line that is no rule
\* (cli_rule_file_process).
THEOREM FilesAreRead == Spec => [](LinesReadAsSaid => ReadAsWritten)
<1>1. ASSUME ListInv, ReadInv, ~file.shown
      PROVE  ReadAsWritten
  <2>1. ASSUME status \in {"read", "added"}
        PROVE  ListIs([j \in Telling(End) |-> AsRead(file.lines[j].says[1])], End)
    <3>1. line_id = End /\ KeptUpTo(list, End)
      BY <1>1, <2>1, ReadInvIs DEF ReadSoFar
    <3>2. \A j : Meant(j) = AsRead(file.lines[j].says[1])
      BY <1>1 DEF Meant
    <3>3. QED
      BY <3>1, <3>2 DEF KeptUpTo, ListIs
  <2>2. ASSUME status = "failed"
        PROVE  /\ list = <<>> /\ entries = <<>>
               /\ file.lines[line_id].says = <<Refused>>
               /\ \A i \in 1 .. line_id - 1 : file.lines[i].says # <<Refused>>
    <3>1. list = <<>> /\ entries = <<>>
      BY <1>1, <2>2, ReadInvIs DEF ListInv, ReadSoFar
    <3>2. Lost(file.lines[line_id].says, file.shown)
      BY <1>1, <2>2, ReadInvIs DEF ReadSoFar
    <3>3. file.lines[line_id].says = <<Refused>>
      BY <1>1, <3>2 DEF Lost
    <3>4. ASSUME NEW i \in 1 .. line_id - 1, file.lines[i].says = <<Refused>>
          PROVE  FALSE
      <4>1. <<Refused>> # <<>>
        OBVIOUS
      <4>2. i \in Telling(line_id)
        BY <3>4, <4>1 DEF Telling
      <4>3. ~Lost(file.lines[i].says, file.shown)
        BY <1>1, <4>2, ReadInvIs DEF ReadSoFar
      <4>4. QED
        BY <1>1, <3>4, <4>3 DEF Lost
    <3>5. QED
      BY <3>1, <3>3, <3>4
  <2>3. QED
    BY <2>1, <2>2 DEF ReadAsWritten
<1>2. ASSUME ListInv, LinesReadAsSaid => ReadInv, LinesReadAsSaid
      PROVE  ReadAsWritten
  <2>1. CASE file.shown
    BY <2>1 DEF ReadAsWritten
  <2>2. QED
    BY <1>1, <1>2, <2>1
<1>3. QED
  BY <1>2, LinesAreKept, PTL

\* Likewise a file made by table_rule_show whose lines by themselves are read as
\* the rules they show, or not at all: loaded again it gives these rules, or is
\* refused at the first that does not read back.
THEOREM ShownFilesComeBack == Spec => [](LinesReadAsSaid => ShownComesBack)
<1>1. ASSUME ListInv, ReadInv, file.shown
      PROVE  ShownComesBack
  <2>1. ASSUME status \in {"read", "added"}
        PROVE  /\ ListIs([j \in Telling(End) |-> file.lines[j].says[1]], End)
               /\ \A j \in Telling(End) : ReadBack(file.lines[j].says[1])
    <3>1. line_id = End /\ KeptUpTo(list, End)
      BY <1>1, <2>1, ReadInvIs DEF ReadSoFar
    <3>2. \A j : Meant(j) = file.lines[j].says[1]
      BY <1>1 DEF Meant
    <3>3. ListIs([j \in Telling(End) |-> file.lines[j].says[1]], End)
      BY <3>1, <3>2 DEF KeptUpTo, ListIs
    <3>4. \A j \in Telling(End) : ~Lost(file.lines[j].says, file.shown)
      BY <1>1, <3>1, ReadInvIs DEF ReadSoFar
    <3>5. \A j \in Telling(End) : ReadBack(file.lines[j].says[1])
      BY <1>1, <3>4 DEF Lost
    <3>6. QED
      BY <3>3, <3>5
  <2>2. ASSUME status = "failed"
        PROVE  /\ file.lines[line_id].says # <<>>
               /\ ~ReadBack(file.lines[line_id].says[1])
    <3>1. file.lines[line_id].says # <<>> /\ Lost(file.lines[line_id].says, file.shown)
      BY <1>1, <2>2, ReadInvIs DEF ReadSoFar
    <3>2. QED
      BY <1>1, <3>1 DEF Lost
  <2>3. QED
    BY <2>1, <2>2 DEF ShownComesBack
<1>2. ASSUME ListInv, LinesReadAsSaid => ReadInv, LinesReadAsSaid
      PROVE  ShownComesBack
  <2>1. CASE ~file.shown
    BY <2>1 DEF ShownComesBack
  <2>2. QED
    BY <1>1, <1>2, <2>1
<1>3. QED
  BY <1>2, LinesAreKept, PTL
=============================================================================
