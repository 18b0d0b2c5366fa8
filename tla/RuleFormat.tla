------------------------------ MODULE RuleFormat -----------------------------
(* What a table rule looks like: in a line of text, in struct                *)
(* table_rule_match and struct table_rule_action, and in the entry that goes *)
(* to the library's table (cli.c: parse_match, parse_table_action,           *)
(* table_rule_show; thread.c: match_check, match_convert). A line is a       *)
(* sequence of tokens. The code reads it token by token along a fixed list   *)
(* of words and values for every kind of match and action; here this list is *)
(* the `slots` of a form, and the value read is named by its token, decimal  *)
(* numbers, addresses and hexadecimal strings being read back as they are    *)
(* written.                                                                  *)
EXTENDS Integers, SequencesExt

CONSTANTS
  Numbers,   \* the numbers that occur
  Lexicon,   \* the tokens read as ip4, ip6, mac, hex and algo
  NFilter,   \* parse_match: n_filter, scaled from 60
  LbSize     \* RTE_TABLE_ACTION_LB_TABLE_SIZE, scaled from 8

ASSUME NumbersNatural == Numbers \subseteq Nat
ASSUME LexiconNamed == DOMAIN Lexicon = {"ip4", "ip6", "mac", "hex", "algo"}
ASSUME SizesNatural == {NFilter, LbSize} \subseteq Nat

-----------------------------------------------------------------------------
(* Slots, forms                                                              *)

W(word) == [name |-> "", type |-> "word", word |-> word]
V(name, type) == [name |-> name, type |-> type, word |-> ""]

\* parser_read_uint8, _uint16, _uint32 and the limits compared after them.
\* (The largest u32 here is TLC's largest integer.)
Limit == [u8 |-> 255, u16 |-> 65535, u32 |-> 2147483647, pcp |-> 7, dei |-> 1,
          vid |-> 4095, label |-> 1048575, tc |-> 7, mpls_ttl |-> 63,
          dscp |-> 64, vni |-> 16777215]

Reads(slot, tok) ==
  \/ slot.type = "word" /\ tok = slot.word
  \/ slot.type \in DOMAIN Limit /\ \E n \in Numbers : n <= Limit[slot.type] /\ tok = ToString(n)
  \/ slot.type = "policer" /\ tok \in {"g", "y", "r", "drop"}
  \/ slot.type \in DOMAIN Lexicon /\ tok \in Lexicon[slot.type]
  \/ slot.type = "any"

Number(tok) == CHOOSE n \in Numbers : ToString(n) = tok

Form(id, slots) == [id |-> id, slots |-> slots]

\* The line begins with the form: every token of it is there and is read.
Fits(form, tokens) ==
  /\ Len(tokens) >= Len(form.slots)
  /\ \A i \in DOMAIN form.slots : Reads(form.slots[i], tokens[i])

Names(form) == {form.slots[i].name : i \in DOMAIN form.slots} \ {""}

\* The value read for each name.
Values(form, tokens) ==
  [n \in Names(form) |-> tokens[CHOOSE i \in DOMAIN form.slots : form.slots[i].name = n]]

\* The tokens that say so.
Text(form, values) ==
  [i \in DOMAIN form.slots |-> IF form.slots[i].name = "" THEN form.slots[i].word
                                                          ELSE values[form.slots[i].name]]

-----------------------------------------------------------------------------
(* The forms of parse_match                                                  *)

AclAddr(id, version, type) ==
  Form(id,
    <<W("match"), W("acl"), W("priority"), V("priority", "u32"), W(version),
      V("sa", type), V("sa_depth", "u32"), V("da", type), V("da_depth", "u32"),
      V("sp0", "u16"), V("sp1", "u16"), V("dp0", "u16"), V("dp1", "u16"), V("proto", "u8")>>)

AclRaw ==
  Form("acl_raw",
    <<W("match"), W("acl"), W("priority"), V("priority", "u32"), W("raw"),
      V("category_mask", "u32")>>
    \o [i \in 1 .. 2 * NFilter |-> LET k == ToString((i + 1) \div 2)
                                   IN IF i % 2 = 1 THEN V("origin" \o k, "u32")
                                                   ELSE V("mask" \o k, "u32")]
    \o <<V("proto", "u8"), V("proto_mask", "u8")>>)

Array == Form("array", <<W("match"), W("array"), V("pos", "u32")>>)

HashForm(id, key, slots) == Form(id, <<W("match"), W("hash"), W(key)>> \o slots)

Tuple(type) == <<V("sa", type), V("da", type), V("sp", "u16"), V("dp", "u16"), V("proto", "u8")>>

HashForms ==
  {HashForm("hash_raw", "raw", <<V("key", "hex")>>),
   HashForm("hash_ipv4_5tuple", "ipv4_5tuple", Tuple("ip4")),
   HashForm("hash_ipv6_5tuple", "ipv6_5tuple", Tuple("ip6")),
   HashForm("hash_ipv4_addr", "ipv4_addr", <<V("addr", "ip4")>>),
   HashForm("hash_ipv6_addr", "ipv6_addr", <<V("addr", "ip6")>>),
   HashForm("hash_qinq", "qinq", <<V("svlan", "vid"), V("cvlan", "vid")>>)}

Lpm(id, version, type) ==
  Form(id, <<W("match"), W("lpm"), W(version), V("addr", type), V("depth", "u8")>>)

MatchForms ==
  {AclAddr("acl_ipv4", "ipv4", "ip4"), AclAddr("acl_ipv6", "ipv6", "ip6"), AclRaw, Array,
   Lpm("lpm_ipv4", "ipv4", "ip4"), Lpm("lpm_ipv6", "ipv6", "ip6")} \cup HashForms

MatchType(id) ==
  CASE id \in {"acl_ipv4", "acl_ipv6", "acl_raw"} -> "acl"
    [] id = "array" -> "array"
    [] id \in {f.id : f \in HashForms} -> "hash"
    [] id \in {"lpm_ipv4", "lpm_ipv6"} -> "lpm"

Joined(tokens) == FoldLeft(LAMBDA a, b : a \o b, "", tokens)

\* The key's bytes in hexadecimal: every header field of the form at its place.
KeyOf(form, values) ==
  IF form.id = "hash_raw" THEN values.key
  ELSE form.id \o Joined([i \in 4 .. Len(form.slots) |-> values[form.slots[i].name] \o "."])

\* struct table_rule_match: of a hash rule only the key is left.
Match(form, values) ==
  IF MatchType(form.id) = "hash"
  THEN [id |-> "hash_raw", values |-> [key |-> KeyOf(form, values)]]
  ELSE [id |-> form.id, values |-> values]

-----------------------------------------------------------------------------
(* The forms of parse_table_action                                           *)

Fwd == {Form("fwd_drop", <<W("fwd"), W("drop")>>),
        Form("fwd_port", <<W("fwd"), W("port"), V("id", "u32")>>),
        Form("fwd_meta", <<W("fwd"), W("meta")>>),
        Form("fwd_table", <<W("fwd"), W("table"), V("id", "u32")>>)}

Balance == {Form("balance", <<W("balance")>>
                 \o [i \in 1 .. LbSize |-> V("out" \o ToString(i), "u32")])}

MeterTc(i) ==
  LET tc == "tc" \o ToString(i)
  IN <<W(tc), W("meter"), V(tc, "u32"), W("policer"), W("g"), V(tc \o "g", "policer"),
       W("y"), V(tc \o "y", "policer"), W("r"), V(tc \o "r", "policer")>>

Meter == {Form("meter_1", <<W("meter")>> \o MeterTc(0)),
          Form("meter_4", <<W("meter")>> \o MeterTc(0) \o MeterTc(1) \o MeterTc(2) \o MeterTc(3))}

Tm == {Form("tm", <<W("tm"), W("subport"), V("subport", "u32"), W("pipe"), V("pipe", "u32")>>)}

Ether == <<V("ether_da", "mac"), V("ether_sa", "mac")>>

Vlan(p) == <<V(p \o "pcp", "pcp"), V(p \o "dei", "dei"), V(p \o "vid", "vid")>>

Label(i) ==
  LET l == "label" \o ToString(i)
  IN <<W(l), V(l, "label"), V(l \o "tc", "tc"), V(l \o "ttl", "mpls_ttl")>>

Labels(n) == FlattenSeq([i \in 1 .. n |-> Label(i - 1)])

Mpls(cast, n) ==
  Form("mpls_" \o cast \o ToString(n),
       <<W("encap"), W("mpls"), W(cast)>> \o Ether \o Labels(n))

VxlanVlan == [yes |-> <<W("vlan")>> \o Vlan(""), no |-> <<>>]

VxlanIp ==
  [ipv4 |-> <<W("ipv4"), V("sa", "ip4"), V("da", "ip4"), V("dscp", "dscp"), V("ttl", "u8")>>,
   ipv6 |-> <<W("ipv6"), V("sa", "ip6"), V("da", "ip6"), V("flow_label", "u32"),
              V("dscp", "dscp"), V("hop_limit", "u8")>>]

Vxlan(vlan, ip) ==
  Form("vxlan_" \o ip \o "_" \o vlan,
       <<W("encap"), W("vxlan"), W("ether")>> \o Ether \o VxlanVlan[vlan] \o VxlanIp[ip]
       \o <<W("udp"), V("sp", "u16"), V("dp", "u16"), W("vxlan"), V("vni", "vni")>>)

EncapForm(id, slots) == Form("encap_" \o id, <<W("encap"), W(id)>> \o Ether \o slots)

Encap ==
  {EncapForm("ether", <<>>), EncapForm("vlan", Vlan("")),
   EncapForm("qinq", Vlan("s") \o Vlan("c")),
   EncapForm("qinq_pppoe", Vlan("s") \o Vlan("c") \o <<V("session_id", "u16")>>),
   EncapForm("pppoe", <<V("session_id", "u16")>>)}
  \cup {Mpls(cast, n) : cast \in {"unicast", "multicast"}, n \in 1 .. 4}
  \cup {Vxlan(vlan, ip) : vlan \in {"yes", "no"}, ip \in {"ipv4", "ipv6"}}

NatAction == {Form("nat_ipv4", <<W("nat"), W("ipv4"), V("addr", "ip4"), V("port", "u16")>>),
         Form("nat_ipv6", <<W("nat"), W("ipv6"), V("addr", "ip6"), V("port", "u16")>>)}

Ttl == {Form("ttl_dec", <<W("ttl"), W("dec")>>), Form("ttl_keep", <<W("ttl"), W("keep")>>)}

Cipher == <<W("cipher_algo"), V("cipher_algo", "algo"), W("cipher_key"), V("cipher_key", "hex"),
            W("cipher_iv"), V("cipher_iv", "hex")>>

Auth == <<W("auth_algo"), V("auth_algo", "algo"), W("auth_key"), V("auth_key", "hex"),
          W("digest_size"), V("digest_size", "u16")>>

Aead == <<W("aead_algo"), V("aead_algo", "algo"), W("aead_key"), V("aead_key", "hex"),
          W("aead_iv"), V("aead_iv", "hex"), W("aead_aad"), V("aead_aad", "hex"),
          W("digest_size"), V("digest_size", "u16")>>

\* The token after data_offset is stepped over, whatever it is.
CryptoForm(type, slots) ==
  Form("sym_crypto_" \o type,
       <<W("sym_crypto"), V("op", "any"), W("type"), W(type)>> \o slots
       \o <<W("data_offset"), V("data_offset", "any")>>)

SymCrypto == {CryptoForm("cipher", Cipher), CryptoForm("cipher_auth", Cipher \o Auth),
              CryptoForm("aead", Aead)}

\* The actions in the order in which a line may have them.
Elements ==
  <<Fwd, Balance, Meter, Tm, Encap, NatAction, Ttl,
    {Form("stats", <<W("stats")>>)}, {Form("time", <<W("time")>>)}, SymCrypto,
    {Form("tag", <<W("tag"), V("tag", "u32")>>)}, {Form("decap", <<W("decap"), V("n", "u16")>>)}>>

ActionForms == UNION {Elements[i] : i \in DOMAIN Elements}

\* data_offset is read from the last token of the line.
ReadElement(form, rest) ==
  IF form \in SymCrypto
  THEN [Values(form, rest) EXCEPT !.data_offset = Last(rest)]
  ELSE Values(form, rest)

\* The forms of an element that the rest of the line begins with; the longest
\* is the one that is read (tc1 after tc0, label1 after label0).
Candidates(element, rest) ==
  {f \in element : /\ Fits(f, rest)
                   /\ f \in SymCrypto => Reads(V("", "u32"), Last(rest))}

Longest(forms) == CHOOSE f \in forms : \A g \in forms : Len(g.slots) <= Len(f.slots)

\* One element is read off the front of the line, if it is there.
ReadOne(st, element) ==
  LET c == Candidates(element, st.rest)
      f == Longest(c)
  IN IF c = {} THEN st
     ELSE [rest |-> SubSeq(st.rest, Len(f.slots) + 1, Len(st.rest)),
           action |-> [id \in DOMAIN st.action \cup {f.id} |->
                         IF id = f.id THEN ReadElement(f, st.rest) ELSE st.action[id]]]

\* An element that is begun and cannot be read leaves its tokens, and the
\* caller refuses a line of which tokens are left.
parse_table_action(tokens) ==
  FoldLeft(ReadOne, [rest |-> Tail(tokens), action |-> <<>>], Elements)

Refused == [match |-> <<>>, action |-> <<>>]

\* (The words of a raw rule are read without a look at n_tokens: a shorter
\* line would be read past its end, and is not among the lines here.)
parse_match(tokens) == {f \in MatchForms : Fits(f, tokens)}

\* (slip: what is left of the line is not looked at)
LineUsedUp_slip(rest) == TRUE

LineUsedUp(rest) == rest = <<>>

\* cmd_pipeline_table_rule_add and cli_rule_file_process: a match, an action,
\* and nothing after them.
parse_line(tokens) ==
  LET forms == parse_match(tokens)
      m == CHOOSE f \in forms : TRUE
      rest == SubSeq(tokens, Len(m.slots) + 1, Len(tokens))
      a == parse_table_action(rest)
  IN IF forms = {} THEN Refused
     ELSE IF Len(rest) < 2 \/ Head(rest) # "action" THEN Refused
     ELSE IF a.action = <<>> \/ ~LineUsedUp(a.rest) THEN Refused
     ELSE [match |-> Match(m, Values(m, tokens)), action |-> a.action]

-----------------------------------------------------------------------------
(* table_rule_show: the lines it prints                                      *)

FormOf(id) == CHOOSE f \in MatchForms \cup ActionForms : f.id = id

\* ipv6_addr_show: a colon after the last group, too.
Ip6(addr) == addr \o ":"

\* Addresses and depths of an ACL rule are printed without a blank between
\* them, an address and a depth of an LPM rule too. Of a raw rule only a priority
\* is printed, from where the other rules have theirs and a raw one has word 14 of
\* its origin, and the word that says it is raw runs into the word action.
ShowMatch(m) ==
  LET v == m.values
      Acl(version, sa, da) ==
        <<"match", "acl", "priority", v.priority, version,
          Joined(<<sa, v.sa_depth, da, v.da_depth, v.sp0>>), v.sp1, v.dp0, v.dp1, v.proto, "action">>
  IN CASE m.id = "acl_ipv4" -> Acl("ipv4", v.sa, v.da)
       [] m.id = "acl_ipv6" -> Acl("ipv6", Ip6(v.sa), Ip6(v.da))
       [] m.id = "acl_raw" -> <<"match", "acl", "priority",
                                 IF NFilter < 14 THEN "0" ELSE v["origin14"], "rawaction">>
       [] m.id = "lpm_ipv4" -> <<"match", "lpm", "ipv4", v.addr \o v.depth, "action">>
       [] m.id = "lpm_ipv6" -> <<"match", "lpm", "ipv6", Ip6(v.addr) \o v.depth, "action">>
       [] OTHER -> Text(FormOf(m.id), v) \o <<"action">>

Policer(tok) == CASE tok = "g" -> "G" [] tok = "y" -> "Y" [] tok = "r" -> "R" [] tok = "drop" -> "D"

\* Some actions are printed in other words than they are read in.
ShowElement(id, v) ==
  LET eth == <<v.ether_da, v.ether_sa>>
      Tag8021q(p) == <<"pcp", v[p \o "pcp"], "dei", v[p \o "dei"], "vid", v[p \o "vid"]>>
      Tc(i) == LET tc == "tc" \o ToString(i)
               IN <<tc, "meter", v[tc], "policer", "g", Policer(v[tc \o "g"]),
                    "y", Policer(v[tc \o "y"]), "r", Policer(v[tc \o "r"])>>
      OnVlan == IF "pcp" \in DOMAIN v THEN <<"vlan">> \o Tag8021q("") ELSE <<>>
  IN CASE id = "meter_1" -> <<"mtr">> \o Tc(0)
       [] id = "meter_4" -> <<"mtr">> \o Tc(0) \o Tc(1) \o Tc(2) \o Tc(3)
       [] id = "encap_vlan" -> <<"encap", "vlan">> \o eth \o Tag8021q("")
       [] id = "encap_qinq" -> <<"encap", "qinq">> \o eth \o Tag8021q("s") \o Tag8021q("c")
       [] id = "encap_qinq_pppoe" -> <<"encap", "unknown">>
       [] id \in {"vxlan_ipv4_yes", "vxlan_ipv4_no"} ->
            <<"encap", "vxlan", "ether">> \o eth \o OnVlan \o <<"ipv4", v.sa, v.da, v.dscp, v.ttl>>
       [] id \in {"vxlan_ipv6_yes", "vxlan_ipv6_no"} ->
            <<"encap", "vxlan", "ether">> \o eth \o OnVlan
            \o <<"ipv6", Ip6(v.sa), Ip6(v.da), v.flow_label, v.dscp, v.hop_limit,
                 "udp", v.sp, v.dp, "vxlan", v.vni>>
       [] id = "nat_ipv6" -> <<"nat", "ipv6", Ip6(v.addr), v.port>>
       [] id \in {f.id : f \in SymCrypto} -> <<"sym_crypto">>
       [] OTHER -> Text(FormOf(id), v)

\* The elements of an action, in the order of Elements.
ShowActions(action) ==
  FlattenSeq([i \in DOMAIN Elements |->
    LET here == {f.id : f \in Elements[i]} \cap DOMAIN action
    IN IF here = {} THEN <<>> ELSE LET id == CHOOSE x \in here : TRUE IN ShowElement(id, action[id])])

table_rule_show(rule) == ShowMatch(rule.match) \o ShowActions(rule.action)

-----------------------------------------------------------------------------
(* From the rule to the entry of the library's table                         *)

\* match_check: ip_version is 1 for ipv4, 2 for raw, 0 for ipv6, and only
\* compared as zero or not. A raw rule has values of its own where the depths
\* of the others are: words 8 and 9 of its origin.
IpVersion(m) == CASE m.id \in {"acl_ipv4", "lpm_ipv4"} -> 1 [] m.id = "acl_raw" -> 2 [] OTHER -> 0

DepthsOf(m) ==
  CASE m.id \in {"acl_ipv4", "acl_ipv6"} -> {m.values.sa_depth, m.values.da_depth}
    [] m.id = "acl_raw" -> {m.values["origin" \o ToString(k)] : k \in {9, 10} \cap 1 .. NFilter}
    [] m.id \in {"lpm_ipv4", "lpm_ipv6"} -> {m.values.depth}
    [] OTHER -> {}

match_check(table, m) ==
  /\ MatchType(m.id) = table.type
  /\ table.type \in {"acl", "lpm"} => (IpVersion(m) = 0) = (table.ip_version = 0)
  /\ \A d \in DepthsOf(m) : Number(d) <= IF IpVersion(m) = 0 THEN 128 ELSE 32

\* (slip: a depth at the end of a word is written to the word before it only)
match_convert_ipv6_depth_slip(depth) ==
  [k \in 1 .. 4 |-> IF k <= depth \div 32 THEN 32
                    ELSE IF k = depth \div 32 + 1 /\ depth < 96 THEN depth % 32 ELSE 0]

\* The depth of the address, as depths of its four words.
match_convert_ipv6_depth(depth) ==
  [k \in 1 .. 4 |-> IF k <= depth \div 32 THEN 32
                    ELSE IF k = depth \div 32 + 1 THEN depth % 32 ELSE 0]

(* The fields of an ACL table's entries, by ip_version: how the library      *)
(* compares them (a BITMASK and a MASK field under a mask, which of a MASK   *)
(* field is a depth; a RANGE field between two ends), their bytes, the part  *)
(* of the packet's header at their offset and, of an ipv6 address, the word. *)
(* A raw table has single bytes, of which it compares ranges.                *)
Field(type, size, at, word) == [type |-> type, size |-> size, at |-> at, word |-> word]

Ports == <<Field("RANGE", 2, "sp", 0), Field("RANGE", 2, "dp", 0)>>

table_acl_field_format_ipv4 ==
  <<Field("BITMASK", 1, "proto", 0), Field("MASK", 4, "sa", 0), Field("MASK", 4, "da", 0)>>
  \o Ports

table_acl_field_format_ipv6 ==
  <<Field("BITMASK", 1, "proto", 0)>> \o [k \in 1 .. 4 |-> Field("MASK", 4, "sa", k - 1)]
  \o [k \in 1 .. 4 |-> Field("MASK", 4, "da", k - 1)] \o Ports

table_acl_field_format_raw == [i \in 1 .. 1 + NFilter |-> Field("RANGE", 1, "byte", i - 1)]

Format(ip_version) == CASE ip_version = 0 -> table_acl_field_format_ipv6
                        [] ip_version = 1 -> table_acl_field_format_ipv4
                        [] ip_version = 2 -> table_acl_field_format_raw

\* field_value[]: a value and its mask, depth or upper end for each field, in
\* the order of the rule's own format, which the table's need not be. The
\* protocol's mask is zero but for a raw rule.
AclFields(m) ==
  LET v == m.values
      Ends == <<<<v.sp0, v.sp1>>, <<v.dp0, v.dp1>>>>
      Addr6(addr, depth) ==
        [k \in 1 .. 4 |-> <<addr \o "/" \o ToString(k), match_convert_ipv6_depth(Number(depth))[k]>>]
  IN CASE m.id = "acl_ipv4" ->
            <<<<v.proto, "0">>, <<v.sa, Number(v.sa_depth)>>, <<v.da, Number(v.da_depth)>>>> \o Ends
       [] m.id = "acl_ipv6" ->
            <<<<v.proto, "0">>>> \o Addr6(v.sa, v.sa_depth) \o Addr6(v.da, v.da_depth) \o Ends
       [] m.id = "acl_raw" ->
            <<<<v.proto, v.proto_mask>>>>
            \o [k \in 1 .. NFilter |-> <<v["origin" \o ToString(k)], v["mask" \o ToString(k)]>>]

match_convert(m) ==
  IF MatchType(m.id) = "acl"
  THEN [id |-> m.id, priority |-> m.values.priority, fields |-> AclFields(m)]
  ELSE m
=============================================================================
