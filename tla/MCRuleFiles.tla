----------------------------- MODULE MCRuleFiles ----------------------------
(* An instance of RuleFiles. Every match with one action, every action and   *)
(* every two actions with one match, ACL rules with every depth at the edge  *)
(* of a word; each in a file of its own, as a user writes it and as it is    *)
(* shown, and in longer files with lines that are no rules.                  *)
EXTENDS RuleFiles

Nums == {0, 1, 2, 3, 5, 6, 7, 8, 31, 32, 33, 64, 65, 96, 127, 128, 129, 300, 70000}

\* The value of the slot at place i of a form: no two neighbours get the same.
Pick(type, i) ==
  CASE type = "ip4" -> IF i % 2 = 0 THEN "10.0.0.1" ELSE "10.0.0.18"
    [] type = "ip6" -> IF i % 2 = 0 THEN "2001::1" ELSE "2001::2"
    [] type = "mac" -> IF i % 2 = 0 THEN "00:11:22:33:44:55" ELSE "00:11:22:33:44:66"
    [] type = "hex" -> IF i % 4 = 0 THEN "ab01" ELSE "cd02"
    [] type = "algo" -> "null"
    [] type = "policer" -> <<"g", "y", "r", "drop">>[(i % 4) + 1]
    [] type = "any" -> "7"
    [] type = "dei" -> ToString(i % 2)
    [] type = "u16" -> <<"300", "8", "31">>[(i % 3) + 1]
    [] type = "u32" -> <<"70000", "2", "1", "300">>[(i % 4) + 1]
    [] OTHER -> <<"5", "6", "7">>[(i % 3) + 1]

Sample(form) ==
  [n \in Names(form) |-> LET i == CHOOSE k \in DOMAIN form.slots : form.slots[k].name = n
                         IN Pick(form.slots[i].type, i)]

Words ==
  [ip4 |-> {"10.0.0.1", "10.0.0.18"}, ip6 |-> {"2001::1", "2001::2"},
   mac |-> {"00:11:22:33:44:55", "00:11:22:33:44:66"},
   hex |-> {"ab01", "cd02"} \cup {KeyOf(f, Sample(f)) : f \in HashForms},
   algo |-> {"null"}]

Element(form) == [form |-> form, values |-> Sample(form)]

Drop == <<Element(FormOf("fwd_drop"))>>

\* Depths of a source and a destination at the edges of the words, and words
\* 9 and 10 of a raw rule on both sides of 32.
With(form, a, b, m, n) == [Sample(form) EXCEPT ![a] = ToString(m), ![b] = ToString(n)]

Acl4 == FormOf("acl_ipv4")
Acl6 == FormOf("acl_ipv6")

Depths4 == {0, 1, 31, 32, 33}
Depths6 == {0, 1, 31, 32, 33, 64, 65, 96, 127, 128, 129}

Matches ==
  {[form |-> f, values |-> Sample(f)] : f \in MatchForms}
  \cup {[form |-> Acl4, values |->
          With(Acl4, "sa_depth", "da_depth", m, n)] : m, n \in Depths4}
  \cup {[form |-> Acl6, values |->
          With(Acl6, "sa_depth", "da_depth", m, n)] : m, n \in Depths6}
  \cup {[form |-> AclRaw, values |-> With(AclRaw, "origin9", "origin10", m, n)] : m, n \in {32, 33}}

\* One or two actions, in the order a line has them.
Actions ==
  {<<Element(f)>> : f \in ActionForms}
  \cup UNION {{<<Element(f), Element(g)>> : f \in Elements[i], g \in Elements[j]} :
                <<i, j>> \in {p \in (DOMAIN Elements) \X (DOMAIN Elements) : p[1] < p[2]}}

Lines ==
  {Written(m.form, m.values, Drop) : m \in Matches}
  \cup {Written(Array, Sample(Array), a) : a \in Actions}

Good == Written(Array, Sample(Array), Drop)

Mangled(l) ==
  {[indented |-> FALSE, tokens |-> t, says |-> <<Refused>>] :
     t \in {l.tokens \o <<"action">>, Reverse(l.tokens), Tail(l.tokens),
            l.tokens \o <<"fwd", "drop">>}}

Few == {Written(f, Sample(f), Drop) : f \in MatchForms}
       \cup {Written(Array, Sample(Array), <<Element(f)>>) : f \in ActionForms}

\* Lines that begin as comments do, with more behind the sign and without; the
\* first of them with a blank before it, and a rule with one, which is still a rule.
Says(indented, tokens, says) == [indented |-> indented, tokens |-> tokens, says |-> says]
Empty == Says(FALSE, <<>>, <<>>)
Comments ==
  {Says(FALSE, <<w>> \o rest, <<>>) :
     w \in {"#", "#match", "!x", "%", ";x", "//", "//match", "--", "--x"}, rest \in {<<>>, Good.tokens}}
NoComments ==
  {Says(TRUE, <<w>> \o Good.tokens, <<Refused>>) : w \in {"#", "//", "--x"}}
  \cup {Says(FALSE, <<w>> \o Good.tokens, <<Refused>>) : w \in {"/", "-", "-x"}}
  \cup {Says(TRUE, Good.tokens, Good.says)}
ByHand(lines) == [shown |-> FALSE, lines |-> lines]

SampleFiles ==
  {ByHand(<<l>>) : l \in Lines}
  \cup {[shown |-> TRUE, lines |-> <<Shown(l.says[1]), DefaultLine>>] : l \in Lines}
  \cup UNION {{ByHand(<<Good, x, l>>) : x \in Mangled(l)} : l \in Few}
  \cup {ByHand(<<l, Empty, Good>>) : l \in Few}
  \cup {ByHand(<<Good, c, Good>>) : c \in Comments \cup NoComments}
  \cup {ByHand(<<>>)}

\* What the theorems about files start from, a line that is read as it says, is
\* any line here that is written by hand.
ASSUME WrittenIsRead == \A l \in Lines : ReadsAsSaid(l, FALSE)
=============================================================================
