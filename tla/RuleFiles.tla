------------------------------ MODULE RuleFiles ------------------------------
(* pipeline <name> table <id> rule add bulk <file>: the file is read line by *)
(* line into a list of rules (cli_rule_file_process), and the list is added  *)
(* to a table as one (pipeline_table_rule_add_bulk). A file was written by a *)
(* user or by table_rule_show. Beside its tokens a line carries what its     *)
(* writer meant, which the code never sees.                                  *)
EXTENDS RuleFormat, FiniteSets

CONSTANTS
  Files,     \* the files: [shown, lines], a line being [indented, tokens, says]
  Versions,  \* ip_version of ACL and LPM tables
  MaxTokens  \* CMD_MAX_TOKENS

ASSUME FilesAreLines ==
  \A f \in Files :
    /\ f.shown \in BOOLEAN
    /\ f.lines \in Seq({f.lines[i] : i \in DOMAIN f.lines})
    /\ \A i \in DOMAIN f.lines :
         f.lines[i].indented \in BOOLEAN /\ f.lines[i].tokens \in Seq(STRING)
ASSUME MaxTokensNatural == MaxTokens \in Nat

VARIABLES
  file,    \* the file named in the command
  line_id, \* the line being read
  list,    \* the rules read so far
  status,  \* "reading", "failed", "read", "refused" or "added"
  entries, \* what the library was given for the rules
  into     \* the table they were added to

vars == <<file, line_id, list, status, entries, into>>

Init ==
  /\ file \in Files
  /\ line_id = 1 /\ list = <<>> /\ status = "reading" /\ entries = <<>>
  /\ into = <<>>

Reading == status = "reading" /\ line_id <= Len(file.lines)

Line == file.lines[line_id]
Tokens == Line.tokens

\* (slip: a line is a comment only if it is nothing else)
is_comment_slip(line) == line.tokens = <<"#">>

Begins(word, with) == Len(word) >= Len(with) /\ SubSeq(word, 1, Len(with)) = with

\* The first characters of the line are looked at, blanks among them.
is_comment(line) ==
  /\ line.tokens # <<>> /\ ~line.indented
  /\ \E sign \in {"!", "#", "%", ";", "//", "--"} : Begins(Head(line.tokens), sign)

\* A comment or an empty line.
SkipLine ==
  /\ Reading
  /\ is_comment(Line) \/ Tokens = <<>>
  /\ line_id' = line_id + 1
  /\ UNCHANGED <<file, list, status, entries, into>>

RuleLine == Reading /\ Tokens # <<>> /\ ~is_comment(Line)

ReadRule ==
  /\ RuleLine /\ Len(Tokens) <= MaxTokens
  /\ parse_line(Tokens) # Refused
  /\ list' = Append(list, parse_line(Tokens))
  /\ line_id' = line_id + 1
  /\ UNCHANGED <<file, status, entries, into>>

\* cli_rule_file_process_free: the list is given up, the line is told.
RefuseLine ==
  /\ RuleLine
  /\ Len(Tokens) > MaxTokens \/ parse_line(Tokens) = Refused
  /\ status' = "failed" /\ list' = <<>>
  /\ UNCHANGED <<file, line_id, entries, into>>

EndOfFile ==
  /\ status = "reading" /\ line_id > Len(file.lines)
  /\ status' = "read"
  /\ UNCHANGED <<file, line_id, list, entries, into>>

\* The actions a rule has, by their place in the line; its action_mask.
Mask(action) == {i \in DOMAIN Elements : \E f \in Elements[i] : f.id \in DOMAIN action}

\* Tables that have rules of this kind. An LPM table's key has 4 or 16 bytes,
\* for which ip_version stands here.
Tables ==
  {t \in [type : {MatchType(list[i].match.id) : i \in DOMAIN list}, ip_version : Versions,
          mask : {Mask(list[i].action) : i \in DOMAIN list}] :
     t.type = "lpm" => t.ip_version \in {0, 1}}

\* match_check and the part of action_check that does not look at the pipeline.
Checked(table) ==
  \A i \in DOMAIN list : match_check(table, list[i].match) /\ Mask(list[i].action) = table.mask

\* The rules go to one of the tables that have rules of this kind: all of them,
\* or none when one does not fit or there is none.
pipeline_table_rule_add_bulk ==
  /\ status = "read"
  /\ IF list = <<>> THEN status' = "refused" /\ UNCHANGED <<entries, into>>
     ELSE \E table \in Tables :
            IF Checked(table)
            THEN /\ status' = "added"
                 /\ entries' = [i \in DOMAIN list |-> match_convert(list[i].match)]
                 /\ into' = table
            ELSE status' = "refused" /\ UNCHANGED <<entries, into>>
  /\ UNCHANGED <<file, line_id, list>>

Next == SkipLine \/ ReadRule \/ RefuseLine \/ EndOfFile \/ pipeline_table_rule_add_bulk

Spec == Init /\ [][Next]_vars

-----------------------------------------------------------------------------
(* What the writer of a line means by it                                     *)

\* The line a user writes for a match and a sequence of [form, values]. A line
\* says one rule, or nothing; Refused stands for what is no rule.
Written(form, values, elements) ==
  [indented |-> FALSE,
   tokens |-> Text(form, values) \o <<"action">>
              \o FlattenSeq([i \in DOMAIN elements |-> Text(elements[i].form, elements[i].values)]),
   says |-> <<[match |-> Match(form, values),
               action |-> [id \in {elements[i].form.id : i \in DOMAIN elements} |->
                 (CHOOSE e \in {elements[i] : i \in DOMAIN elements} : e.form.id = id).values]]>>]

\* A line that table_rule_show writes, and the comment it ends the file with.
Shown(rule) == [indented |-> FALSE, tokens |-> table_rule_show(rule), says |-> <<rule>>]

DefaultLine ==
  [indented |-> FALSE, tokens |-> <<"#", "match", "default", "action", "fwd", "drop">>, says |-> <<>>]

-----------------------------------------------------------------------------
(* Properties                                                                *)

\* The lines before line n that say something.
Telling(n) == {j \in 1 .. n - 1 : file.lines[j].says # <<>>}

\* The list is what the lines before line n say, in their order: rule[j] for
\* line j, and nothing else.
ListIs(rule, n) ==
  /\ Len(list) = Cardinality(Telling(n))
  /\ \A j \in Telling(n) : list[Cardinality(Telling(j)) + 1] = rule[j]

End == Len(file.lines) + 1

CryptoIds == {f.id : f \in SymCrypto}

\* The tag or decap that follows an action on crypto.
FollowsCrypto(action) ==
  IF "decap" \in DOMAIN action THEN {action["decap"].n}
  ELSE IF "tag" \in DOMAIN action THEN {action["tag"].tag} ELSE {}

\* data_offset is the line's last number, be it the tag's or decap's.
AsRead(rule) ==
  [rule EXCEPT !.action = [id \in DOMAIN @ |->
     IF id \in CryptoIds /\ FollowsCrypto(@) # {}
     THEN [@[id] EXCEPT !.data_offset = CHOOSE n \in FollowsCrypto(rule.action) : TRUE]
     ELSE @[id]]]

\* Rules whose line reads back: position or key, and actions shown in the words
\* they are read in.
ReadBack(rule) ==
  /\ MatchType(rule.match.id) \in {"array", "hash"}
  /\ DOMAIN rule.action \cap ({"meter_1", "meter_4", "encap_vlan", "encap_qinq",
       "encap_qinq_pppoe", "nat_ipv6"} \cup CryptoIds
       \cup {Vxlan(vlan, ip).id : vlan \in {"yes", "no"}, ip \in {"ipv4", "ipv6"}}) = {}

\* What comes of a line by itself: nothing, or a rule.
ReadAlone(line) ==
  IF line.tokens = <<>> \/ is_comment(line) THEN <<>>
  ELSE IF Len(line.tokens) > MaxTokens THEN <<Refused>> ELSE <<parse_line(line.tokens)>>

\* Of what a line says nothing is to be read.
Lost(says, shown) == IF shown THEN ~ReadBack(says[1]) ELSE says = <<Refused>>

\* The line by itself is read as its writer meant it, or as the rule it shows;
\* or not at all, if it is no rule or does not read back.
ReadsAsSaid(line, shown) ==
  LET read == ReadAlone(line)
  IN IF line.says = <<>> THEN read = <<>>
     ELSE IF Lost(line.says, shown) THEN read = <<Refused>>
     ELSE /\ read = <<IF shown THEN line.says[1] ELSE AsRead(line.says[1])>>
          /\ read # <<Refused>>

\* Every line of the file, were it the only one, would be.
LinesReadAsSaid == \A j \in DOMAIN file.lines : ReadsAsSaid(file.lines[j], file.shown)

\* A file written by hand is taken if each of its lines is a rule from the
\* first token to the last, and the list then has exactly these rules, in the
\* order of the lines and with every value where it was written (but for
\* data_offset); otherwise no rule is kept and the line told is the first that
\* is not a rule (cli_rule_file_process).
ReadAsWritten ==
  ~file.shown =>
    /\ status \in {"read", "added"} =>
         ListIs([j \in Telling(End) |-> AsRead(file.lines[j].says[1])], End)
    /\ status = "failed" =>
         /\ list = <<>> /\ entries = <<>>
         /\ file.lines[line_id].says = <<Refused>>
         /\ \A i \in 1 .. line_id - 1 : file.lines[i].says # <<Refused>>

\* A file made by table_rule_show is a backup or it is nothing: loaded again it
\* gives the rules it was made from, or its first line that does not read back
\* is refused. It never gives other rules, though most lines run words
\* together or use words the parser does not know.
ShownComesBack ==
  file.shown =>
    /\ status \in {"read", "added"} =>
         /\ ListIs([j \in Telling(End) |-> file.lines[j].says[1]], End)
         /\ \A j \in Telling(End) : ReadBack(file.lines[j].says[1])
    /\ status = "failed" => /\ file.lines[line_id].says # <<>>
                            /\ ~ReadBack(file.lines[line_id].says[1])

\* Of an address an entry compares the first `depth` bits: each field of the
\* format that holds a word of the address compares as many bits of that word
\* as its own depth says.
Covers(entry, format, addr, depth) ==
  LET words == {k \in DOMAIN format : format[k].type = "MASK" /\ format[k].at = addr}
  IN /\ \A k \in words : entry.fields[k][2] \in 0 .. 32
     /\ UNION {{32 * format[k].word + b : b \in 0 .. entry.fields[k][2] - 1} : k \in words}
        = 0 .. depth - 1

\* An ipv4 or ipv6 rule in an ACL table of its own ip_version has a value for
\* every field of the table, and the fields of addresses compare the first
\* sa_depth bits of the source and the first da_depth bits of the destination,
\* and no others: whichever word of an ipv6 address the depth ends in and also
\* where it ends at a word's edge (pipeline.c's formats, match_check,
\* match_convert, match_convert_ipv6_depth). A raw table takes ipv4 rules as
\* well, whose fields then mean something else.
EntryCovers ==
  \A i \in DOMAIN entries :
    LET m == list[i].match
        e == entries[i]
        format == Format(into.ip_version)
    IN /\ m.id = "acl_raw" /\ into.ip_version = 2 => Len(e.fields) = Len(format)
       /\ m.id \in {"acl_ipv4", "acl_ipv6"} /\ IpVersion(m) = into.ip_version =>
            /\ Len(e.fields) = Len(format)
            /\ Covers(e, format, "sa", Number(m.values.sa_depth))
            /\ Covers(e, format, "da", Number(m.values.da_depth))

-----------------------------------------------------------------------------
(* The inductive invariants behind them                                      *)

\* The rule's match was read from a line of the file.
Parsed(rule) ==
  \E j \in DOMAIN file.lines, f \in MatchForms :
    /\ Fits(f, file.lines[j].tokens)
    /\ rule.match = Match(f, Values(f, file.lines[j].tokens))

ListInv ==
  /\ file \in Files /\ line_id \in 1 .. End
  /\ status \in {"reading", "failed", "read", "refused", "added"}
  /\ list \in Seq({list[i] : i \in DOMAIN list}) /\ \A i \in DOMAIN list : Parsed(list[i])
  /\ status # "added" => entries = <<>>
  /\ status = "added" =>
       Checked(into) /\ entries = [i \in DOMAIN list |-> match_convert(list[i].match)]

\* The rule to be read from line j.
Meant(j) == IF file.shown THEN file.lines[j].says[1] ELSE AsRead(file.lines[j].says[1])

\* The lines read so far are in the list, and only the one told is lost.
ReadInv ==
  /\ status # "failed" => ListIs([j \in Telling(line_id) |-> Meant(j)], line_id)
  /\ \A j \in Telling(line_id) : ~Lost(file.lines[j].says, file.shown)
  /\ status \notin {"reading", "failed"} => line_id = End
  /\ status = "failed" =>
       /\ line_id # End /\ list = <<>>
       /\ file.lines[line_id].says # <<>> /\ Lost(file.lines[line_id].says, file.shown)
=============================================================================
