# A verification project for RIDS

RIDS is an intrusion detection system in three parts: **rLearner** trains a binarised recurrent
network, **rEnforcer** runs it in a Tofino switch on the first packets of every flow, and
**processing** filters packets on servers, with a modified DPDK `ip_pipeline` that a command
line and a white list file configure. This directory holds TLA+ models of the concurrent and
stateful parts, their TLC configurations, and theorems checked by TLAPS. All paths below are
relative to the repository.

## 1. Inventory

| component | source | state | operations | what is hard |
|---|---|---|---|---|
| control protocol and threads | `processing/dpdk_pipeline/thread.c`, `main.c` | main thread: `enabled`, `thread_id` of each pipeline; worker: `thread_data` (array of pipelines, timers); four rings | enable and disable a pipeline on a thread, enable and disable ports, read statistics; `thread_main` | one main thread and one worker per lcore share `rte_pipeline`s without locks; two branches for every call (worker running or not); spinning for answers |
| service timers | `thread.c` (`thread_main`) | `time_next` of the thread and of each pipeline, cached minimum | a control pass; enabling arms a timer | the minimum is computed while the set of timers changes |
| table rules | `thread.c`, `pipeline.c` | list of rules and default rule (main thread), table entries and their counters (library) | add, replace, delete, bulk add, default rule, rule statistics | two copies; partial failure of bulk calls; pointers into the table kept in the list |
| match and action conversion | `thread.c`, `pipeline.c` | none | `match_check`, `action_check`, `match_convert`, `action_convert`; the field formats of ACL tables | unions read through the wrong member; two layouts of a key; depths split over words |
| pipelines, ports, tables | `pipeline.c`, `thread.c` | list of pipelines, their ports and tables, the action object of each; the workers' copies of pointers to these | create, connect, the commands on a table | structure changed while a worker runs it; copies made at enable and moved at disable; counts kept twice |
| rEnforcer | `rEnforcer/*.p4` | registers by hash slot: key, count, eight accumulators, decision | `ingress`, twice for each packet | packets interleave between their two passes; slots change owner; narrow counters |
| rLearner | `rLearner/*.py` | weights | training, binarised inference | real arithmetic |
| command line | `cli.c` | none of its own | a command is a call of another component; rule files; printing rules | long parsers that must take a line whole or not at all; a printer meant to be read back |
| connections | `conn.c` | input buffer, prompt, epoll set | accept, read, write | one buffer for all clients, failed writes |
| main loop, white list watcher | `main.c` | size of the file | initialise, launch, dispatch | a change seen by its size |
| resource registries | `mempool.c`, `link.c`, `swq.c`, `tmgr.c`, `tap.c`, `kni.c`, `cryptodev.c`, `action.c` | lists of named resources; profile counters; what the libraries hold for them | init, find, create, configure; answering KNI requests | a step of several fails; profiles counted for all ports together |
| parsing of arguments | `parser.c` | none | conversions | none to model |

How they interact: `main` initialises the registries and the thread layer, launches `thread_main`
on every worker and then is the command line: it polls clients and the white list, and every
command calls the registries, `pipeline.c` or `thread.c`. Only `thread.c` talks to the workers, over
rings with one request in flight. rEnforcer and the servers meet only in packets.

What makes each part correct is stated in the modules below: at most one thread in an `rte_pipeline`, calls
that take effect once and return (control), the list and the table say the same (rules), a command on
a table reaches that table's object (pipelines), a name denotes one resource and failure changes
nothing (registries), a line of text gives exactly its rule (command line), a flow's state is its own
(rEnforcer), a line of a client is a command (connections), the file that is there is what was run
(watcher).

## 2. Modules

| module | models | proofs |
|---|---|---|
| `PipelineThreads` | main thread and workers, rings, control passes, direct branches | `PipelineThreadsProofs` |
| `ControlRpc` | the abstract promise of `thread.c`: calls are instantaneous and take effect once | (in `PipelineThreadsProofs`) |
| `ServiceTimers` | the clock side of `thread_main` | `LoopProofs` |
| `TableRules` | the list of rules and the table of the data plane | `TableRulesProofs` |
| `Enforcer` | both passes of `ingress` | `EnforcerProofs` |
| `Console` | the dispatch loop's turn for connections: clients, input buffer, writes | `ConsoleProofs` |
| `WhiteList` | the dispatch loop's turn for `white_list.txt`, and running a script | `LoopProofs` |
| `Pipelines` | what pipelines are made of, the copies the workers have, the commands on a table | `PipelinesProofs` |
| `Resources` | the registries, what the libraries hold, the traffic manager's profiles, KNI requests | `ResourcesProofs` |
| `RuleFormat` | a rule as text, as a structure and as an entry: parsing, checking, converting, printing | (in `RuleFilesProofs`) |
| `RuleFiles` | reading a rule file and adding its rules to a table (EXTENDS `RuleFormat`) | `RuleFilesProofs` |
| `MC*` | instances for TLC | |

Operators marked "(slip: ...)" are not part of a model. They are plausible mistakes; each property
of a passing run is violated when the operator defined after the slip is replaced by it.

### PipelineThreads

State: `owner` stands for `p->enabled` and `p->thread_id`; `pipes[t]` is `thread_data[t].p[]` with its
length; `treq`, `trsp`, `preq`, `prsp` are the request and response rings of threads and pipelines;
`pc`, `idx`, `due` are the program counter of `thread_main`, its loop variable and the timers it found
expired; `mpc` and `call` are the main thread's. `cnt` has one counter for each of the three
statistics of a pipeline. `total` and `told` are ghosts.

Each action is one access to shared state: a ring operation, the handling of a request (only the
worker touches what it changes), one `rte_pipeline_run`, one turn of a loop, and on the main thread's
direct branch the library call as two accesses where it copies and then clears. The checks at the
head of a call read only the main thread's own records and are one step with its beginning. A call
whose checks fail changes nothing and is left out. Allocation failures are left out: they change
nothing either. Two things differ from the code on purpose: with `ConfigureFirst = TRUE` calls are
also made before the workers are launched (`main.c` never does that, but `thread.c` has the branch,
and `cli.c` could be started first); ports, tables and statistics of a pipeline are one each.

`ControlRpc` has no rings and threads: a call is invoked, takes effect, returns. The refinement
(`RpcSpec`) maps "taken effect" to "the answer is in the ring", or for the direct branch to its end.

Fairness: each lcore runs (`WF` on the main thread's steps and each worker's), and each timer is
found expired again and again (`SF` on a control pass with it). The timers are abstracted to "some
set of timers has expired", and `ServiceTimers` is why this is right: it has the clock and shows that
no ring is left alone for longer than a period.

### ServiceTimers

Time is an integer. `run` lets it pass for the data plane; `too_early`, `pass_pipelines` and
`pass_thread` are the three ways a look at the clock goes. A pass may take up to `Gap`, the same bound
as for the sixteen rounds between two looks (the work of a round is bounded by the burst sizes);
pipelines are disabled and enabled in it at any instant. Message contents are left out.

### TableRules

One table of each match type. A match is a `key`, what the library compares, and an `extra`, the rest of
`struct table_rule_match` (priority, bits outside the mask or prefix). The library is external and
modelled from how `thread.c` uses it: adding an existing key overwrites its entry and keeps its place;
deleting an absent key is no error; a full table refuses, except LRU hash tables, which drop a key; a
bulk add to an ACL table is all or nothing (the caller throws the list away on error). Calls of one
pipeline do not overlap and take effect at once: that is what `ControlRpc` says, so a call is one
action, but for the bulk call, whose loops over the table and then over the list are separate
actions with packets between them. Array tables are left out: a position cannot be deleted.

`rte_table_acl_rule_add_params` has words before its fields and `rte_table_acl_rule_delete_params` has none
(the object files kept in `build/` have `field_value` at 8 and at 0). Every deletion from an ACL table writes
`acl_add.category_mask` in the union before it fills `acl_delete` (`thread.c:2390`, `2463`, `2567`), and a raw one
writes the fields from the second on through `acl_add` too. Where the mask lands is the library's: in the first field
that `acl_delete` reads, beside the one byte of it that is written afterwards, or, with other offsets, in bytes that are. So
`match_convert` gives the set of keys a deletion may be for: the rule's own; for an ACL table also `None`, a
key no entry has; for raw bytes also any other key. The ghost `astray` has the keys for which that went wrong.

### Enforcer

A pass through `ingress` is one action, because packets cross the stages in order and every register is
used in one stage; `recirc` is the queue behind port 68. `first_pass` counts, checks the threshold,
moves the eight accumulators and recirculates (or drops, in the test table `t_touch_tbl`); `second_pass`
counts again and stores or follows the decision. The weights, the merge and the widths are those of
the P4 files; the one-hot entries, hash values, threshold entry and activation entries, which the
control plane fills, are constants. Assumed of the switch: metadata is zeroed for a recirculated packet
(nothing in the program carries it over), and the recirculation port keeps the order of what is put
into it. Nothing is said of when it delivers it, so the specification has no fairness. Hash keys are distinct for distinct flows of a slot; a flow whose key is
0 owns the slots from the start, as in the code.

Up to `InFlight` packets, of any flows, are between their passes. `sum` and `seen` are what the packets of the slot's
flow add up to and how many they are; `taken` says that the flow took the slot over in a second pass, `dropped` that a
packet of it was dropped, `writer` for which key the decision was stored. All are ghosts.

### Console

Clients connect, send the characters of a fixed text in any pieces, and hang up; `main` polls. `msg_in` is
the one buffer of `conn.c` and its length `msg_in_len`; `who`, `i` and `ctl` are the client, the place in its
bytes and the event that `conn_poll_for_msg` is busy with. Each byte is an action (`handle`, `append`,
`too_long`, by the three branches of `data_event_handle`), since each can end the function by a failed
write; `control` is `control_event_handle`. `cli_process` writes NULs over blanks in the buffer it is given
(`Tokenized`), which matters when a failed write leaves the command there. A write to a client that is
gone may end the process (`Killed`), as no signal is handled.

`wrong` counts the commands handled that are not the line the client ended, `hurt` the causes: bytes of
another client before one's own, a line too long, a failed write in the middle of the bytes.

Fairness: `main` turns (`WF`); `epoll_wait`, asked for one event, takes ready clients in turn, as Linux does
(`SF` on each client's event). Clients owe nothing. The texts are finite, so nothing is said of a client that sends
for ever.

### WhiteList

`file` is the version that has the name, `stream` the one in the file the script has open, `named` whether
they are the same file: an edit in place is seen by a script that is reading, a replacement is not. `look`
is `open`, `fstat` and the comparison; when there is no file, `fstat` fails and `st_size` keeps its value,
which at first is whatever the uninitialised `file_buf` holds (`Unset`). `open_script`, `read_script` and
`close_script` are `cli_script_process`. What the commands in the file do is not part of the model; nothing
undoes those of an earlier version, so rules taken out of the file stay in the tables.

### Pipelines

`pipe[p]` is `struct pipeline` as the main thread has it, `lib[p]` what the library counts, `objects` the
`rte_table_action` and `rte_port_in_action` objects with what was written to each (meter profiles, DSCP
tables), `data[t].slot[k].a` is `pipeline_data[k].table_data[].a`, `entries` the rules in the library's tables,
each with the object that encoded it. The creations are one action each with the checks of
`pipeline.c`; a refusal gives everything back and is left out. Enabling copies the pointers to the
tables' objects into the next slot, over what an earlier pipeline left there; disabling moves the last
slot into the place of the one removed. A command is one step: that it behaves like one is what
`ControlRpc` says and `RpcSpec` shows. `ActionOf` is the object a command reaches, the main thread's when the
pipeline is stopped and the copy's when it runs. `late` marks tables created while their pipeline runs,
whose copy nothing makes; `ActsOnOwn` excepts exactly these.

### Resources

`nodes` and `knis` are the lists, `held` what the libraries hold: a `Thing` for every started port and
device, pool, ring and KNI. Each create function either refuses before the library is asked (`Refuse`),
fails after it and does what its error path does, or adds the node. `sched` has the profiles in force in
each traffic manager port and how many the port was told of (`n_sub`, `n_pipe`); `profiles` are the
global counters. `kni_handle_request` serves every device of the list; what the kernel asks (`asked`) is at most
one request for a device; the drivers may refuse the new MTU or state (`refusing`). External: whether a library accepts is a free choice, except where the code
relies on it (a started port or device is not configured again, a name is used once, a profile must be
one the port was told of). `WF` on `kni_handle_request`: `main` calls it in every turn of its loop (with `RTE_LIB_KNI`).

### RuleFormat and RuleFiles

The parsers of `cli.c` compare and read token after token in a fixed order; a `Form` is this order for one
kind of match or action, as a sequence of words (`W`) and values (`V`) with the range of the value, so a
parser of a hundred lines is one line of slots. A value is named by its token: numbers, addresses and
hexadecimal strings are read back as they are written, and only the ranges matter (`Limit`). `ReadOne` reads one
element off the front of the line; `parse_line` is the match, the actions, and that nothing may follow.
Of a hash rule only the bytes of the key stay (`KeyOf`), so it is shown as a raw key, which reads back to the
same rule. `table_rule_show` prints as `cli.c` does, with the words and the missing blanks it has.
`match_convert` gives the entry as the sequence of its fields, in the order of the formats of `pipeline.c`
(`Format`). `RuleFiles` reads a file line by line and adds the list to a table. Each line carries what its
writer meant (`says`), which only the properties look at, and whether it begins with blanks: `is_comment` looks at the
first characters of the line, so `#foo` is a comment and an indented `#` is not. Left out: lines too long for the buffer of
`cli_rule_file_process`, lines of a raw rule with too few words (they are read past the last token), and
entries for deletion (`TableRules`).

## 3. Runs

| run | instance | shows |
|---|---|---|
| `threads_map` | 2 workers with room for 2, 3 pipelines, calls before and after the launch | `Exclusive`, `OwnerAgrees`, `OneInFlight`, `DisableFinds`, `TypeOK` |
| `threads_rpc` | 1 worker, 2 pipelines, 1 counter, 1 packet | `RpcSpec` (refinement with liveness), `CallReturns`, `EnabledPipelineRuns`; `StatsConserved`: no packet counted twice or lost to readers that clear |
| `pipelines` | 2 pipelines, 1 worker with 2 slots, room for 1 port of each kind and 2 tables, a profile with meters or none, 1 rule or setting at a time | `LibraryAgrees`, `ActsOnOwn`, `TargetsExist`, `TypeOK` |
| `resources` | 2 names of links and KNI devices, 1 of every other kind, 4 nodes, 2 ports, 1 crypto device, 2 profiles of each kind, 2 pipes, the kernel asks to go down or for an MTU at the limit or above it, and drivers may refuse | `Owned`, `FailedChangesNothing` (action property), `RequestServed` (liveness), `TypeOK` |
| `timers` | thread period 4, pipeline periods 2 and 5, `Gap` 2, time to 16 | `ServedInTime`, `ThreadServedInTime` |
| `rules` | ACL, raw ACL, hash, LRU hash, LPM; 3 keys, 2 places, 2 actions, files of 2, a packet per entry | `Distinct`, `DataValid`, `NoHidden`, `StatsOwn`, `TypeOK` |
| `rule_files` | every form of match and of action, every pair of actions, ACL depths at the edges of the words, mangled lines, comments of every sign and indented ones, shown lines; files of up to 3 lines | `ReadAsWritten`, `ShownComesBack`, `EntryCovers` |
| `enforcer` | 2 flows, 1 slot, 2 packets in flight of 7, accumulators of 3 bits, threshold 1..3, drops | `PerFlowState`, `SignedState`, `OwnDecision`, `Frozen` (action property), `TypeOK` |
| `enforcer_count` | 1 flow | **violated**: `CountsPackets` |
| `enforcer_result` | 1 flow | **violated**: `DecisionReusesResult` |
| `console` | 2 clients, texts of 4 characters, a buffer of 2, reads of 3 | `DamageBounded`, `HungUpClosed` (liveness) |
| `whitelist` | 4 versions of up to 3 blocks, one empty, the file missing or not at the start | `SameSizeSameFile`, `FileLoaded`, `Rests` |

`ExclusiveInv`, `TimersInv`, `DamageInv`, `FileInv`, `ListInv`, `ReadInv` and the type invariants of `Console` and
`WhiteList` are inductive invariants of the proofs (section 5) and have no run.

Why the bounds are enough. *Threads*: two workers and three pipelines are what it takes for the removal
from an array to move another entry and for a full array; requests are one at a time, so more
threads add no new interleaving between two of them. `MsgqSize` is the code's 63 and never reached.
`MaxPkts` bounds packets; one packet between copy and clear is what would be lost. *Timers*: one
period shorter and one longer than the thread's, and a time of several of the longest; time 16 lets
each timer expire at least twice. *Rules*: a table one place too small fails in the middle of a file of
two. *Enforcer*: two flows with a packet each between its passes are enough for one slot to change owner and back, in
first and in second passes; the threshold is the largest the narrowed accumulators allow (the code's 8 bits allow 127). *Pipelines*: two pipelines in two slots of one thread are what it takes for a slot to be moved and to be
reused by another pipeline; two tables tell one's object from the other's; with room for one port each
the library's maximum is met at once. *Resources*: two
links compete for two ports, two KNI devices for two links, and a repeated command for the one name and device of
the rest; a profile comes before and one after a port is made, and ranges of pipes fit and do not. *Rule files*: the parsers have no state between two
elements but the tokens left, so pairs of actions show every hand-over; a raw rule has 10 words for 60,
which keeps the two that are taken for depths. *Console*: one
text has a line longer than the buffer, the other a word, a blank and then an empty line, which is what it
takes to see an old command run again; a read shorter than a text leaves bytes to be lost at a hang-up.
*White list*: every order of four versions covers an edit before the opening, between two reads, and after.

## 4. What the violations show

* `enforcer_result`: the second pass merges zeroed metadata: the decision is always the first one.
* `enforcer_count`: `do_flow_cnt` (`main.p4:31`) runs in both passes, so the count compared with the threshold is of
  passes, where `fmax.p4:44` says `pkt_cnt == 16`: a flow's first packet has its decision stored at a count of 2, and a
  flow is decided by half as many packets as the threshold says.

More divergences are in the models, where a property excepts them:

* `match_convert` (`thread.c:2390`, `2463`, `2567`) fills `acl_add` where it should fill `acl_delete`. The deletion of an ACL
  rule may then succeed, the rule vanish from the list, and the table go on applying it; that of a raw one may
  even be for another key. `NoHidden` and `DataValid` except the keys this happened to (`astray`), until the key is added again,
  and say of all others, in the same table too, what they say of the other types.
* A packet of a flow that lost its slot and is still in recirculation takes the slot back in its second pass, which writes
  the key and restarts the count, but does not restart the accumulators: the flow goes on from the other's.
  `PerFlowState` and `SignedState` except a slot from such a pass (`taken`) until a first pass takes it over.
* The test table `t_touch_tbl` drops packets that were counted in their first pass and then never store a decision:
  a later packet of the flow follows what another flow left. `OwnDecision` excepts flows with such a packet (`dropped`).

Some more come out of the models without a run of their own. With two matches of one key (an ACL rule added again
with another priority), `DataValid` fails: both stay listed, one is in the table, and deleting one removes the entry of the other. And with an LRU table the list
keeps rules whose keys the table has dropped. In `WhiteList`, `FileLoaded` fails as soon as two versions
have the same size, or one comes back that was there before: an edit between the look and the opening is
then never undone. In `Console`, an empty line after a failed write runs the first word of the old command.

From the three modules added last:

* A table created while its pipeline runs has no action object in the worker's copy, or the one that an
  earlier pipeline of that slot left (`thread.c:2800`): until the pipeline is disabled and enabled, rules for it
  are refused or encoded by a foreign object (`late` in `Pipelines`). A worker meanwhile walks the lists
  that `pipeline.c` changes.
* `kni_create` without memory for its node leaves the KNI in the library, where no request of the kernel is
  ever answered; `cryptodev_create` without memory for its session pools leaves the device started, so
  that it cannot be created again (`Owned`). Every other error path gives back what it took.
* The profile counters of `tmgr.c` are shared by all ports and not compared with the length of the arrays;
  a profile added after a port was made is refused for it by the library only.
* `data_offset` of a crypto action is read from the last token of the line (`cli.c:4129`); with a tag or decap
  after it, it is theirs (`AsRead`).
* Most rules that `table_rule_show` writes cannot be read again: ACL and LPM addresses run into their depths, a
  raw rule has no words, meter, vlan, qinq, vxlan and crypto actions are printed in other words
  (`ReadBack`). None is read as another rule (`ShownComesBack`).
* An ipv4 ACL rule passes `match_check` for a raw table, and a raw rule is refused when its ninth or tenth
  word is above 32 (`thread.c:1044`). The fields of a raw table are ranges of single bytes, so the "mask" of a
  raw rule is the upper end of a range there (`pipeline.c:780`).

## 5. Proofs

`PipelineThreadsProofs`, for any workers, pipelines, capacities and packets:

* `TypeCorrect`: `SafeSpec => []TypeOK`.
* `ExclusiveUse`: `SafeSpec => []Exclusive`. `Exclusive` is not inductive: that the main thread does not work on
  a pipeline a worker runs follows from what its records say, so `ExclusiveInv` relates them to the
  arrays (`ArrayPlace`, with the answer that is on its way counted in), says that a pipeline is in one
  array once (`ArrayOnce`), that the checks of a call still hold during it (`CallLegal`), and that the
  rings hold the message of that call alone (`ThreadRings`, `PipeRings`), which is what makes the
  answer to a call its own. One lemma per action.
* `OneMessage` (`[]OneInFlight`), `DisableAlwaysFinds` (`[]DisableFinds`) and `OwnersAgree` (`[]OwnerAgrees`) from
  the same invariant. For the last one `ArrayPlace` and `ArrayOnce` make the set that `OwnerAgrees` counts a
  singleton or empty.
* `StatsAddUp`: `SafeSpec => []StatsConserved`. A read with clear is a copy and, a step later on the main thread's
  own branch, a clear; in between the copy must still be what the counter holds (`ClearInv`), which it is
  because no worker runs the pipeline then (`Exclusive`). The sum is then kept by every single step: a
  packet adds to the counter and to the total, a worker's answer moves the counter into the ring, taking
  it out moves it to the main thread, and the end of the call to the reader.
* `ImplementsRpc`: `SafeSpec => Rpc!Init /\ [][Rpc!Next]_(Rpc!vars)`, the refinement of `ControlRpc` without its
  fairness. The mapping looks at the arrays, and the abstract guard of `pipeline_enable` counts the pipelines of
  a thread (`Room`), where the worker compares the length of its array: the array's places and the
  pipelines mapped to the thread are in bijection (`ArrayOnce`, `ArrayPlace`), so both are the same number. That
  is how the worker's refusal of a full array and the main thread's are shown to be the one refusal of the abstract call;
  in `threads_rpc` the array is never full, so for that the theorem stands alone.
  A call is invoked by one step, takes effect by one (the worker's handling of the request, or the last
  access of the direct branch), and returns by one; every other step maps to a stutter.

`LoopProofs`, for any pipelines, periods and gap:

* `PipelinesServed`, `ThreadServed` (of `ServiceTimers`): from `TimersInv`, which says what the cached minimum
  is a bound of: of the timers that were armed when it was computed, and for a pipeline
  enabled after that of its start plus the longer of the two periods.

`EnforcerProofs`, for any flows, slots and entries:

* `TypeCorrect`: `Spec => []TypeOK`.
* `DecisionsAreOwn`: `Configured /\ Spec => []OwnDecision`, where `Configured` says that the threshold's range
  starts at 1, bounds the packets below half of `CntMod` (the 20-bit count does not wrap, which `TwoPasses` shows)
  and the packets in recirculation at a time below the upper end of the range. The invariant is a counting argument: while no
  decision is stored for the flow that holds a slot and none of its packets was dropped, every pass counted in it was a
  first pass whose packet is still in the queue (`Undecided`), so a packet that comes back past the threshold without a
  decision would mean more packets in the queue than fit.
* `StatesArePerFlow`: `HitLo = 1 /\ Spec => []PerFlowState`, for any number of packets between their passes. The hypothesis
  is about an entry the control plane fills, and cannot be left out: with a range that starts later, the first packet of a flow
  stores nothing, so the accumulators of the flow before are still there.
* `NoAccumulatorWraps`: `Signable /\ Spec => []SignedState`. `Signable` adds that the range ends below half a byte and
  that the count does not wrap. A sum of one-bit weights is at most as far from 0 as there were packets
  that moved it (`Bounded`), and none moves it past the threshold. (With the code's bytes the range may end at 127.)
* `StaysFrozen`: `2 * MaxPkts < CntMod /\ Spec => Frozen`, an action property, for any number of packets in
  flight. The hypothesis is needed: after 2^20 passes the count is 0 again and the flow starts over.

`TableRulesProofs`, for any keys, places, actions, files and rules of one key:

* `TypeCorrect`, `ListedOnce` (`[]Distinct`): from `CoreInv`, which also says that no key has two entries, in the table
  and in the one a failed bulk call of an ACL table goes back to (`UniqueInv`), and where a bulk call is in its two loops
  (`BulkInv`).
* `NothingHidden`: `Spec => []NoHidden`. In the middle of a bulk call it does not hold: rules are in the table
  and not yet in the list. `HiddenInv` counts these in (`Pending`: the first `n` of the call in its first loop, those after
  `n` in its second), and says of the table to go back to that it had nothing to hide. It holds for every type of table;
  what it leaves out are single keys, those `astray` after a deletion from an ACL table.
* `ShownIsDone` (`[]DataValid`) and `OwnStats` (`[]StatsOwn`), from `ListedInv`, which says the same for listed and pending
  rules, but for those a later rule of the same call replaces. Both assume `MatchIsKey`, that a match has
  nothing beside its key. Without it they fail (section 4): two rules of one key are both listed and only
  one is in the table.

`ConsoleProofs`, for any clients, texts, buffer and read sizes:

* `TypeCorrect`: `Spec => []TypeOK`.
* `DamageIsBounded`: `Spec => []DamageBounded`. What is counted is not only the commands that were wrong but the
  lines that are bound to be (`Broken`): `DamageInv` says that both together are at most twice `hurt`. A
  byte after another client's breaks the lines of both; a command that is handled wrongly is a broken line
  less; an intact line is the buffer itself (`IsPartial`), so its command is right.

`LoopProofs` again, for `WhiteList` with any versions and sizes that are `Distinguishable`:

* `LookTells`: `Distinguishable /\ WatchSpec => []SameSizeSameFile`. The invariant `FileInv`, over the type invariant
  `WatchTypeOK`, says that the size remembered is that of a version there has been (`SizeSeen`), so an edit to a
  new version never meets it, and a script that runs for the size of the present file reads that file (`ReadsFile`).

`PipelinesProofs`, for any pipelines, threads, devices, profiles and limits:

* `TypeCorrect`, `CountsAgree` (`[]LibraryAgrees`), `CommandsActOnOwn` (`[]ActsOnOwn`) and `RulesHaveTargets`
  (`[]TargetsExist`), from one invariant. `ActsOnOwn` speaks of rules and settings already there, whose
  object was right when they were made; that it was needs `Places` (slots in use and running pipelines
  correspond one for one, so `SlotOf` finds the slot wherever it was moved), `Copies` (the pointers in a slot
  in use are those of its pipeline's tables that are not late) and `Pointers` (a table has its own object
  or none). Creation only adds (`Grows`), enabling and disabling leave what pipelines are made of alone
  (`SameParts`), and commands change only objects or rules, so each part has to be shown for few actions.

`ResourcesProofs`, for any names, ports, devices and requests:

* `NodesOwn` (`[]Owned`). Two traffic manager ports are kept apart only by the name of their nodes, so the
  invariant says that such a node stands for the port of its name (`Shapes`).
* `FailuresChangeNothing` (`FailedChangesNothing`): of the pipes of `tmgr_pipe_config` all are configured or
  none (`AllOrNone`), because the range is inside the port and the profile is the same for all.
* `TypeCorrect` (`[]TypeOK`), that a profile in force is one the port was told of and that no port gets an MTU
  above the limit. `kni_handle_request` is a fold over the list of devices, so this needs induction. The library's
  induction theorems have the formula as a parameter, which the provers cannot instantiate, but `WFMin` has
  not: from it every set of numbers has a least one (`Least`), so a set that has 0 and each successor has them all
  (`Induct`). With it the function inside the fold exists (`FoldDefined`) and keeps the type (`FoldTyped`).

`RuleFilesProofs`, for any files, numbers, tokens and sizes of the formats:

* `EntriesCover`: `Spec => []EntryCovers`. `ListInv` says that every rule of the list was read by one of the forms of
  `parse_match` and that the entries are the list's, converted, for a table that `match_check` took them for. That
  gives the depths of a rule as numbers (`AclDepths`: whatever the tokens, the seventh and the ninth were read by
  `parser_read_uint32`) and their limits (32, or 128 for ipv6). `DepthOfWords` is about
  `match_convert_ipv6_depth`: bit x of an address is below the depth just when it is below the depth of its own word,
  in its word; `Format4`, `Format6`, `Fields4` and `Fields6` say where the format and the entry have these words.
* `FilesAreRead`: `Spec => [](LinesReadAsSaid => ReadAsWritten)`, and `ShownFilesComeBack`:
  `Spec => [](LinesReadAsSaid => ShownComesBack)`, for files of any length, from `ReadInv`: until a line is refused
  the list is what the lines read so far mean, each rule at the place that the number of lines before it that
  say something gives it (`KeptGrows`), and none of them was one to refuse. The hypothesis
  `LinesReadAsSaid` is about single lines: each line of the file, were it the only one, is read as its writer
  meant, or refused if it is no rule. So the theorems carry the reading of one line, which the instance
  enumerates, to every file of such lines. It is true of the instance's files: `WrittenIsRead` in `MCRuleFiles`
  has TLC evaluate it for every line written by hand there.

Assumptions are those named in the modules (`ConstantsAssumption`, `TimersAssumption`, `EnforcerAssumption`,
`ConsoleAssumption`, `WhiteListAssumption`, `PipelinesAssumption`, `RulesAssumption`, `SizesPositive`,
`RequestsKnown`, and in `RuleFormat` and `RuleFiles` `NumbersNatural`, `LexiconNamed`, `SizesNatural`, `FilesAreLines`,
`MaxTokensNatural`). Other hypotheses stand in
the statements of the theorems.

Only model-checked, and why:

* Liveness (`CallReturns`, `EnabledPipelineRuns`, `RequestServed`, `HungUpClosed`, `FileLoaded`, `Rests`) and the
  fairness that `RpcSpec` adds to `ImplementsRpc`: fairness and `ENABLED` are beyond the prover.
* Of `RuleFiles`, that a line that `Written` or `Shown` makes of a form is read as it says (`ReadsAsSaid`, the hypothesis of
  `FilesAreRead` and `ShownFilesComeBack`). That is about what folds over the elements of a line and over strings compute, for
  every list of actions: induction over data. The run and `WrittenIsRead` have every form and every pair of actions.
* The refinement of `ControlRpc` is proved for safety, and model-checked with liveness (`RpcSpec`).

## 6. Not modelled, and why

Reading the meter, TTL and time counters of a rule (`thread.c:1946`, `2071`, `2139`): the same protocol as the
statistics in `TableRules`, over counters of the library. Array tables: a position cannot be deleted
and aliases modulo the size, so the list and the table differ by design. The commands of `cli.c` other
than those on rules and scripts only parse the arguments of calls that are modelled. `link_is_up`
only reads. `moongen_src` is third-party. `rnn.p4` includes `cfilter.p4`, whose controls nothing
applies; `filter.p4` is included nowhere; the headers and the parser of rEnforcer are declarations. rLearner is training code over reals. Build files and
examples have no state.

## 7. Plan

Done: `PipelineThreads`, `ControlRpc`, `Enforcer`, `ServiceTimers`, `TableRules`, `Console`, `WhiteList`, `Pipelines`,
`Resources`, `RuleFormat`, `RuleFiles`. Left, in this order:

1. Proofs: a line that `Written` makes is parsed to its rule, by the induction of `ResourcesProofs` over `Elements`;
   `DataValid` under a hypothesis weaker than `MatchIsKey`, that no two rules listed or to be added share a key.
2. Meter, TTL and time counters in `TableRules`; array tables and aliased matches.
3. `FlowClassifier`: what `Enforcer` promises for a flow alone on its slot, as an abstract specification, and
   a refinement for one packet in flight; the binarised cell of rLearner as a reference for
   `do_calc_mat`.
