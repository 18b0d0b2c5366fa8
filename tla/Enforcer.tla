------------------------------ MODULE Enforcer ------------------------------
(***************************************************************************)
(* rEnforcer: the P4 ingress pipeline that runs the learned network on the *)
(* first packets of every flow.  A packet goes through ingress twice.  In  *)
(* the first pass (from a front port) the flow is counted in the register  *)
(* slot its hash selects and, while the count is within the threshold, the *)
(* eight accumulators of the slot are moved by the packet; the packet is   *)
(* then recirculated.  In the second pass (from port 68) the flow is       *)
(* counted again and the packet either computes and stores the decision of *)
(* the slot or follows the one stored.  A pass is atomic: packets cross    *)
(* the stages in order, and each register is used in one stage.  Between   *)
(* the passes of a packet the passes of others come in.                    *)
(***************************************************************************)
EXTENDS Integers, Sequences, FiniteSets

CONSTANTS
  Flows,      \* values of flow_keys
  Slots,      \* values of hash_index
  Key, Slot,  \* flow_hash_key and flow_hash_index of every flow
  OneHots,    \* encodings <<p1, p2, p3, p4>> of t_onehot_pktlen's entries
  Activates,  \* inputs of the t_s*_state*_c tables that activate; the rest deactivate
  Byte,       \* 2^8: the width of the accumulators and of the matrix fields
  HitLo, HitHi,  \* range of t_check_cnt_thold's entry for a_hit_thold
  CntMod,     \* 2^20: rstate.flow_cnt has 20 bits
  TouchDrops, \* t_touch_tbl, a test table, has _drop entries
  InFlight,   \* bound on the packets being recirculated
  MaxPkts,    \* bound on the packets that arrive
  None

Units == 1..8   \* the accumulators: r_s1_state1..4, r_s2_state1..4

ASSUME EnforcerAssumption ==
  /\ Key \in [Flows -> Nat] /\ Slot \in [Flows -> Slots]
  /\ Byte \in Nat \ {0} /\ Byte % 2 = 0
  /\ OneHots \subseteq [1..4 -> 0..3]
  /\ Activates \subseteq 0..(Byte - 1)
  /\ HitLo \in Nat \ {0} /\ HitHi \in Nat /\ HitLo <= HitHi /\ HitHi < CntMod
  /\ CntMod \in Nat \ {0}
  /\ TouchDrops \in BOOLEAN
  /\ InFlight \in Nat \ {0} /\ MaxPkts \in Nat
  /\ None \notin Flows

VARIABLES
  r_flow_hash_key, r_flow_cnt, r_state, r_decision,  \* the registers, by slot
  recirc,  \* packets on their way through port 68
  sent,    \* packets that arrived
  out,     \* how the last packet left ingress
  sum,     \* ghost: what the packets of the slot's present flow should add up to
  seen,    \* ghost: packets of it that arrived, since it took over the slot
  taken,   \* ghost: the slot's present flow took it over in a second pass
  dropped, \* ghost: a packet of it was dropped, since it took over the slot
  writer   \* ghost: the key for which the slot's decision was stored, or None

registers == <<r_flow_hash_key, r_flow_cnt, r_state, r_decision>>
ghosts    == <<sum, seen, taken, dropped, writer>>
vars      == <<registers, recirc, sent, out, ghosts>>

Keys == {Key[f] : f \in Flows}
Packets == [flow : Flows, best : 0..2]
Outs == [how : {"none", "drop", "update", "take"}, key : Keys \cup {None}, decision : 0..2,
         best : 0..2, cnt : Nat, seen : Nat, dropped : BOOLEAN, writer : Keys \cup {None}]

TypeOK ==
  /\ r_flow_hash_key \in [Slots -> Nat]
  /\ r_flow_cnt \in [Slots -> Nat]
  /\ r_state \in [Slots -> [Units -> 0..(Byte - 1)]]
  /\ r_decision \in [Slots -> 0..2]
  /\ recirc \in Seq(Packets) /\ Len(recirc) <= InFlight
  /\ sent \in 0..MaxPkts
  /\ out \in Outs
  /\ sum \in [Slots -> [Units -> Int]]
  /\ seen \in [Slots -> Nat]
  /\ taken \in [Slots -> BOOLEAN] /\ dropped \in [Slots -> BOOLEAN]
  /\ writer \in [Slots -> Keys \cup {None}]

NoOut == [how |-> "none", key |-> None, decision |-> 0, best |-> 0,
          cnt |-> 0, seen |-> 0, dropped |-> FALSE, writer |-> None]
Zeros == [u \in Units |-> 0]

Init ==
  /\ r_flow_hash_key = [s \in Slots |-> 0]
  /\ r_flow_cnt = [s \in Slots |-> 0]
  /\ r_state = [s \in Slots |-> Zeros]
  /\ r_decision = [s \in Slots |-> 0]
  /\ recirc = <<>> /\ sent = 0 /\ out = NoOut
  /\ sum = [s \in Slots |-> Zeros]
  /\ seen = [s \in Slots |-> 0]
  /\ taken = [s \in Slots |-> FALSE] /\ dropped = [s \in Slots |-> FALSE]
  /\ writer = [s \in Slots |-> None]

-----------------------------------------------------------------------------
(* do_flow_cnt, in both passes.                                            *)

\* fkey_alu: the slot holds the key of another flow.
is_collision(f) == r_flow_hash_key[Slot[f]] # Key[f]

\* (slip: the counter is not restarted for the flow that takes the slot over)
CountRunsOn(f) == r_flow_cnt[Slot[f]] + 1

\* fcnt_alu.
count(f) == IF is_collision(f) THEN 1 ELSE r_flow_cnt[Slot[f]] + 1

\* (slip: the range of the entry ends one late)
OverflowLate(f) ==
  LET n == count(f) % CntMod
  IN  IF n < HitLo THEN 1 ELSE IF n <= HitHi + 1 THEN 2 ELSE 0

\* t_check_cnt_thold, on the 20 bits of rstate.flow_cnt.
overflow(f) ==
  LET n == count(f) % CntMod
  IN  IF n < HitLo THEN 1 ELSE IF n <= HitHi THEN 2 ELSE 0

do_flow_cnt(f) ==
  /\ r_flow_hash_key' = [r_flow_hash_key EXCEPT ![Slot[f]] = Key[f]]
  /\ r_flow_cnt' = [r_flow_cnt EXCEPT ![Slot[f]] = count(f)]

-----------------------------------------------------------------------------
(* The network.                                                            *)

\* The coefficients of p1..p4 in the input of each accumulator.
Weights == << <<1, -1, 1, 1>>, <<1, -1, 1, 1>>, <<1, -1, 1, 1>>, <<1, -1, -1, -1>>,
              <<-1, 1, 1, -1>>, <<-1, 0, -1, -1>>, <<1, 1, 1, 1>>, <<1, -1, 1, 1>> >>

do_calc_mat(p) ==
  [u \in Units |-> (Weights[u][1] * p[1] + Weights[u][2] * p[2]
                    + Weights[u][3] * p[3] + Weights[u][4] * p[4]) % Byte]

\* The activate or deactivate action of each accumulator's table.
Moves(p) == [u \in Units |-> IF do_calc_mat(p)[u] \in Activates THEN 1 ELSE -1]

\* (slips: the accumulator goes on from the last flow's; no wrap of the field)
GoesOn(f, p) == [u \in Units |-> (r_state[Slot[f]][u] + Moves(p)[u]) % Byte]
NoWrap(f, p) ==
  [u \in Units |-> IF is_collision(f) THEN Moves(p)[u] ELSE r_state[Slot[f]][u] + Moves(p)[u]]

\* The activate and deactivate ALUs.
do_tanh_and_update_state(f, p) ==
  [u \in Units |-> IF is_collision(f) THEN Moves(p)[u] % Byte
                                      ELSE (r_state[Slot[f]][u] + Moves(p)[u]) % Byte]

\* The r1 fields of m11..m14 and m21..m24 after the first pass: the accumulators of
\* the first group, the moves of the second.  do_merge_result_1 leaves them so: the
\* default action of t_set_m21..t_set_m24 is nop.
Metadata(f, p) ==
  [u \in Units |-> IF u <= 4 THEN do_tanh_and_update_state(f, p)[u] ELSE Moves(p)[u] % Byte]

\* t_fm_s1, t_fm_s2, t_fm_s3: m11.r1 at the end.
do_merge_result_2(m) == (m[1] - m[2] - (m[3] + m[4]) - (m[8] - m[5])) % Byte

decide(m) == IF do_merge_result_2(m) < Byte \div 2 THEN 1 ELSE 2

-----------------------------------------------------------------------------
(* The two passes.                                                         *)

Bump(f, moves) ==
  [sum EXCEPT ![Slot[f]] = [u \in Units |-> (IF is_collision(f) THEN 0 ELSE @[u]) + moves[u]]]

\* A packet of flow f arrives at a front port.
first_pass(f, p) ==
  /\ sent < MaxPkts /\ Len(recirc) < InFlight
  /\ sent' = sent + 1
  /\ do_flow_cnt(f)
  /\ seen' = [seen EXCEPT ![Slot[f]] = IF is_collision(f) THEN 1 ELSE @ + 1]
  /\ taken' = [taken EXCEPT ![Slot[f]] = ~is_collision(f) /\ @]
  /\ IF overflow(f) > 1
     THEN /\ r_state' = [r_state EXCEPT ![Slot[f]] = do_tanh_and_update_state(f, p)]
          /\ sum' = Bump(f, Moves(p))
     ELSE /\ sum' = Bump(f, Zeros)
          /\ UNCHANGED r_state
  /\ \/ /\ recirc' = Append(recirc, [flow |-> f, best |-> IF overflow(f) > 1
                                                         THEN decide(Metadata(f, p)) ELSE 0])
        /\ dropped' = [dropped EXCEPT ![Slot[f]] = ~is_collision(f) /\ @]
        /\ UNCHANGED out
     \/ /\ overflow(f) > 1 /\ TouchDrops
        /\ dropped' = [dropped EXCEPT ![Slot[f]] = TRUE]
        /\ out' = [how |-> "drop", key |-> Key[f], decision |-> 0, best |-> 0, cnt |-> count(f),
                   seen |-> seen'[Slot[f]], dropped |-> TRUE, writer |-> None]
        /\ UNCHANGED recirc
  /\ UNCHANGED <<r_decision, writer>>

\* What a packet that leaves ingress shows.
Leaves(k, f, how, d) ==
  out' = [how |-> how, key |-> Key[f], decision |-> d, best |-> k.best, cnt |-> count(f),
          seen |-> seen'[Slot[f]], dropped |-> dropped'[Slot[f]], writer |-> writer'[Slot[f]]]

\* The first packet of the recirculation queue comes in at port 68, with new metadata.
second_pass ==
  /\ recirc # <<>>
  /\ recirc' = Tail(recirc)
  /\ LET k == Head(recirc)  f == k.flow
     IN /\ do_flow_cnt(f)
        /\ sum' = Bump(f, Zeros)
        /\ seen' = [seen EXCEPT ![Slot[f]] = IF is_collision(f) THEN 0 ELSE @]
        /\ taken' = [taken EXCEPT ![Slot[f]] = is_collision(f) \/ @]
        /\ dropped' = [dropped EXCEPT ![Slot[f]] = ~is_collision(f) /\ @]
        /\ IF overflow(f) > 1
           THEN /\ r_decision' = [r_decision EXCEPT ![Slot[f]] = decide(Zeros)]
                /\ writer' = [writer EXCEPT ![Slot[f]] = Key[f]]
                /\ Leaves(k, f, "update", decide(Zeros))
           ELSE /\ UNCHANGED <<r_decision, writer>>
                /\ Leaves(k, f, "take", r_decision[Slot[f]])
  /\ UNCHANGED <<r_state, sent>>

Next == second_pass \/ \E f \in Flows, p \in OneHots : first_pass(f, p)

Spec == Init /\ [][Next]_vars

-----------------------------------------------------------------------------
(* Properties.                                                             *)

\* The accumulators of a slot are those of the flow whose key the slot holds: what the
\* packets of the flow add up to since it took the slot over, nothing of the flow before
\* it, whatever packets of others come in between its passes (rstate.p4:38 "store
\* per-flow states").  Not so after a second pass took the slot over: that pass writes
\* the key and restarts the count, and leaves the accumulators of the other flow.
PerFlowState ==
  \A s \in Slots, u \in Units : ~taken[s] => r_state[s][u] = sum[s][u] % Byte

\* ... and, with HitHi below Byte / 2, read as signed bytes they are that sum itself:
\* the comparison with 0x80 sees the sign the network computed, not a wrapped one.
Signed(b) == IF b < Byte \div 2 THEN b ELSE b - Byte
SignedState ==
  \A s \in Slots, u \in Units : ~taken[s] => Signed(r_state[s][u]) = sum[s][u]

\* A packet that follows a stored decision follows the one stored for its own flow,
\* unless a packet of the flow that should have stored it was dropped on its way.
OwnDecision == out.how = "take" /\ ~out.dropped => out.writer = out.key

\* Past the threshold the accumulators and the decision of a flow stay as they are
\* until another flow takes the slot over.
Frozen ==
  [][\A s \in Slots :
       r_flow_cnt[s] >= HitHi /\ r_flow_hash_key'[s] = r_flow_hash_key[s] =>
         r_state'[s] = r_state[s] /\ r_decision'[s] = r_decision[s]]_vars

\* The decision stored is the one the merged result of the packet's first pass calls
\* for (mresult.p4:59 "final mat, 4x6, reuse m1x.r1 + m2x.r2").
DecisionReusesResult ==
  out.how = "update" /\ out.best # 0 => out.decision = out.best

\* The count that is compared with the threshold when a decision is stored is the number
\* of the flow's packets (fmax.p4:44 "condition_hi : rstate.overflow == 2; // pkt_cnt == 16").
CountsPackets == out.how = "update" => out.cnt = out.seen

-----------------------------------------------------------------------------
(* Why OwnDecision holds.                                                  *)

\* Packets of the flow that holds slot s on their way through the recirculation port.
OfOwner(s) == {k \in Packets : Slot[k.flow] = s /\ Key[k.flow] = r_flow_hash_key[s]}
Places(q, M) == {i \in 1..Len(q) : q[i] \in M}
Waiting(q, M) == Cardinality(Places(q, M))

\* As long as no decision is stored for the flow that holds a slot, and none of its packets
\* was dropped, every pass counted was the first pass of one that is still to come back.
Undecided ==
  \A s \in Slots :
    writer[s] # r_flow_hash_key[s] /\ ~dropped[s] => r_flow_cnt[s] <= Waiting(recirc, OfOwner(s))

\* Two passes for every packet at the most.
TwoPasses ==
  /\ Len(recirc) <= sent
  /\ \A s \in Slots : r_flow_cnt[s] + Len(recirc) <= 2 * sent

OwnInv == Undecided /\ TwoPasses /\ OwnDecision
=============================================================================
