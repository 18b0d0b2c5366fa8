-------------------------- MODULE EnforcerProofs ----------------------------
(***************************************************************************)
(* Proofs about Enforcer, for any number of flows, slots and packets:      *)
(* types; that no flow follows the decision stored for another one, while  *)
(* fewer packets are in recirculation than the threshold; that the         *)
(* accumulators are those of the flow and do not wrap; and that they do    *)
(* not move past the threshold.                                            *)
(***************************************************************************)
EXTENDS Enforcer, FiniteSetTheorems, TLAPS

USE EnforcerAssumption

-----------------------------------------------------------------------------
(* Types.                                                                  *)

LEMMA ModRange == ASSUME NEW a \in Int PROVE a % Byte \in 0..(Byte - 1)
OBVIOUS

LEMMA MovesType == ASSUME NEW p PROVE Moves(p) \in [Units -> {1, -1}]
BY DEF Moves

LEMMA DecideType == ASSUME NEW m PROVE decide(m) \in 1..2
BY DEF decide

LEMMA StateType ==
  ASSUME TypeOK, NEW f \in Flows, NEW p
  PROVE  do_tanh_and_update_state(f, p) \in [Units -> 0..(Byte - 1)]
<1>1. Slot[f] \in Slots OBVIOUS
<1>2. r_state[Slot[f]] \in [Units -> 0..(Byte - 1)] BY <1>1 DEF TypeOK
<1>3. ASSUME NEW u \in Units
      PROVE  /\ Moves(p)[u] % Byte \in 0..(Byte - 1)
             /\ (r_state[Slot[f]][u] + Moves(p)[u]) % Byte \in 0..(Byte - 1)
  <2>1. Moves(p)[u] \in Int BY MovesType
  <2>2. r_state[Slot[f]][u] \in Int BY <1>2
  <2>3. r_state[Slot[f]][u] + Moves(p)[u] \in Int BY <2>1, <2>2
  <2>4. Moves(p)[u] % Byte \in 0..(Byte - 1) BY <2>1, ModRange
  <2>5. (r_state[Slot[f]][u] + Moves(p)[u]) % Byte \in 0..(Byte - 1) BY <2>3, ModRange
  <2> QED BY <2>4, <2>5
<1> QED BY <1>3 DEF do_tanh_and_update_state

LEMMA CountType ==
  ASSUME TypeOK, NEW f \in Flows
  PROVE  Slot[f] \in Slots /\ Key[f] \in Nat /\ count(f) \in Nat \ {0}
BY DEF TypeOK, count

LEMMA BumpType ==
  ASSUME TypeOK, NEW f \in Flows, NEW moves \in [Units -> Int]
  PROVE  Bump(f, moves) \in [Slots -> [Units -> Int]]
<1>1. Slot[f] \in Slots /\ sum[Slot[f]] \in [Units -> Int] BY DEF TypeOK
<1>2. [u \in Units |-> (IF is_collision(f) THEN 0 ELSE sum[Slot[f]][u]) + moves[u]]
        \in [Units -> Int]
  BY <1>1
<1> QED BY <1>1, <1>2 DEF Bump, TypeOK

LEMMA ZerosType == Zeros \in [Units -> Int] /\ Zeros \in [Units -> 0..(Byte - 1)]
BY DEF Zeros

LEMMA InitType == Init => TypeOK
<1> SUFFICES ASSUME Init PROVE TypeOK OBVIOUS
<1>1. NoOut \in Outs BY DEF NoOut, Outs, Keys
<1> QED BY <1>1, ZerosType DEF Init, TypeOK

LEMMA FirstPassType ==
  ASSUME TypeOK, NEW f \in Flows, NEW p \in OneHots, first_pass(f, p)
  PROVE  TypeOK'
<1>1. Slot[f] \in Slots /\ Key[f] \in Nat /\ count(f) \in Nat BY CountType
<1>2. /\ r_flow_hash_key' \in [Slots -> Nat] /\ r_flow_cnt' \in [Slots -> Nat]
  BY <1>1 DEF first_pass, do_flow_cnt, TypeOK
<1>3. r_state' \in [Slots -> [Units -> 0..(Byte - 1)]]
  <2>1. do_tanh_and_update_state(f, p) \in [Units -> 0..(Byte - 1)] BY StateType
  <2>2. \/ r_state' = [r_state EXCEPT ![Slot[f]] = do_tanh_and_update_state(f, p)]
        \/ r_state' = r_state
    BY DEF first_pass
  <2>3. r_state \in [Slots -> [Units -> 0..(Byte - 1)]] BY DEF TypeOK
  <2> QED BY <1>1, <2>1, <2>2, <2>3
<1>4. sum' \in [Slots -> [Units -> Int]]
  <2>1. Moves(p) \in [Units -> Int] BY MovesType
  <2> QED BY <2>1, ZerosType, BumpType DEF first_pass
<1>5. seen' \in [Slots -> Nat] BY SMTT(60), <1>1 DEF first_pass, TypeOK
<1>6. sent' \in 0..MaxPkts BY DEF first_pass, TypeOK
<1>7. recirc' \in Seq(Packets) /\ Len(recirc') <= InFlight
  <2> DEFINE k == [flow |-> f, best |-> IF overflow(f) > 1 THEN decide(Metadata(f, p)) ELSE 0]
  <2>1. k \in Packets
    <3>1. decide(Metadata(f, p)) \in 0..2 BY DecideType
    <3> QED BY <3>1 DEF Packets
  <2>2. recirc' = Append(recirc, k) \/ recirc' = recirc BY DEF first_pass
  <2>3. recirc \in Seq(Packets) /\ Len(recirc) < InFlight BY DEF first_pass, TypeOK
  <2> HIDE DEF k
  <2>4. Append(recirc, k) \in Seq(Packets) /\ Len(Append(recirc, k)) = Len(recirc) + 1
    BY <2>1, <2>3
  <2>5. CASE recirc' = Append(recirc, k) BY <2>3, <2>4, <2>5
  <2>6. CASE recirc' = recirc BY <2>3, <2>6
  <2> QED BY <2>2, <2>5, <2>6
<1>8. out' \in Outs
  <2> DEFINE o == [how |-> "drop", key |-> Key[f], decision |-> 0, best |-> 0, cnt |-> count(f),
                   seen |-> seen'[Slot[f]], dropped |-> TRUE, writer |-> None]
  <2>1. Key[f] \in Keys \cup {None} BY DEF Keys
  <2>2. seen'[Slot[f]] \in Nat BY <1>1, <1>5
  <2>3. o \in Outs BY <1>1, <2>1, <2>2 DEF Outs
  <2>4. out' = o \/ out' = out BY DEF first_pass
  <2> HIDE DEF o
  <2> QED BY <2>3, <2>4 DEF TypeOK
<1>10. taken' \in [Slots -> BOOLEAN] /\ dropped' \in [Slots -> BOOLEAN]
  <2>1. taken \in [Slots -> BOOLEAN] /\ dropped \in [Slots -> BOOLEAN] BY DEF TypeOK
  <2>2. /\ taken' = [taken EXCEPT ![Slot[f]] = ~is_collision(f) /\ @]
        /\ \/ dropped' = [dropped EXCEPT ![Slot[f]] = ~is_collision(f) /\ @]
           \/ dropped' = [dropped EXCEPT ![Slot[f]] = TRUE]
    BY DEF first_pass
  <2> QED BY <2>1, <2>2, ZenonT(60)
<1>9. UNCHANGED <<r_decision, writer>> BY DEF first_pass
<1> QED BY <1>2, <1>3, <1>4, <1>5, <1>6, <1>7, <1>8, <1>9, <1>10 DEF TypeOK

LEMMA SecondPassType == ASSUME TypeOK, second_pass PROVE TypeOK'
<1> DEFINE k == Head(recirc)
           f == k.flow
<1>1. k \in Packets /\ f \in Flows /\ recirc' \in Seq(Packets) /\ Len(recirc') <= InFlight
  <2>1. recirc \in Seq(Packets) /\ recirc # <<>> /\ Len(recirc) <= InFlight
        /\ recirc' = Tail(recirc)
    BY DEF second_pass, TypeOK
  <2>2. k \in Packets BY <2>1
  <2>3. f \in Flows BY <2>2 DEF Packets
  <2>4. Tail(recirc) \in Seq(Packets) /\ Len(Tail(recirc)) = Len(recirc) - 1 BY <2>1
  <2> QED BY <2>1, <2>2, <2>3, <2>4
<1> HIDE DEF k
<1>2. Slot[f] \in Slots /\ Key[f] \in Nat /\ count(f) \in Nat BY <1>1, CountType
<1>3. /\ do_flow_cnt(f) /\ sum' = Bump(f, Zeros)
      /\ seen' = [seen EXCEPT ![Slot[f]] = IF is_collision(f) THEN 0 ELSE @]
      /\ \/ /\ r_decision' = [r_decision EXCEPT ![Slot[f]] = decide(Zeros)]
            /\ writer' = [writer EXCEPT ![Slot[f]] = Key[f]]
            /\ Leaves(k, f, "update", decide(Zeros))
         \/ /\ UNCHANGED <<r_decision, writer>>
            /\ Leaves(k, f, "take", r_decision[Slot[f]])
      /\ UNCHANGED <<r_state, sent>>
  BY DEF second_pass, k
<1>4. /\ r_flow_hash_key' \in [Slots -> Nat] /\ r_flow_cnt' \in [Slots -> Nat]
  BY <1>2, <1>3 DEF do_flow_cnt, TypeOK
<1>5. sum' \in [Slots -> [Units -> Int]] BY <1>1, <1>3, ZerosType, BumpType
<1>6. seen' \in [Slots -> Nat] BY <1>2, <1>3 DEF TypeOK
<1>7. decide(Zeros) \in 0..2 BY DecideType
<1>8. r_decision' \in [Slots -> 0..2] BY <1>2, <1>3, <1>7 DEF TypeOK
<1>9. writer' \in [Slots -> Keys \cup {None}]
  <2>1. Key[f] \in Keys BY <1>1 DEF Keys
  <2>2. writer' = [writer EXCEPT ![Slot[f]] = Key[f]] \/ writer' = writer BY <1>3
  <2>3. writer \in [Slots -> Keys \cup {None}] BY DEF TypeOK
  <2> QED BY <1>2, <2>1, <2>2, <2>3
<1>10. taken' \in [Slots -> BOOLEAN] /\ dropped' \in [Slots -> BOOLEAN]
  <2>1. taken \in [Slots -> BOOLEAN] /\ dropped \in [Slots -> BOOLEAN] BY DEF TypeOK
  <2>2. /\ taken' = [taken EXCEPT ![Slot[f]] = is_collision(f) \/ @]
        /\ dropped' = [dropped EXCEPT ![Slot[f]] = ~is_collision(f) /\ @]
    BY DEF second_pass, k
  <2> QED BY <2>1, <2>2, ZenonT(60)
<1>11. out' \in Outs
  <2>1. k.best \in 0..2 BY <1>1 DEF Packets
  <2>2. r_decision[Slot[f]] \in 0..2 /\ seen'[Slot[f]] \in Nat BY <1>2, <1>6 DEF TypeOK
  <2>3. dropped'[Slot[f]] \in BOOLEAN /\ writer'[Slot[f]] \in Keys \cup {None} BY <1>2, <1>9, <1>10
  <2>4. Key[f] \in Keys \cup {None} BY <1>1 DEF Keys
  <2>5. PICK d \in 0..2, how \in {"update", "take"} :
          out' = [how |-> how, key |-> Key[f], decision |-> d, best |-> k.best, cnt |-> count(f),
                  seen |-> seen'[Slot[f]], dropped |-> dropped'[Slot[f]], writer |-> writer'[Slot[f]]]
    BY <1>3, <1>7, <2>2 DEF Leaves
  <2> QED BY <1>2, <2>1, <2>2, <2>3, <2>4, <2>5 DEF Outs
<1> QED BY <1>1, <1>3, <1>4, <1>5, <1>6, <1>8, <1>9, <1>10, <1>11 DEF TypeOK

LEMMA NextType == TypeOK /\ [Next]_vars => TypeOK'
<1> SUFFICES ASSUME TypeOK, [Next]_vars PROVE TypeOK' OBVIOUS
<1>1. CASE second_pass BY <1>1, SecondPassType
<1>2. CASE \E f \in Flows, p \in OneHots : first_pass(f, p) BY <1>2, FirstPassType
<1>3. CASE UNCHANGED vars BY <1>3 DEF vars, registers, ghosts, TypeOK
<1> QED BY <1>1, <1>2, <1>3 DEF Next

\* Every register, field and queue of the pipeline keeps its type: the accumulators
\* stay within their width, the recirculation queue within its bound.
THEOREM TypeCorrect == Spec => []TypeOK
BY InitType, NextType, PTL DEF Spec

-----------------------------------------------------------------------------
(* Counting the members of a set M in a queue q.                           *)

LEMMA WaitingType ==
  ASSUME NEW S, NEW q \in Seq(S), NEW M
  PROVE  /\ IsFiniteSet(Places(q, M))
         /\ Waiting(q, M) \in Nat /\ Waiting(q, M) <= Len(q)
<1>1. Len(q) \in Nat BY DEF Waiting
<1>2. IsFiniteSet(1..Len(q)) /\ Cardinality(1..Len(q)) = Len(q)
  <2>1. 1 \in Int /\ Len(q) \in Int BY <1>1
  <2> QED BY SMTT(60), <2>1, <1>1, FS_Interval
<1>3. Places(q, M) \in SUBSET (1..Len(q)) BY DEF Places
<1>4. /\ IsFiniteSet(Places(q, M))
      /\ Cardinality(Places(q, M)) <= Cardinality(1..Len(q))
  BY <1>2, <1>3, FS_Subset
<1> QED BY <1>2, <1>4, FS_CardinalityType DEF Waiting

LEMMA WaitingAppend ==
  ASSUME NEW S, NEW q \in Seq(S), NEW e \in S, NEW M
  PROVE  /\ e \in M => Waiting(Append(q, e), M) = Waiting(q, M) + 1
         /\ e \notin M => Waiting(Append(q, e), M) = Waiting(q, M)
<1> DEFINE A == Places(q, M)
           B == Places(Append(q, e), M)
           n == Len(q) + 1
<1>1. Len(q) \in Nat /\ Len(Append(q, e)) = n OBVIOUS
<1>2. Append(q, e)[n] = e /\ \A i \in 1..Len(q) : Append(q, e)[i] = q[i] OBVIOUS
<1>3. IsFiniteSet(A) /\ n \notin A
  <2>1. IsFiniteSet(A) BY WaitingType
  <2>2. n \notin A BY <1>1 DEF Places
  <2> QED BY <2>1, <2>2
<1>4. CASE e \in M
  <2>1. B = A \cup {n} BY <1>1, <1>2, <1>4 DEF Places
  <2> HIDE DEF A, B, n
  <2>2. Cardinality(A \cup {n}) = Cardinality(A) + 1 BY <1>3, FS_AddElement
  <2>3. Cardinality(B) = Cardinality(A) + 1 BY <2>1, <2>2
  <2> QED BY <2>3, <1>4 DEF A, B, Waiting
<1>5. CASE e \notin M
  <2>1. B = A BY <1>1, <1>2, <1>5 DEF Places
  <2> QED BY <2>1, <1>5, Zenon DEF Waiting
<1> QED BY <1>4, <1>5

LEMMA WaitingTail ==
  ASSUME NEW S, NEW q \in Seq(S), q # <<>>, NEW M, Head(q) \notin M
  PROVE  Waiting(q, M) <= Waiting(Tail(q), M)
<1> DEFINE A == Places(q, M)
           B == Places(Tail(q), M)
           g == [i \in A |-> i - 1]
<1>1. /\ Tail(q) \in Seq(S) /\ Len(q) \in Nat /\ Len(Tail(q)) = Len(q) - 1
      /\ \A i \in 1..(Len(q) - 1) : Tail(q)[i] = q[i + 1]
      /\ Head(q) = q[1]
  OBVIOUS
<1>2. ASSUME NEW i \in A PROVE i - 1 \in B
  <2>1. i \in 1..Len(q) /\ q[i] \in M /\ i # 1 BY <1>1 DEF Places
  <2>2. i - 1 \in 1..(Len(q) - 1) BY <2>1, <1>1
  <2>3. Tail(q)[i - 1] = q[i] BY <2>1, <2>2, <1>1
  <2> QED BY <2>1, <2>2, <2>3, <1>1 DEF Places
<1>3. \A i, j \in A : g[i] = g[j] => i = j BY <1>1 DEF Places
<1>4. g \in [A -> B] BY <1>2
<1> HIDE DEF A, B, g
<1>5. g \in Injection(A, B) BY <1>3, <1>4 DEF Injection, IsInjective
<1>6. IsFiniteSet(B)
  <2>1. Tail(q) \in Seq(S) BY <1>1
  <2> QED BY <2>1, WaitingType DEF B
<1>7. Cardinality(A) <= Cardinality(B) BY <1>5, <1>6, FS_Injection
<1> QED BY <1>7 DEF A, B, Waiting

-----------------------------------------------------------------------------
(* Two passes for every packet at the most, dropped or not.                *)

LEMMA FirstPassTwo ==
  ASSUME TypeOK, TwoPasses, NEW f \in Flows, NEW p \in OneHots, first_pass(f, p)
  PROVE  TwoPasses' /\ count(f) < 2 * MaxPkts
<1> DEFINE k == [flow |-> f, best |-> IF overflow(f) > 1 THEN decide(Metadata(f, p)) ELSE 0]
<1>1. sent < MaxPkts /\ sent' = sent + 1 /\ do_flow_cnt(f) BY DEF first_pass
<1>2. k \in Packets
  <2>1. decide(Metadata(f, p)) \in 0..2 BY DecideType
  <2> QED BY <2>1 DEF Packets
<1>3. recirc' = Append(recirc, k) \/ recirc' = recirc BY DEF first_pass
<1> HIDE DEF k
<1>4. /\ recirc \in Seq(Packets) /\ Len(recirc) \in Nat /\ sent \in Nat /\ MaxPkts \in Nat
      /\ Len(recirc') \in Len(recirc)..(Len(recirc) + 1)
  BY <1>2, <1>3 DEF TypeOK
<1>5. Slot[f] \in Slots /\ count(f) \in Nat /\ r_flow_cnt \in [Slots -> Nat]
  BY CountType DEF TypeOK
<1>6. /\ r_flow_cnt'[Slot[f]] = count(f)
      /\ \A s \in Slots : s # Slot[f] => r_flow_cnt'[s] = r_flow_cnt[s]
  BY <1>1, <1>5 DEF do_flow_cnt
<1>7. count(f) = 1 \/ count(f) = r_flow_cnt[Slot[f]] + 1 BY DEF count
<1>8. Len(recirc) <= sent /\ \A s \in Slots : r_flow_cnt[s] + Len(recirc) <= 2 * sent BY DEF TwoPasses
<1>9. ASSUME NEW s \in Slots PROVE r_flow_cnt'[s] + Len(recirc') <= 2 * sent'
  <2>1. r_flow_cnt[s] \in Nat /\ r_flow_cnt[s] + Len(recirc) <= 2 * sent BY <1>5, <1>8
  <2>2. r_flow_cnt'[s] = 1 \/ r_flow_cnt'[s] = r_flow_cnt[s] + 1 \/ r_flow_cnt'[s] = r_flow_cnt[s]
    BY <1>6, <1>7
  <2> HIDE DEF TypeOK
  <2> QED BY SMTT(60), <2>1, <2>2, <1>1, <1>4, <1>8
<1>10. count(f) < 2 * MaxPkts
  <2>1. r_flow_cnt[Slot[f]] \in Nat /\ r_flow_cnt[Slot[f]] + Len(recirc) <= 2 * sent BY <1>5, <1>8
  <2> HIDE DEF TypeOK
  <2> QED BY <2>1, <1>1, <1>4, <1>7
<1> QED BY <1>1, <1>4, <1>8, <1>9, <1>10 DEF TwoPasses

LEMMA SecondPassTwo == ASSUME TypeOK, TwoPasses, second_pass PROVE TwoPasses'
<1> DEFINE k == Head(recirc)
           f == k.flow
<1>1. /\ recirc \in Seq(Packets) /\ recirc # <<>> /\ recirc' = Tail(recirc)
      /\ do_flow_cnt(f) /\ sent' = sent
  BY DEF second_pass, TypeOK
<1>2. k \in Packets /\ Len(recirc) \in Nat \ {0} /\ Len(recirc') = Len(recirc) - 1 BY <1>1
<1>3. f \in Flows BY <1>2 DEF Packets
<1>4. Slot[f] \in Slots /\ count(f) \in Nat \ {0} /\ r_flow_cnt \in [Slots -> Nat] /\ sent \in Nat
  BY <1>3, CountType DEF TypeOK
<1>5. /\ r_flow_cnt'[Slot[f]] = count(f)
      /\ \A s \in Slots : s # Slot[f] => r_flow_cnt'[s] = r_flow_cnt[s]
  BY <1>1, <1>4 DEF do_flow_cnt
<1> HIDE DEF k, f
<1>6. count(f) = 1 \/ count(f) = r_flow_cnt[Slot[f]] + 1 BY DEF count
<1>7. Len(recirc) <= sent /\ \A s \in Slots : r_flow_cnt[s] + Len(recirc) <= 2 * sent BY DEF TwoPasses
<1>8. ASSUME NEW s \in Slots PROVE r_flow_cnt'[s] + Len(recirc') <= 2 * sent'
  <2>1. r_flow_cnt[s] \in Nat /\ r_flow_cnt[s] + Len(recirc) <= 2 * sent BY <1>4, <1>7
  <2>2. r_flow_cnt'[s] = 1 \/ r_flow_cnt'[s] = r_flow_cnt[s] + 1 \/ r_flow_cnt'[s] = r_flow_cnt[s]
    BY <1>5, <1>6
  <2> QED BY <2>1, <2>2, <1>1, <1>2, <1>4, <1>7
<1> QED BY <1>1, <1>2, <1>4, <1>7, <1>8 DEF TwoPasses

\* No packet is counted more than twice, so the count of a slot stays below twice the packets.
LEMMA TwoPassesHold == Spec => []TwoPasses
<1>1. Init => TwoPasses BY DEF Init, TwoPasses
<1>2. TypeOK /\ TwoPasses /\ [Next]_vars => TwoPasses'
  <2> SUFFICES ASSUME TypeOK, TwoPasses, [Next]_vars PROVE TwoPasses' OBVIOUS
  <2>1. CASE second_pass BY <2>1, SecondPassTwo
  <2>2. CASE \E f \in Flows, p \in OneHots : first_pass(f, p) BY <2>2, FirstPassTwo
  <2>3. CASE UNCHANGED vars BY <2>3 DEF vars, registers, TwoPasses
  <2> QED BY <2>1, <2>2, <2>3 DEF Next
<1> QED BY <1>1, <1>2, TypeCorrect, PTL DEF Spec

-----------------------------------------------------------------------------
(* Decisions.                                                              *)

\* What the pipeline is configured with: an entry for a_hit_thold that starts with the
\* first count, a threshold above the packets in recirculation, and fewer packets than
\* the 20 bits of rstate.flow_cnt can count.
Configured ==
  /\ HitLo = 1 /\ InFlight < HitHi
  /\ 2 * MaxPkts < CntMod

LEMMA Hit ==
  ASSUME Configured, TypeOK, NEW f \in Flows, count(f) < CntMod
  PROVE  overflow(f) > 1 <=> count(f) <= HitHi
<1>1. count(f) \in Nat \ {0} BY CountType
<1>2. count(f) % CntMod = count(f) BY <1>1
<1> QED BY <1>1, <1>2 DEF overflow, Configured

LEMMA InitOwn == Init => OwnInv
<1> SUFFICES ASSUME Init PROVE OwnInv OBVIOUS
<1>1. Undecided
  <2>1. <<>> \in Seq(Packets) OBVIOUS
  <2>2. \A s \in Slots : Waiting(recirc, OfOwner(s)) \in Nat
    BY <2>1, WaitingType DEF Init
  <2> QED BY <2>2 DEF Init, Undecided
<1>2. TwoPasses BY DEF Init, TwoPasses
<1>3. out.how = "none" BY DEF Init, NoOut
<1>4. OwnDecision BY <1>3 DEF OwnDecision
<1> QED BY <1>1, <1>2, <1>4 DEF OwnInv

LEMMA FirstPassOwn ==
  ASSUME Configured, TypeOK, OwnInv, NEW f \in Flows, NEW p \in OneHots, first_pass(f, p)
  PROVE  OwnInv'
<1> DEFINE k == [flow |-> f, best |-> IF overflow(f) > 1 THEN decide(Metadata(f, p)) ELSE 0]
<1>1. /\ sent < MaxPkts /\ sent' = sent + 1
      /\ do_flow_cnt(f) /\ writer' = writer
      /\ \/ /\ recirc' = Append(recirc, k) /\ out' = out
            /\ dropped' = [dropped EXCEPT ![Slot[f]] = ~is_collision(f) /\ @]
         \/ /\ recirc' = recirc /\ out'.how = "drop"
            /\ dropped' = [dropped EXCEPT ![Slot[f]] = TRUE]
  BY DEF first_pass
<1>2. k \in Packets
  <2>1. decide(Metadata(f, p)) \in 0..2 BY DecideType
  <2> QED BY <2>1 DEF Packets
<1>3. k.flow = f OBVIOUS
<1> HIDE DEF k
<1>4. recirc \in Seq(Packets) /\ Len(recirc) \in Nat BY DEF TypeOK
<1>5. /\ Slot[f] \in Slots /\ Key[f] \in Nat /\ count(f) \in Nat
      /\ r_flow_hash_key \in [Slots -> Nat] /\ r_flow_cnt \in [Slots -> Nat]
  BY CountType DEF TypeOK
<1>6. /\ r_flow_hash_key'[Slot[f]] = Key[f] /\ r_flow_cnt'[Slot[f]] = count(f)
      /\ \A s \in Slots : s # Slot[f] => /\ r_flow_hash_key'[s] = r_flow_hash_key[s]
                                         /\ r_flow_cnt'[s] = r_flow_cnt[s]
  BY <1>1, <1>5 DEF do_flow_cnt
<1>7. TwoPasses' BY FirstPassTwo DEF OwnInv
<1>8. OwnDecision' BY <1>1 DEF OwnInv, OwnDecision
<1>9. \A s \in Slots : dropped'[s] = IF s # Slot[f] THEN dropped[s] ELSE IF recirc' = recirc
                                        THEN TRUE ELSE ~is_collision(f) /\ dropped[s]
  <2>1. dropped \in [Slots -> BOOLEAN] BY DEF TypeOK
  <2>2. Append(recirc, k) # recirc BY <1>2, <1>4
  <2> QED BY <1>1, <1>5, <2>1, <2>2, ZenonT(60)
<1>10. Undecided'
  <2> SUFFICES ASSUME NEW s \in Slots, writer'[s] # r_flow_hash_key'[s], ~dropped'[s]
               PROVE  r_flow_cnt'[s] <= Waiting(recirc', OfOwner(s)')
    BY DEF Undecided
  <2>1. Waiting(recirc, OfOwner(s)) \in Nat /\ Waiting(recirc, OfOwner(s)') \in Nat
    BY <1>4, WaitingType
  <2>2. CASE s = Slot[f]
    <3>0. recirc' = Append(recirc, k) /\ (is_collision(f) \/ ~dropped[s]) BY <1>1, <1>9, <2>2, Zenon
    <3>1. k \in OfOwner(s)' BY <2>2, <1>2, <1>3, <1>6 DEF OfOwner
    <3>2. Waiting(recirc', OfOwner(s)') = Waiting(recirc, OfOwner(s)') + 1
      BY <3>0, <3>1, <1>2, <1>4, WaitingAppend
    <3>3. CASE is_collision(f)
      BY <3>2, <3>3, <2>1, <2>2, <1>6 DEF count
    <3>4. CASE ~is_collision(f)
      <4>1. r_flow_hash_key'[s] = r_flow_hash_key[s] BY <3>4, <2>2, <1>6 DEF is_collision
      <4>2. OfOwner(s)' = OfOwner(s) BY <4>1 DEF OfOwner
      <4>3. r_flow_cnt[s] <= Waiting(recirc, OfOwner(s))
        BY <3>0, <3>4, <4>1, <1>1 DEF OwnInv, Undecided
      <4>4. r_flow_cnt'[s] = r_flow_cnt[s] + 1 BY <3>4, <2>2, <1>6 DEF count
      <4> QED BY <4>2, <4>3, <4>4, <3>2, <2>1, <1>5
    <3> QED BY <3>3, <3>4
  <2>3. CASE s # Slot[f]
    <3>1. /\ r_flow_hash_key'[s] = r_flow_hash_key[s] /\ r_flow_cnt'[s] = r_flow_cnt[s]
          /\ ~dropped[s]
      BY <2>3, <1>6, <1>9
    <3>2. OfOwner(s)' = OfOwner(s) BY <3>1 DEF OfOwner
    <3>3. r_flow_cnt[s] <= Waiting(recirc, OfOwner(s)) BY <3>1, <1>1 DEF OwnInv, Undecided
    <3>4. k \notin OfOwner(s) BY <2>3, <1>3 DEF OfOwner
    <3>5. Waiting(recirc', OfOwner(s)) = Waiting(recirc, OfOwner(s))
      <4>1. CASE recirc' = recirc BY <4>1
      <4>2. CASE recirc' = Append(recirc, k) BY <4>2, <3>4, <1>2, <1>4, WaitingAppend
      <4> QED BY <4>1, <4>2, <1>1
    <3> QED BY <3>1, <3>2, <3>3, <3>5
  <2> QED BY <2>2, <2>3
<1> QED BY <1>7, <1>8, <1>10 DEF OwnInv

LEMMA SecondPassOwn ==
  ASSUME Configured, TypeOK, OwnInv, second_pass
  PROVE  OwnInv'
<1> DEFINE k == Head(recirc)
           f == k.flow
<1>1. /\ recirc \in Seq(Packets) /\ recirc # <<>> /\ recirc' = Tail(recirc)
      /\ do_flow_cnt(f) /\ sent' = sent
      /\ IF overflow(f) > 1
         THEN /\ writer' = [writer EXCEPT ![Slot[f]] = Key[f]]
              /\ Leaves(k, f, "update", decide(Zeros))
         ELSE /\ writer' = writer
              /\ Leaves(k, f, "take", r_decision[Slot[f]])
  BY DEF second_pass, TypeOK
<1>2. /\ k \in Packets /\ Len(recirc) \in Nat \ {0}
      /\ Len(recirc') = Len(recirc) - 1
  BY <1>1
<1>3. f \in Flows BY <1>2 DEF Packets
<1>4. /\ Slot[f] \in Slots /\ Key[f] \in Nat /\ count(f) \in Nat \ {0}
      /\ r_flow_hash_key \in [Slots -> Nat] /\ r_flow_cnt \in [Slots -> Nat]
      /\ sent \in Nat /\ sent <= MaxPkts /\ Len(recirc) <= InFlight
      /\ writer \in [Slots -> Keys \cup {None}]
  BY SMTT(60), <1>3, CountType DEF TypeOK
<1>5. /\ r_flow_hash_key'[Slot[f]] = Key[f] /\ r_flow_cnt'[Slot[f]] = count(f)
      /\ \A s \in Slots : s # Slot[f] => /\ r_flow_hash_key'[s] = r_flow_hash_key[s]
                                         /\ r_flow_cnt'[s] = r_flow_cnt[s]
                                         /\ writer'[s] = writer[s]
  BY <1>1, <1>4 DEF do_flow_cnt
<1> HIDE DEF k, f
<1>6. \A s \in Slots : r_flow_cnt[s] \in Nat /\ r_flow_cnt[s] + Len(recirc) <= 2 * sent
  BY <1>4 DEF OwnInv, TwoPasses
<1>8. count(f) = 1 \/ (~is_collision(f) /\ count(f) = r_flow_cnt[Slot[f]] + 1)
  <2>1. CASE is_collision(f)
    <3>1. count(f) = 1 BY <2>1 DEF count, is_collision
    <3> QED BY <3>1
  <2>2. CASE ~is_collision(f) BY <2>2 DEF count
  <2> QED BY <2>1, <2>2
<1>9. TwoPasses' BY SecondPassTwo DEF OwnInv
<1>10. count(f) + Len(recirc') <= 2 * sent BY <1>1, <1>4, <1>5, <1>9 DEF TwoPasses
<1>11. count(f) < CntMod
  <2>1. Len(recirc') \in Nat BY <1>2
  <2>2. count(f) <= 2 * sent BY <2>1, <1>4, <1>10
  <2> QED BY <2>2, <1>4 DEF Configured
<1>12. overflow(f) > 1 <=> count(f) <= HitHi BY <1>3, <1>11, Hit
<1>13. \A s \in Slots : dropped'[s] = IF s = Slot[f] THEN ~is_collision(f) /\ dropped[s] ELSE dropped[s]
  <2>1. dropped \in [Slots -> BOOLEAN] BY DEF TypeOK
  <2>2. dropped' = [dropped EXCEPT ![Slot[f]] = ~is_collision(f) /\ @] BY DEF second_pass, f, k
  <2> QED BY <2>1, <2>2, <1>4, ZenonT(60)
\* Past the threshold the decision is that of the flow: else the passes counted would
\* all be packets in recirculation, and there are fewer of those.
<1>14. ~dropped'[Slot[f]] => writer'[Slot[f]] = Key[f]
  <2> SUFFICES ASSUME ~dropped'[Slot[f]] PROVE writer'[Slot[f]] = Key[f] OBVIOUS
  <2>1. CASE overflow(f) > 1 BY <2>1, <1>1, <1>4
  <2>2. CASE ~(overflow(f) > 1)
    <3>1. ~is_collision(f) /\ r_flow_cnt[Slot[f]] >= HitHi
      <4>1. count(f) > HitHi BY <2>2, <1>4, <1>12
      <4>2. r_flow_cnt[Slot[f]] \in Nat BY <1>4
      <4> QED BY <4>1, <4>2, <1>8
    <3>2. r_flow_hash_key[Slot[f]] = Key[f] BY <3>1 DEF is_collision
    <3>3. Waiting(recirc, OfOwner(Slot[f])) \in Nat
          /\ Waiting(recirc, OfOwner(Slot[f])) <= Len(recirc)
      BY <1>1, WaitingType
    <3>4. ~(r_flow_cnt[Slot[f]] <= Waiting(recirc, OfOwner(Slot[f])))
      BY <3>1, <3>3, <1>4 DEF Configured
    <3>5. ~dropped[Slot[f]] BY <3>1, <1>4, <1>13
    <3>6. writer[Slot[f]] = r_flow_hash_key[Slot[f]] BY <3>4, <3>5, <1>4 DEF OwnInv, Undecided
    <3> QED BY <3>2, <3>6, <2>2, <1>1
  <2> QED BY <2>1, <2>2
<1>15. OwnDecision'
  <2>1. out'.writer = writer'[Slot[f]] /\ out'.key = Key[f] /\ out'.dropped = dropped'[Slot[f]]
    BY <1>1 DEF Leaves
  <2> QED BY <2>1, <1>14 DEF OwnDecision
<1>16. Undecided'
  <2> SUFFICES ASSUME NEW s \in Slots, writer'[s] # r_flow_hash_key'[s], ~dropped'[s]
               PROVE  r_flow_cnt'[s] <= Waiting(recirc', OfOwner(s)')
    BY DEF Undecided
  <2>1. s # Slot[f] BY <1>5, <1>14
  <2>2. /\ r_flow_hash_key'[s] = r_flow_hash_key[s] /\ r_flow_cnt'[s] = r_flow_cnt[s]
        /\ writer'[s] = writer[s] /\ ~dropped[s]
    BY <2>1, <1>5, <1>13
  <2>3. OfOwner(s)' = OfOwner(s) BY <2>2 DEF OfOwner
  <2>4. r_flow_cnt[s] <= Waiting(recirc, OfOwner(s)) BY <2>2 DEF OwnInv, Undecided
  <2>5. k \notin OfOwner(s) BY <2>1 DEF OfOwner, f
  <2>6. Waiting(recirc, OfOwner(s)) <= Waiting(recirc', OfOwner(s))
    BY <2>5, <1>1, WaitingTail DEF k
  <2>7. /\ Waiting(recirc, OfOwner(s)) \in Nat
        /\ Waiting(recirc', OfOwner(s)) \in Nat
    <3>1. recirc' \in Seq(Packets) BY <1>1
    <3> QED BY <3>1, <1>1, WaitingType
  <2>8. r_flow_cnt[s] \in Nat BY <1>6
  <2> QED BY <2>2, <2>3, <2>4, <2>6, <2>7, <2>8
<1> QED BY <1>9, <1>15, <1>16 DEF OwnInv

LEMMA NextOwn == Configured /\ TypeOK /\ OwnInv /\ [Next]_vars => OwnInv'
<1> SUFFICES ASSUME Configured, TypeOK, OwnInv, [Next]_vars PROVE OwnInv' OBVIOUS
<1>1. CASE second_pass BY <1>1, SecondPassOwn
<1>2. CASE \E f \in Flows, p \in OneHots : first_pass(f, p) BY <1>2, FirstPassOwn
<1>3. CASE UNCHANGED vars
  <2>1. \A s \in Slots : OfOwner(s)' = OfOwner(s)
    BY <1>3 DEF vars, registers, OfOwner
  <2> QED BY <2>1, <1>3 DEF vars, registers, ghosts, OwnInv, Undecided, TwoPasses, OwnDecision
<1> QED BY <1>1, <1>2, <1>3 DEF Next

\* In the configuration above no packet ever follows a decision stored for another
\* flow, however many flows share the slots and however their packets interleave.
THEOREM DecisionsAreOwn == Configured /\ Spec => []OwnDecision
<1>1. OwnInv => OwnDecision BY DEF OwnInv
<1>2. Configured => Configured' BY DEF Configured
<1> QED BY <1>1, <1>2, InitType, NextType, InitOwn, NextOwn, PTL DEF Spec

-----------------------------------------------------------------------------
(* Arithmetic of the accumulators.                                         *)

\* Division with remainder.
LEMMA Quotient ==
  ASSUME NEW a \in Int, NEW b \in Int, b > 0, NEW q, q = a \div b, NEW r, r = a % b
  PROVE  q \in Int /\ r \in 0..(b - 1) /\ a = b * q + r
<1>1. a = b * q + r OBVIOUS
<1>2. q \in Int OBVIOUS
<1>3. r \in 0..(b - 1) OBVIOUS
<1> QED BY <1>1, <1>2, <1>3

\* A remainder is a remainder: the quotient can be left out.
LEMMA Remainder ==
  ASSUME NEW b \in Nat \ {0}, NEW q \in Int, NEW r \in 0..(b-1)
  PROVE  (b * q + r) % b = r
OBVIOUS

\* A sum can be reduced before or after it is added to.
LEMMA ModAdd ==
  ASSUME NEW a \in Int, NEW m \in Int, NEW b \in Nat \ {0}
  PROVE  ((a % b) + m) % b = (a + m) % b
<1>0. b \in Int /\ b > 0 OBVIOUS
<1>1. PICK q, r : q = a \div b /\ r = a % b OBVIOUS
<1>2. q \in Int /\ r \in 0..(b - 1) /\ a = b * q + r BY <1>0, <1>1, Quotient
<1>3. r + m \in Int BY <1>0, <1>2
<1>4. PICK q2, r2 : q2 = (r + m) \div b /\ r2 = (r + m) % b OBVIOUS
<1>5. q2 \in Int /\ r2 \in 0..(b - 1) /\ r + m = b * q2 + r2 BY <1>0, <1>3, <1>4, Quotient
<1>6. a + m = b * (q + q2) + r2
  <2>1. b * (q + q2) = b * q + b * q2 BY <1>0, <1>2, <1>5
  <2>2. b * q \in Int /\ b * q2 \in Int BY <1>0, <1>2, <1>5
  <2> QED BY <2>1, <2>2, <1>0, <1>2, <1>5
<1>7. q + q2 \in Int BY <1>2, <1>5
<1>8. (b * (q + q2) + r2) % b = r2 BY <1>5, <1>7, Remainder
<1> QED BY <1>1, <1>4, <1>6, <1>8
-----------------------------------------------------------------------------
(* The accumulators.                                                       *)

\* An accumulator has moved by one for every count within the threshold at the most.
Within(n, b) == -b <= n /\ n <= b
Bounded ==
  \A s \in Slots, u \in Units :
    ~taken[s] => Within(sum[s][u], r_flow_cnt[s]) /\ Within(sum[s][u], HitHi)

LEMMA InitPerFlow == Init => PerFlowState
<1> SUFFICES ASSUME Init, NEW s \in Slots, NEW u \in Units PROVE r_state[s][u] = sum[s][u] % Byte
  BY DEF PerFlowState
<1>1. r_state[s][u] = 0 /\ sum[s][u] = 0 BY DEF Init, Zeros
<1>2. Byte \in Nat \ {0} OBVIOUS
<1>3. 0 % Byte = 0 BY <1>2
<1> QED BY <1>1, <1>3

\* What a pass of flow f does to the count and the key of its slot.
LEMMA PassCounts ==
  ASSUME TypeOK, NEW f \in Flows, do_flow_cnt(f)
  PROVE  /\ r_flow_hash_key'[Slot[f]] = Key[f] /\ r_flow_cnt'[Slot[f]] = count(f)
         /\ \A s \in Slots : s # Slot[f] => /\ r_flow_hash_key'[s] = r_flow_hash_key[s]
                                            /\ r_flow_cnt'[s] = r_flow_cnt[s]
         /\ count(f) = IF is_collision(f) THEN 1 ELSE r_flow_cnt[Slot[f]] + 1
<1>1. Slot[f] \in Slots BY CountType
<1>2. r_flow_hash_key \in [Slots -> Nat] /\ r_flow_cnt \in [Slots -> Nat] BY DEF TypeOK
<1>3. count(f) = IF is_collision(f) THEN 1 ELSE r_flow_cnt[Slot[f]] + 1 BY DEF count
<1> QED BY <1>1, <1>2, <1>3 DEF do_flow_cnt

\* What Bump does to the sums.
LEMMA BumpSum ==
  ASSUME TypeOK, NEW f \in Flows, NEW moves \in [Units -> Int], NEW s \in Slots, NEW u \in Units
  PROVE  Bump(f, moves)[s][u] = IF s = Slot[f] THEN (IF is_collision(f) THEN 0 ELSE sum[s][u]) + moves[u]
                                               ELSE sum[s][u]
<1>1. sum \in [Slots -> [Units -> Int]] BY DEF TypeOK
<1>2. Bump(f, moves) = [sum EXCEPT ![Slot[f]] =
                          [v \in Units |-> (IF is_collision(f) THEN 0 ELSE @[v]) + moves[v]]]
  BY DEF Bump
<1> QED BY <1>1, <1>2

\* The first count of a flow is within the threshold.
LEMMA FirstHits ==
  ASSUME HitLo = 1, TypeOK, NEW f \in Flows, is_collision(f)
  PROVE  overflow(f) > 1
<1>1. count(f) = 1 BY DEF count
<1>2. 1 % CntMod = 1
  <2>1. CntMod \in Nat /\ CntMod > 1 OBVIOUS
  <2> QED BY <2>1
<1> QED BY <1>1, <1>2 DEF overflow

\* A slot is no longer a second pass's once a flow takes it over in a first pass.
LEMMA FirstTaken ==
  ASSUME TypeOK, NEW f \in Flows, NEW p \in OneHots, first_pass(f, p), NEW s \in Slots, ~taken'[s]
  PROVE  IF s = Slot[f] THEN is_collision(f) \/ ~taken[s] ELSE ~taken[s]
<1>1. taken \in [Slots -> BOOLEAN] /\ Slot[f] \in Slots BY CountType DEF TypeOK
<1>2. taken' = [taken EXCEPT ![Slot[f]] = ~is_collision(f) /\ @] BY DEF first_pass
<1> QED BY <1>1, <1>2

LEMMA FirstPassPerFlow ==
  ASSUME HitLo = 1, TypeOK, PerFlowState, NEW f \in Flows, NEW p \in OneHots, first_pass(f, p)
  PROVE  PerFlowState'
<1> SUFFICES ASSUME NEW s \in Slots, NEW u \in Units, ~taken'[s]
             PROVE  r_state'[s][u] = sum'[s][u] % Byte
  BY DEF PerFlowState
<1>0. IF s = Slot[f] THEN is_collision(f) \/ ~taken[s] ELSE ~taken[s] BY FirstTaken
<1>1. r_state \in [Slots -> [Units -> 0..(Byte - 1)]] /\ sum[s][u] \in Int BY DEF TypeOK
<1>2. (s = Slot[f] /\ is_collision(f)) \/ r_state[s][u] = sum[s][u] % Byte BY <1>0 DEF PerFlowState
<1>3. CASE overflow(f) > 1
  <2>1. /\ r_state' = [r_state EXCEPT ![Slot[f]] = do_tanh_and_update_state(f, p)]
        /\ sum' = Bump(f, Moves(p))
    BY <1>3 DEF first_pass
  <2>2. Moves(p) \in [Units -> Int] /\ Moves(p)[u] \in Int BY MovesType
  <2>3. sum'[s][u] = IF s = Slot[f] THEN (IF is_collision(f) THEN 0 ELSE sum[s][u]) + Moves(p)[u]
                                    ELSE sum[s][u]
    BY <2>1, <2>2, BumpSum
  <2>4. CASE s = Slot[f]
    <3>1. r_state'[s][u] = IF is_collision(f) THEN Moves(p)[u] % Byte
                                              ELSE (r_state[s][u] + Moves(p)[u]) % Byte
      BY <2>1, <2>4, <1>1 DEF do_tanh_and_update_state
    <3>2. ((sum[s][u] % Byte) + Moves(p)[u]) % Byte = (sum[s][u] + Moves(p)[u]) % Byte
      <4>1. PICK x : x = sum[s][u] OBVIOUS
      <4>2. PICK y : y = Moves(p)[u] OBVIOUS
      <4>3. x \in Int /\ y \in Int /\ Byte \in Nat \ {0} BY <4>1, <4>2, <1>1, <2>2
      <4> HIDE EnforcerAssumption
      <4>4. ((x % Byte) + y) % Byte = (x + y) % Byte BY <4>3, ModAdd, Zenon
      <4> QED BY <4>1, <4>2, <4>4, Zenon
    <3>3. 0 + Moves(p)[u] = Moves(p)[u] BY <2>2
    <3> QED BY <3>1, <3>2, <3>3, <2>3, <2>4, <1>2
  <2>5. CASE s # Slot[f] BY <2>1, <2>3, <2>5, <1>1, <1>2
  <2> QED BY <2>4, <2>5
<1>4. CASE ~(overflow(f) > 1)
  <2>1. r_state' = r_state /\ sum' = Bump(f, Zeros) /\ ~is_collision(f)
    BY <1>4, FirstHits DEF first_pass
  <2>2. Zeros \in [Units -> Int] /\ Zeros[u] = 0 BY DEF Zeros
  <2>3. sum'[s][u] = IF s = Slot[f] THEN (IF is_collision(f) THEN 0 ELSE sum[s][u]) + Zeros[u]
                                    ELSE sum[s][u]
    BY <2>1, <2>2, BumpSum
  <2>4. sum'[s][u] = sum[s][u] BY <2>1, <2>2, <2>3, <1>1
  <2> QED BY <2>1, <2>4, <1>2
<1> QED BY <1>3, <1>4

\* A second pass that takes its slot over leaves a taken one; others leave the sums alone.
LEMMA SecondPassSums ==
  ASSUME TypeOK, second_pass
  PROVE  LET f == Head(recirc).flow
         IN  /\ f \in Flows /\ do_flow_cnt(f)
             /\ \A s \in Slots : ~taken'[s] =>
                  /\ ~taken[s] /\ r_state'[s] = r_state[s]
                  /\ s = Slot[f] => ~is_collision(f)
                  /\ \A u \in Units : sum'[s][u] = sum[s][u]
<1> DEFINE f == Head(recirc).flow
<1>1. f \in Flows
  <2>1. recirc \in Seq(Packets) /\ recirc # <<>> BY DEF second_pass, TypeOK
  <2>2. Head(recirc) \in Packets BY <2>1
  <2> QED BY <2>2 DEF Packets
<1>2. /\ do_flow_cnt(f) /\ sum' = Bump(f, Zeros) /\ r_state' = r_state
      /\ taken' = [taken EXCEPT ![Slot[f]] = is_collision(f) \/ @]
  BY DEF second_pass
<1> HIDE DEF f
<1>3. ASSUME NEW s \in Slots, ~taken'[s]
      PROVE  ~taken[s] /\ (s = Slot[f] => ~is_collision(f))
  <2>1. taken \in [Slots -> BOOLEAN] /\ Slot[f] \in Slots BY <1>1, CountType DEF TypeOK
  <2> QED BY <2>1, <1>2, <1>3
<1>4. ASSUME NEW s \in Slots, ~taken'[s], NEW u \in Units
      PROVE  sum'[s][u] = sum[s][u]
  <2>1. sum[s][u] \in Int BY DEF TypeOK
  <2>2. Zeros \in [Units -> Int] /\ Zeros[u] = 0 BY DEF Zeros
  <2>3. sum'[s][u] = IF s = Slot[f] THEN (IF is_collision(f) THEN 0 ELSE sum[s][u]) + Zeros[u]
                                    ELSE sum[s][u]
    BY <1>1, <1>2, <2>2, BumpSum
  <2> QED BY <1>3, <1>4, <2>1, <2>2, <2>3
<1> QED BY <1>1, <1>2, <1>3, <1>4 DEF f

LEMMA NextPerFlow == HitLo = 1 /\ TypeOK /\ PerFlowState /\ [Next]_vars => PerFlowState'
<1> SUFFICES ASSUME HitLo = 1, TypeOK, PerFlowState, [Next]_vars PROVE PerFlowState' OBVIOUS
<1>1. CASE second_pass
  <2> SUFFICES ASSUME NEW s \in Slots, NEW u \in Units, ~taken'[s]
               PROVE  r_state'[s][u] = sum'[s][u] % Byte
    BY DEF PerFlowState
  <2>1. ~taken[s] /\ r_state'[s] = r_state[s] /\ sum'[s][u] = sum[s][u] BY <1>1, SecondPassSums
  <2> QED BY <2>1 DEF PerFlowState
<1>2. CASE \E f \in Flows, p \in OneHots : first_pass(f, p) BY <1>2, FirstPassPerFlow
<1>3. CASE UNCHANGED vars BY <1>3 DEF vars, registers, ghosts, PerFlowState
<1> QED BY <1>1, <1>2, <1>3 DEF Next

\* The accumulators of a slot are what the packets of its present flow add up to, nothing
\* of the flow before it, whatever the width, however many flows share the slot and
\* however their packets interleave, if t_check_cnt_thold hits from the first count on.
THEOREM StatesArePerFlow == HitLo = 1 /\ Spec => []PerFlowState
<1> SUFFICES ASSUME HitLo = 1 PROVE Spec => []PerFlowState OBVIOUS
<1>1. TypeOK /\ PerFlowState /\ [Next]_vars => PerFlowState' BY NextPerFlow
<1> QED BY <1>1, TypeCorrect, InitPerFlow, PTL DEF Spec

\* A byte read as a signed one is the number it was made from, if that was small enough.
LEMMA SignedOf ==
  ASSUME NEW x \in Int, Within(x, HitHi), HitHi < Byte \div 2
  PROVE  Signed(x % Byte) = x
<1>1. PICK h, r : h = Byte \div 2 /\ r = Byte % 2 OBVIOUS
<1>2. h \in Int /\ Byte = 2 * h
  <2>1. Byte \in Int /\ r = 0 BY <1>1
  <2> QED BY <1>1, <2>1, Quotient
<1>3. HitHi < h /\ HitHi \in Nat /\ -HitHi <= x /\ x <= HitHi BY <1>1 DEF Within
<1>4. CASE x >= 0
  <2>1. x \in 0..(Byte - 1) /\ Byte * 0 + x = x BY <1>2, <1>3, <1>4
  <2>2. (Byte * 0 + x) % Byte = x BY <2>1, Remainder
  <2>3. x % Byte = x BY <2>1, <2>2
  <2> QED BY <2>3, <1>1, <1>3 DEF Signed
<1>5. CASE x < 0
  <2>1. x + Byte \in 0..(Byte - 1) /\ Byte * (-1) + (x + Byte) = x BY <1>2, <1>3, <1>5
  <2>2. (Byte * (-1) + (x + Byte)) % Byte = x + Byte BY <2>1, Remainder
  <2>3. x % Byte = x + Byte BY <2>1, <2>2
  <2>4. ~(x + Byte < h) /\ x + Byte - Byte = x BY <1>2, <1>3
  <2> QED BY <2>3, <2>4, <1>1 DEF Signed
<1> QED BY <1>4, <1>5

\* t_check_cnt_thold hits from the first count on, the threshold is below what half a byte
\* holds, and fewer packets arrive than the 20 bits of rstate.flow_cnt can count.
Signable == HitLo = 1 /\ HitHi < Byte \div 2 /\ 2 * MaxPkts < CntMod

LEMMA InitBounded == Init => Bounded
<1> SUFFICES ASSUME Init, NEW s \in Slots, NEW u \in Units
             PROVE  Within(sum[s][u], r_flow_cnt[s]) /\ Within(sum[s][u], HitHi)
  BY DEF Bounded
<1>1. sum[s][u] = 0 /\ r_flow_cnt[s] = 0 BY DEF Init, Zeros
<1>2. HitHi \in Nat OBVIOUS
<1> QED BY <1>1, <1>2 DEF Within

\* One more count and a move by one at the most keep a sum within the count.
LEMMA MoveWithin ==
  ASSUME NEW n \in Int, NEW b \in Nat, NEW m \in {1, -1, 0}, Within(n, b)
  PROVE  Within(n + m, b + 1)
BY DEF Within

LEMMA FirstPassBounded ==
  ASSUME Signable, TypeOK, TwoPasses, Bounded, NEW f \in Flows, NEW p \in OneHots, first_pass(f, p)
  PROVE  Bounded'
<1>1. /\ r_flow_cnt'[Slot[f]] = count(f)
      /\ \A s \in Slots : s # Slot[f] => r_flow_cnt'[s] = r_flow_cnt[s]
      /\ count(f) = IF is_collision(f) THEN 1 ELSE r_flow_cnt[Slot[f]] + 1
      /\ Slot[f] \in Slots
  <2>1. do_flow_cnt(f) BY DEF first_pass
  <2> QED BY <2>1, PassCounts, CountType
<1>2. /\ count(f) \in Nat \ {0} /\ count(f) < CntMod
  <2>1. count(f) \in Nat \ {0} /\ count(f) < 2 * MaxPkts BY FirstPassTwo, CountType
  <2> QED BY <2>1 DEF Signable
<1>3. overflow(f) > 1 <=> count(f) <= HitHi
  <2>1. count(f) % CntMod = count(f) BY <1>2
  <2> QED BY <1>2, <2>1 DEF overflow, Signable
<1>4. ASSUME NEW s \in Slots, ~taken'[s], NEW u \in Units
      PROVE  Within(sum'[s][u], r_flow_cnt'[s]) /\ Within(sum'[s][u], HitHi)
  <2>0. IF s = Slot[f] THEN is_collision(f) \/ ~taken[s] ELSE ~taken[s] BY <1>4, FirstTaken
  <2>1. sum[s][u] \in Int /\ r_flow_cnt[s] \in Nat BY DEF TypeOK
  <2>2. ~taken[s] => Within(sum[s][u], r_flow_cnt[s]) /\ Within(sum[s][u], HitHi) BY DEF Bounded
  <2>3. PICK m \in [Units -> {1, -1, 0}] :
          /\ sum' = Bump(f, m)
          /\ ~(overflow(f) > 1) => m = Zeros
    <3>1. Moves(p) \in [Units -> {1, -1, 0}] /\ Zeros \in [Units -> {1, -1, 0}]
      BY MovesType DEF Zeros
    <3>2. CASE overflow(f) > 1 BY <3>1, <3>2 DEF first_pass
    <3>3. CASE ~(overflow(f) > 1) BY <3>1, <3>3 DEF first_pass
    <3> QED BY <3>2, <3>3
  <2>4. m \in [Units -> Int] /\ m[u] \in {1, -1, 0} BY <2>3
  <2>5. sum'[s][u] = IF s = Slot[f] THEN (IF is_collision(f) THEN 0 ELSE sum[s][u]) + m[u]
                                    ELSE sum[s][u]
    BY <2>3, <2>4, BumpSum
  <2>6. CASE s # Slot[f] BY <2>0, <2>2, <2>5, <2>6, <1>1
  <2>7. CASE s = Slot[f] /\ overflow(f) > 1
    <3>1. Within(sum'[s][u], count(f))
      <4>1. CASE is_collision(f)
        <5>1. sum'[s][u] = 0 + m[u] /\ count(f) = 1 BY <4>1, <2>5, <2>7, <1>1
        <5> QED BY <5>1, <2>4 DEF Within
      <4>2. CASE ~is_collision(f)
        <5>1. sum'[s][u] = sum[s][u] + m[u] /\ count(f) = r_flow_cnt[s] + 1 BY <4>2, <2>5, <2>7, <1>1
        <5>2. Within(sum[s][u], r_flow_cnt[s]) BY <4>2, <2>0, <2>2, <2>7
        <5> QED BY <5>1, <5>2, <2>1, <2>4, MoveWithin
      <4> QED BY <4>1, <4>2
    <3>2. count(f) <= HitHi BY <2>7, <1>3
    <3>3. sum'[s][u] \in Int BY <2>1, <2>4, <2>5
    <3> QED BY <3>1, <3>2, <3>3, <2>7, <1>1, <1>2 DEF Within
  <2>8. CASE s = Slot[f] /\ ~(overflow(f) > 1)
    <3>1. ~is_collision(f) BY <2>8, FirstHits DEF Signable
    <3>2. m[u] = 0 BY <2>3, <2>8 DEF Zeros
    <3>3. sum'[s][u] = sum[s][u] BY <3>1, <3>2, <2>1, <2>5, <2>8
    <3>4. r_flow_cnt'[s] = r_flow_cnt[s] + 1 BY <3>1, <2>8, <1>1
    <3> QED BY <3>1, <3>3, <3>4, <2>0, <2>1, <2>2, <2>8 DEF Within
  <2> QED BY <2>6, <2>7, <2>8
<1> QED BY <1>4 DEF Bounded

LEMMA SecondPassBounded == ASSUME TypeOK, Bounded, second_pass PROVE Bounded'
<1>1. PICK f : f = Head(recirc).flow OBVIOUS
<1>2. ASSUME NEW s \in Slots, ~taken'[s], NEW u \in Units
      PROVE  Within(sum'[s][u], r_flow_cnt'[s]) /\ Within(sum'[s][u], HitHi)
  <2>1. sum[s][u] \in Int /\ r_flow_cnt[s] \in Nat BY DEF TypeOK
  <2>2. /\ f \in Flows /\ do_flow_cnt(f) /\ ~taken[s] /\ sum'[s][u] = sum[s][u]
        /\ s = Slot[f] => ~is_collision(f)
    BY <1>1, <1>2, SecondPassSums
  <2>3. Within(sum[s][u], r_flow_cnt[s]) /\ Within(sum[s][u], HitHi) BY <2>2 DEF Bounded
  <2>4. r_flow_cnt'[s] = r_flow_cnt[s] \/ r_flow_cnt'[s] = r_flow_cnt[s] + 1 BY <2>2, PassCounts
  <2> QED BY <2>1, <2>2, <2>3, <2>4 DEF Within
<1> QED BY <1>2 DEF Bounded

LEMMA NextBounded == Signable /\ TypeOK /\ TwoPasses /\ Bounded /\ [Next]_vars => Bounded'
<1> SUFFICES ASSUME Signable, TypeOK, TwoPasses, Bounded, [Next]_vars PROVE Bounded' OBVIOUS
<1>1. CASE second_pass BY <1>1, SecondPassBounded
<1>2. CASE \E f \in Flows, p \in OneHots : first_pass(f, p) BY <1>2, FirstPassBounded
<1>3. CASE UNCHANGED vars BY <1>3 DEF vars, registers, ghosts, Bounded
<1> QED BY <1>1, <1>2, <1>3 DEF Next

\* With the threshold below half of a byte's range the accumulators of a flow never wrap: the
\* comparison with 0x80 sees the sign of the sum the network computed.
THEOREM NoAccumulatorWraps == Signable /\ Spec => []SignedState
<1>1. TypeOK /\ PerFlowState /\ Bounded /\ Signable => SignedState
  <2> SUFFICES ASSUME TypeOK, PerFlowState, Bounded, Signable, NEW s \in Slots, NEW u \in Units,
                      ~taken[s]
               PROVE  Signed(r_state[s][u]) = sum[s][u]
    BY DEF SignedState
  <2>1. sum[s][u] \in Int BY DEF TypeOK
  <2>2. r_state[s][u] = sum[s][u] % Byte BY DEF PerFlowState
  <2>3. Within(sum[s][u], HitHi) BY DEF Bounded
  <2>4. HitHi < Byte \div 2 BY DEF Signable
  <2> QED BY <2>1, <2>2, <2>3, <2>4, SignedOf
<1> SUFFICES ASSUME Signable PROVE Spec => []SignedState OBVIOUS
<1>2. Spec => []PerFlowState BY StatesArePerFlow DEF Signable
<1>3. TypeOK /\ TwoPasses /\ Bounded /\ [Next]_vars => Bounded' BY NextBounded
<1>4. TypeOK /\ PerFlowState /\ Bounded => SignedState BY <1>1
<1> QED BY <1>2, <1>3, <1>4, TypeCorrect, TwoPassesHold, InitBounded, PTL DEF Spec

-----------------------------------------------------------------------------
(* Past the threshold.                                                     *)

\* Past the threshold the accumulators and the decision of a flow stay as they are until
\* another flow takes the slot over, while the 20 bits of rstate.flow_cnt do not wrap.
THEOREM StaysFrozen == 2 * MaxPkts < CntMod /\ Spec => Frozen
<1> DEFINE Step == \A s \in Slots :
                     r_flow_cnt[s] >= HitHi /\ r_flow_hash_key'[s] = r_flow_hash_key[s] =>
                       r_state'[s] = r_state[s] /\ r_decision'[s] = r_decision[s]
<1> SUFFICES ASSUME 2 * MaxPkts < CntMod PROVE Spec => Frozen OBVIOUS
<1>1. ASSUME TypeOK, NEW f \in Flows, do_flow_cnt(f), count(f) < CntMod, overflow(f) > 1,
             r_flow_cnt[Slot[f]] >= HitHi, r_flow_hash_key'[Slot[f]] = r_flow_hash_key[Slot[f]]
      PROVE  FALSE
  <2>1. /\ count(f) \in Nat \ {0} /\ r_flow_cnt[Slot[f]] \in Nat
        /\ r_flow_hash_key'[Slot[f]] = Key[f]
    BY <1>1, PassCounts, CountType DEF TypeOK
  <2>2. count(f) = r_flow_cnt[Slot[f]] + 1 BY <1>1, <2>1 DEF count, is_collision
  <2>3. count(f) % CntMod = count(f) BY <1>1, <2>1
  <2>4. ~(count(f) <= HitHi) BY <1>1, <2>1, <2>2
  <2> QED BY <1>1, <2>3, <2>4 DEF overflow
<1>2. ASSUME TypeOK, TwoPasses, NEW f \in Flows, NEW p \in OneHots, first_pass(f, p) PROVE Step
  <2> SUFFICES ASSUME NEW s \in Slots, r_flow_cnt[s] >= HitHi,
                      r_flow_hash_key'[s] = r_flow_hash_key[s]
               PROVE  r_state'[s] = r_state[s] /\ r_decision'[s] = r_decision[s]
    OBVIOUS
  <2>1. /\ do_flow_cnt(f) /\ r_decision' = r_decision
        /\ \/ overflow(f) > 1 /\ r_state' = [r_state EXCEPT ![Slot[f]] = do_tanh_and_update_state(f, p)]
           \/ r_state' = r_state
    BY <1>2 DEF first_pass
  <2>2. count(f) < CntMod
    <3>1. count(f) < 2 * MaxPkts /\ count(f) \in Nat BY <1>2, FirstPassTwo, CountType
    <3> QED BY <3>1
  <2>3. CASE s = Slot[f]
    <3>1. ~(overflow(f) > 1) BY <1>1, <1>2, <2>1, <2>2, <2>3
    <3> QED BY <3>1, <2>1
  <2>4. CASE s # Slot[f] BY <2>1, <2>4, <1>2 DEF TypeOK
  <2> QED BY <2>3, <2>4
<1>3. ASSUME TypeOK, TwoPasses, second_pass PROVE Step
  <2> SUFFICES ASSUME NEW s \in Slots, r_flow_cnt[s] >= HitHi,
                      r_flow_hash_key'[s] = r_flow_hash_key[s]
               PROVE  r_state'[s] = r_state[s] /\ r_decision'[s] = r_decision[s]
    OBVIOUS
  <2>0. PICK f : f = Head(recirc).flow OBVIOUS
  <2>1. /\ do_flow_cnt(f) /\ r_state' = r_state
        /\ \/ overflow(f) > 1 /\ r_decision' = [r_decision EXCEPT ![Slot[f]] = decide(Zeros)]
           \/ r_decision' = r_decision
    BY <1>3, <2>0 DEF second_pass
  <2>2. f \in Flows
    <3>1. recirc \in Seq(Packets) /\ recirc # <<>> BY <1>3 DEF TypeOK, second_pass
    <3>2. Head(recirc) \in Packets BY <3>1
    <3> QED BY <2>0, <3>2 DEF Packets
  <2>3. count(f) < CntMod
    <3>1. TwoPasses' /\ Slot[f] \in Slots /\ count(f) \in Nat BY <1>3, <2>2, SecondPassTwo, CountType
    <3>2. r_flow_cnt'[Slot[f]] = count(f) BY <1>3, <2>1, <2>2, PassCounts
    <3>3. recirc' \in Seq(Packets) /\ sent' \in 0..MaxPkts BY <1>3, SecondPassType DEF TypeOK
    <3>4. Len(recirc') \in Nat BY <3>3
    <3>5. count(f) + Len(recirc') <= 2 * sent' BY <3>1, <3>2 DEF TwoPasses
    <3>6. sent' <= MaxPkts /\ sent' \in Nat BY <3>3
    <3> QED BY <3>1, <3>4, <3>5, <3>6
  <2>4. CASE s = Slot[f]
    <3>1. ~(overflow(f) > 1) BY <1>1, <1>3, <2>1, <2>2, <2>3, <2>4
    <3> QED BY <3>1, <2>1
  <2>5. CASE s # Slot[f] BY <2>1, <2>5, <1>3 DEF TypeOK
  <2> QED BY <2>4, <2>5
<1>4. TypeOK /\ TwoPasses /\ [Next]_vars => [Step]_vars
  <2> SUFFICES ASSUME TypeOK, TwoPasses, Next PROVE Step OBVIOUS
  <2> QED BY <1>2, <1>3 DEF Next
<1> QED BY <1>4, TypeCorrect, TwoPassesHold, PTL DEF Spec, Frozen
=============================================================================
