----------------------- MODULE PipelineThreadsProofs -----------------------
(***************************************************************************)
(* Proofs about PipelineThreads, for any number of workers, pipelines and  *)
(* counters: types, the exclusive use of every rte_pipeline, the records   *)
(* of the main thread, the statistics, and that every control call is one  *)
(* atomic operation of ControlRpc.                                         *)
(***************************************************************************)
EXTENDS PipelineThreads, FiniteSetTheorems, FunctionTheorems, TLAPS

USE ConstantsAssumption DEF AllCounters

\* One ring of a family of rings gains or loses a message.
LEMMA AppendType ==
  ASSUME NEW I, NEW S, NEW f \in [I -> Seq(S)], NEW i \in I, NEW e \in S
  PROVE  [f EXCEPT ![i] = Append(@, e)] \in [I -> Seq(S)]
OBVIOUS

LEMMA TailType ==
  ASSUME NEW I, NEW S, NEW f \in [I -> Seq(S)], NEW i \in I, f[i] # <<>>
  PROVE  /\ [f EXCEPT ![i] = Tail(@)] \in [I -> Seq(S)]
         /\ Head(f[i]) \in S
OBVIOUS

\* A ring with one message is empty when it has been taken.
LEMMA LastOne ==
  ASSUME NEW S, NEW q \in Seq(S), Len(q) = 1
  PROVE  q = <<Head(q)>> /\ Tail(q) = <<>>
<1>1. q # <<>> OBVIOUS
<1>2. Tail(q) = <<>>
  <2>1. Tail(q) \in Seq(S) /\ Len(Tail(q)) = 0 BY <1>1
  <2>2. \A r \in Seq(S) : Len(r) = 0 => r = <<>> OBVIOUS
  <2> QED BY <2>1, <2>2, Zenon
<1>3. q = <<Head(q)>> BY <1>1
<1> QED BY <1>2, <1>3

LEMMA NoCallType == NoCall \notin Calls
BY DEF NoCall, Calls, ThreadOps, PortOps

LEMMA InitTypeOK == Init => TypeOK
<1> SUFFICES ASSUME Init PROVE TypeOK OBVIOUS
<1>1. MainType BY NoCallType DEF Init, MainType
<1>2. RingType BY DEF Init, RingType
<1>3. ThreadType BY DEF Init, ThreadType
<1>4. DataType BY DEF Init, DataType
<1> QED BY <1>1, <1>2, <1>3, <1>4 DEF TypeOK

LEMMA BeginType ==
  ASSUME TypeOK, NEW c \in Calls, NEW running \in BOOLEAN, Begin(c, running)
  PROVE  TypeOK'
BY NoCallType
DEF TypeOK, MainType, RingType, ThreadType, DataType, Begin, MayCall, ringVars, threadVars, dataVars

LEMMA CallType == TypeOK /\ MainCall => TypeOK'
<1> SUFFICES ASSUME TypeOK, MainCall PROVE TypeOK' OBVIOUS
<1>1. PICK p \in Pipelines :
    \/ \E t \in Threads : thread_pipeline_enable(t, p) \/ thread_pipeline_disable(t, p)
    \/ pipeline_port_in_enable(p) \/ pipeline_port_in_disable(p)
    \/ \E clr \in BOOLEAN : \/ pipeline_port_in_stats_read(p, clr)
                            \/ pipeline_port_out_stats_read(p, clr)
                            \/ pipeline_table_stats_read(p, clr)
  BY DEF MainCall
<1>r. launched \in BOOLEAN /\ pipeline_is_running(p) \in BOOLEAN
  BY DEF TypeOK, MainType, pipeline_is_running
<1>2. ASSUME NEW t \in Threads, thread_pipeline_enable(t, p) PROVE TypeOK'
  BY <1>2, <1>r, BeginType DEF thread_pipeline_enable, thread_is_running, Calls, ThreadOps
<1>3. ASSUME NEW t \in Threads, thread_pipeline_disable(t, p) PROVE TypeOK'
  BY <1>3, <1>r, BeginType DEF thread_pipeline_disable, thread_is_running, Calls, ThreadOps
<1>4. ASSUME pipeline_port_in_enable(p) \/ pipeline_port_in_disable(p) PROVE TypeOK'
  BY <1>4, <1>r, BeginType DEF pipeline_port_in_enable, pipeline_port_in_disable, PortCall, Calls, PortOps
<1>5. ASSUME NEW clr \in BOOLEAN, NEW c \in AllCounters, StatsCall(c, p, clr) PROVE TypeOK'
  BY <1>5, <1>r, BeginType DEF StatsCall, Calls
<1> QED
  BY <1>1, <1>2, <1>3, <1>4, <1>5
  DEF pipeline_port_in_stats_read, pipeline_port_out_stats_read, pipeline_table_stats_read

\* What a call in progress is made of.
LEMMA CallFields ==
  ASSUME TypeOK, mpc # "idle"
  PROVE  /\ call \in Calls /\ call.pipe \in Pipelines
         /\ IsThreadCall => /\ call.thread \in Threads
                            /\ [op |-> call.op, pipe |-> call.pipe] \in ThreadReqs
         /\ call.op = "stats_read" => call.stat \in Counters
<1>1. call \in Calls BY DEF TypeOK, MainType
<1> QED BY <1>1 DEF Calls, IsThreadCall, ThreadReqs, ThreadOps, PortOps

\* Taking the entry at i out of an array.
LEMMA RemoveAt1Props ==
  ASSUME NEW S, NEW s \in Seq(S), NEW i \in 1..Len(s)
  PROVE  /\ RemoveAt1(s, i) \in Seq(S)
         /\ Len(RemoveAt1(s, i)) = Len(s) - 1
         /\ \A k \in 1..(Len(s) - 1) : RemoveAt1(s, i)[k] = IF k = i THEN s[Len(s)] ELSE s[k]
<1>1. \A k \in 1..(Len(s) - 1) : (IF k = i THEN s[Len(s)] ELSE s[k]) \in S OBVIOUS
<1>2. Len(s) - 1 \in Nat OBVIOUS
<1> QED BY <1>1, <1>2 DEF RemoveAt1

\* Remove1 keeps the arrays well typed.
LEMMA Remove1Type ==
  ASSUME TypeOK, NEW t \in Threads, NEW p \in Pipelines
  PROVE  Remove1(t, p) \in [Threads -> Seq(Pipelines)]
<1>0. pipes \in [Threads -> Seq(Pipelines)] BY DEF TypeOK, ThreadType
<1>1. CASE InArray(t, p)
  <2> DEFINE i == CHOOSE i \in 1..Len(pipes[t]) : pipes[t][i] = p
  <2>1. i \in 1..Len(pipes[t]) BY <1>1 DEF InArray
  <2> HIDE DEF i
  <2>2. RemoveAt1(pipes[t], i) \in Seq(Pipelines) BY <2>1, <1>0, RemoveAt1Props
  <2>3. Remove1(t, p) = [pipes EXCEPT ![t] = RemoveAt1(pipes[t], i)]
    BY <1>1, <1>0 DEF Remove1, i
  <2> QED BY <2>2, <2>3, <1>0
<1>2. CASE ~InArray(t, p) BY <1>2, <1>0 DEF Remove1
<1> QED BY <1>1, <1>2

\* The parts of the state a step leaves alone keep their types.
LEMMA Keep ==
  ASSUME TypeOK
  PROVE  /\ UNCHANGED ringVars => RingType'
         /\ UNCHANGED threadVars => ThreadType'
         /\ UNCHANGED dataVars => DataType'
BY DEF TypeOK, RingType, ThreadType, DataType, ringVars, threadVars, dataVars

LEMMA TellType ==
  ASSUME TypeOK, mpc # "idle", NEW n \in Nat
  PROVE  Tell(n) \in [Pipelines -> [Counters -> Nat]]
<1>1. told \in [Pipelines -> [Counters -> Nat]] BY DEF TypeOK, MainType
<1>2. CASE call.op = "stats_read" /\ call.clear
  <2>1. call.pipe \in Pipelines /\ call.stat \in Counters BY <1>2, CallFields
  <2>2. Tell(n) = [told EXCEPT ![call.pipe][call.stat] = @ + n] BY <1>2, Zenon DEF Tell
  <2>3. told[call.pipe] \in [Counters -> Nat] BY <1>1, <2>1
  <2>4. told[call.pipe][call.stat] \in Nat BY <2>1, <2>3
  <2> QED BY <1>1, <2>1, <2>2, <2>3, <2>4
<1>3. CASE ~(call.op = "stats_read" /\ call.clear) BY <1>3, <1>1 DEF Tell
<1> QED BY <1>2, <1>3

LEMMA MainStepType == TypeOK /\ MainStep => TypeOK'
<1> SUFFICES ASSUME TypeOK, MainStep PROVE TypeOK' OBVIOUS
<1>m. mpc # "idle"
  BY DEF MainStep, thread_msg_send, thread_msg_recv, pipeline_msg_send, pipeline_msg_recv,
    direct_pipeline_enable, direct_pipeline_disable, direct_port_op, direct_stats_copy,
    direct_stats_clear, direct_return
<1>c. /\ call \in Calls /\ call.pipe \in Pipelines
      /\ IsThreadCall => /\ call.thread \in Threads
                         /\ [op |-> call.op, pipe |-> call.pipe] \in ThreadReqs
      /\ call.op = "stats_read" => call.stat \in Counters
  BY <1>m, CallFields
<1> USE NoCallType, <1>c, <1>m, Keep
<1>1. CASE thread_msg_send
  <2>1. MainType' BY <1>1 DEF thread_msg_send, TypeOK, MainType
  <2>2. RingType' BY <1>1, AppendType DEF thread_msg_send, TypeOK, RingType
  <2> QED BY <2>1, <2>2, <1>1 DEF thread_msg_send, TypeOK
<1>2. CASE thread_msg_recv
  <2>1. MainType'
    <3>1. owner' \in [Pipelines -> Threads \cup {None}]
      BY <1>2 DEF thread_msg_recv, TypeOK, MainType
    <3> QED BY <3>1, <1>2 DEF thread_msg_recv, Return, TypeOK, MainType
  <2>2. RingType' BY <1>2, TailType DEF thread_msg_recv, TypeOK, RingType
  <2> QED BY <2>1, <2>2, <1>2 DEF thread_msg_recv, TypeOK
<1>3. CASE pipeline_msg_send
  <2>1. MainType' BY <1>3 DEF pipeline_msg_send, TypeOK, MainType
  <2>2. RingType' BY <1>3, AppendType DEF pipeline_msg_send, TypeOK, RingType
  <2> QED BY <2>1, <2>2, <1>3 DEF pipeline_msg_send, TypeOK
<1>4. CASE pipeline_msg_recv
  <2>0. Head(prsp[call.pipe]) \in Nat
    BY <1>4, TailType DEF pipeline_msg_recv, TypeOK, RingType
  <2>1. MainType' BY <1>4, <2>0, TellType DEF pipeline_msg_recv, Return, TypeOK, MainType
  <2>2. RingType' BY <1>4, TailType DEF pipeline_msg_recv, TypeOK, RingType
  <2> QED BY <2>1, <2>2, <1>4 DEF pipeline_msg_recv, TypeOK
<1>5. CASE direct_pipeline_enable
  <2>1. MainType' BY <1>5 DEF direct_pipeline_enable, IsThreadCall, ThreadOps, TypeOK, MainType
  <2>2. ThreadType'
    BY <1>5 DEF direct_pipeline_enable, IsThreadCall, ThreadOps, Append1, TypeOK, ThreadType
  <2> QED BY <2>1, <2>2, <1>5 DEF direct_pipeline_enable, TypeOK
<1>6. CASE direct_pipeline_disable
  <2>1. MainType' BY <1>6 DEF direct_pipeline_disable, IsThreadCall, ThreadOps, TypeOK, MainType
  <2>2. ThreadType'
    BY <1>6, Remove1Type DEF direct_pipeline_disable, IsThreadCall, ThreadOps, TypeOK, ThreadType
  <2> QED BY <2>1, <2>2, <1>6 DEF direct_pipeline_disable, TypeOK
<1>7. CASE direct_port_op
  <2>1. MainType' BY <1>7 DEF direct_port_op, TypeOK, MainType
  <2>2. DataType' BY <1>7 DEF direct_port_op, TypeOK, DataType
  <2> QED BY <2>1, <2>2, <1>7 DEF direct_port_op, TypeOK
<1>8. CASE direct_stats_copy
  <2>0. cnt[call.pipe] \in [Counters -> Nat] /\ call.stat \in Counters
    BY <1>8 DEF direct_stats_copy, TypeOK, DataType
  <2>1. cnt[call.pipe][call.stat] \in Nat BY <2>0
  <2>2. MainType' BY <1>8, <2>1 DEF direct_stats_copy, TypeOK, MainType
  <2> QED BY <2>2, <1>8 DEF direct_stats_copy, TypeOK
<1>9. CASE direct_stats_clear
  <2>1. MainType' BY <1>9 DEF direct_stats_clear, TypeOK, MainType
  <2>2. DataType' BY <1>9 DEF direct_stats_clear, TypeOK, DataType
  <2> QED BY <2>1, <2>2, <1>9 DEF direct_stats_clear, TypeOK
<1>10. CASE direct_return
  <2>1. MainType' BY <1>10, TellType DEF direct_return, Return, TypeOK, MainType
  <2> QED BY <2>1, <1>10 DEF direct_return, TypeOK
<1> QED BY <1>1, <1>2, <1>3, <1>4, <1>5, <1>6, <1>7, <1>8, <1>9, <1>10 DEF MainStep

\* The pipeline a thread is at is a pipeline.
LEMMA CurrentType ==
  ASSUME TypeOK, NEW t \in Threads, InLoop(t)
  PROVE  idx[t] \in 1..Len(pipes[t]) /\ Current(t) \in Pipelines
BY DEF TypeOK, ThreadType, InLoop, Current

LEMMA PacketType ==
  ASSUME TypeOK, NEW p \in Pipelines, Packet(p)
  PROVE  DataType'
<1>1. cnt[p] \in [Counters -> Nat] BY DEF TypeOK, DataType
<1>2. [c \in Counters |-> cnt[p][c] + 1] \in [Counters -> Nat] BY <1>1
<1>3. total[p] + 1 \in Nat BY DEF TypeOK, DataType
<1> QED BY <1>1, <1>2, <1>3 DEF Packet, TypeOK, DataType

LEMMA ThreadStepType ==
  ASSUME TypeOK, NEW t \in Threads, ThreadStep(t) \/ Pass(t)
  PROVE  TypeOK'
<1>k. UNCHANGED <<launched, mainVars>> => MainType' BY DEF TypeOK, MainType, mainVars
<1> USE Keep, <1>k
<1>1. CASE run_pipeline(t)
  <2>1. ThreadType' BY <1>1 DEF run_pipeline, TypeOK, ThreadType
  <2>2. DataType' BY <1>1, CurrentType, PacketType DEF run_pipeline
  <2> QED BY <2>1, <2>2, <1>1 DEF run_pipeline, TypeOK
<1>2. CASE run_again(t)
  <2>1. ThreadType' BY <1>2 DEF run_again, TypeOK, ThreadType
  <2> QED BY <2>1, <1>2 DEF run_again, TypeOK
<1>3. CASE pipeline_queue_done(t)
  <2>1. ThreadType' BY <1>3 DEF pipeline_queue_done, TypeOK, ThreadType
  <2> QED BY <2>1, <1>3 DEF pipeline_queue_done, TypeOK
<1>4. CASE pipeline_msg_handle_port_op(t)
  <2>1. Current(t) \in Pipelines BY <1>4, CurrentType DEF pipeline_msg_handle_port_op, HandleReady
  <2>2. RingType'
    BY <1>4, <2>1, AppendType, TailType
    DEF pipeline_msg_handle_port_op, HandleReady, Answer, TypeOK, RingType
  <2>3. DataType' BY <1>4, <2>1 DEF pipeline_msg_handle_port_op, TypeOK, DataType
  <2> QED BY <2>2, <2>3, <1>4 DEF pipeline_msg_handle_port_op, TypeOK
<1>5. CASE pipeline_msg_handle_stats_read(t)
  <2> DEFINE p == Current(t)
             r == Head(preq[p])
  <2>1. p \in Pipelines BY <1>5, CurrentType DEF pipeline_msg_handle_stats_read, HandleReady
  <2>2. preq[p] # <<>> /\ r.op = "stats_read"
    BY <1>5 DEF pipeline_msg_handle_stats_read, HandleReady
  <2>3. r \in Calls BY <2>1, <2>2, TailType DEF TypeOK, RingType
  <2>4. r.stat \in Counters BY <2>2, <2>3 DEF Calls, ThreadOps, PortOps
  <2>5. cnt[p] \in [Counters -> Nat] BY <2>1 DEF TypeOK, DataType
  <2>6. cnt[p][r.stat] \in Nat BY <2>4, <2>5
  <2> HIDE DEF p, r
  <2>7. Answer(p, cnt[p][r.stat]) /\ (cnt' = [cnt EXCEPT ![p][r.stat] = 0] \/ cnt' = cnt)
    BY <1>5 DEF pipeline_msg_handle_stats_read, p, r
  <2>8. RingType'
    <3>1. treq' = treq /\ trsp' = trsp BY <1>5 DEF pipeline_msg_handle_stats_read
    <3>2. preq' \in [Pipelines -> Seq(Calls)]
      BY <2>7, <2>1, <2>2, TailType DEF Answer, TypeOK, RingType
    <3>3. prsp' \in [Pipelines -> Seq(Nat)]
      BY SMTT(60), <2>7, <2>1, <2>6, AppendType DEF Answer, TypeOK, RingType
    <3> QED BY <3>1, <3>2, <3>3 DEF TypeOK, RingType
  <2>9. DataType'
    BY <1>5, <2>7, <2>1, <2>4, <2>5 DEF pipeline_msg_handle_stats_read, TypeOK, DataType
  <2> QED BY <2>8, <2>9, <1>5 DEF pipeline_msg_handle_stats_read, TypeOK
<1>6. CASE thread_queue(t)
  <2>1. ThreadType' BY <1>6 DEF thread_queue, TypeOK, ThreadType
  <2> QED BY <2>1, <1>6 DEF thread_queue, TypeOK
<1>7. CASE thread_queue_done(t)
  <2>1. ThreadType' BY <1>7 DEF thread_queue_done, TypeOK, ThreadType
  <2> QED BY <2>1, <1>7 DEF thread_queue_done, TypeOK
<1>8. CASE thread_msg_handle_pipeline_enable(t) \/ thread_msg_handle_pipeline_disable(t)
  <2>0. treq[t] # <<>>
    BY <1>8 DEF thread_msg_handle_pipeline_enable, thread_msg_handle_pipeline_disable
  <2>a. Head(treq[t]) \in ThreadReqs BY <2>0, TailType DEF TypeOK, RingType
  <2>1. treq[t] # <<>> /\ Head(treq[t]).pipe \in Pipelines BY <2>0, <2>a DEF ThreadReqs
  <2>2. PICK s \in Status : AnswerThread(t, s)
    BY <1>8 DEF thread_msg_handle_pipeline_enable, thread_msg_handle_pipeline_disable, Status
  <2>3. RingType'
    <3>1. UNCHANGED <<preq, prsp>>
      BY <1>8 DEF thread_msg_handle_pipeline_enable, thread_msg_handle_pipeline_disable
    <3>2. treq' \in [Threads -> Seq(ThreadReqs)]
      BY <2>1, <2>2, TailType DEF AnswerThread, TypeOK, RingType
    <3>3. trsp' \in [Threads -> Seq(Status)]
      BY <2>2, AppendType DEF AnswerThread, TypeOK, RingType
    <3> QED BY <3>1, <3>2, <3>3 DEF TypeOK, RingType
  <2>4. pipes' \in [Threads -> Seq(Pipelines)]
    <3>1. CASE thread_msg_handle_pipeline_enable(t)
      BY <3>1, <2>1, AppendType DEF thread_msg_handle_pipeline_enable, Append1, TypeOK, ThreadType
    <3>2. CASE thread_msg_handle_pipeline_disable(t)
      BY <3>2, <2>1, Remove1Type DEF thread_msg_handle_pipeline_disable
    <3> QED BY <1>8, <3>1, <3>2
  <2>5. ThreadType'
    BY <1>8, <2>4 DEF thread_msg_handle_pipeline_enable, thread_msg_handle_pipeline_disable, TypeOK, ThreadType
  <2> QED BY <2>3, <2>5, <1>8
    DEF thread_msg_handle_pipeline_enable, thread_msg_handle_pipeline_disable, TypeOK
<1>9. CASE Pass(t)
  <2>1. PICK S \in SUBSET (Threads \cup Pipelines) : control_pass(t, S) BY <1>9 DEF Pass
  <2>2. ThreadType' BY <2>1 DEF control_pass, TypeOK, ThreadType
  <2> QED BY <2>1, <2>2 DEF control_pass, TypeOK
<1> QED BY <1>1, <1>2, <1>3, <1>4, <1>5, <1>6, <1>7, <1>8, <1>9 DEF ThreadStep

LEMMA NextType == TypeOK /\ [Next]_vars => TypeOK'
<1> SUFFICES ASSUME TypeOK, [Next]_vars PROVE TypeOK' OBVIOUS
<1>1. CASE launch
  <2>1. MainType'
    <3>1. launched' \in BOOLEAN /\ UNCHANGED <<owner, mpc, call, got, told>>
      BY <1>1 DEF launch, mainVars
    <3> QED BY <3>1 DEF TypeOK, MainType
  <2>2. ThreadType' BY <1>1 DEF launch, TypeOK, ThreadType
  <2> QED BY <2>1, <2>2, <1>1, Keep DEF launch, TypeOK, ringVars, dataVars
<1>2. CASE MainStep BY <1>2, MainStepType
<1>3. CASE MainCall BY <1>3, CallType
<1>4. ASSUME NEW t \in Threads, ThreadStep(t) \/ Pass(t) PROVE TypeOK'
  BY <1>4, ThreadStepType
<1>5. CASE UNCHANGED vars
  <2>1. MainType' BY <1>5 DEF vars, mainVars, TypeOK, MainType
  <2> QED BY <2>1, <1>5, Keep DEF vars, TypeOK
<1> QED BY <1>1, <1>2, <1>3, <1>4, <1>5 DEF Next

\* Every variable has its type in every reachable state.
THEOREM TypeCorrect == SafeSpec => []TypeOK
BY InitTypeOK, NextType, PTL DEF SafeSpec

-----------------------------------------------------------------------------
(* The arrays.                                                             *)

\* An entry appended: the other entries stay, and p is new.
LEMMA AppendArray ==
  ASSUME TypeOK, ArrayOnce, NEW t \in Threads, NEW p \in Pipelines,
         \A u \in Threads : ~InArray(u, p),
         pipes' = Append1(t, p)
  PROVE  /\ ArrayOnce'
         /\ \A u \in Threads, q \in Pipelines :
              InArray(u, q)' <=> InArray(u, q) \/ (u = t /\ q = p)
<1>0. pipes \in [Threads -> Seq(Pipelines)] BY DEF TypeOK, ThreadType
<1>1. /\ pipes'[t] = Append(pipes[t], p)
      /\ \A u \in Threads : u # t => pipes'[u] = pipes[u]
  BY <1>0 DEF Append1
<1>2. /\ Len(pipes'[t]) = Len(pipes[t]) + 1
      /\ pipes'[t][Len(pipes[t]) + 1] = p
      /\ \A i \in 1..Len(pipes[t]) : pipes'[t][i] = pipes[t][i]
  BY <1>0, <1>1
<1>3. \A u \in Threads : Len(pipes[u]) \in Nat BY <1>0
<1>4. ASSUME NEW u \in Threads, NEW i \in 1..Len(pipes'[u])
      PROVE  \/ i \in 1..Len(pipes[u]) /\ pipes'[u][i] = pipes[u][i] /\ pipes[u][i] # p
             \/ u = t /\ i = Len(pipes[t]) + 1 /\ pipes'[u][i] = p
  BY SMTT(60), <1>1, <1>2, <1>3 DEF InArray
<1>5. ArrayOnce' BY SMTT(60), <1>4 DEF ArrayOnce
<1>6. ASSUME NEW u \in Threads, NEW q \in Pipelines
      PROVE  InArray(u, q)' <=> InArray(u, q) \/ (u = t /\ q = p)
  <2>1. InArray(u, q)' => InArray(u, q) \/ (u = t /\ q = p) BY <1>4 DEF InArray
  <2>2. InArray(u, q) => InArray(u, q)' BY SMTT(60), <1>1, <1>2, <1>3 DEF InArray
  <2>3. InArray(t, p)' BY <1>1, <1>2, <1>3 DEF InArray
  <2> QED BY <2>1, <2>2, <2>3
<1> QED BY <1>5, <1>6

\* The entry of p taken out, the last one moved into its place: the other
\* entries stay, each at one place, and p is gone.
LEMMA RemoveArray ==
  ASSUME TypeOK, ArrayOnce, NEW t \in Threads, NEW p \in Pipelines,
         pipes' = Remove1(t, p)
  PROVE  /\ ArrayOnce'
         /\ \A u \in Threads, q \in Pipelines :
              InArray(u, q)' <=> InArray(u, q) /\ ~(u = t /\ q = p)
<1>0. pipes \in [Threads -> Seq(Pipelines)] BY DEF TypeOK, ThreadType
<1>1. CASE InArray(t, p)
  <2> DEFINE s == pipes[t]
             i == CHOOSE i \in 1..Len(s) : s[i] = p
             n == Len(s)
  <2>1. i \in 1..n /\ s[i] = p BY <1>1 DEF InArray
  <2>2. n \in Nat /\ s \in Seq(Pipelines) BY <1>0
  <2>3. pipes' = [pipes EXCEPT ![t] = RemoveAt1(s, i)] BY <1>1 DEF Remove1
  <2> HIDE DEF i
  <2>4. /\ Len(pipes'[t]) = n - 1
        /\ \A k \in 1..(n - 1) : pipes'[t][k] = IF k = i THEN s[n] ELSE s[k]
    <3>1. pipes'[t] = RemoveAt1(s, i) BY <2>3, <1>0
    <3>2. s \in Seq(Pipelines) /\ i \in 1..Len(s) BY <2>1, <2>2
    <3> HIDE DEF s
    <3>3. /\ Len(RemoveAt1(s, i)) = Len(s) - 1
          /\ \A k \in 1..(Len(s) - 1) :
               RemoveAt1(s, i)[k] = IF k = i THEN s[Len(s)] ELSE s[k]
      BY <3>2, RemoveAt1Props
    <3> QED BY <3>1, <3>3
  <2>5. \A u \in Threads : u # t => pipes'[u] = pipes[u] BY <2>3, <1>0
  <2> DEFINE from(u, k) == IF u = t /\ k = i THEN n ELSE k
  <2>6. ASSUME NEW u \in Threads, NEW k \in 1..Len(pipes'[u])
        PROVE  /\ from(u, k) \in 1..Len(pipes[u])
               /\ pipes'[u][k] = pipes[u][from(u, k)]
               /\ u = t => from(u, k) # i
    BY <2>1, <2>2, <2>4, <2>5
  <2>7. ASSUME NEW u \in Threads, NEW k \in 1..Len(pipes[u]), ~(u = t /\ k = i)
        PROVE  \E m \in 1..Len(pipes'[u]) : pipes'[u][m] = pipes[u][k]
    <3>1. CASE u # t BY <3>1, <2>5
    <3>2. CASE u = t /\ k = n
      <4>1. i \in 1..(n - 1) BY <3>2, <2>1, <2>2, <2>7
      <4>2. pipes'[t][i] = s[n] BY <4>1, <2>4
      <4> QED BY <4>1, <4>2, <3>2, <2>4
    <3>3. CASE u = t /\ k # n
      <4>1. k \in 1..(n - 1) BY <3>3, <2>2
      <4>2. pipes'[t][k] = s[k] BY <4>1, <3>3, <2>4, <2>7
      <4> QED BY <4>1, <4>2, <3>3, <2>4
    <3> QED BY <3>1, <3>2, <3>3
  <2>8. ArrayOnce'
    <3> SUFFICES ASSUME NEW u \in Threads, NEW v \in Threads,
                        NEW k \in 1..Len(pipes'[u]), NEW m \in 1..Len(pipes'[v]),
                        pipes'[u][k] = pipes'[v][m]
                 PROVE  u = v /\ k = m
      BY DEF ArrayOnce
    <3>1. from(u, k) \in 1..Len(pipes[u]) /\ from(v, m) \in 1..Len(pipes[v])
      BY <2>6
    <3>2. pipes[u][from(u, k)] = pipes[v][from(v, m)] BY <2>6
    <3>3. u = v /\ from(u, k) = from(v, m) BY <3>1, <3>2 DEF ArrayOnce
    <3>4. CASE u # t BY <3>3, <3>4
    <3>5. CASE u = t
      <4>1. k \in 1..(n - 1) /\ m \in 1..(n - 1) BY <3>3, <3>5, <2>4
      <4> QED BY <4>1, <3>3, <3>5, <2>2
    <3> QED BY <3>4, <3>5
  <2>9. ASSUME NEW u \in Threads, NEW q \in Pipelines
        PROVE  InArray(u, q)' <=> InArray(u, q) /\ ~(u = t /\ q = p)
    <3>1. ASSUME InArray(u, q)' PROVE InArray(u, q) /\ ~(u = t /\ q = p)
      <4>1. PICK k \in 1..Len(pipes'[u]) : pipes'[u][k] = q BY <3>1 DEF InArray
      <4>2. from(u, k) \in 1..Len(pipes[u]) /\ pipes[u][from(u, k)] = q
            /\ (u = t => from(u, k) # i)
        BY <4>1, <2>6
      <4>3. u = t => q # p BY <4>2, <2>1 DEF ArrayOnce
      <4> QED BY <4>2, <4>3 DEF InArray
    <3>2. ASSUME InArray(u, q), ~(u = t /\ q = p) PROVE InArray(u, q)'
      <4>1. PICK k \in 1..Len(pipes[u]) : pipes[u][k] = q BY <3>2 DEF InArray
      <4>2. ~(u = t /\ k = i) BY <4>1, <3>2, <2>1
      <4> QED BY <4>1, <4>2, <2>7 DEF InArray
    <3> QED BY <3>1, <3>2
  <2> QED BY <2>8, <2>9
<1>2. CASE ~InArray(t, p)
  <2>1. pipes' = pipes BY <1>2 DEF Remove1
  <2> QED BY <2>1, <1>2 DEF ArrayOnce, InArray
<1> QED BY <1>1, <1>2

-----------------------------------------------------------------------------
(* The inductive invariant: initially, and under the calls of the main     *)
(* thread.                                                                 *)

LEMMA InitExclusive == Init => ExclusiveInv
<1> SUFFICES ASSUME Init PROVE ExclusiveInv OBVIOUS
<1>1. \A t \in Threads : pipes[t] = <<>> /\ treq[t] = <<>> /\ trsp[t] = <<>> /\ pc[t] = "off"
  BY DEF Init
<1>2. \A p \in Pipelines : preq[p] = <<>> /\ prsp[p] = <<>> /\ owner[p] = None BY DEF Init
<1>3. mpc = "idle" BY DEF Init
<1>4. ArrayOnce BY <1>1 DEF ArrayOnce
<1>5. ArrayPlace BY <1>1, <1>2, <1>3 DEF ArrayPlace, Place, InArray
<1>6. CallLegal BY <1>1, <1>3 DEF CallLegal
<1>7. ThreadRings BY <1>1, <1>3 DEF ThreadRings
<1>8. PipeRings BY <1>2, <1>3 DEF PipeRings
<1> QED BY <1>4, <1>5, <1>6, <1>7, <1>8 DEF ExclusiveInv

\* A step that leaves the arrays alone and moves no pipeline.
LEMMA SameArrays ==
  ASSUME ExclusiveInv, pipes' = pipes, \A p \in Pipelines : Place(p)' = Place(p)
  PROVE  ArrayOnce' /\ ArrayPlace'
BY DEF ExclusiveInv, ArrayOnce, ArrayPlace, InArray

\* A call begun between calls, with its checks.
LEMMA BeginExclusive ==
  ASSUME TypeOK, ExclusiveInv, NEW c \in Calls, NEW running \in BOOLEAN, Begin(c, running),
         c.op \in ThreadOps => running = launched,
         c.op \notin ThreadOps => running = (owner[c.pipe] # None /\ launched),
         c.op = "pipeline_enable" => owner[c.pipe] = None,
         c.op = "pipeline_disable" => owner[c.pipe] = c.thread
  PROVE  ExclusiveInv'
<1>1. /\ mpc = "idle" /\ mpc' \in {"send", "direct"} /\ call' = c
      /\ mpc' = "send" <=> running
      /\ UNCHANGED <<launched, owner, treq, trsp, preq, prsp, pipes, pc>>
  BY DEF Begin, MayCall, ringVars, threadVars
<1>2. \A p \in Pipelines : Place(p)' = Place(p) BY <1>1 DEF Place
<1>3. ArrayOnce' /\ ArrayPlace' BY <1>1, <1>2, SameArrays
<1>4. CallLegal'
  <2>1. launched \in BOOLEAN BY DEF TypeOK, MainType
  <2>2. IsThreadCall' <=> c.op \in ThreadOps BY <1>1 DEF IsThreadCall
  <2> QED BY <1>1, <2>1, <2>2 DEF CallLegal, ExclusiveInv
<1>5. ThreadRings' BY <1>1 DEF ExclusiveInv, ThreadRings
<1>6. PipeRings' BY <1>1 DEF ExclusiveInv, PipeRings
<1> QED BY <1>3, <1>4, <1>5, <1>6 DEF ExclusiveInv

LEMMA CallExclusive == TypeOK /\ ExclusiveInv /\ MainCall => ExclusiveInv'
<1> SUFFICES ASSUME TypeOK, ExclusiveInv, MainCall PROVE ExclusiveInv' OBVIOUS
<1>1. PICK p \in Pipelines :
    \/ \E t \in Threads : thread_pipeline_enable(t, p) \/ thread_pipeline_disable(t, p)
    \/ pipeline_port_in_enable(p) \/ pipeline_port_in_disable(p)
    \/ \E clr \in BOOLEAN : \/ pipeline_port_in_stats_read(p, clr)
                            \/ pipeline_port_out_stats_read(p, clr)
                            \/ pipeline_table_stats_read(p, clr)
  BY DEF MainCall
<1>r. launched \in BOOLEAN BY DEF TypeOK, MainType
<1>2. ASSUME NEW t \in Threads, thread_pipeline_enable(t, p) PROVE ExclusiveInv'
  <2> DEFINE c == [op |-> "pipeline_enable", thread |-> t, pipe |-> p, stat |-> None, clear |-> FALSE]
  <2>1. c \in Calls BY DEF Calls, ThreadOps
  <2>2. Begin(c, launched) /\ owner[p] = None
    BY <1>2 DEF thread_pipeline_enable, thread_is_running
  <2>3. c.op \in ThreadOps /\ c.op = "pipeline_enable" /\ c.pipe = p BY DEF ThreadOps
  <2> HIDE DEF c
  <2> QED BY <2>1, <2>2, <2>3, <1>r, BeginExclusive
<1>3. ASSUME NEW t \in Threads, thread_pipeline_disable(t, p) PROVE ExclusiveInv'
  <2> DEFINE c == [op |-> "pipeline_disable", thread |-> t, pipe |-> p, stat |-> None, clear |-> FALSE]
  <2>1. c \in Calls BY DEF Calls, ThreadOps
  <2>2. Begin(c, launched) /\ owner[p] = t
    BY <1>3 DEF thread_pipeline_disable, thread_is_running
  <2>3. c.op \in ThreadOps /\ c.op = "pipeline_disable" /\ c.pipe = p /\ c.thread = t
    BY DEF ThreadOps
  <2> HIDE DEF c
  <2> QED BY <2>1, <2>2, <2>3, <1>r, BeginExclusive
<1>4. ASSUME NEW c \in Calls, c.op \notin ThreadOps, c.pipe = p,
             Begin(c, pipeline_is_running(p))
      PROVE  ExclusiveInv'
  <2>1. pipeline_is_running(p) \in BOOLEAN
        /\ pipeline_is_running(p) = (owner[c.pipe] # None /\ launched)
    BY <1>4, <1>r DEF pipeline_is_running
  <2>2. c.op # "pipeline_enable" /\ c.op # "pipeline_disable" BY <1>4 DEF ThreadOps
  <2> QED BY <1>4, <2>1, <2>2, BeginExclusive
<1>5. ASSUME NEW o \in PortOps, PortCall(o, p) PROVE ExclusiveInv'
  <2> DEFINE c == [op |-> o, thread |-> None, pipe |-> p, stat |-> None, clear |-> FALSE]
  <2>1. c \in Calls BY DEF Calls
  <2>2. c.op \notin ThreadOps /\ c.pipe = p BY DEF ThreadOps, PortOps
  <2>3. Begin(c, pipeline_is_running(p)) BY <1>5 DEF PortCall
  <2> HIDE DEF c
  <2> QED BY <2>1, <2>2, <2>3, <1>4
<1>6. ASSUME NEW clr \in BOOLEAN, NEW k, StatsCall(k, p, clr) PROVE ExclusiveInv'
  <2> DEFINE c == [op |-> "stats_read", thread |-> None, pipe |-> p, stat |-> k, clear |-> clr]
  <2>1. c \in Calls BY <1>6 DEF Calls, StatsCall
  <2>2. c.op \notin ThreadOps /\ c.pipe = p BY DEF ThreadOps
  <2>3. Begin(c, pipeline_is_running(p)) BY <1>6 DEF StatsCall
  <2> HIDE DEF c
  <2> QED BY <2>1, <2>2, <2>3, <1>4
<1>7. "port_in_enable" \in PortOps /\ "port_in_disable" \in PortOps BY DEF PortOps
<1> QED
  BY <1>1, <1>2, <1>3, <1>5, <1>6, <1>7
  DEF pipeline_port_in_enable, pipeline_port_in_disable,
      pipeline_port_in_stats_read, pipeline_port_out_stats_read, pipeline_table_stats_read

-----------------------------------------------------------------------------
(* The inductive invariant under the steps of the main thread in a call.   *)

\* What the invariant says of the rings of the call in progress.
LEMMA CallRings ==
  ASSUME TypeOK, ExclusiveInv, mpc # "idle"
  PROVE  /\ IsThreadCall /\ mpc # "recv" => treq[call.thread] = <<>> /\ trsp[call.thread] = <<>>
         /\ ~IsThreadCall /\ mpc # "recv" => preq[call.pipe] = <<>> /\ prsp[call.pipe] = <<>>
BY CallFields DEF ExclusiveInv, ThreadRings, PipeRings

LEMMA SendExclusive ==
  ASSUME TypeOK, ExclusiveInv, thread_msg_send \/ pipeline_msg_send
  PROVE  ExclusiveInv'
<1>1. /\ mpc = "send" /\ mpc' = "recv"
      /\ UNCHANGED <<launched, owner, call, trsp, prsp, pipes, pc>>
  BY DEF thread_msg_send, pipeline_msg_send, threadVars
<1>2. /\ call.pipe \in Pipelines
      /\ IsThreadCall => call.thread \in Threads
  BY <1>1, CallFields
<1>3. IsThreadCall' <=> IsThreadCall BY <1>1 DEF IsThreadCall
<1>4. treq \in [Threads -> Seq(ThreadReqs)] /\ preq \in [Pipelines -> Seq(Calls)]
  BY DEF TypeOK, RingType
<1>5. \A p \in Pipelines : Place(p)' = Place(p)
  <2>1. \A t \in Threads : trsp[t] = <<>>
    BY <1>1 DEF ExclusiveInv, ThreadRings
  <2>2. <<>> # <<"ok">> OBVIOUS
  <2> QED BY <2>1, <2>2, <1>1, <1>2, <1>3 DEF Place
<1>6. ArrayOnce' /\ ArrayPlace' BY <1>1, <1>5, SameArrays
<1>7. CallLegal' BY <1>1, <1>3 DEF CallLegal, ExclusiveInv
<1>8. CASE thread_msg_send
  <2>1. /\ IsThreadCall /\ preq' = preq
        /\ treq' = [treq EXCEPT ![call.thread] = Append(@, [op |-> call.op, pipe |-> call.pipe])]
    BY <1>8 DEF thread_msg_send
  <2>2. treq[call.thread] = <<>> BY <1>1, <2>1, CallRings
  <2>3. /\ treq'[call.thread] = <<[op |-> call.op, pipe |-> call.pipe]>>
        /\ \A t \in Threads : t # call.thread => treq'[t] = treq[t]
    BY <2>1, <2>2, <1>2, <1>4
  <2>4. ThreadRings' BY <2>1, <2>3, <1>1, <1>2, <1>3 DEF ExclusiveInv, ThreadRings
  <2>5. PipeRings' BY <2>1, <1>1, <1>3 DEF ExclusiveInv, PipeRings
  <2> QED BY <1>6, <1>7, <2>4, <2>5 DEF ExclusiveInv
<1>9. CASE pipeline_msg_send
  <2>1. /\ ~IsThreadCall /\ treq' = treq
        /\ preq' = [preq EXCEPT ![call.pipe] = Append(@, call)]
    BY <1>9 DEF pipeline_msg_send
  <2>2. preq[call.pipe] = <<>> BY <1>1, <2>1, CallRings
  <2>3. /\ preq'[call.pipe] = <<call>>
        /\ \A p \in Pipelines : p # call.pipe => preq'[p] = preq[p]
    BY <2>1, <2>2, <1>2, <1>4
  <2>4. ThreadRings' BY <2>1, <1>1, <1>3 DEF ExclusiveInv, ThreadRings
  <2>5. PipeRings' BY <2>1, <2>3, <1>1, <1>2, <1>3 DEF ExclusiveInv, PipeRings
  <2> QED BY <1>6, <1>7, <2>4, <2>5 DEF ExclusiveInv
<1> QED BY <1>8, <1>9

LEMMA ThreadRecvExclusive ==
  ASSUME TypeOK, ExclusiveInv, thread_msg_recv PROVE ExclusiveInv'
<1> DEFINE t == call.thread
           s == Head(trsp[t])
           new == IF call.op = "pipeline_enable" THEN t ELSE None
<1>1. /\ mpc = "recv" /\ IsThreadCall /\ trsp[t] # <<>>
      /\ trsp' = [trsp EXCEPT ![t] = Tail(@)]
      /\ owner' = IF s = "ok" THEN [owner EXCEPT ![call.pipe] = new] ELSE owner
      /\ mpc' = "idle"
      /\ UNCHANGED <<launched, treq, preq, prsp, pipes, pc>>
  BY DEF thread_msg_recv, threadVars, Return
<1>2. t \in Threads /\ call.pipe \in Pipelines BY <1>1, CallFields
<1>3. /\ owner \in [Pipelines -> Threads \cup {None}]
      /\ trsp \in [Threads -> Seq(Status)]
  BY DEF TypeOK, MainType, RingType
<1>4. treq[t] = <<>> /\ Len(trsp[t]) = 1 BY <1>1, <1>2 DEF ExclusiveInv, ThreadRings
<1>5. trsp[t] = <<s>> /\ Tail(trsp[t]) = <<>>
  <2>1. trsp[t] \in Seq(Status) BY <1>2, <1>3
  <2> QED BY <2>1, <1>4, LastOne
<1> HIDE DEF s, new, t
<1>6. trsp[t] = <<"ok">> <=> s = "ok" BY <1>5
<1>7. ASSUME NEW p \in Pipelines PROVE Place(p)' = Place(p)
  <2>1. Place(p)' = owner'[p] BY <1>1 DEF Place
  <2>2. CASE p = call.pipe /\ s = "ok"
    <3>1. Place(p) = new BY <2>2, <1>1, <1>6 DEF Place, new, t
    <3>2. owner'[p] = new BY <2>2, <1>1, <1>2, <1>3
    <3> QED BY <3>1, <3>2, <2>1
  <2>3. CASE ~(p = call.pipe /\ s = "ok")
    <3>1. Place(p) = owner[p] BY <2>3, <1>1, <1>6 DEF Place, t
    <3>2. owner'[p] = owner[p] BY <2>3, <1>1, <1>2, <1>3
    <3> QED BY <3>1, <3>2, <2>1
  <2> QED BY <2>2, <2>3
<1>8. ArrayOnce' /\ ArrayPlace' BY <1>1, <1>7, SameArrays
<1>9. CallLegal' BY <1>1 DEF CallLegal, ExclusiveInv
<1>10. ThreadRings'
  <2>1. trsp'[t] = <<>> /\ \A u \in Threads : u # t => trsp'[u] = trsp[u]
    BY <1>1, <1>2, <1>3, <1>5
  <2>2. \A u \in Threads : u # t => treq[u] = <<>> /\ trsp[u] = <<>>
    BY <1>1 DEF ExclusiveInv, ThreadRings, t
  <2> QED BY <2>1, <2>2, <1>1, <1>4 DEF ThreadRings
<1>11. PipeRings' BY <1>1 DEF ExclusiveInv, PipeRings
<1> QED BY <1>8, <1>9, <1>10, <1>11 DEF ExclusiveInv

LEMMA PipeRecvExclusive ==
  ASSUME TypeOK, ExclusiveInv, pipeline_msg_recv PROVE ExclusiveInv'
<1>1. /\ mpc = "recv" /\ ~IsThreadCall /\ prsp[call.pipe] # <<>>
      /\ prsp' = [prsp EXCEPT ![call.pipe] = Tail(@)]
      /\ mpc' = "idle"
      /\ UNCHANGED <<launched, owner, treq, trsp, preq, pipes, pc>>
  BY DEF pipeline_msg_recv, threadVars, Return
<1>2. call.pipe \in Pipelines BY <1>1, CallFields
<1>3. prsp \in [Pipelines -> Seq(Nat)] BY DEF TypeOK, RingType
<1>4. preq[call.pipe] = <<>> /\ Len(prsp[call.pipe]) = 1
  BY <1>1, <1>2 DEF ExclusiveInv, PipeRings
<1>5. \A p \in Pipelines : Place(p)' = Place(p) BY <1>1 DEF Place
<1>6. ArrayOnce' /\ ArrayPlace' BY <1>1, <1>5, SameArrays
<1>7. CallLegal' BY <1>1 DEF CallLegal, ExclusiveInv
<1>8. ThreadRings' BY <1>1 DEF ExclusiveInv, ThreadRings
<1>9. PipeRings'
  <2>1. /\ prsp'[call.pipe] = <<>>
        /\ \A p \in Pipelines : p # call.pipe => prsp'[p] = prsp[p]
    <3>1. prsp[call.pipe] \in Seq(Nat) BY <1>2, <1>3
    <3>2. Tail(prsp[call.pipe]) = <<>> BY <3>1, <1>4, LastOne
    <3> QED BY <3>2, <1>1, <1>2, <1>3
  <2>2. \A p \in Pipelines : p # call.pipe => preq[p] = <<>> /\ prsp[p] = <<>>
    BY <1>1 DEF ExclusiveInv, PipeRings
  <2> QED BY <2>1, <2>2, <1>1, <1>4 DEF PipeRings
<1> QED BY <1>6, <1>7, <1>8, <1>9 DEF ExclusiveInv

\* The branches in which the main thread does the work itself.
LEMMA DirectExclusive ==
  ASSUME TypeOK, ExclusiveInv, NEW t \in Threads,
         mpc = "direct", IsThreadCall, t = call.thread,
         direct_pipeline_enable \/ direct_pipeline_disable
  PROVE  ExclusiveInv'
<1> DEFINE p == call.pipe
<1>1. p \in Pipelines BY CallFields
<1>2. /\ mpc' = "ret" /\ call' = call
      /\ UNCHANGED <<launched, treq, trsp, preq, prsp, pc>>
  BY DEF direct_pipeline_enable, direct_pipeline_disable, ringVars
<1>3. owner \in [Pipelines -> Threads \cup {None}] BY DEF TypeOK, MainType
<1>4. (\A q \in Pipelines : Place(q) = owner[q] /\ Place(q)' = owner'[q])
  BY <1>2 DEF Place
<1>5. ArrayOnce /\ \A u \in Threads, q \in Pipelines : InArray(u, q) <=> owner[q] = u
  BY <1>4 DEF ExclusiveInv, ArrayPlace
<1>6. CallLegal' BY <1>2 DEF ExclusiveInv, CallLegal
<1>7. ThreadRings' BY <1>2 DEF ExclusiveInv, ThreadRings
<1>8. PipeRings' BY <1>2 DEF ExclusiveInv, PipeRings
<1> SUFFICES ArrayOnce' /\ \A u \in Threads, q \in Pipelines : InArray(u, q)' <=> owner'[q] = u
  BY <1>4, <1>6, <1>7, <1>8 DEF ExclusiveInv, ArrayPlace
<1>9. CASE direct_pipeline_enable
  <2>1. owner[p] = None BY <1>9 DEF direct_pipeline_enable, ExclusiveInv, CallLegal
  <2>2. \A u \in Threads : ~InArray(u, p) BY <2>1, <1>1, <1>5
  <2>3. CASE Full(t)
    <3>1. pipes' = pipes /\ owner' = owner BY <1>9, <2>3 DEF direct_pipeline_enable
    <3> QED BY <3>1, <1>5 DEF ArrayOnce, InArray
  <2>4. CASE ~Full(t)
    <3>1. pipes' = Append1(t, p) /\ owner' = [owner EXCEPT ![p] = t]
      BY <1>9, <2>4 DEF direct_pipeline_enable
    <3> HIDE DEF p
    <3>2. ArrayOnce' /\ \A u \in Threads, q \in Pipelines :
                          InArray(u, q)' <=> InArray(u, q) \/ (u = t /\ q = p)
      BY <3>1, <2>2, <1>1, <1>5, AppendArray
    <3> QED BY <3>1, <3>2, <2>1, <1>1, <1>3, <1>5
  <2> QED BY <2>3, <2>4
<1>10. CASE direct_pipeline_disable
  <2>1. owner[p] = t
    BY <1>10 DEF direct_pipeline_disable, ExclusiveInv, CallLegal
  <2>2. InArray(t, p) BY <2>1, <1>1, <1>5
  <2>3. pipes' = Remove1(t, p) /\ owner' = [owner EXCEPT ![p] = None]
    BY <1>10, <2>2 DEF direct_pipeline_disable
  <2> HIDE DEF p
  <2>4. ArrayOnce' /\ \A u \in Threads, q \in Pipelines :
                        InArray(u, q)' <=> InArray(u, q) /\ ~(u = t /\ q = p)
    BY <2>3, <1>1, <1>5, RemoveArray
  <2> QED BY <2>1, <2>3, <2>4, <1>1, <1>3, <1>5
<1> QED BY <1>9, <1>10

\* Steps that touch neither the arrays nor the rings.
LEMMA QuietExclusive ==
  ASSUME TypeOK, ExclusiveInv,
         UNCHANGED <<owner, treq, trsp, preq, prsp, pipes>>,
         \/ mpc' = mpc /\ call' = call
         \/ mpc \in {"direct", "clear", "ret"} /\ mpc' \in {"clear", "ret", "idle"}
            /\ (mpc' = "clear" => call' = call /\ mpc = "direct"),
         \/ UNCHANGED <<launched, pc>>
         \/ launched /\ launched'
         \/ mpc = "idle" /\ launched'
  PROVE  ExclusiveInv'
<1>1. \A p \in Pipelines : Place(p)' = Place(p) BY DEF Place, IsThreadCall
<1>2. ArrayOnce' /\ ArrayPlace' BY <1>1, SameArrays
<1>3. CallLegal' BY DEF ExclusiveInv, CallLegal, IsThreadCall
<1>4. ThreadRings' BY DEF ExclusiveInv, ThreadRings, IsThreadCall
<1>5. PipeRings' BY DEF ExclusiveInv, PipeRings, IsThreadCall
<1> QED BY <1>2, <1>3, <1>4, <1>5 DEF ExclusiveInv

LEMMA MainStepExclusive == TypeOK /\ ExclusiveInv /\ MainStep => ExclusiveInv'
<1> SUFFICES ASSUME TypeOK, ExclusiveInv, MainStep PROVE ExclusiveInv' OBVIOUS
<1>1. CASE thread_msg_send \/ pipeline_msg_send BY <1>1, SendExclusive
<1>2. CASE thread_msg_recv BY <1>2, ThreadRecvExclusive
<1>3. CASE pipeline_msg_recv BY <1>3, PipeRecvExclusive
<1>4. CASE direct_pipeline_enable \/ direct_pipeline_disable
  <2>1. mpc = "direct" /\ IsThreadCall
    BY <1>4 DEF direct_pipeline_enable, direct_pipeline_disable, IsThreadCall, ThreadOps
  <2> QED BY <2>1, <1>4, CallFields, DirectExclusive
<1>5. CASE direct_port_op
  BY <1>5, QuietExclusive DEF direct_port_op, ringVars, threadVars
<1>6. CASE direct_stats_copy
  BY <1>6, QuietExclusive DEF direct_stats_copy, ringVars, threadVars
<1>7. CASE direct_stats_clear
  BY <1>7, QuietExclusive DEF direct_stats_clear, ringVars, threadVars
<1>8. CASE direct_return
  BY <1>8, QuietExclusive DEF direct_return, Return, ringVars, threadVars
<1> QED BY <1>1, <1>2, <1>3, <1>4, <1>5, <1>6, <1>7, <1>8 DEF MainStep

-----------------------------------------------------------------------------
(* The inductive invariant under the steps of the workers.                 *)

\* A thread handler at work: its request is the call's, the thread the call's.
LEMMA HandlerCall ==
  ASSUME TypeOK, ExclusiveInv, NEW t \in Threads, treq[t] # <<>>
  PROVE  /\ mpc = "recv" /\ IsThreadCall /\ call.thread = t /\ call.pipe \in Pipelines
         /\ treq[t] = <<[op |-> call.op, pipe |-> call.pipe]>> /\ trsp[t] = <<>>
         /\ Head(treq[t]) = [op |-> call.op, pipe |-> call.pipe]
         /\ \A q \in Pipelines : Place(q) = owner[q]
<1>1. /\ mpc = "recv" /\ IsThreadCall /\ call.thread = t
      /\ treq[t] = <<[op |-> call.op, pipe |-> call.pipe]>> /\ trsp[t] = <<>>
  BY DEF ExclusiveInv, ThreadRings
<1>2. call.pipe \in Pipelines BY <1>1, CallFields
<1>3. <<>> # <<"ok">> OBVIOUS
<1> QED BY <1>1, <1>2, <1>3 DEF Place

\* An answer s given by thread t, with the arrays changed accordingly.
LEMMA AnswerExclusive ==
  ASSUME TypeOK, ExclusiveInv, NEW t \in Threads, NEW s \in Status,
         treq[t] # <<>>, AnswerThread(t, s), ArrayOnce',
         UNCHANGED <<launched, owner, mpc, call, preq, prsp, pc>>,
         \A u \in Threads, q \in Pipelines :
           InArray(u, q)' <=> (IF s = "ok" /\ q = call.pipe
                               THEN IF call.op = "pipeline_enable" THEN t ELSE None
                               ELSE owner[q]) = u
  PROVE  ExclusiveInv'
<1>1. /\ mpc = "recv" /\ IsThreadCall /\ call.thread = t /\ call.pipe \in Pipelines
      /\ treq[t] = <<[op |-> call.op, pipe |-> call.pipe]>> /\ trsp[t] = <<>>
  BY HandlerCall
<1>2. treq \in [Threads -> Seq(ThreadReqs)] /\ trsp \in [Threads -> Seq(Status)]
  BY DEF TypeOK, RingType
<1>3. /\ treq'[t] = <<>> /\ trsp'[t] = <<s>>
      /\ \A u \in Threads : u # t => treq'[u] = treq[u] /\ trsp'[u] = trsp[u]
  BY <1>1, <1>2 DEF AnswerThread
<1>4. IsThreadCall' BY <1>1 DEF IsThreadCall
<1>5. trsp'[t] = <<"ok">> <=> s = "ok" BY <1>3
<1>6. \A q \in Pipelines :
        Place(q)' = IF s = "ok" /\ q = call.pipe
                    THEN IF call.op = "pipeline_enable" THEN t ELSE None
                    ELSE owner[q]
  BY <1>1, <1>4, <1>5 DEF Place
<1>7. ArrayPlace' BY <1>6 DEF ArrayPlace
<1>8. CallLegal' BY <1>4, <1>1 DEF ExclusiveInv, CallLegal
<1>9. ThreadRings'
  <2>1. \A u \in Threads : u # t => treq[u] = <<>> /\ trsp[u] = <<>>
    BY <1>1 DEF ExclusiveInv, ThreadRings
  <2>2. Len(trsp'[t]) = 1 BY <1>3
  <2> QED BY ZenonT(60), <2>1, <2>2, <1>1, <1>3, <1>4 DEF ThreadRings
<1>10. PipeRings' BY <1>1, <1>4 DEF ExclusiveInv, PipeRings
<1> QED BY <1>7, <1>8, <1>9, <1>10 DEF ExclusiveInv

LEMMA EnableExclusive ==
  ASSUME TypeOK, ExclusiveInv, NEW t \in Threads, thread_msg_handle_pipeline_enable(t)
  PROVE  ExclusiveInv'
<1> DEFINE p == call.pipe
<1>1. /\ treq[t] # <<>> /\ Head(treq[t]).op = "pipeline_enable"
      /\ pipes' = IF Full(t) THEN pipes ELSE Append1(t, Head(treq[t]).pipe)
      /\ AnswerThread(t, IF Full(t) THEN "fail" ELSE "ok")
      /\ UNCHANGED <<launched, owner, mpc, call, preq, prsp, pc>>
  BY DEF thread_msg_handle_pipeline_enable, mainVars
<1>2. /\ p \in Pipelines /\ call.op = "pipeline_enable" /\ Head(treq[t]).pipe = p
      /\ mpc = "recv" /\ call.thread = t /\ \A q \in Pipelines : Place(q) = owner[q]
  BY <1>1, HandlerCall
<1>3. owner[p] = None BY <1>2 DEF ExclusiveInv, CallLegal
<1>4. ArrayOnce /\ \A u \in Threads, q \in Pipelines : InArray(u, q) <=> owner[q] = u
  BY <1>2 DEF ExclusiveInv, ArrayPlace
<1>5. \A u \in Threads : ~InArray(u, p) BY <1>2, <1>3, <1>4
<1>6. CASE Full(t)
  <2>1. pipes' = pipes /\ AnswerThread(t, "fail") BY <1>1, <1>6
  <2>2. ArrayOnce' /\ \A u \in Threads, q \in Pipelines : InArray(u, q)' <=> owner[q] = u
    BY <2>1, <1>4 DEF ArrayOnce, InArray
  <2> QED BY <2>1, <2>2, <1>1, AnswerExclusive DEF Status
<1>7. CASE ~Full(t)
  <2>1. pipes' = Append1(t, p) /\ AnswerThread(t, "ok") BY <1>1, <1>2, <1>7
  <2> HIDE DEF p
  <2>2. ArrayOnce' /\ \A u \in Threads, q \in Pipelines :
                        InArray(u, q)' <=> InArray(u, q) \/ (u = t /\ q = p)
    BY <2>1, <1>2, <1>4, <1>5, AppendArray
  <2>3. \A u \in Threads, q \in Pipelines :
          InArray(u, q)' <=> (IF q = p THEN t ELSE owner[q]) = u
    BY <2>2, <1>3, <1>4
  <2> QED BY <2>1, <2>2, <2>3, <1>1, <1>2, AnswerExclusive DEF Status, p
<1> QED BY <1>6, <1>7

LEMMA DisableExclusive ==
  ASSUME TypeOK, ExclusiveInv, NEW t \in Threads, thread_msg_handle_pipeline_disable(t)
  PROVE  ExclusiveInv'
<1> DEFINE p == call.pipe
<1>1. /\ treq[t] # <<>> /\ Head(treq[t]).op = "pipeline_disable"
      /\ pipes' = Remove1(t, Head(treq[t]).pipe) /\ AnswerThread(t, "ok")
      /\ UNCHANGED <<launched, owner, mpc, call, preq, prsp, pc>>
  BY DEF thread_msg_handle_pipeline_disable, mainVars
<1>2. /\ p \in Pipelines /\ call.op = "pipeline_disable" /\ Head(treq[t]).pipe = p
      /\ mpc = "recv" /\ call.thread = t /\ \A q \in Pipelines : Place(q) = owner[q]
  BY <1>1, HandlerCall
<1>3. owner[p] = t BY <1>2 DEF ExclusiveInv, CallLegal
<1>4. ArrayOnce /\ \A u \in Threads, q \in Pipelines : InArray(u, q) <=> owner[q] = u
  BY <1>2 DEF ExclusiveInv, ArrayPlace
<1>5. pipes' = Remove1(t, p) BY <1>1, <1>2
<1> HIDE DEF p
<1>6. ArrayOnce' /\ \A u \in Threads, q \in Pipelines :
                      InArray(u, q)' <=> InArray(u, q) /\ ~(u = t /\ q = p)
  BY <1>5, <1>2, <1>4, RemoveArray
<1>7. \A u \in Threads, q \in Pipelines :
        InArray(u, q)' <=> (IF q = p THEN None ELSE owner[q]) = u
  BY <1>6, <1>3, <1>4
<1> QED BY <1>1, <1>2, <1>6, <1>7, AnswerExclusive DEF Status, p

\* An answer given to the request of a pipeline.
LEMMA PipeAnswerExclusive ==
  ASSUME TypeOK, ExclusiveInv, NEW p \in Pipelines, NEW n, preq[p] # <<>>, Answer(p, n),
         UNCHANGED <<launched, owner, mpc, call, treq, trsp, pipes, pc>>
  PROVE  ExclusiveInv'
<1>1. /\ mpc = "recv" /\ ~IsThreadCall /\ call.pipe = p
      /\ preq[p] = <<call>> /\ prsp[p] = <<>>
  BY DEF ExclusiveInv, PipeRings
<1>2. preq \in [Pipelines -> Seq(Calls)] /\ prsp \in [Pipelines -> Seq(Nat)]
  BY DEF TypeOK, RingType
<1>3. /\ preq'[p] = <<>> /\ prsp'[p] = <<n>>
      /\ \A q \in Pipelines : q # p => preq'[q] = preq[q] /\ prsp'[q] = prsp[q]
  BY <1>1, <1>2 DEF Answer
<1>4. IsThreadCall' <=> IsThreadCall BY DEF IsThreadCall
<1>5. \A q \in Pipelines : Place(q)' = Place(q) BY <1>4 DEF Place
<1>6. ArrayOnce' /\ ArrayPlace' BY <1>5, SameArrays
<1>7. CallLegal' BY <1>4 DEF ExclusiveInv, CallLegal
<1>8. ThreadRings' BY <1>4 DEF ExclusiveInv, ThreadRings
<1>9. PipeRings'
  <2>1. \A q \in Pipelines : q # p => preq[q] = <<>> /\ prsp[q] = <<>>
    BY <1>1 DEF ExclusiveInv, PipeRings
  <2>2. Len(prsp'[p]) = 1 BY <1>3
  <2> QED BY <2>1, <2>2, <1>1, <1>3, <1>4 DEF PipeRings
<1> QED BY <1>6, <1>7, <1>8, <1>9 DEF ExclusiveInv

LEMMA ThreadStepExclusive ==
  ASSUME TypeOK, ExclusiveInv, NEW t \in Threads, ThreadStep(t) \/ Pass(t)
  PROVE  ExclusiveInv'
<1>o. pc[t] # "off" => launched
  BY DEF ExclusiveInv, CallLegal, TypeOK, MainType
<1>1. CASE run_pipeline(t)
  BY <1>1, QuietExclusive DEF run_pipeline, mainVars, ringVars
<1>2. CASE run_again(t)
  BY <1>2, QuietExclusive DEF run_again, mainVars, ringVars
<1>3. CASE Pass(t)
  BY <1>3, <1>o, QuietExclusive DEF Pass, control_pass, mainVars, ringVars
<1>4. CASE pipeline_queue_done(t)
  BY <1>4, QuietExclusive DEF pipeline_queue_done, mainVars, ringVars
<1>5. CASE thread_queue(t)
  BY <1>5, <1>o, QuietExclusive DEF thread_queue, mainVars, ringVars
<1>6. CASE thread_queue_done(t)
  BY <1>6, <1>o, QuietExclusive DEF thread_queue_done, mainVars, ringVars
<1>7. CASE pipeline_msg_handle_port_op(t) \/ pipeline_msg_handle_stats_read(t)
  <2>1. HandleReady(t)
    BY <1>7 DEF pipeline_msg_handle_port_op, pipeline_msg_handle_stats_read
  <2>2. Current(t) \in Pipelines /\ preq[Current(t)] # <<>>
    BY <2>1, CurrentType DEF HandleReady
  <2>3. /\ \E n : Answer(Current(t), n)
        /\ UNCHANGED <<launched, owner, mpc, call, treq, trsp, pipes, pc>>
    BY <1>7 DEF pipeline_msg_handle_port_op, pipeline_msg_handle_stats_read, mainVars, threadVars
  <2> QED BY <2>2, <2>3, PipeAnswerExclusive
<1>8. CASE thread_msg_handle_pipeline_enable(t) BY <1>8, EnableExclusive
<1>9. CASE thread_msg_handle_pipeline_disable(t) BY <1>9, DisableExclusive
<1> QED BY <1>1, <1>2, <1>3, <1>4, <1>5, <1>6, <1>7, <1>8, <1>9 DEF ThreadStep

LEMMA NextExclusive == TypeOK /\ ExclusiveInv /\ [Next]_vars => ExclusiveInv'
<1> SUFFICES ASSUME TypeOK, ExclusiveInv, [Next]_vars PROVE ExclusiveInv' OBVIOUS
<1>1. CASE launch BY <1>1, QuietExclusive DEF launch, mainVars, ringVars
<1>2. CASE MainStep BY <1>2, MainStepExclusive
<1>3. CASE MainCall BY <1>3, CallExclusive
<1>4. CASE \E t \in Threads : ThreadStep(t) \/ Pass(t) BY <1>4, ThreadStepExclusive
<1>5. CASE UNCHANGED vars
  BY <1>5, QuietExclusive DEF vars, mainVars, ringVars, threadVars
<1> QED BY <1>1, <1>2, <1>3, <1>4, <1>5 DEF Next

-----------------------------------------------------------------------------
(* What the invariant is for.                                              *)

\* A thread inside a pipeline has it in its array.
LEMMA InsideArray ==
  ASSUME TypeOK, NEW t \in Threads, NEW p \in Pipelines, ThreadInside(t, p)
  PROVE  idx[t] \in 1..Len(pipes[t]) /\ pipes[t][idx[t]] = p
BY DEF TypeOK, ThreadType, ThreadInside, InLoop, Current

LEMMA ExclusiveHolds == TypeOK /\ ExclusiveInv => Exclusive
<1> SUFFICES ASSUME TypeOK, ExclusiveInv, NEW p \in Pipelines
             PROVE  /\ \A t, u \in Threads : ThreadInside(t, p) /\ ThreadInside(u, p) => t = u
                    /\ MainInside(p) => \A t \in Threads : ~ThreadInside(t, p)
  BY DEF Exclusive
<1>1. ASSUME NEW t \in Threads, NEW u \in Threads, ThreadInside(t, p), ThreadInside(u, p)
      PROVE  t = u
  BY <1>1, InsideArray DEF ExclusiveInv, ArrayOnce
<1>2. ASSUME MainInside(p), NEW t \in Threads, ThreadInside(t, p) PROVE FALSE
  <2>1. mpc \in {"direct", "clear"} /\ call.pipe = p BY <1>2 DEF MainInside
  <2>2. launched BY <1>2 DEF ExclusiveInv, CallLegal, ThreadInside, TypeOK, MainType
  <2>3. owner[p] = None BY <2>1, <2>2 DEF ExclusiveInv, CallLegal
  <2>4. ~InArray(t, p) BY <2>1, <2>3 DEF ExclusiveInv, ArrayPlace, Place
  <2> QED BY <2>4, <1>2, InsideArray DEF InArray
<1> QED BY <1>1, <1>2

LEMMA Inductive == SafeSpec => [](TypeOK /\ ExclusiveInv)
BY InitTypeOK, NextType, InitExclusive, NextExclusive, PTL DEF SafeSpec

\* No two threads, the main one included, are inside one rte_pipeline at a time, for
\* any number of workers and pipelines (thread.c's division of the work by
\* pipeline_is_running, its request rings and the order in which it answers).
THEOREM ExclusiveUse == SafeSpec => []Exclusive
<1> QED BY Inductive, ExclusiveHolds, PTL

\* One of two counts has the one packet.
LEMMA OneOfTwo ==
  ASSUME NEW a, NEW b, (a = 1 /\ b = 0) \/ (a = 0 /\ b = 1)
  PROVE  a + b = 1
OBVIOUS

\* The rings of THREAD_MSGQ_SIZE slots never hold more than the message of the call
\* in progress, so an enqueue never has to wait and no stale answer is ever read.
THEOREM OneMessage == SafeSpec => []OneInFlight
<1>1. ExclusiveInv => OneInFlight
  <2> SUFFICES ASSUME ExclusiveInv PROVE OneInFlight OBVIOUS
  <2>1. \A x : Len(<<x>>) = 1 OBVIOUS
  <2>2. Len(<<>>) = 0 OBVIOUS
  <2>3. ASSUME NEW t \in Threads
        PROVE  Len(treq[t]) + Len(trsp[t]) = IF mpc = "recv" /\ IsThreadCall /\ call.thread = t
                                             THEN 1 ELSE 0
    <3>1. CASE mpc = "recv" /\ IsThreadCall /\ call.thread = t
      <4>1. \/ Len(treq[t]) = 1 /\ Len(trsp[t]) = 0
            \/ Len(treq[t]) = 0 /\ Len(trsp[t]) = 1
        BY <3>1, <2>1, <2>2, Zenon DEF ExclusiveInv, ThreadRings
      <4>2. Len(treq[t]) + Len(trsp[t]) = 1 BY <4>1, OneOfTwo
      <4> QED BY <4>2, <3>1, Zenon
    <3>2. CASE ~(mpc = "recv" /\ IsThreadCall /\ call.thread = t)
      <4>1. Len(treq[t]) = 0 /\ Len(trsp[t]) = 0
        BY <3>2, <2>2, Zenon DEF ExclusiveInv, ThreadRings
      <4> QED BY <4>1, <3>2
    <3> QED BY <3>1, <3>2
  <2>4. ASSUME NEW p \in Pipelines
        PROVE  Len(preq[p]) + Len(prsp[p]) = IF mpc = "recv" /\ ~IsThreadCall /\ call.pipe = p
                                             THEN 1 ELSE 0
    <3>1. CASE mpc = "recv" /\ ~IsThreadCall /\ call.pipe = p
      <4>1. \/ Len(preq[p]) = 1 /\ Len(prsp[p]) = 0
            \/ Len(preq[p]) = 0 /\ Len(prsp[p]) = 1
        BY <3>1, <2>1, <2>2, Zenon DEF ExclusiveInv, PipeRings
      <4>2. Len(preq[p]) + Len(prsp[p]) = 1 BY <4>1, OneOfTwo
      <4> QED BY <4>2, <3>1, Zenon
    <3>2. CASE ~(mpc = "recv" /\ ~IsThreadCall /\ call.pipe = p)
      <4>1. Len(preq[p]) = 0 /\ Len(prsp[p]) = 0
        BY <3>2, <2>2, Zenon DEF ExclusiveInv, PipeRings
      <4> QED BY <4>1, <3>2
    <3> QED BY <3>1, <3>2
  <2> QED BY <2>3, <2>4 DEF OneInFlight
<1> QED BY <1>1, Inductive, PTL

\* The branch of thread_msg_handle_pipeline_disable marked "should not get here" is dead.
THEOREM DisableAlwaysFinds == SafeSpec => []DisableFinds
<1>1. TypeOK /\ ExclusiveInv => DisableFinds
  <2> SUFFICES ASSUME TypeOK, ExclusiveInv, NEW t \in Threads,
                      treq[t] # <<>>, Head(treq[t]).op = "pipeline_disable"
               PROVE  InArray(t, Head(treq[t]).pipe)
    BY DEF DisableFinds
  <2>1. /\ call.op = "pipeline_disable" /\ Head(treq[t]).pipe = call.pipe
        /\ mpc = "recv" /\ call.thread = t /\ call.pipe \in Pipelines
        /\ Place(call.pipe) = owner[call.pipe]
    BY HandlerCall
  <2>2. owner[call.pipe] = t BY <2>1 DEF ExclusiveInv, CallLegal
  <2> QED BY <2>1, <2>2 DEF ExclusiveInv, ArrayPlace
<1> QED BY <1>1, Inductive, PTL

-----------------------------------------------------------------------------
(* The main thread's records and the statistics.                           *)

\* Between calls p->enabled and p->thread_id are the place of the pipeline in the arrays
\* of the workers, whatever was enabled and disabled while they ran.
THEOREM OwnersAgree == SafeSpec => []OwnerAgrees
<1>1. TypeOK /\ ExclusiveInv => OwnerAgrees
  <2> SUFFICES ASSUME TypeOK, ExclusiveInv, mpc = "idle", NEW t \in Threads, NEW p \in Pipelines
               PROVE  Cardinality({i \in 1..Len(pipes[t]) : pipes[t][i] = p}) = IF owner[p] = t THEN 1 ELSE 0
    BY DEF OwnerAgrees
  <2>1. InArray(t, p) <=> owner[p] = t BY DEF ExclusiveInv, ArrayPlace, Place
  <2>2. CASE InArray(t, p)
    <3>1. PICK i \in 1..Len(pipes[t]) : pipes[t][i] = p BY <2>2 DEF InArray
    <3>2. {k \in 1..Len(pipes[t]) : pipes[t][k] = p} = {i} BY <3>1 DEF ExclusiveInv, ArrayOnce
    <3>3. Cardinality({i}) = 1 BY FS_Singleton
    <3> QED BY <2>1, <2>2, <3>2, <3>3
  <2>3. CASE ~InArray(t, p)
    <3>1. {k \in 1..Len(pipes[t]) : pipes[t][k] = p} = {} BY <2>3 DEF InArray
    <3> QED BY <2>1, <2>3, <3>1, FS_EmptySet
  <2> QED BY <2>2, <2>3
<1> QED BY <1>1, Inductive, PTL

\* A read with clear works on a counter nobody else moves: what it has copied is still
\* there when it clears it.
ClearInv ==
  mpc = "clear" => /\ call.op = "stats_read" /\ call.clear
                   /\ got = cnt[call.pipe][call.stat]

StatsInv == StatsConserved /\ ClearInv

\* The counter a read with clear is about.
Clears(p, c) == call.op = "stats_read" /\ call.clear /\ call.pipe = p /\ call.stat = c

\* The count on its way to the reader: none, in the ring or read already.
LEMMA OnItsWayCases ==
  ASSUME NEW p, NEW c
  PROVE  /\ ~Clears(p, c) => OnItsWay(p, c) = 0
         /\ mpc \notin {"ret", "recv"} => OnItsWay(p, c) = 0
         /\ mpc = "recv" /\ prsp[p] = <<>> => OnItsWay(p, c) = 0
         /\ Clears(p, c) /\ mpc = "ret" => OnItsWay(p, c) = got
         /\ Clears(p, c) /\ mpc = "recv" /\ prsp[p] # <<>> => OnItsWay(p, c) = Head(prsp[p])
BY DEF OnItsWay, Clears

\* The same after a step.
LEMMA OnItsWayNext ==
  ASSUME NEW p, NEW c
  PROVE  /\ ~Clears(p, c)' => OnItsWay(p, c)' = 0
         /\ mpc' \notin {"ret", "recv"} => OnItsWay(p, c)' = 0
         /\ mpc' = "recv" /\ prsp'[p] = <<>> => OnItsWay(p, c)' = 0
         /\ Clears(p, c)' /\ mpc' = "ret" => OnItsWay(p, c)' = got'
         /\ Clears(p, c)' /\ mpc' = "recv" /\ prsp'[p] # <<>> => OnItsWay(p, c)' = Head(prsp'[p])
BY DEF OnItsWay, Clears

LEMMA StatsTypes ==
  ASSUME TypeOK, NEW p \in Pipelines, NEW c \in Counters
  PROVE  /\ told[p][c] \in Nat /\ cnt[p][c] \in Nat /\ total[p] \in Nat /\ got \in Nat
         /\ prsp[p] # <<>> => Head(prsp[p]) \in Nat
         /\ OnItsWay(p, c) \in Nat
<1>1. told[p] \in [Counters -> Nat] /\ cnt[p] \in [Counters -> Nat] /\ total[p] \in Nat /\ got \in Nat
  BY DEF TypeOK, MainType, DataType
<1>2. prsp[p] # <<>> => Head(prsp[p]) \in Nat BY DEF TypeOK, RingType
<1>3. OnItsWay(p, c) \in Nat BY <1>1, <1>2, OnItsWayCases
<1> QED BY <1>1, <1>2, <1>3

\* A step that moves no statistics.
LEMMA StatsSame ==
  ASSUME StatsInv, UNCHANGED <<told, cnt, total>>, mpc' # "clear",
         \A p \in Pipelines, c \in Counters : OnItsWay(p, c)' = OnItsWay(p, c)
  PROVE  StatsInv'
BY DEF StatsInv, StatsConserved, ClearInv

LEMMA BeginStats ==
  ASSUME StatsInv, NEW c, NEW running, Begin(c, running)
  PROVE  StatsInv'
<1>1. mpc = "idle" /\ mpc' \in {"send", "direct"} /\ UNCHANGED <<told, cnt, total>>
  BY DEF Begin, MayCall, dataVars
<1>2. \A p \in Pipelines, k \in Counters : OnItsWay(p, k)' = OnItsWay(p, k)
  BY <1>1, OnItsWayCases, OnItsWayNext
<1> QED BY <1>1, <1>2, StatsSame

LEMMA CallStats == StatsInv /\ MainCall => StatsInv'
<1> SUFFICES ASSUME StatsInv, MainCall PROVE StatsInv' OBVIOUS
<1>1. \E c, running : Begin(c, running)
  BY DEF MainCall, thread_pipeline_enable, thread_pipeline_disable, pipeline_port_in_enable,
    pipeline_port_in_disable, PortCall, pipeline_port_in_stats_read, pipeline_port_out_stats_read,
    pipeline_table_stats_read, StatsCall
<1> QED BY <1>1, BeginStats

\* A step of a call that is not a read with clear.
LEMMA OtherStats ==
  ASSUME StatsInv, UNCHANGED <<told, cnt, total, call>>, mpc' # "clear",
         ~(call.op = "stats_read" /\ call.clear)
  PROVE  StatsInv'
<1>1. \A p \in Pipelines, k \in Counters : ~Clears(p, k) /\ ~Clears(p, k)' BY DEF Clears
<1>2. \A p \in Pipelines, k \in Counters : OnItsWay(p, k)' = OnItsWay(p, k)
  BY <1>1, OnItsWayCases, OnItsWayNext
<1> QED BY <1>2, StatsSame

\* What Tell adds to what callers were told.
LEMMA TellAdds ==
  ASSUME TypeOK, mpc # "idle", NEW n \in Nat, NEW p \in Pipelines, NEW c \in Counters
  PROVE  Tell(n)[p][c] = IF Clears(p, c) THEN told[p][c] + n ELSE told[p][c]
<1>1. told \in [Pipelines -> [Counters -> Nat]] BY DEF TypeOK, MainType
<1>2. CASE call.op = "stats_read" /\ call.clear
  <2>1. call.pipe \in Pipelines /\ call.stat \in Counters BY <1>2, CallFields
  <2>2. Tell(n) = [told EXCEPT ![call.pipe][call.stat] = @ + n] BY <1>2, Zenon DEF Tell
  <2>3. told[call.pipe] \in [Counters -> Nat] BY <1>1, <2>1
  <2> QED BY <1>1, <1>2, <2>1, <2>2, <2>3 DEF Clears
<1>3. CASE ~(call.op = "stats_read" /\ call.clear) BY <1>3, <1>1 DEF Tell, Clears
<1> QED BY <1>2, <1>3

\* The caller is told what was on its way to it, and nothing is on its way any more.
LEMMA ReturnStats ==
  ASSUME TypeOK, StatsInv, mpc # "idle", NEW n \in Nat, told' = Tell(n), Return, UNCHANGED <<cnt, total>>,
         \A p \in Pipelines, c \in Counters : Clears(p, c) => OnItsWay(p, c) = n
  PROVE  StatsInv'
<1>1. mpc' = "idle" BY DEF Return
<1>2. ASSUME NEW p \in Pipelines, NEW c \in Counters
      PROVE  told'[p][c] + OnItsWay(p, c)' + cnt'[p][c] = total'[p]
  <2>1. OnItsWay(p, c)' = 0 BY <1>1, OnItsWayNext
  <2>2. told[p][c] \in Nat /\ cnt[p][c] \in Nat /\ OnItsWay(p, c) \in Nat BY StatsTypes
  <2>3. told'[p][c] = told[p][c] + OnItsWay(p, c)
    <3>1. Tell(n)[p][c] = IF Clears(p, c) THEN told[p][c] + n ELSE told[p][c] BY TellAdds
    <3>2. Clears(p, c) => OnItsWay(p, c) = n OBVIOUS
    <3>3. ~Clears(p, c) => OnItsWay(p, c) = 0 BY OnItsWayCases
    <3> QED BY <3>1, <3>2, <3>3, <2>2
  <2>4. told[p][c] + OnItsWay(p, c) + cnt[p][c] = total[p] BY DEF StatsInv, StatsConserved
  <2> QED BY <2>1, <2>2, <2>3, <2>4
<1> QED BY <1>1, <1>2 DEF StatsInv, StatsConserved, ClearInv

LEMMA MainStepStats == TypeOK /\ ExclusiveInv /\ StatsInv /\ MainStep => StatsInv'
<1> SUFFICES ASSUME TypeOK, ExclusiveInv, StatsInv, MainStep PROVE StatsInv' OBVIOUS
<1>1. CASE thread_msg_send
  <2>1. mpc' # "clear" /\ call.op # "stats_read" /\ UNCHANGED <<told, cnt, total, call>>
    BY <1>1 DEF thread_msg_send, IsThreadCall, ThreadOps, dataVars
  <2> QED BY <2>1, OtherStats
<1>2. CASE thread_msg_recv
  <2>1. /\ mpc = "recv" /\ mpc' = "idle" /\ call.op # "stats_read" /\ UNCHANGED <<told, cnt, total>>
    BY <1>2 DEF thread_msg_recv, Return, IsThreadCall, ThreadOps, dataVars
  <2>2. \A p \in Pipelines, k \in Counters : OnItsWay(p, k)' = OnItsWay(p, k)
    BY <2>1, OnItsWayCases, OnItsWayNext DEF Clears
  <2> QED BY <2>1, <2>2, StatsSame
<1>3. CASE pipeline_msg_send
  <2>1. mpc = "send" /\ mpc' = "recv" /\ UNCHANGED <<told, cnt, total, prsp>>
    BY <1>3 DEF pipeline_msg_send, dataVars
  <2>2. \A p \in Pipelines : prsp[p] = <<>> BY <2>1 DEF ExclusiveInv, PipeRings
  <2>3. \A p \in Pipelines, k \in Counters : OnItsWay(p, k)' = OnItsWay(p, k)
    BY <2>1, <2>2, OnItsWayCases, OnItsWayNext
  <2> QED BY <2>1, <2>3, StatsSame
<1>4. CASE pipeline_msg_recv
  <2>1. /\ mpc = "recv" /\ prsp[call.pipe] # <<>> /\ told' = Tell(Head(prsp[call.pipe])) /\ Return
        /\ UNCHANGED <<cnt, total>>
    BY <1>4 DEF pipeline_msg_recv, dataVars
  <2>2. call.pipe \in Pipelines BY <2>1, CallFields
  <2>3. Head(prsp[call.pipe]) \in Nat BY <2>1, <2>2 DEF TypeOK, RingType
  <2>4. \A p \in Pipelines, c \in Counters : Clears(p, c) => OnItsWay(p, c) = Head(prsp[call.pipe])
    BY <2>1, OnItsWayCases DEF Clears
  <2>5. PICK n \in Nat : n = Head(prsp[call.pipe]) BY <2>3
  <2> QED BY <2>1, <2>4, <2>5, ReturnStats
<1>5. CASE direct_pipeline_enable \/ direct_pipeline_disable \/ direct_port_op
  <2>1. mpc' # "clear" /\ call.op # "stats_read" /\ UNCHANGED <<told, cnt, total, call>>
    BY <1>5 DEF direct_pipeline_enable, direct_pipeline_disable, direct_port_op, PortOps, dataVars
  <2> QED BY <2>1, OtherStats
<1>6. CASE direct_stats_copy
  <2>1. /\ mpc = "direct" /\ call.op = "stats_read" /\ got' = cnt[call.pipe][call.stat]
        /\ mpc' = (IF call.clear THEN "clear" ELSE "ret") /\ UNCHANGED <<call, told, cnt, total>>
    BY <1>6 DEF direct_stats_copy, dataVars
  <2>2. CASE call.clear
    <3>1. mpc' = "clear" BY <2>1, <2>2
    <3>2. ClearInv' BY <2>1, <2>2 DEF ClearInv
    <3>3. \A p \in Pipelines, k \in Counters : OnItsWay(p, k)' = OnItsWay(p, k)
      BY <2>1, <3>1, OnItsWayCases, OnItsWayNext
    <3> QED BY <2>1, <3>2, <3>3 DEF StatsInv, StatsConserved
  <2>3. CASE ~call.clear BY <2>1, <2>3, OtherStats
  <2> QED BY <2>2, <2>3
<1>7. CASE direct_stats_clear
  <2>1. /\ mpc = "clear" /\ cnt' = [cnt EXCEPT ![call.pipe][call.stat] = 0] /\ mpc' = "ret"
        /\ UNCHANGED <<call, got, told, total>>
    BY <1>7 DEF direct_stats_clear
  <2>2. call.op = "stats_read" /\ call.clear /\ got = cnt[call.pipe][call.stat]
    BY <2>1 DEF StatsInv, ClearInv
  <2>3. call.pipe \in Pipelines /\ call.stat \in Counters BY <2>1, <2>2, CallFields
  <2>4. cnt \in [Pipelines -> [Counters -> Nat]] /\ cnt[call.pipe] \in [Counters -> Nat]
    BY <2>3 DEF TypeOK, DataType
  <2>5. ASSUME NEW p \in Pipelines, NEW c \in Counters
        PROVE  told'[p][c] + OnItsWay(p, c)' + cnt'[p][c] = total'[p]
    <3>1. told[p][c] + OnItsWay(p, c) + cnt[p][c] = total[p] BY DEF StatsInv, StatsConserved
    <3>2. OnItsWay(p, c) = 0 BY <2>1, OnItsWayCases
    <3>3. CASE Clears(p, c)
      <4>1. cnt'[p][c] = 0 /\ cnt[p][c] = got BY <2>1, <2>2, <2>3, <2>4, <3>3 DEF Clears
      <4>2. Clears(p, c)' BY <2>1, <3>3 DEF Clears
      <4>3. OnItsWay(p, c)' = got' BY <2>1, <4>2, OnItsWayNext
      <4> QED BY <2>1, <3>1, <3>2, <4>1, <4>3, StatsTypes
    <3>4. CASE ~Clears(p, c)
      <4>1. cnt'[p][c] = cnt[p][c] BY <2>1, <2>2, <2>3, <2>4, <3>4 DEF Clears
      <4>2. ~Clears(p, c)' BY <2>1, <3>4 DEF Clears
      <4>3. OnItsWay(p, c)' = 0 BY <4>2, OnItsWayNext
      <4> QED BY <2>1, <3>1, <3>2, <4>1, <4>3
    <3> QED BY <3>3, <3>4
  <2> QED BY <2>1, <2>5 DEF StatsInv, StatsConserved, ClearInv
<1>8. CASE direct_return
  <2>1. mpc = "ret" /\ told' = Tell(got) /\ Return /\ UNCHANGED <<cnt, total>>
    BY <1>8 DEF direct_return, dataVars
  <2>2. got \in Nat BY DEF TypeOK, MainType
  <2>3. \A p \in Pipelines, c \in Counters : Clears(p, c) => OnItsWay(p, c) = got
    BY <2>1, OnItsWayCases
  <2>4. PICK n \in Nat : n = got BY <2>2
  <2> QED BY <2>1, <2>3, <2>4, ReturnStats
<1> QED BY <1>1, <1>2, <1>3, <1>4, <1>5, <1>6, <1>7, <1>8 DEF MainStep

\* A step that leaves the call in progress, its answer and the statistics alone.
LEMMA QuietStats ==
  ASSUME StatsInv, UNCHANGED <<mpc, call, got, told, cnt, total, prsp>>
  PROVE  StatsInv'
<1>1. \A p \in Pipelines, c \in Counters : OnItsWay(p, c)' = OnItsWay(p, c) BY DEF OnItsWay
<1> QED BY <1>1 DEF StatsInv, StatsConserved, ClearInv

\* A packet raises every counter of its pipeline and the total by one; the main thread is
\* not about to clear one of them.
LEMMA PacketStats ==
  ASSUME TypeOK, ExclusiveInv, StatsInv, NEW t \in Threads, run_pipeline(t), Packet(Current(t))
  PROVE  StatsInv'
<1>1. /\ pc[t] = "run" /\ InLoop(t)
      /\ UNCHANGED <<mpc, call, got, told, prsp>>
  BY DEF run_pipeline, mainVars, ringVars
<1>2. Current(t) \in Pipelines BY <1>1, CurrentType
<1>3. PICK w \in Pipelines : w = Current(t) BY <1>2
<1>4. /\ cnt' = [cnt EXCEPT ![w] = [c \in Counters |-> @[c] + 1]]
      /\ total' = [total EXCEPT ![w] = @ + 1]
  BY <1>3 DEF Packet
<1>5. cnt \in [Pipelines -> [Counters -> Nat]] /\ total \in [Pipelines -> Nat]
  BY DEF TypeOK, DataType
<1>6. ASSUME NEW p \in Pipelines, NEW c \in Counters
      PROVE  told'[p][c] + OnItsWay(p, c)' + cnt'[p][c] = total'[p]
  <2>1. told[p][c] + OnItsWay(p, c) + cnt[p][c] = total[p] BY DEF StatsInv, StatsConserved
  <2>2. OnItsWay(p, c)' = OnItsWay(p, c) BY <1>1 DEF OnItsWay
  <2>3. told[p][c] \in Nat /\ cnt[p][c] \in Nat /\ total[p] \in Nat /\ OnItsWay(p, c) \in Nat
    BY StatsTypes
  <2>4. CASE p = w
    <3>1. cnt'[p][c] = cnt[p][c] + 1 /\ total'[p] = total[p] + 1 BY <1>4, <1>5, <2>4
    <3> QED BY <3>1, <2>1, <2>2, <2>3, <1>1
  <2>5. CASE p # w
    <3>1. cnt'[p] = cnt[p] /\ total'[p] = total[p] BY <1>4, <1>5, <2>5
    <3> QED BY <3>1, <2>1, <2>2, <1>1
  <2> QED BY <2>4, <2>5
<1>7. ClearInv'
  <2> SUFFICES ASSUME mpc = "clear" PROVE ClearInv' BY <1>1 DEF ClearInv
  <2>1. call.op = "stats_read" /\ call.clear /\ got = cnt[call.pipe][call.stat]
    BY DEF StatsInv, ClearInv
  <2>2. call.pipe \in Pipelines BY CallFields
  <2>3. MainInside(call.pipe) BY DEF MainInside
  <2>4. ~ThreadInside(t, call.pipe) BY <2>2, <2>3, ExclusiveHolds DEF Exclusive
  <2>5. call.pipe # w BY <2>4, <1>1, <1>3 DEF ThreadInside
  <2>6. cnt'[call.pipe] = cnt[call.pipe] BY <1>4, <1>5, <2>2, <2>5
  <2> QED BY <2>1, <2>6, <1>1 DEF ClearInv
<1> QED BY <1>1, <1>6, <1>7 DEF StatsInv, StatsConserved

\* A handler of the pipeline's ring at work: its request is the call in progress.
LEMMA PipeHandlerCall ==
  ASSUME TypeOK, ExclusiveInv, NEW t \in Threads, HandleReady(t)
  PROVE  /\ mpc = "recv" /\ ~IsThreadCall /\ call.pipe = Current(t) /\ call \in Calls
         /\ Current(t) \in Pipelines
         /\ Head(preq[Current(t)]) = call /\ prsp[Current(t)] = <<>>
<1>1. Current(t) \in Pipelines /\ preq[Current(t)] # <<>> BY CurrentType DEF HandleReady
<1>2. /\ mpc = "recv" /\ ~IsThreadCall /\ call.pipe = Current(t)
      /\ preq[Current(t)] = <<call>> /\ prsp[Current(t)] = <<>>
  BY <1>1 DEF ExclusiveInv, PipeRings
<1>3. call \in Calls BY <1>2, CallFields
<1> QED BY <1>1, <1>2, <1>3

\* What a handler puts in the empty ring of answers.
LEMMA AnswerGiven ==
  ASSUME TypeOK, NEW p \in Pipelines, prsp[p] = <<>>, NEW n, Answer(p, n)
  PROVE  /\ prsp'[p] = <<n>>
         /\ \A q \in Pipelines : q # p => prsp'[q] = prsp[q]
<1>1. prsp \in [Pipelines -> Seq(Nat)] BY DEF TypeOK, RingType
<1> QED BY <1>1 DEF Answer

\* The counter and its clearing by the worker, the answer on its way to the caller.
LEMMA StatsReadStats ==
  ASSUME TypeOK, ExclusiveInv, StatsInv, NEW t \in Threads, pipeline_msg_handle_stats_read(t)
  PROVE  StatsInv'
<1>1. /\ HandleReady(t)
      /\ UNCHANGED <<mpc, call, got, told, total>>
  BY DEF pipeline_msg_handle_stats_read, mainVars
<1>2. /\ mpc = "recv" /\ ~IsThreadCall /\ call.pipe = Current(t) /\ call \in Calls
      /\ Current(t) \in Pipelines
      /\ Head(preq[Current(t)]) = call /\ prsp[Current(t)] = <<>>
  BY <1>1, PipeHandlerCall
<1>3. PICK w \in Pipelines : w = Current(t) BY <1>2
<1>4. /\ call.op = "stats_read"
      /\ cnt' = IF call.clear THEN [cnt EXCEPT ![w][call.stat] = 0] ELSE cnt
      /\ Answer(w, cnt[w][call.stat])
  BY <1>2, <1>3 DEF pipeline_msg_handle_stats_read
<1>5. call.stat \in Counters BY <1>2, <1>4, CallFields
<1>6. PICK n : n = cnt[w][call.stat] OBVIOUS
<1>7. Answer(w, n) /\ prsp[w] = <<>> BY <1>2, <1>3, <1>4, <1>6
<1>8. prsp'[w] = <<n>> BY <1>7, AnswerGiven
<1>9. prsp'[w] # <<>> /\ Head(prsp'[w]) = n BY <1>8
<1>10. cnt \in [Pipelines -> [Counters -> Nat]] /\ cnt[w] \in [Counters -> Nat]
  BY DEF TypeOK, DataType
<1>11. ASSUME NEW p \in Pipelines, NEW c \in Counters
       PROVE  told'[p][c] + OnItsWay(p, c)' + cnt'[p][c] = total'[p]
  <2>1. told[p][c] + OnItsWay(p, c) + cnt[p][c] = total[p] BY DEF StatsInv, StatsConserved
  <2>2. told[p][c] \in Nat /\ cnt[p][c] \in Nat /\ total[p] \in Nat BY StatsTypes
  <2>3. Clears(p, c)' <=> Clears(p, c) BY <1>1 DEF Clears
  <2>4. CASE Clears(p, c)
    <3>1. p = w /\ c = call.stat /\ call.clear BY <2>4, <1>2, <1>3 DEF Clears
    <3>2. OnItsWay(p, c) = 0 BY <3>1, <1>2, <1>3, OnItsWayCases
    <3>3. OnItsWay(p, c)' = n BY <2>3, <2>4, <3>1, <1>1, <1>2, <1>9, OnItsWayNext
    <3>4. cnt'[p][c] = 0 BY <3>1, <1>4, <1>5, <1>10
    <3> QED BY <3>1, <3>2, <3>3, <3>4, <2>1, <2>2, <1>1, <1>6
  <2>5. CASE ~Clears(p, c)
    <3>1. OnItsWay(p, c) = 0 /\ OnItsWay(p, c)' = 0 BY <2>3, <2>5, OnItsWayCases, OnItsWayNext
    <3>2. cnt'[p][c] = cnt[p][c]
      <4>1. CASE call.clear
        <5>1. ~(p = w /\ c = call.stat) BY <4>1, <2>5, <1>2, <1>3, <1>4 DEF Clears
        <5> QED BY <4>1, <5>1, <1>4, <1>5, <1>10
      <4>2. CASE ~call.clear BY <4>2, <1>4
      <4> QED BY <4>1, <4>2
    <3> QED BY <3>1, <3>2, <2>1, <1>1
  <2> QED BY <2>4, <2>5
<1> QED BY <1>1, <1>2, <1>11 DEF StatsInv, StatsConserved, ClearInv

LEMMA PortOpStats ==
  ASSUME TypeOK, ExclusiveInv, StatsInv, NEW t \in Threads, pipeline_msg_handle_port_op(t)
  PROVE  StatsInv'
<1>1. /\ HandleReady(t)
      /\ UNCHANGED <<mpc, call, told, cnt, total>>
  BY DEF pipeline_msg_handle_port_op, mainVars
<1>2. mpc = "recv" /\ Head(preq[Current(t)]) = call BY <1>1, PipeHandlerCall
<1>3. call.op # "stats_read" BY <1>2 DEF pipeline_msg_handle_port_op, PortOps
<1> QED BY <1>1, <1>2, <1>3, OtherStats

LEMMA ThreadStepStats ==
  ASSUME TypeOK, ExclusiveInv, StatsInv, NEW t \in Threads, ThreadStep(t) \/ Pass(t)
  PROVE  StatsInv'
<1>1. CASE run_pipeline(t)
  <2>1. CASE Packet(Current(t)) BY <1>1, <2>1, PacketStats
  <2>2. CASE UNCHANGED dataVars
    BY <1>1, <2>2, QuietStats DEF run_pipeline, mainVars, ringVars, dataVars
  <2> QED BY <1>1, <2>1, <2>2 DEF run_pipeline
<1>2. CASE run_again(t) \/ pipeline_queue_done(t) \/ thread_queue(t) \/ thread_queue_done(t)
  BY <1>2, QuietStats
  DEF run_again, pipeline_queue_done, thread_queue, thread_queue_done, mainVars, ringVars, dataVars
<1>3. CASE thread_msg_handle_pipeline_enable(t) \/ thread_msg_handle_pipeline_disable(t)
  BY <1>3, QuietStats
  DEF thread_msg_handle_pipeline_enable, thread_msg_handle_pipeline_disable, mainVars, dataVars
<1>4. CASE pipeline_msg_handle_port_op(t) BY <1>4, PortOpStats
<1>5. CASE pipeline_msg_handle_stats_read(t) BY <1>5, StatsReadStats
<1>6. CASE Pass(t) BY <1>6, QuietStats DEF Pass, control_pass, mainVars, ringVars, dataVars
<1> QED BY <1>1, <1>2, <1>3, <1>4, <1>5, <1>6 DEF ThreadStep

LEMMA InitStats == Init => StatsInv
<1> SUFFICES ASSUME Init PROVE StatsInv OBVIOUS
<1>1. mpc = "idle" BY DEF Init
<1>2. ASSUME NEW p \in Pipelines, NEW c \in Counters
      PROVE  told[p][c] + OnItsWay(p, c) + cnt[p][c] = total[p]
  <2>1. OnItsWay(p, c) = 0 BY <1>1, OnItsWayCases
  <2>2. told[p][c] = 0 /\ cnt[p][c] = 0 /\ total[p] = 0 BY DEF Init
  <2> QED BY <2>1, <2>2
<1> QED BY <1>1, <1>2 DEF StatsInv, StatsConserved, ClearInv

LEMMA NextStats == TypeOK /\ ExclusiveInv /\ StatsInv /\ [Next]_vars => StatsInv'
<1> SUFFICES ASSUME TypeOK, ExclusiveInv, StatsInv, [Next]_vars PROVE StatsInv' OBVIOUS
<1>1. CASE launch BY <1>1, QuietStats DEF launch, mainVars, ringVars, dataVars
<1>2. CASE MainStep BY <1>2, MainStepStats
<1>3. CASE MainCall BY <1>3, CallStats
<1>4. CASE \E t \in Threads : ThreadStep(t) \/ Pass(t) BY <1>4, ThreadStepStats
<1>5. CASE UNCHANGED vars BY <1>5, QuietStats DEF vars, mainVars, ringVars, dataVars
<1> QED BY <1>1, <1>2, <1>3, <1>4, <1>5 DEF Next

LEMMA StatsInductive == SafeSpec => []StatsInv
BY Inductive, InitStats, NextStats, PTL DEF SafeSpec

\* No packet escapes the statistics, and none is counted twice, while workers process
\* packets, answer reads with clear, and the main thread reads and clears idle pipelines.
THEOREM StatsAddUp == SafeSpec => []StatsConserved
<1>1. StatsInv => StatsConserved BY DEF StatsInv
<1> QED BY <1>1, StatsInductive, PTL

-----------------------------------------------------------------------------
(* The protocol implements ControlRpc.                                     *)

\* Under the refinement mapping a pipeline is where the arrays have it.
Mapped == RpcWhere = [p \in Pipelines |-> Place(p)]

\* There is at most one array to find it in.
LEMMA MappedHolds == TypeOK /\ ExclusiveInv => Mapped
<1> SUFFICES ASSUME TypeOK, ExclusiveInv, NEW p \in Pipelines PROVE RpcWhere[p] = Place(p)
  BY DEF Mapped, RpcWhere
<1>1. RpcWhere[p] = IF \E t \in Threads : InArray(t, p) THEN CHOOSE t \in Threads : InArray(t, p) ELSE None
  BY DEF RpcWhere
<1>2. \A t \in Threads : InArray(t, p) <=> Place(p) = t BY DEF ExclusiveInv, ArrayPlace
<1>3. Place(p) \in Threads \cup {None}
  <2>1. owner[p] \in Threads \cup {None} BY DEF TypeOK, MainType
  <2>2. mpc = "recv" /\ IsThreadCall => call.thread \in Threads BY CallFields
  <2> QED BY <2>1, <2>2 DEF Place
<1>4. CASE Place(p) \in Threads BY <1>1, <1>2, <1>4
<1>5. CASE Place(p) = None
  <2>1. \A t \in Threads : ~InArray(t, p) BY <1>2, <1>5
  <2> QED BY <1>1, <1>5, <2>1
<1> QED BY <1>3, <1>4, <1>5

\* The outcome of a call, case by case.
Outcome ==
  /\ RpcPhase # "done" => RpcResult = "ok"
  /\ RpcPhase = "done" /\ call.op = "stats_read" /\ mpc = "ret" => RpcResult = got
  /\ RpcPhase = "done" /\ call.op = "stats_read" /\ mpc # "ret" => RpcResult = Head(prsp[call.pipe])
  /\ RpcPhase = "done" /\ IsThreadCall /\ mpc = "recv" => RpcResult = Head(trsp[call.thread])
  /\ RpcPhase = "done" /\ call.op = "pipeline_enable" /\ mpc = "ret" =>
       RpcResult = IF InArray(call.thread, call.pipe) THEN "ok" ELSE "fail"
  /\ RpcPhase = "done" /\ call.op = "pipeline_disable" /\ mpc = "ret" => RpcResult = "ok"
  /\ RpcPhase = "done" /\ call.op \in PortOps => RpcResult = "ok"

\* It is, by the shape of the handlers.
LEMMA OutcomeHolds == Outcome
<1>1. \A o : o \in ThreadOps <=> o = "pipeline_enable" \/ o = "pipeline_disable" BY DEF ThreadOps
<1>2. \A o : o \in PortOps <=> o = "port_in_enable" \/ o = "port_in_disable" BY DEF PortOps
<1>3. "stats_read" \notin ThreadOps \cup PortOps BY <1>1, <1>2
<1>4. ~("pipeline_disable" = "pipeline_enable") /\ ~("recv" = "ret") /\ ~("pipeline_disable" = "stats_read")
      /\ ~("pipeline_enable" = "stats_read") /\ "pipeline_enable" \notin PortOps
  BY <1>2
<1>5. IsThreadCall => call.op \notin PortOps BY <1>1, <1>2 DEF IsThreadCall
<1>6. call.op = "stats_read" => ~IsThreadCall BY <1>3 DEF IsThreadCall
<1>7. RpcPhase # "done" => RpcResult = "ok" BY Zenon DEF RpcResult
<1>8. RpcPhase = "done" /\ call.op = "stats_read" =>
        RpcResult = IF mpc = "ret" THEN got ELSE Head(prsp[call.pipe])
  BY <1>6, Zenon DEF RpcResult
<1>9. RpcPhase = "done" /\ IsThreadCall /\ mpc = "recv" => RpcResult = Head(trsp[call.thread])
  BY <1>4, <1>6, Zenon DEF RpcResult
<1>10. RpcPhase = "done" /\ call.op = "pipeline_enable" /\ mpc = "ret" =>
         RpcResult = IF InArray(call.thread, call.pipe) THEN "ok" ELSE "fail"
  BY <1>4, Zenon DEF RpcResult
<1>11. RpcPhase = "done" /\ call.op = "pipeline_disable" /\ mpc = "ret" => RpcResult = "ok"
  BY <1>4, Zenon DEF RpcResult
<1>12. RpcPhase = "done" /\ call.op \in PortOps => RpcResult = "ok"
  BY <1>3, <1>4, <1>5, Zenon DEF RpcResult
<1> QED BY <1>7, <1>8, <1>9, <1>10, <1>11, <1>12 DEF Outcome

\* ControlRpc counts as this module does.
LEMMA SameCardinality == ASSUME NEW S PROVE Rpc!Cardinality(S) = Cardinality(S)
BY DEF Cardinality, Rpc!Cardinality

\* An array is full when its thread has no room.
LEMMA RoomThere ==
  ASSUME TypeOK, ExclusiveInv, NEW t \in Threads
  PROVE  Rpc!Room(t) <=> ~Full(t)
<1> DEFINE S == {q \in Pipelines : InArray(t, q)}
           f == [i \in 1..Len(pipes[t]) |-> pipes[t][i]]
<1>1. pipes[t] \in Seq(Pipelines) /\ Len(pipes[t]) \in Nat BY DEF TypeOK, ThreadType
<1>2. {q \in Pipelines : RpcWhere[q] = t} = S
  <2>1. \A q \in Pipelines : RpcWhere[q] = t <=> InArray(t, q)
    BY MappedHolds DEF Mapped, ExclusiveInv, ArrayPlace
  <2> QED BY <2>1
<1>3. f \in Bijection(1..Len(pipes[t]), S)
  <2>1. f \in [1..Len(pipes[t]) -> S] BY <1>1 DEF InArray
  <2>2. \A i, k \in 1..Len(pipes[t]) : f[i] = f[k] => i = k BY DEF ExclusiveInv, ArrayOnce
  <2>3. \A q \in S : \E i \in 1..Len(pipes[t]) : f[i] = q BY DEF InArray
  <2> HIDE DEF f, S
  <2> QED BY <2>1, <2>2, <2>3, Fun_IsBij
<1>4. Cardinality(S) = Len(pipes[t])
  <2>1. IsFiniteSet(1..Len(pipes[t])) /\ Cardinality(1..Len(pipes[t])) = Len(pipes[t])
    BY SMTT(60), <1>1, FS_Interval
  <2>2. ExistsBijection(1..Len(pipes[t]), S) BY <1>3 DEF ExistsBijection
  <2> HIDE DEF S
  <2> QED BY <2>1, <2>2, FS_Bijection
<1>5. PipelinesMax \in Nat OBVIOUS
<1> HIDE DEF S
<1>6. Rpc!Cardinality(S) = Len(pipes[t]) BY <1>4, SameCardinality
<1> QED BY SMTT(60), <1>1, <1>2, <1>5, <1>6 DEF Rpc!Room, Full

LEMMA InitRpc == Init => Rpc!Init
<1> SUFFICES ASSUME Init PROVE Rpc!Init OBVIOUS
<1>1. mpc = "idle" /\ launched = FALSE /\ call = NoCall BY DEF Init
<1>2. RpcPhase = "idle" BY <1>1 DEF RpcPhase
<1>3. RpcResult = "ok" BY <1>2, OutcomeHolds DEF Outcome
<1>4. RpcWhere = [p \in Pipelines |-> None]
  <2>1. \A t \in Threads, p \in Pipelines : ~InArray(t, p) BY DEF Init, InArray
  <2> QED BY <2>1 DEF RpcWhere
<1>5. port = [p \in Pipelines |-> FALSE] /\ cnt = [p \in Pipelines |-> [c \in Counters |-> 0]] BY DEF Init
<1> QED BY <1>1, <1>2, <1>3, <1>4, <1>5 DEF Rpc!Init, NoCall, Rpc!NoCall

\* The state of ControlRpc after a step.
LEMMA NextView ==
  ASSUME TypeOK, ExclusiveInv, [Next]_vars
  PROVE  /\ Outcome /\ Outcome'
         /\ RpcWhere = [p \in Pipelines |-> Place(p)]
         /\ RpcWhere' = [p \in Pipelines |-> Place(p)']
<1>1. TypeOK' /\ ExclusiveInv' BY NextType, NextExclusive
<1>2. Outcome' BY OutcomeHolds, PTL
<1>3. (TypeOK /\ ExclusiveInv => Mapped)' BY MappedHolds, PTL
<1> QED BY <1>1, <1>2, <1>3, OutcomeHolds, MappedHolds DEF Mapped

\* A step of the protocol that is none of ControlRpc.
LEMMA SameView ==
  ASSUME UNCHANGED <<launched, mpc, call, got, trsp, prsp, pipes, port, cnt>>
  PROVE  UNCHANGED Rpc!vars
<1>1. UNCHANGED <<RpcPhase, RpcWhere>> BY DEF RpcPhase, InEffect, IsThreadCall, RpcWhere, InArray
<1>2. RpcResult' = RpcResult BY <1>1 DEF RpcResult, IsThreadCall, InArray
<1> QED BY <1>1, <1>2 DEF Rpc!vars

\* A call begun is an Invoke.
LEMMA BeginRpc ==
  ASSUME TypeOK, ExclusiveInv, [Next]_vars, NEW c \in Calls, NEW running, Begin(c, running),
         c.op = "pipeline_enable" => owner[c.pipe] = None,
         c.op = "pipeline_disable" => owner[c.pipe] = c.thread
  PROVE  Rpc!Invoke
<1>1. /\ mpc = "idle" /\ mpc' \in {"send", "direct"} /\ call' = c
      /\ UNCHANGED <<launched, port, cnt, pipes>>
  BY DEF Begin, MayCall, threadVars, dataVars
<1>2. RpcPhase = "idle" /\ RpcPhase' = "called" BY <1>1 DEF RpcPhase, InEffect
<1>3. RpcResult = "ok" /\ RpcResult' = "ok" BY <1>2, NextView DEF Outcome
<1>4. RpcWhere' = RpcWhere BY <1>1 DEF RpcWhere, InArray
<1>5. \A p \in Pipelines : RpcWhere[p] = owner[p] BY <1>1, NextView DEF Place
<1>6. c \in Rpc!Calls BY DEF Rpc!Calls, Calls, ThreadOps, PortOps
<1>7. c.pipe \in Pipelines BY DEF Calls
<1> QED BY <1>1, <1>2, <1>3, <1>4, <1>5, <1>6, <1>7 DEF Rpc!Invoke

LEMMA CallRpc == TypeOK /\ ExclusiveInv /\ [Next]_vars /\ MainCall => Rpc!Invoke
<1> SUFFICES ASSUME TypeOK, ExclusiveInv, [Next]_vars, MainCall PROVE Rpc!Invoke OBVIOUS
<1>1. PICK p \in Pipelines :
    \/ \E t \in Threads : thread_pipeline_enable(t, p) \/ thread_pipeline_disable(t, p)
    \/ pipeline_port_in_enable(p) \/ pipeline_port_in_disable(p)
    \/ \E clr \in BOOLEAN : \/ pipeline_port_in_stats_read(p, clr)
                            \/ pipeline_port_out_stats_read(p, clr)
                            \/ pipeline_table_stats_read(p, clr)
  BY DEF MainCall
<1>2. ASSUME NEW t \in Threads, thread_pipeline_enable(t, p) PROVE Rpc!Invoke
  <2> DEFINE c == [op |-> "pipeline_enable", thread |-> t, pipe |-> p, stat |-> None, clear |-> FALSE]
  <2>1. c \in Calls /\ Begin(c, thread_is_running(t)) /\ owner[p] = None
    BY <1>2 DEF thread_pipeline_enable, Calls, ThreadOps
  <2>2. c.op = "pipeline_enable" /\ c.pipe = p OBVIOUS
  <2> HIDE DEF c
  <2> QED BY <2>1, <2>2, BeginRpc
<1>3. ASSUME NEW t \in Threads, thread_pipeline_disable(t, p) PROVE Rpc!Invoke
  <2> DEFINE c == [op |-> "pipeline_disable", thread |-> t, pipe |-> p, stat |-> None, clear |-> FALSE]
  <2>1. c \in Calls /\ Begin(c, thread_is_running(t)) /\ owner[p] = t
    BY <1>3 DEF thread_pipeline_disable, Calls, ThreadOps
  <2>2. c.op = "pipeline_disable" /\ c.pipe = p /\ c.thread = t OBVIOUS
  <2> HIDE DEF c
  <2> QED BY <2>1, <2>2, BeginRpc
<1>4. ASSUME NEW o \in PortOps, PortCall(o, p) PROVE Rpc!Invoke
  <2> DEFINE c == [op |-> o, thread |-> None, pipe |-> p, stat |-> None, clear |-> FALSE]
  <2>1. c \in Calls /\ Begin(c, pipeline_is_running(p)) BY <1>4 DEF PortCall, Calls
  <2>2. c.op # "pipeline_enable" /\ c.op # "pipeline_disable" BY DEF PortOps
  <2> HIDE DEF c
  <2> QED BY <2>1, <2>2, BeginRpc
<1>5. ASSUME NEW clr \in BOOLEAN, NEW k, StatsCall(k, p, clr) PROVE Rpc!Invoke
  <2> DEFINE c == [op |-> "stats_read", thread |-> None, pipe |-> p, stat |-> k, clear |-> clr]
  <2>1. c \in Calls /\ Begin(c, pipeline_is_running(p)) BY <1>5 DEF StatsCall, Calls
  <2>2. c.op # "pipeline_enable" /\ c.op # "pipeline_disable" OBVIOUS
  <2> HIDE DEF c
  <2> QED BY <2>1, <2>2, BeginRpc
<1>6. "port_in_enable" \in PortOps /\ "port_in_disable" \in PortOps BY DEF PortOps
<1> QED
  BY <1>1, <1>2, <1>3, <1>4, <1>5, <1>6
  DEF pipeline_port_in_enable, pipeline_port_in_disable,
      pipeline_port_in_stats_read, pipeline_port_out_stats_read, pipeline_table_stats_read

\* The end of a call whose work was done is a Return.
LEMMA ReturnRpc ==
  ASSUME TypeOK, ExclusiveInv, [Next]_vars, RpcPhase = "done", Return,
         UNCHANGED <<launched, pipes, port, cnt>>
  PROVE  Rpc!Return
<1>1. mpc' = "idle" /\ call' = NoCall BY DEF Return
<1>2. RpcPhase' = "idle" BY <1>1 DEF RpcPhase
<1>3. RpcResult' = "ok" BY <1>2, NextView DEF Outcome
<1>4. RpcWhere' = RpcWhere BY DEF RpcWhere, InArray
<1> QED BY <1>1, <1>2, <1>3, <1>4 DEF Rpc!Return, NoCall, Rpc!NoCall

\* A message sent, or statistics copied that are yet to be cleared: nothing of ControlRpc.
LEMMA NotYetRpc ==
  ASSUME TypeOK, ExclusiveInv, [Next]_vars, RpcPhase = "called", RpcPhase' = "called",
         UNCHANGED <<launched, call, pipes, port, cnt>>
  PROVE  UNCHANGED Rpc!vars
<1>1. RpcResult = "ok" /\ RpcResult' = "ok" BY NextView DEF Outcome
<1>2. RpcWhere' = RpcWhere BY DEF RpcWhere, InArray
<1> QED BY <1>1, <1>2 DEF Rpc!vars

\* A call whose work is done, by a worker or by the main thread, takes effect: what
\* remains to be said of each kind of call.
LEMMA EnableEffect ==
  ASSUME TypeOK, ExclusiveInv, [Next]_vars, RpcPhase = "called", RpcPhase' = "done",
         UNCHANGED <<launched, call, port, cnt>>,
         mpc # "idle", call.op = "pipeline_enable",
         \A q \in Pipelines : Place(q) = owner[q],
         \A q \in Pipelines : Place(q)' = IF ~Full(call.thread) /\ q = call.pipe
                                          THEN call.thread ELSE owner[q],
         RpcResult' = IF Full(call.thread) THEN "fail" ELSE "ok"
  PROVE  Rpc!TakeEffect
<1>1. call.thread \in Threads /\ call.pipe \in Pipelines BY CallFields DEF IsThreadCall, ThreadOps
<1>2. Rpc!Room(call.thread) <=> ~Full(call.thread) BY <1>1, RoomThere
<1>3. RpcWhere = [q \in Pipelines |-> Place(q)] /\ RpcWhere' = [q \in Pipelines |-> Place(q)'] BY NextView
<1>4. RpcWhere' = IF Rpc!Room(call.thread) THEN [RpcWhere EXCEPT ![call.pipe] = call.thread] ELSE RpcWhere
  <2>1. CASE Full(call.thread)
    <3>1. \A q \in Pipelines : Place(q)' = Place(q) BY <2>1
    <3> QED BY <2>1, <3>1, <1>2, <1>3
  <2>2. CASE ~Full(call.thread)
    <3>1. \A q \in Pipelines : Place(q)' = IF q = call.pipe THEN call.thread ELSE Place(q) BY <2>2
    <3> QED BY <2>2, <3>1, <1>1, <1>2, <1>3
  <2> QED BY <2>1, <2>2
<1>5. RpcResult' = IF Rpc!Room(call.thread) THEN "ok" ELSE "fail" BY <1>2
<1> QED BY <1>4, <1>5 DEF Rpc!TakeEffect

\* pipeline_disable, where it takes effect: the pipeline leaves its thread.
LEMMA DisableEffect ==
  ASSUME TypeOK, ExclusiveInv, [Next]_vars, RpcPhase = "called", RpcPhase' = "done",
         UNCHANGED <<launched, call, port, cnt>>,
         mpc # "idle", call.op = "pipeline_disable",
         \A q \in Pipelines : Place(q) = owner[q],
         \A q \in Pipelines : Place(q)' = IF q = call.pipe THEN None ELSE owner[q],
         RpcResult' = "ok"
  PROVE  Rpc!TakeEffect
<1>1. call.pipe \in Pipelines BY CallFields
<1>2. RpcWhere = [q \in Pipelines |-> Place(q)] /\ RpcWhere' = [q \in Pipelines |-> Place(q)'] BY NextView
<1>3. RpcWhere' = [RpcWhere EXCEPT ![call.pipe] = None] BY <1>1, <1>2
<1> QED BY <1>3 DEF Rpc!TakeEffect

\* Enabling or disabling a port, where it takes effect.
LEMMA PortEffect ==
  ASSUME TypeOK, ExclusiveInv, [Next]_vars, RpcPhase = "called", RpcPhase' = "done",
         UNCHANGED <<launched, call, pipes, cnt>>, call.op \in PortOps,
         port' = [port EXCEPT ![call.pipe] = (call.op = "port_in_enable")]
  PROVE  Rpc!TakeEffect
<1>1. RpcWhere' = RpcWhere BY DEF RpcWhere, InArray
<1>2. RpcResult' = "ok" BY NextView DEF Outcome
<1> QED BY <1>1, <1>2 DEF Rpc!TakeEffect, PortOps

\* A read of a counter, with or without clear, where it takes effect.
LEMMA StatsEffect ==
  ASSUME TypeOK, ExclusiveInv, [Next]_vars, RpcPhase = "called", RpcPhase' = "done",
         UNCHANGED <<launched, call, pipes, port>>, call.op = "stats_read",
         RpcResult' = cnt[call.pipe][call.stat],
         cnt' = IF call.clear THEN [cnt EXCEPT ![call.pipe][call.stat] = 0] ELSE cnt
  PROVE  Rpc!TakeEffect
<1>1. RpcWhere' = RpcWhere BY DEF RpcWhere, InArray
<1> QED BY <1>1 DEF Rpc!TakeEffect

LEMMA MainStepRpc ==
  ASSUME TypeOK, ExclusiveInv, ClearInv, [Next]_vars, MainStep
  PROVE  Rpc!TakeEffect \/ Rpc!Return \/ UNCHANGED Rpc!vars
<1>o. Outcome /\ Outcome' BY NextView
<1>1. CASE thread_msg_send \/ pipeline_msg_send
  <2>1. /\ mpc = "send" /\ mpc' = "recv"
        /\ UNCHANGED <<launched, call, trsp, prsp, pipes, port, cnt>>
    BY <1>1 DEF thread_msg_send, pipeline_msg_send, threadVars, dataVars
  <2>2. (IsThreadCall => trsp[call.thread] = <<>>) /\ (~IsThreadCall => prsp[call.pipe] = <<>>)
    BY <2>1, CallRings
  <2>3. RpcPhase = "called" BY <2>1 DEF RpcPhase, InEffect
  <2>4. RpcPhase' = "called" BY <2>1, <2>2 DEF RpcPhase, InEffect, IsThreadCall
  <2> QED BY <2>1, <2>3, <2>4, NotYetRpc
<1>2. CASE thread_msg_recv \/ pipeline_msg_recv
  <2>1. /\ mpc = "recv" /\ Return /\ UNCHANGED <<launched, pipes, port, cnt>>
        /\ (IF IsThreadCall THEN trsp[call.thread] # <<>> ELSE prsp[call.pipe] # <<>>)
    BY <1>2 DEF thread_msg_recv, pipeline_msg_recv, threadVars, dataVars
  <2>2. RpcPhase = "done" BY <2>1 DEF RpcPhase, InEffect
  <2> QED BY <2>1, <2>2, ReturnRpc
<1>3. CASE direct_pipeline_enable
  <2>1. /\ mpc = "direct" /\ mpc' = "ret" /\ call.op = "pipeline_enable"
        /\ UNCHANGED <<launched, call, port, cnt>>
        /\ pipes' = IF Full(call.thread) THEN pipes ELSE Append1(call.thread, call.pipe)
        /\ owner' = IF Full(call.thread) THEN owner ELSE [owner EXCEPT ![call.pipe] = call.thread]
    BY <1>3 DEF direct_pipeline_enable, dataVars
  <2>2. RpcPhase = "called" /\ RpcPhase' = "done" BY <2>1 DEF RpcPhase, InEffect
  <2>3. /\ \A q \in Pipelines : Place(q) = owner[q]
        /\ \A q \in Pipelines : Place(q)' = owner'[q]
    BY <2>1 DEF Place
  <2>4. call.thread \in Threads /\ call.pipe \in Pipelines /\ owner \in [Pipelines -> Threads \cup {None}]
    BY <2>1, CallFields DEF IsThreadCall, ThreadOps, TypeOK, MainType
  <2>5. \A q \in Pipelines : Place(q)' = IF ~Full(call.thread) /\ q = call.pipe THEN call.thread ELSE owner[q]
    BY <2>1, <2>3, <2>4
  <2>6. owner[call.pipe] = None BY <2>1 DEF ExclusiveInv, CallLegal
  <2>7. InArray(call.thread, call.pipe)' <=> ~Full(call.thread)
    <3>1. ArrayPlace' BY NextExclusive DEF ExclusiveInv
    <3>2. PICK t \in Threads : t = call.thread BY <2>4
    <3>3. PICK p \in Pipelines : p = call.pipe BY <2>4
    <3>4. InArray(t, p)' <=> Place(p)' = t BY <3>1 DEF ArrayPlace
    <3>5. Place(p)' = t <=> ~Full(t) BY <2>5, <2>6, <3>2, <3>3
    <3>6. InArray(call.thread, call.pipe)' <=> InArray(t, p)' BY <2>1, <3>2, <3>3 DEF InArray
    <3> QED BY <3>2, <3>4, <3>5, <3>6
  <2>8. RpcResult' = IF Full(call.thread) THEN "fail" ELSE "ok" BY <2>1, <2>2, <2>7, <1>o DEF Outcome
  <2> QED BY <2>1, <2>2, <2>3, <2>5, <2>8, EnableEffect
<1>4. CASE direct_pipeline_disable
  <2>1. /\ mpc = "direct" /\ mpc' = "ret" /\ call.op = "pipeline_disable"
        /\ UNCHANGED <<launched, call, port, cnt>>
        /\ owner' = IF InArray(call.thread, call.pipe) THEN [owner EXCEPT ![call.pipe] = None] ELSE owner
    BY <1>4 DEF direct_pipeline_disable, dataVars
  <2>2. RpcPhase = "called" /\ RpcPhase' = "done" BY <2>1 DEF RpcPhase, InEffect
  <2>3. /\ \A q \in Pipelines : Place(q) = owner[q]
        /\ \A q \in Pipelines : Place(q)' = owner'[q]
    BY <2>1 DEF Place
  <2>4. call.thread \in Threads /\ call.pipe \in Pipelines /\ owner \in [Pipelines -> Threads \cup {None}]
    BY <2>1, CallFields DEF IsThreadCall, ThreadOps, TypeOK, MainType
  <2>5. owner[call.pipe] = call.thread BY <2>1 DEF ExclusiveInv, CallLegal
  <2>6. InArray(call.thread, call.pipe) BY <2>3, <2>4, <2>5 DEF ExclusiveInv, ArrayPlace
  <2>7. \A q \in Pipelines : Place(q)' = IF q = call.pipe THEN None ELSE owner[q]
    BY <2>1, <2>3, <2>4, <2>6
  <2>8. RpcResult' = "ok" BY <2>1, <2>2, <1>o DEF Outcome
  <2> QED BY <2>1, <2>2, <2>3, <2>7, <2>8, DisableEffect
<1>5. CASE direct_port_op
  <2>1. /\ mpc = "direct" /\ mpc' = "ret" /\ call.op \in PortOps
        /\ UNCHANGED <<launched, call, pipes, cnt>>
        /\ port' = [port EXCEPT ![call.pipe] = (call.op = "port_in_enable")]
    BY <1>5 DEF direct_port_op, threadVars
  <2>2. RpcPhase = "called" /\ RpcPhase' = "done" BY <2>1 DEF RpcPhase, InEffect
  <2> QED BY <2>1, <2>2, PortEffect
<1>6. CASE direct_stats_copy
  <2>1. /\ mpc = "direct" /\ call.op = "stats_read" /\ got' = cnt[call.pipe][call.stat]
        /\ mpc' = (IF call.clear THEN "clear" ELSE "ret")
        /\ UNCHANGED <<launched, call, pipes, port, cnt>>
    BY <1>6 DEF direct_stats_copy, threadVars, dataVars
  <2>2. RpcPhase = "called" BY <2>1 DEF RpcPhase, InEffect
  <2>3. CASE call.clear
    <3>1. RpcPhase' = "called" BY <2>1, <2>3 DEF RpcPhase, InEffect
    <3> QED BY <2>1, <2>2, <3>1, NotYetRpc
  <2>4. CASE ~call.clear
    <3>1. mpc' = "ret" /\ RpcPhase' = "done" BY <2>1, <2>4 DEF RpcPhase, InEffect
    <3>2. RpcResult' = cnt[call.pipe][call.stat] BY <2>1, <3>1, <1>o DEF Outcome
    <3> QED BY <2>1, <2>2, <2>4, <3>1, <3>2, StatsEffect
  <2> QED BY <2>3, <2>4
<1>7. CASE direct_stats_clear
  <2>1. /\ mpc = "clear" /\ mpc' = "ret" /\ UNCHANGED <<launched, call, got, pipes, port>>
        /\ cnt' = [cnt EXCEPT ![call.pipe][call.stat] = 0]
    BY <1>7 DEF direct_stats_clear, threadVars
  <2>2. call.op = "stats_read" /\ call.clear /\ got = cnt[call.pipe][call.stat] BY <2>1 DEF ClearInv
  <2>3. RpcPhase = "called" /\ RpcPhase' = "done" BY <2>1 DEF RpcPhase, InEffect
  <2>4. RpcResult' = cnt[call.pipe][call.stat] BY <2>1, <2>2, <2>3, <1>o DEF Outcome
  <2> QED BY <2>1, <2>2, <2>3, <2>4, StatsEffect
<1>8. CASE direct_return
  <2>1. mpc = "ret" /\ Return /\ UNCHANGED <<launched, pipes, port, cnt>>
    BY <1>8 DEF direct_return, threadVars, dataVars
  <2>2. RpcPhase = "done" BY <2>1 DEF RpcPhase, InEffect
  <2> QED BY <2>1, <2>2, ReturnRpc
<1> QED BY <1>1, <1>2, <1>3, <1>4, <1>5, <1>6, <1>7, <1>8 DEF MainStep

\* An answer to the request of the pipeline's ring, by the worker that runs it.
LEMMA PipeHandlerRpc ==
  ASSUME TypeOK, ExclusiveInv, [Next]_vars, NEW t \in Threads,
         pipeline_msg_handle_port_op(t) \/ pipeline_msg_handle_stats_read(t)
  PROVE  Rpc!TakeEffect
<1>1. /\ HandleReady(t)
      /\ UNCHANGED <<launched, mpc, call, pipes>>
  BY DEF pipeline_msg_handle_port_op, pipeline_msg_handle_stats_read, mainVars, threadVars
<1>2. /\ mpc = "recv" /\ ~IsThreadCall /\ call.pipe = Current(t)
      /\ Current(t) \in Pipelines
      /\ Head(preq[Current(t)]) = call /\ prsp[Current(t)] = <<>>
  BY <1>1, PipeHandlerCall
<1>3. PICK w \in Pipelines : w = Current(t) BY <1>2
<1>4. PICK n : /\ Answer(w, n)
               /\ n = IF call.op = "stats_read" THEN cnt[w][call.stat] ELSE 0
  BY <1>2, <1>3 DEF pipeline_msg_handle_port_op, pipeline_msg_handle_stats_read, PortOps
<1>5. prsp'[w] = <<n>> BY <1>2, <1>3, <1>4, AnswerGiven
<1>6. prsp'[w] # <<>> /\ Head(prsp'[w]) = n BY <1>5
<1>7. RpcPhase = "called" BY <1>2, <1>3 DEF RpcPhase, InEffect
<1>8. RpcPhase' = "done" BY <1>1, <1>2, <1>3, <1>6 DEF RpcPhase, InEffect, IsThreadCall
<1>9. CASE pipeline_msg_handle_port_op(t)
  <2>1. /\ call.op \in PortOps /\ port' = [port EXCEPT ![call.pipe] = (call.op = "port_in_enable")]
        /\ cnt' = cnt
    BY <1>9, <1>2 DEF pipeline_msg_handle_port_op
  <2> QED BY <2>1, <1>1, <1>7, <1>8, PortEffect
<1>10. CASE pipeline_msg_handle_stats_read(t)
  <2>1. /\ call.op = "stats_read" /\ port' = port
        /\ cnt' = IF call.clear THEN [cnt EXCEPT ![call.pipe][call.stat] = 0] ELSE cnt
    BY <1>10, <1>2 DEF pipeline_msg_handle_stats_read
  <2>2. RpcResult' = Head(prsp'[w]) BY <2>1, <1>1, <1>2, <1>3, <1>8, NextView DEF Outcome
  <2>3. RpcResult' = cnt[call.pipe][call.stat] BY <2>1, <2>2, <1>2, <1>3, <1>4, <1>6
  <2> QED BY <2>1, <2>3, <1>1, <1>7, <1>8, StatsEffect
<1> QED BY <1>9, <1>10

\* An answer to the request of the thread's own ring.
LEMMA ThreadHandlerRpc ==
  ASSUME TypeOK, ExclusiveInv, [Next]_vars, NEW t \in Threads,
         thread_msg_handle_pipeline_enable(t) \/ thread_msg_handle_pipeline_disable(t)
  PROVE  Rpc!TakeEffect
<1>1. /\ treq[t] # <<>>
      /\ UNCHANGED <<launched, owner, mpc, call, port, cnt>>
  BY DEF thread_msg_handle_pipeline_enable, thread_msg_handle_pipeline_disable, mainVars, dataVars
<1>2. /\ mpc = "recv" /\ IsThreadCall /\ call.thread = t /\ call.pipe \in Pipelines /\ trsp[t] = <<>>
      /\ Head(treq[t]).op = call.op
      /\ \A q \in Pipelines : Place(q) = owner[q]
  BY <1>1, HandlerCall
<1>3. PICK s : /\ AnswerThread(t, s)
               /\ call.op = "pipeline_enable" => s = IF Full(t) THEN "fail" ELSE "ok"
               /\ call.op = "pipeline_disable" => s = "ok"
               /\ call.op \in ThreadOps
  BY <1>2 DEF thread_msg_handle_pipeline_enable, thread_msg_handle_pipeline_disable, IsThreadCall
<1>4. trsp'[t] = <<s>>
  <2>1. trsp \in [Threads -> Seq(Status)] BY DEF TypeOK, RingType
  <2> QED BY <2>1, <1>2, <1>3 DEF AnswerThread
<1>5. trsp'[t] # <<>> /\ Head(trsp'[t]) = s /\ (trsp'[t] = <<"ok">> <=> s = "ok") BY <1>4
<1>6. RpcPhase = "called" BY <1>2 DEF RpcPhase, InEffect
<1>7. IsThreadCall' BY <1>1, <1>2 DEF IsThreadCall
<1>8. RpcPhase' = "done" BY <1>1, <1>2, <1>5, <1>7 DEF RpcPhase, InEffect
<1>9. RpcResult' = s BY <1>1, <1>2, <1>5, <1>7, <1>8, NextView DEF Outcome
<1>10. \A q \in Pipelines : Place(q)' = IF s = "ok" /\ q = call.pipe
                                        THEN IF call.op = "pipeline_enable" THEN t ELSE None
                                        ELSE owner[q]
  BY <1>1, <1>2, <1>5, <1>7 DEF Place
<1>11. CASE call.op = "pipeline_enable"
  <2>1. \A q \in Pipelines : Place(q)' = IF ~Full(call.thread) /\ q = call.pipe THEN call.thread ELSE owner[q]
    BY <1>2, <1>3, <1>10, <1>11
  <2>2. RpcResult' = IF Full(call.thread) THEN "fail" ELSE "ok" BY <1>2, <1>3, <1>9, <1>11
  <2> QED BY <2>1, <2>2, <1>1, <1>2, <1>6, <1>8, <1>11, EnableEffect
<1>12. CASE call.op = "pipeline_disable"
  <2>1. \A q \in Pipelines : Place(q)' = IF q = call.pipe THEN None ELSE owner[q]
    BY <1>3, <1>10, <1>12
  <2> QED BY <2>1, <1>1, <1>2, <1>3, <1>6, <1>8, <1>9, <1>12, DisableEffect
<1> QED BY <1>3, <1>11, <1>12 DEF ThreadOps

LEMMA ThreadStepRpc ==
  ASSUME TypeOK, ExclusiveInv, [Next]_vars, NEW t \in Threads, ThreadStep(t) \/ Pass(t)
  PROVE  Rpc!TakeEffect \/ (\E p \in Pipelines : Rpc!Packet(p)) \/ UNCHANGED Rpc!vars
<1>1. CASE run_pipeline(t)
  <2>1. /\ pc[t] = "run" /\ InLoop(t)
        /\ UNCHANGED <<launched, mpc, call, got, trsp, prsp, pipes>>
    BY <1>1 DEF run_pipeline, mainVars, ringVars
  <2>2. CASE Packet(Current(t))
    <3>1. Current(t) \in Pipelines /\ idx[t] \in 1..Len(pipes[t]) BY <2>1, CurrentType
    <3>2. PICK w \in Pipelines : w = Current(t) BY <3>1
    <3>3. /\ port[w] /\ cnt' = [cnt EXCEPT ![w] = [c \in Counters |-> @[c] + 1]] /\ port' = port
      BY <2>2, <3>2 DEF Packet
    <3>4. launched BY <2>1 DEF ExclusiveInv, CallLegal, TypeOK, MainType
    <3>5. InArray(t, w) BY <3>1, <3>2 DEF InArray, Current
    <3>6. RpcWhere[w] # None BY <3>5, NextView DEF ExclusiveInv, ArrayPlace
    <3>7. UNCHANGED <<RpcPhase, RpcWhere>>
      BY <2>1 DEF RpcPhase, InEffect, IsThreadCall, RpcWhere, InArray
    <3>8. RpcResult' = RpcResult BY <2>1, <3>7 DEF RpcResult, IsThreadCall, InArray
    <3>9. Rpc!Packet(w) BY <2>1, <3>3, <3>4, <3>6, <3>7, <3>8 DEF Rpc!Packet
    <3> QED BY <3>9
  <2>3. CASE UNCHANGED dataVars BY <2>1, <2>3, SameView DEF dataVars
  <2> QED BY <1>1, <2>2, <2>3 DEF run_pipeline
<1>2. CASE run_again(t) \/ pipeline_queue_done(t) \/ thread_queue(t) \/ thread_queue_done(t)
  BY <1>2, SameView
  DEF run_again, pipeline_queue_done, thread_queue, thread_queue_done, mainVars, ringVars, dataVars
<1>3. CASE thread_msg_handle_pipeline_enable(t) \/ thread_msg_handle_pipeline_disable(t)
  BY <1>3, ThreadHandlerRpc
<1>4. CASE pipeline_msg_handle_port_op(t) \/ pipeline_msg_handle_stats_read(t)
  BY <1>4, PipeHandlerRpc
<1>5. CASE Pass(t) BY <1>5, SameView DEF Pass, control_pass, mainVars, ringVars, dataVars
<1> QED BY <1>1, <1>2, <1>3, <1>4, <1>5 DEF ThreadStep

LEMMA NextRpc == TypeOK /\ ExclusiveInv /\ ClearInv /\ [Next]_vars => [Rpc!Next]_(Rpc!vars)
<1> SUFFICES ASSUME TypeOK, ExclusiveInv, ClearInv, [Next]_vars PROVE [Rpc!Next]_(Rpc!vars) OBVIOUS
<1>1. CASE launch
  <2>1. ~launched /\ launched' = TRUE /\ UNCHANGED <<mpc, call, got, trsp, prsp, pipes, port, cnt>>
    BY <1>1 DEF launch, mainVars, ringVars, dataVars
  <2>2. UNCHANGED <<RpcPhase, RpcWhere>>
    BY <2>1 DEF RpcPhase, InEffect, IsThreadCall, RpcWhere, InArray
  <2>3. RpcResult' = RpcResult BY <2>1, <2>2 DEF RpcResult, IsThreadCall, InArray
  <2>4. Rpc!Launch BY <2>1, <2>2, <2>3 DEF Rpc!Launch
  <2> QED BY <2>4 DEF Rpc!Next
<1>2. CASE MainStep BY <1>2, MainStepRpc DEF Rpc!Next
<1>3. CASE MainCall BY <1>3, CallRpc DEF Rpc!Next
<1>4. CASE \E t \in Threads : ThreadStep(t) \/ Pass(t) BY <1>4, ThreadStepRpc DEF Rpc!Next
<1>5. CASE UNCHANGED vars
  BY <1>5, SameView DEF vars, mainVars, ringVars, threadVars, dataVars
<1> QED BY <1>1, <1>2, <1>3, <1>4, <1>5 DEF Next

\* Every control call takes effect exactly once, at one instant between its invocation
\* and its return, whatever the workers do meanwhile; the caller is told the outcome of
\* that instant; a packet is processed only by a running thread the pipeline is mapped to.
\* (Safety part of RpcSpec: the fairness of the abstract calls is checked by TLC.)
THEOREM ImplementsRpc == SafeSpec => Rpc!Init /\ [][Rpc!Next]_(Rpc!vars)
<1>1. StatsInv => ClearInv BY DEF StatsInv
<1> QED BY <1>1, Inductive, StatsInductive, InitRpc, NextRpc, PTL DEF SafeSpec
=============================================================================
