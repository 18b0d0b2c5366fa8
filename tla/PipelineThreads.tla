-------------------------- MODULE PipelineThreads --------------------------
(***************************************************************************)
(* The control protocol of ip_pipeline's thread.c.  The main thread keeps  *)
(* the user's view of the pipelines (struct pipeline: enabled, thread_id); *)
(* every worker lcore runs thread_main, a loop over its own array of       *)
(* pipelines, and looks at its message rings when its timers expire.       *)
(* While a pipeline is mapped to a running thread only that thread may     *)
(* touch its rte_pipeline: the main thread sends a request over a ring of  *)
(* the thread (enable, disable a pipeline) or of the pipeline (everything  *)
(* else) and spins until the response is there.  Otherwise the main thread *)
(* does the work itself.                                                   *)
(***************************************************************************)
EXTENDS Naturals, Sequences, FiniteSets

CONSTANTS
  Threads,         \* worker lcores: thread[i].enabled, set by thread_init
  Pipelines,       \* pipelines created with ports and tables
  PipelinesMax,    \* THREAD_PIPELINES_MAX
  MsgqSize,        \* usable slots of a message ring (THREAD_MSGQ_SIZE - 1)
  Counters,        \* the statistics kept: of an input port, an output port, a table
  MaxPkts,         \* bound on the packets a pipeline processes
  ConfigureFirst,  \* FALSE: threads are launched before any command (main.c)
  None

AllCounters == {"port_in", "port_out", "table"}

ASSUME ConstantsAssumption ==
  /\ PipelinesMax \in Nat
  /\ MsgqSize \in Nat \ {0}
  /\ MaxPkts \in Nat
  /\ Counters \subseteq AllCounters
  /\ ConfigureFirst \in BOOLEAN
  /\ None \notin Threads \cup Pipelines
  /\ Threads \cap Pipelines = {}

VARIABLES
  launched,  \* rte_eal_mp_remote_launch done: the workers are RUNNING
  owner,     \* owner[p]: p->thread_id when p->enabled, None otherwise
  mpc,       \* where the main thread is in a control call
  call,      \* the call it is in
  got,       \* statistics it has copied but not yet handed to the caller
  treq, trsp,  \* msgq_req and msgq_rsp of every thread
  preq, prsp,  \* msgq_req and msgq_rsp of every pipeline
  pipes,     \* pipes[t]: thread_data[t].p[0 .. n_pipelines - 1]
  pc, idx,   \* where thread_main of t is, and its loop variable j
  due,       \* the timers thread_main of t found expired in this control pass
  port,      \* port[p]: the input port of p is enabled in its rte_pipeline
  cnt,       \* cnt[p][c]: statistics counter c of p
  total,     \* ghost: packets p has processed since the start
  told       \* ghost: what callers were told of a counter and cleared

mainVars   == <<owner, mpc, call, got, told>>
ringVars   == <<treq, trsp, preq, prsp>>
threadVars == <<pipes, pc, idx, due>>
dataVars   == <<port, cnt, total>>
vars == <<launched, mainVars, ringVars, threadVars, dataVars>>

ThreadOps == {"pipeline_enable", "pipeline_disable"}
PortOps   == {"port_in_enable", "port_in_disable"}
Calls == [op : ThreadOps, thread : Threads, pipe : Pipelines, stat : {None}, clear : {FALSE}]
         \cup [op : PortOps, thread : {None}, pipe : Pipelines, stat : {None}, clear : {FALSE}]
         \cup [op : {"stats_read"}, thread : {None}, pipe : Pipelines,
               stat : Counters, clear : BOOLEAN]
NoCall == [op |-> "none", thread |-> None, pipe |-> None, stat |-> None, clear |-> FALSE]
ThreadReqs == [op : ThreadOps, pipe : Pipelines]
Status == {"ok", "fail"}

InArray(t, p) == \E i \in 1..Len(pipes[t]) : pipes[t][i] = p

MainType ==
  /\ launched \in BOOLEAN
  /\ owner \in [Pipelines -> Threads \cup {None}]
  /\ mpc \in {"idle", "send", "recv", "direct", "clear", "ret"}
  /\ call \in Calls \cup {NoCall}
  /\ (mpc = "idle") <=> (call = NoCall)
  /\ got \in Nat
  /\ told \in [Pipelines -> [Counters -> Nat]]
RingType ==
  /\ treq \in [Threads -> Seq(ThreadReqs)]
  /\ trsp \in [Threads -> Seq(Status)]
  /\ preq \in [Pipelines -> Seq(Calls)]
  /\ prsp \in [Pipelines -> Seq(Nat)]
ThreadType ==
  /\ pipes \in [Threads -> Seq(Pipelines)]
  /\ pc \in [Threads -> {"off", "run", "pipeq", "threadq"}]
  /\ idx \in [Threads -> Nat \ {0}]
  /\ due \in [Threads -> SUBSET (Threads \cup Pipelines)]
DataType ==
  /\ port \in [Pipelines -> BOOLEAN]
  /\ cnt \in [Pipelines -> [Counters -> Nat]]
  /\ total \in [Pipelines -> Nat]
TypeOK == MainType /\ RingType /\ ThreadType /\ DataType

Init ==
  /\ launched = FALSE
  /\ owner = [p \in Pipelines |-> None]
  /\ mpc = "idle" /\ call = NoCall /\ got = 0
  /\ treq = [t \in Threads |-> <<>>] /\ trsp = [t \in Threads |-> <<>>]
  /\ preq = [p \in Pipelines |-> <<>>] /\ prsp = [p \in Pipelines |-> <<>>]
  /\ pipes = [t \in Threads |-> <<>>]
  /\ pc = [t \in Threads |-> "off"] /\ idx = [t \in Threads |-> 1]
  /\ due = [t \in Threads |-> {}]
  /\ port = [p \in Pipelines |-> FALSE]
  /\ cnt = [p \in Pipelines |-> [c \in Counters |-> 0]]
  /\ total = [p \in Pipelines |-> 0]
  /\ told = [p \in Pipelines |-> [c \in Counters |-> 0]]

-----------------------------------------------------------------------------
(* The array of pipelines of a thread.                                     *)

Append1(t, p) == [pipes EXCEPT ![t] = Append(@, p)]

\* (slip: the last entry is dropped instead)
DropLast(s, i) == SubSeq(s, 1, Len(s) - 1)

\* The last entry takes the place of the one removed.
RemoveAt1(s, i) == [k \in 1..(Len(s) - 1) |-> IF k = i THEN s[Len(s)] ELSE s[k]]

\* Removes the entry of p (there is never a second one: OwnerAgrees); the array
\* stays as it is when p is not there.
Remove1(t, p) ==
  IF InArray(t, p)
  THEN [pipes EXCEPT ![t] = RemoveAt1(@, CHOOSE i \in 1..Len(@) : @[i] = p)]
  ELSE pipes

Full(t) == Len(pipes[t]) >= PipelinesMax

-----------------------------------------------------------------------------
(* The main thread: calls.  A call whose checks fail returns at once and   *)
(* changes nothing.                                                        *)

thread_is_running(t) == launched
pipeline_is_running(p) == owner[p] # None /\ launched

\* main.c launches every worker before the first command.
MayCall == mpc = "idle" /\ (launched \/ ConfigureFirst)

Begin(c, running) ==
  /\ MayCall
  /\ call' = c
  /\ mpc' = IF running THEN "send" ELSE "direct"
  /\ UNCHANGED <<launched, owner, got, told, ringVars, threadVars, dataVars>>

\* (slips: p->enabled, p->thread_id are not checked)
EnableUnchecked(t, p) ==
  Begin([op |-> "pipeline_enable", thread |-> t, pipe |-> p, stat |-> None, clear |-> FALSE],
        thread_is_running(t))
DisableUnchecked(t, p) ==
  /\ owner[p] # None
  /\ Begin([op |-> "pipeline_disable", thread |-> t, pipe |-> p, stat |-> None, clear |-> FALSE],
           thread_is_running(t))

thread_pipeline_enable(t, p) ==
  /\ owner[p] = None
  /\ Begin([op |-> "pipeline_enable", thread |-> t, pipe |-> p, stat |-> None, clear |-> FALSE],
           thread_is_running(t))

thread_pipeline_disable(t, p) ==
  /\ owner[p] = t
  /\ Begin([op |-> "pipeline_disable", thread |-> t, pipe |-> p, stat |-> None, clear |-> FALSE],
           thread_is_running(t))

PortCall(o, p) ==
  Begin([op |-> o, thread |-> None, pipe |-> p, stat |-> None, clear |-> FALSE],
        pipeline_is_running(p))

pipeline_port_in_enable(p)  == PortCall("port_in_enable", p)
pipeline_port_in_disable(p) == PortCall("port_in_disable", p)

StatsCall(c, p, clr) ==
  /\ c \in Counters
  /\ Begin([op |-> "stats_read", thread |-> None, pipe |-> p, stat |-> c, clear |-> clr],
           pipeline_is_running(p))

pipeline_port_in_stats_read(p, clr)  == StatsCall("port_in", p, clr)
pipeline_port_out_stats_read(p, clr) == StatsCall("port_out", p, clr)
pipeline_table_stats_read(p, clr)    == StatsCall("table", p, clr)

-----------------------------------------------------------------------------
(* The main thread: requests and responses.                                *)

IsThreadCall == call.op \in ThreadOps

\* (slip: the call is not forgotten)
ReturnKeeps == mpc' = "idle" /\ got' = 0 /\ UNCHANGED call

Return ==
  /\ mpc' = "idle" /\ call' = NoCall /\ got' = 0

\* What the caller of a statistics read with clear has been told of a counter.
Tell(n) == IF call.op = "stats_read" /\ call.clear
           THEN [told EXCEPT ![call.pipe][call.stat] = @ + n]
           ELSE told

\* rte_ring_sp_enqueue of the request; -ENOBUFS spins.
thread_msg_send ==
  /\ mpc = "send" /\ IsThreadCall
  /\ Len(treq[call.thread]) < MsgqSize
  /\ treq' = [treq EXCEPT ![call.thread] = Append(@, [op |-> call.op, pipe |-> call.pipe])]
  /\ mpc' = "recv"
  /\ UNCHANGED <<launched, owner, call, got, told, trsp, preq, prsp, threadVars, dataVars>>

\* rte_ring_sc_dequeue of the response, then "Request completion".
thread_msg_recv ==
  /\ mpc = "recv" /\ IsThreadCall
  /\ trsp[call.thread] # <<>>
  /\ trsp' = [trsp EXCEPT ![call.thread] = Tail(@)]
  /\ owner' = IF Head(trsp[call.thread]) = "ok"
              THEN [owner EXCEPT ![call.pipe] =
                      IF call.op = "pipeline_enable" THEN call.thread ELSE None]
              ELSE owner
  /\ Return
  /\ UNCHANGED <<launched, told, treq, preq, prsp, threadVars, dataVars>>

pipeline_msg_send ==
  /\ mpc = "send" /\ ~IsThreadCall
  /\ Len(preq[call.pipe]) < MsgqSize
  /\ preq' = [preq EXCEPT ![call.pipe] = Append(@, call)]
  /\ mpc' = "recv"
  /\ UNCHANGED <<launched, owner, call, got, told, treq, trsp, prsp, threadVars, dataVars>>

\* (slip: the main thread stops waiting)
RecvGivesUp ==
  /\ mpc = "recv" /\ ~IsThreadCall
  /\ UNCHANGED <<prsp, told>>
  /\ Return
  /\ UNCHANGED <<launched, owner, treq, trsp, preq, threadVars, dataVars>>

pipeline_msg_recv ==
  /\ mpc = "recv" /\ ~IsThreadCall
  /\ prsp[call.pipe] # <<>>
  /\ prsp' = [prsp EXCEPT ![call.pipe] = Tail(@)]
  /\ told' = Tell(Head(prsp[call.pipe]))
  /\ Return
  /\ UNCHANGED <<launched, owner, treq, trsp, preq, threadVars, dataVars>>

-----------------------------------------------------------------------------
(* The main thread: the branches for a thread or a pipeline that does not  *)
(* run, where it works on the data plane's structures itself.              *)

\* (slip: the thread's array being full is not noticed)
EnableAnyway ==
  /\ mpc = "direct" /\ call.op = "pipeline_enable"
  /\ pipes' = IF Full(call.thread) THEN pipes ELSE Append1(call.thread, call.pipe)
  /\ owner' = [owner EXCEPT ![call.pipe] = call.thread]
  /\ mpc' = "ret"
  /\ UNCHANGED <<launched, call, got, told, ringVars, pc, idx, due, dataVars>>

direct_pipeline_enable ==
  /\ mpc = "direct" /\ call.op = "pipeline_enable"
  /\ pipes' = IF Full(call.thread) THEN pipes ELSE Append1(call.thread, call.pipe)
  /\ owner' = IF Full(call.thread) THEN owner ELSE [owner EXCEPT ![call.pipe] = call.thread]
  /\ mpc' = "ret"
  /\ UNCHANGED <<launched, call, got, told, ringVars, pc, idx, due, dataVars>>

direct_pipeline_disable ==
  /\ mpc = "direct" /\ call.op = "pipeline_disable"
  /\ pipes' = Remove1(call.thread, call.pipe)
  /\ owner' = IF InArray(call.thread, call.pipe) THEN [owner EXCEPT ![call.pipe] = None]
                                                 ELSE owner
  /\ mpc' = "ret"
  /\ UNCHANGED <<launched, call, got, told, ringVars, pc, idx, due, dataVars>>

direct_port_op ==
  /\ mpc = "direct" /\ call.op \in PortOps
  /\ port' = [port EXCEPT ![call.pipe] = (call.op = "port_in_enable")]
  /\ mpc' = "ret"
  /\ UNCHANGED <<launched, owner, call, got, told, ringVars, threadVars, cnt, total>>

\* The library copies the counters out ...
direct_stats_copy ==
  /\ mpc = "direct" /\ call.op = "stats_read"
  /\ got' = cnt[call.pipe][call.stat]
  /\ mpc' = IF call.clear THEN "clear" ELSE "ret"
  /\ UNCHANGED <<launched, owner, call, told, ringVars, threadVars, dataVars>>

\* ... and then clears them.
direct_stats_clear ==
  /\ mpc = "clear"
  /\ cnt' = [cnt EXCEPT ![call.pipe][call.stat] = 0]
  /\ mpc' = "ret"
  /\ UNCHANGED <<launched, owner, call, got, told, ringVars, threadVars, port, total>>

direct_return ==
  /\ mpc = "ret"
  /\ told' = Tell(got)
  /\ Return
  /\ UNCHANGED <<launched, owner, ringVars, threadVars, dataVars>>

-----------------------------------------------------------------------------
(* The data plane threads.                                                 *)

\* rte_eal_mp_remote_launch(thread_main, NULL, SKIP_MAIN).
launch ==
  /\ ~launched /\ mpc = "idle"
  /\ launched' = TRUE
  /\ pc' = [t \in Threads |-> "run"]
  /\ UNCHANGED <<mainVars, ringVars, pipes, idx, due, dataVars>>

Current(t) == pipes[t][idx[t]]
InLoop(t)  == idx[t] <= Len(pipes[t])

\* One packet goes in at the input port, through the table and out.
Packet(p) ==
  /\ port[p] /\ total[p] < MaxPkts
  /\ cnt' = [cnt EXCEPT ![p] = [c \in Counters |-> @[c] + 1]]
  /\ total' = [total EXCEPT ![p] = @ + 1]
  /\ UNCHANGED port

\* (slip: the loop variable is moved twice)
RunEverySecond(t) ==
  /\ pc[t] = "run" /\ InLoop(t)
  /\ Packet(Current(t)) \/ UNCHANGED dataVars
  /\ idx' = [idx EXCEPT ![t] = @ + 2]
  /\ UNCHANGED <<launched, mainVars, ringVars, pipes, pc, due>>

\* The end of rte_pipeline_run(t->p[j]).
run_pipeline(t) ==
  /\ pc[t] = "run" /\ InLoop(t)
  /\ Packet(Current(t)) \/ UNCHANGED dataVars
  /\ idx' = [idx EXCEPT ![t] = @ + 1]
  /\ UNCHANGED <<launched, mainVars, ringVars, pipes, pc, due>>

\* (i & 0xF) != 0, or time < t->time_next_min.
run_again(t) ==
  /\ pc[t] = "run" /\ ~InLoop(t)
  /\ idx' = [idx EXCEPT ![t] = 1]
  /\ UNCHANGED <<launched, mainVars, ringVars, pipes, pc, due, dataVars>>

\* A control pass: S are the timers with time_next <= time, of the thread
\* itself and of its pipelines.
control_pass(t, S) ==
  /\ pc[t] = "run" /\ ~InLoop(t)
  /\ S # {} /\ S \subseteq {t} \cup {p \in Pipelines : InArray(t, p)}
  /\ due' = [due EXCEPT ![t] = S]
  /\ pc' = [pc EXCEPT ![t] = "pipeq"]
  /\ idx' = [idx EXCEPT ![t] = 1]
  /\ UNCHANGED <<launched, mainVars, ringVars, pipes, dataVars>>

\* Not yet time for pipeline j, or its ring is empty and it is flushed.
pipeline_queue_done(t) ==
  /\ pc[t] = "pipeq" /\ InLoop(t)
  /\ Current(t) \in due[t] => preq[Current(t)] = <<>>
  /\ idx' = [idx EXCEPT ![t] = @ + 1]
  /\ UNCHANGED <<launched, mainVars, ringVars, pipes, pc, due, dataVars>>

HandleReady(t) ==
  /\ pc[t] = "pipeq" /\ InLoop(t)
  /\ Current(t) \in due[t] /\ preq[Current(t)] # <<>>

\* pipeline_msg_handle: the request taken, served and answered with n.
Answer(p, n) ==
  /\ preq' = [preq EXCEPT ![p] = Tail(@)]
  /\ Len(prsp[p]) < MsgqSize
  /\ prsp' = [prsp EXCEPT ![p] = Append(@, n)]

pipeline_msg_handle_port_op(t) ==
  /\ HandleReady(t)
  /\ LET p == Current(t)  r == Head(preq[p])
     IN /\ r.op \in PortOps
        /\ port' = [port EXCEPT ![p] = (r.op = "port_in_enable")]
        /\ Answer(p, 0)
  /\ UNCHANGED <<launched, mainVars, treq, trsp, threadVars, cnt, total>>

\* (slip: the counter is cleared before it is copied)
ClearFirst(t) ==
  /\ HandleReady(t)
  /\ LET p == Current(t)  r == Head(preq[p])
     IN /\ r.op = "stats_read"
        /\ cnt' = IF r.clear THEN [cnt EXCEPT ![p][r.stat] = 0] ELSE cnt
        /\ Answer(p, cnt'[p][r.stat])
  /\ UNCHANGED <<launched, mainVars, treq, trsp, threadVars, port, total>>

pipeline_msg_handle_stats_read(t) ==
  /\ HandleReady(t)
  /\ LET p == Current(t)  r == Head(preq[p])
     IN /\ r.op = "stats_read"
        /\ cnt' = IF r.clear THEN [cnt EXCEPT ![p][r.stat] = 0] ELSE cnt
        /\ Answer(p, cnt[p][r.stat])
  /\ UNCHANGED <<launched, mainVars, treq, trsp, threadVars, port, total>>

\* (slip: the thread's own timer is not looked at)
OwnTimerForgotten(t) ==
  /\ pc[t] = "pipeq" /\ ~InLoop(t)
  /\ pc' = [pc EXCEPT ![t] = "run"]
  /\ due' = [due EXCEPT ![t] = {}]
  /\ idx' = [idx EXCEPT ![t] = 1]
  /\ UNCHANGED <<launched, mainVars, ringVars, pipes, dataVars>>

\* The thread's own timer: its message ring, or back to the data plane.
thread_queue(t) ==
  /\ pc[t] = "pipeq" /\ ~InLoop(t)
  /\ pc' = [pc EXCEPT ![t] = IF t \in due[t] THEN "threadq" ELSE "run"]
  /\ due' = IF t \in due[t] THEN due ELSE [due EXCEPT ![t] = {}]
  /\ idx' = [idx EXCEPT ![t] = 1]
  /\ UNCHANGED <<launched, mainVars, ringVars, pipes, dataVars>>

thread_queue_done(t) ==
  /\ pc[t] = "threadq" /\ treq[t] = <<>>
  /\ pc' = [pc EXCEPT ![t] = "run"]
  /\ due' = [due EXCEPT ![t] = {}]
  /\ UNCHANGED <<launched, mainVars, ringVars, pipes, idx, dataVars>>

AnswerThread(t, s) ==
  /\ treq' = [treq EXCEPT ![t] = Tail(@)]
  /\ Len(trsp[t]) < MsgqSize
  /\ trsp' = [trsp EXCEPT ![t] = Append(@, s)]

thread_msg_handle_pipeline_enable(t) ==
  /\ pc[t] = "threadq" /\ treq[t] # <<>>
  /\ Head(treq[t]).op = "pipeline_enable"
  /\ pipes' = IF Full(t) THEN pipes ELSE Append1(t, Head(treq[t]).pipe)
  /\ AnswerThread(t, IF Full(t) THEN "fail" ELSE "ok")
  /\ UNCHANGED <<launched, mainVars, preq, prsp, pc, idx, due, dataVars>>

\* Answers "ok" also when the pipeline is not found.
thread_msg_handle_pipeline_disable(t) ==
  /\ pc[t] = "threadq" /\ treq[t] # <<>>
  /\ Head(treq[t]).op = "pipeline_disable"
  /\ pipes' = Remove1(t, Head(treq[t]).pipe)
  /\ AnswerThread(t, "ok")
  /\ UNCHANGED <<launched, mainVars, preq, prsp, pc, idx, due, dataVars>>

-----------------------------------------------------------------------------
MainStep ==
  \/ thread_msg_send \/ thread_msg_recv \/ pipeline_msg_send \/ pipeline_msg_recv
  \/ direct_pipeline_enable \/ direct_pipeline_disable \/ direct_port_op
  \/ direct_stats_copy \/ direct_stats_clear \/ direct_return

MainCall ==
  \E p \in Pipelines :
    \/ \E t \in Threads : thread_pipeline_enable(t, p) \/ thread_pipeline_disable(t, p)
    \/ pipeline_port_in_enable(p) \/ pipeline_port_in_disable(p)
    \/ \E clr \in BOOLEAN : \/ pipeline_port_in_stats_read(p, clr)
                            \/ pipeline_port_out_stats_read(p, clr)
                            \/ pipeline_table_stats_read(p, clr)

ThreadStep(t) ==
  \/ run_pipeline(t) \/ run_again(t)
  \/ pipeline_queue_done(t) \/ pipeline_msg_handle_port_op(t) \/ pipeline_msg_handle_stats_read(t)
  \/ thread_queue(t) \/ thread_queue_done(t)
  \/ thread_msg_handle_pipeline_enable(t) \/ thread_msg_handle_pipeline_disable(t)

Pass(t) == \E S \in SUBSET (Threads \cup Pipelines) : control_pass(t, S)

Next ==
  \/ launch \/ MainStep \/ MainCall
  \/ \E t \in Threads : ThreadStep(t) \/ Pass(t)

\* The main thread and the workers run on lcores of their own.  The timer x of
\* thread t expires: x is among the expired timers of infinitely many of the
\* loop ends at which thread_main reads the clock.
PassWith(t, x) == \E S \in SUBSET (Threads \cup Pipelines) : x \in S /\ control_pass(t, S)

Fairness ==
  /\ WF_vars(launch) /\ WF_vars(MainStep)
  /\ \A t \in Threads : /\ WF_vars(ThreadStep(t))
                        /\ SF_vars(PassWith(t, t))
                        /\ \A p \in Pipelines : SF_vars(PassWith(t, p))

SafeSpec == Init /\ [][Next]_vars
Spec == SafeSpec /\ Fairness

-----------------------------------------------------------------------------
(* Who is inside the rte_pipeline of p.                                    *)

ThreadInside(t, p) ==
  /\ pc[t] \in {"run", "pipeq"} /\ InLoop(t) /\ Current(t) = p

MainInside(p) == mpc \in {"direct", "clear"} /\ call.pipe = p

\* No two threads are ever inside the same rte_pipeline, and the main thread is
\* not inside one that a data plane thread still runs: the library has no locks
\* (pipeline_is_running, the request rings and the order of their answers).
Exclusive ==
  \A p \in Pipelines :
    /\ \A t, u \in Threads : ThreadInside(t, p) /\ ThreadInside(u, p) => t = u
    /\ MainInside(p) => \A t \in Threads : ~ThreadInside(t, p)

\* Between calls the main thread's records say exactly which array each pipeline
\* is in, and it is in it once (p->enabled, p->thread_id against thread_data).
OwnerAgrees ==
  mpc = "idle" =>
    \A t \in Threads, p \in Pipelines :
      Cardinality({i \in 1..Len(pipes[t]) : pipes[t][i] = p}) = IF owner[p] = t THEN 1 ELSE 0

\* The request and response rings hold at most the message of the call in
\* progress, in the rings of the thread or pipeline it was sent to: no response
\* is left behind for a later call, and no enqueue ever spins on a full ring.
OneInFlight ==
  LET MsgsT(t) == Len(treq[t]) + Len(trsp[t])
      MsgsP(p) == Len(preq[p]) + Len(prsp[p])
  IN /\ \A t \in Threads : MsgsT(t) = IF mpc = "recv" /\ IsThreadCall /\ call.thread = t
                                      THEN 1 ELSE 0
     /\ \A p \in Pipelines : MsgsP(p) = IF mpc = "recv" /\ ~IsThreadCall /\ call.pipe = p
                                        THEN 1 ELSE 0

\* The disable handler always finds its pipeline: thread.c:524 "should not get here".
DisableFinds ==
  \A t \in Threads :
    treq[t] # <<>> /\ Head(treq[t]).op = "pipeline_disable" => InArray(t, Head(treq[t]).pipe)

\* No packet escapes the statistics: what callers were told by reads with clear,
\* what is on its way to one, and the counter add up to the packets processed.
OnItsWay(p, c) ==
  IF call.op = "stats_read" /\ call.clear /\ call.pipe = p /\ call.stat = c
  THEN CASE mpc = "ret" -> got
         [] mpc = "recv" /\ prsp[p] # <<>> -> Head(prsp[p])
         [] OTHER -> 0
  ELSE 0

StatsConserved ==
  \A p \in Pipelines, c \in Counters : told[p][c] + OnItsWay(p, c) + cnt[p][c] = total[p]

\* Every control call returns (the spin loops of *_msg_send_recv end).
CallReturns == (mpc # "idle") ~> (mpc = "idle")

\* Once the commands stop, a pipeline left enabled is run again and again, whatever
\* was enabled and disabled beside it.  (While commands keep coming a worker may stay
\* in the loop of *_msg_handle that empties a ring, so no more can be promised.)
EnabledPipelineRuns ==
  \A p \in Pipelines, t \in Threads :
    <>[](mpc = "idle" /\ launched /\ owner[p] = t) => []<>(pc[t] = "run" /\ ThreadInside(t, p))

-----------------------------------------------------------------------------
(* Why Exclusive holds: the inductive invariant.                           *)

\* A pipeline is in one array, at one place.
ArrayOnce ==
  \A t, u \in Threads : \A i \in 1..Len(pipes[t]), k \in 1..Len(pipes[u]) :
    pipes[t][i] = pipes[u][k] => t = u /\ i = k

\* The thread whose array p is in: owner[p], or what the answer on its way to
\* the main thread is about to make of it.
Place(p) ==
  IF mpc = "recv" /\ IsThreadCall /\ call.pipe = p /\ trsp[call.thread] = <<"ok">>
  THEN IF call.op = "pipeline_enable" THEN call.thread ELSE None
  ELSE owner[p]
ArrayPlace == \A t \in Threads, p \in Pipelines : InArray(t, p) <=> Place(p) = t

\* The checks a call began with still hold while it is under way.
CallLegal ==
  /\ mpc \in {"send", "recv"} => launched /\ (IsThreadCall \/ owner[call.pipe] # None)
  /\ mpc \in {"direct", "clear"} => ~launched \/ (~IsThreadCall /\ owner[call.pipe] = None)
  /\ mpc \in {"send", "recv", "direct"} =>
       /\ call.op = "pipeline_enable" => owner[call.pipe] = None
       /\ call.op = "pipeline_disable" => owner[call.pipe] = call.thread
  /\ ~launched => \A t \in Threads : pc[t] = "off"

\* The rings hold the request or the answer of the call in progress only.
ThreadRings ==
  \A t \in Threads :
    IF mpc = "recv" /\ IsThreadCall /\ call.thread = t
    THEN \/ treq[t] = <<[op |-> call.op, pipe |-> call.pipe]>> /\ trsp[t] = <<>>
         \/ treq[t] = <<>> /\ Len(trsp[t]) = 1
    ELSE treq[t] = <<>> /\ trsp[t] = <<>>
PipeRings ==
  \A p \in Pipelines :
    IF mpc = "recv" /\ ~IsThreadCall /\ call.pipe = p
    THEN \/ preq[p] = <<call>> /\ prsp[p] = <<>>
         \/ preq[p] = <<>> /\ Len(prsp[p]) = 1
    ELSE preq[p] = <<>> /\ prsp[p] = <<>>

ExclusiveInv == ArrayOnce /\ ArrayPlace /\ CallLegal /\ ThreadRings /\ PipeRings

-----------------------------------------------------------------------------
(* The refinement: a call is in effect once the data plane, or the main     *)
(* thread in its place, has done the work.                                 *)

InEffect == mpc = "ret" \/ (mpc = "recv" /\ IF IsThreadCall THEN trsp[call.thread] # <<>>
                                              ELSE prsp[call.pipe] # <<>>)
RpcPhase == IF mpc = "idle" THEN "idle" ELSE IF InEffect THEN "done" ELSE "called"
RpcWhere == [p \in Pipelines |-> IF \E t \in Threads : InArray(t, p)
                                 THEN CHOOSE t \in Threads : InArray(t, p)
                                 ELSE None]
RpcResult ==
  IF RpcPhase # "done" THEN "ok"
  ELSE CASE call.op = "stats_read" -> IF mpc = "ret" THEN got ELSE Head(prsp[call.pipe])
         [] IsThreadCall /\ mpc = "recv" -> Head(trsp[call.thread])
         [] call.op = "pipeline_enable" /\ mpc = "ret" ->
              IF InArray(call.thread, call.pipe) THEN "ok" ELSE "fail"
         [] OTHER -> "ok"

Rpc == INSTANCE ControlRpc WITH
         running <- launched, phase <- RpcPhase, result <- RpcResult, where <- RpcWhere

\* Every control call behaves as one instantaneous operation on the pipelines, and
\* completes (the protocol of thread.c implements ControlRpc).
RpcSpec == Rpc!Spec
=============================================================================
