----------------------------- MODULE ControlRpc -----------------------------
(***************************************************************************)
(* What thread.c promises to the command line: a control call takes effect *)
(* exactly once, at one instant between its invocation and its return,     *)
(* whatever the data plane threads are doing; the caller is told the       *)
(* outcome of that instant; and a pipeline is mapped to one thread at most *)
(* and processes packets only while it is mapped to a running thread with  *)
(* its input port enabled.  Rings, timers and loops do not exist here.     *)
(***************************************************************************)
EXTENDS Naturals, FiniteSets

CONSTANTS Threads, Pipelines, PipelinesMax, Counters, MaxPkts, None

VARIABLES
  running,  \* the data plane threads run
  phase,    \* "idle", "called" (not yet in effect), "done"
  call,     \* the call in progress
  result,   \* its outcome
  where,    \* where[p]: the thread p is mapped to, or None
  port,     \* the input port of p is enabled
  cnt       \* statistics counters of p

vars == <<running, phase, call, result, where, port, cnt>>

Calls == [op : {"pipeline_enable", "pipeline_disable"}, thread : Threads, pipe : Pipelines,
          stat : {None}, clear : {FALSE}]
         \cup [op : {"port_in_enable", "port_in_disable"}, thread : {None}, pipe : Pipelines,
               stat : {None}, clear : {FALSE}]
         \cup [op : {"stats_read"}, thread : {None}, pipe : Pipelines,
               stat : Counters, clear : BOOLEAN]
NoCall == [op |-> "none", thread |-> None, pipe |-> None, stat |-> None, clear |-> FALSE]

Init ==
  /\ running = FALSE /\ phase = "idle" /\ call = NoCall /\ result = "ok"
  /\ where = [p \in Pipelines |-> None]
  /\ port = [p \in Pipelines |-> FALSE]
  /\ cnt = [p \in Pipelines |-> [c \in Counters |-> 0]]

Launch == ~running /\ running' = TRUE /\ UNCHANGED <<phase, call, result, where, port, cnt>>

Invoke ==
  /\ phase = "idle"
  /\ \E c \in Calls :
       /\ c.op = "pipeline_enable" => where[c.pipe] = None
       /\ c.op = "pipeline_disable" => where[c.pipe] = c.thread
       /\ call' = c
  /\ phase' = "called"
  /\ UNCHANGED <<running, result, where, port, cnt>>

Room(t) == Cardinality({q \in Pipelines : where[q] = t}) < PipelinesMax

TakeEffect ==
  /\ phase = "called" /\ phase' = "done"
  /\ \/ /\ call.op = "pipeline_enable"
        /\ where' = IF Room(call.thread) THEN [where EXCEPT ![call.pipe] = call.thread]
                                         ELSE where
        /\ result' = IF Room(call.thread) THEN "ok" ELSE "fail"
        /\ UNCHANGED <<port, cnt>>
     \/ /\ call.op = "pipeline_disable"
        /\ where' = [where EXCEPT ![call.pipe] = None]
        /\ result' = "ok"
        /\ UNCHANGED <<port, cnt>>
     \/ /\ call.op \in {"port_in_enable", "port_in_disable"}
        /\ port' = [port EXCEPT ![call.pipe] = (call.op = "port_in_enable")]
        /\ result' = "ok"
        /\ UNCHANGED <<where, cnt>>
     \/ /\ call.op = "stats_read"
        /\ result' = cnt[call.pipe][call.stat]
        /\ cnt' = IF call.clear THEN [cnt EXCEPT ![call.pipe][call.stat] = 0] ELSE cnt
        /\ UNCHANGED <<where, port>>
  /\ UNCHANGED <<running, call>>

Return ==
  /\ phase = "done" /\ phase' = "idle" /\ call' = NoCall /\ result' = "ok"
  /\ UNCHANGED <<running, where, port, cnt>>

Packet(p) ==
  /\ running /\ where[p] # None /\ port[p]
  /\ cnt' = [cnt EXCEPT ![p] = [c \in Counters |-> @[c] + 1]]
  /\ UNCHANGED <<running, phase, call, result, where, port>>

Next == Launch \/ Invoke \/ TakeEffect \/ Return \/ \E p \in Pipelines : Packet(p)

Spec == Init /\ [][Next]_vars /\ WF_vars(TakeEffect) /\ WF_vars(Return)
=============================================================================
