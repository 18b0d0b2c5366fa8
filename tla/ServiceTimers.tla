--------------------------- MODULE ServiceTimers ----------------------------
(***************************************************************************)
(* The control plane of thread_main, seen from its clock: when a data      *)
(* plane thread looks at the message rings of its pipelines and at its     *)
(* own.  The thread looks at the clock every sixteenth round of the data   *)
(* plane and passes over all its timers when time_next_min has come, a     *)
(* lower bound of the timers it keeps, except of those of pipelines        *)
(* enabled since.  The main thread spins for an answer all this while.     *)
(***************************************************************************)
EXTENDS Integers

CONSTANTS
  Pipelines,
  Period,        \* p->timer_period of every pipeline (pipeline_create refuses 0)
  ThreadPeriod,  \* THREAD_TIMER_PERIOD_MS
  Gap,           \* bound on the time from one look at the clock to the next
  MaxTime        \* bound on the time

ASSUME TimersAssumption ==
  /\ Period \in [Pipelines -> Nat \ {0}]
  /\ ThreadPeriod \in Nat \ {0}
  /\ Gap \in Nat \ {0}
  /\ MaxTime \in Nat

VARIABLES
  now,            \* the time stamp counter
  look,           \* `time': the last look at the clock
  on,             \* the pipelines in thread_data.p
  time_next,      \* pipeline_data.time_next
  t_next,         \* thread_data.time_next
  time_next_min,  \* thread_data.time_next_min
  since,          \* ghost: since when the ring of a pipeline has not been looked at
  t_since         \* ghost: the same of the thread's ring

vars == <<now, look, on, time_next, t_next, time_next_min, since, t_since>>

TypeOK ==
  /\ now \in Int /\ look \in Int
  /\ on \subseteq Pipelines
  /\ time_next \in [Pipelines -> Int] /\ since \in [Pipelines -> Int]
  /\ t_next \in Int /\ time_next_min \in Int /\ t_since \in Int

\* thread_init some time before the threads are launched; the first look is at once.
Init ==
  /\ now = 0 /\ look = -1
  /\ on = {}
  /\ time_next = [p \in Pipelines |-> 0] /\ since = [p \in Pipelines |-> 0]
  /\ t_next \in 0..ThreadPeriod /\ time_next_min = t_next /\ t_since = 0

-----------------------------------------------------------------------------
\* The data plane works.
run ==
  /\ now < look + Gap /\ now < MaxTime
  /\ now' = now + 1
  /\ UNCHANGED <<look, on, time_next, t_next, time_next_min, since, t_since>>

\* A look at the clock before time_next_min.
too_early ==
  /\ now < time_next_min
  /\ look' = now
  /\ UNCHANGED <<now, on, time_next, t_next, time_next_min, since, t_since>>

\* The pipelines whose rings are looked at in this pass.
Due == {p \in on : time_next[p] <= now}

Rearmed(p) == IF p \in Due THEN now + Period[p] ELSE time_next[p]

IsMin(m, T) == m \in T /\ \A x \in T : m <= x

\* (slips: the thread's own timer, or the timers that were not due, are left out)
LeastOfPipelines(m, n) == IF on = {} THEN m = now + ThreadPeriod + Gap
                                     ELSE IsMin(m, {Rearmed(p) : p \in on})
LeastRearmed(m, n) == IsMin(m, {Rearmed(p) : p \in Due} \cup {n})

\* The new time_next_min m, with n the thread's own timer.
Least(m, n) == IsMin(m, {Rearmed(p) : p \in on} \cup {n})

\* thread_msg_handle between now and end: pipelines D are disabled, then E enabled at
\* the time e.
Handle(D, E, e, end) ==
  /\ on' = (on \ D) \cup E
  /\ time_next' = [p \in Pipelines |-> IF p \in E THEN e + Period[p] ELSE Rearmed(p)]
  /\ since' = [p \in Pipelines |-> IF p \in E THEN e ELSE IF p \in Due THEN now ELSE since[p]]

\* A pass over the timers; the thread's own timer has not expired.
pass_pipelines ==
  /\ now >= time_next_min /\ t_next > now
  /\ \E end \in now..(now + Gap) :
       /\ end <= MaxTime /\ now' = end
       /\ Handle({}, {}, now, end)
  /\ Least(time_next_min', t_next)
  /\ look' = now
  /\ UNCHANGED <<t_next, t_since>>

\* A pass over the timers and the thread's own ring.
pass_thread ==
  /\ now >= time_next_min /\ t_next <= now
  /\ \E end \in now..(now + Gap) :
       /\ end <= MaxTime /\ now' = end
       /\ \E D \in SUBSET on, e \in now..end :
            \E E \in SUBSET (Pipelines \ (on \ D)) : Handle(D, E, e, end)
  /\ t_next' = now + ThreadPeriod
  /\ Least(time_next_min', t_next')
  /\ look' = now /\ t_since' = now

Next == run \/ too_early \/ pass_pipelines \/ pass_thread

Spec == Init /\ [][Next]_vars

-----------------------------------------------------------------------------
Longest(a, b) == IF a >= b THEN a ELSE b

\* The ring of a pipeline is never left alone for longer than its period, or the
\* thread's if that is longer, and one look: a pipeline enabled in mid-period does not
\* fall behind the cached minimum time_next_min.
ServedInTime ==
  \A p \in on : now <= since[p] + Longest(Period[p], ThreadPeriod) + Gap

\* ... and the thread's own ring for no longer than its period and one look, whatever
\* timers the pipelines have.
ThreadServedInTime == now <= t_since + ThreadPeriod + Gap

-----------------------------------------------------------------------------
(* Why: the inductive invariant.                                           *)

Recent == now <= look + Gap /\ look < time_next_min
Kept ==
  /\ time_next_min <= t_next /\ t_next <= t_since + ThreadPeriod
  /\ \A p \in on : /\ time_next[p] = since[p] + Period[p]
                   /\ time_next_min <= since[p] + Longest(Period[p], ThreadPeriod)
TimersInv == TypeOK /\ Recent /\ Kept
=============================================================================
