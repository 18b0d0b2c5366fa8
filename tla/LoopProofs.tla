----------------------------- MODULE LoopProofs -----------------------------
(***************************************************************************)
(* The two things a loop of the program looks at now and then: the message *)
(* rings, by the timers of a data plane thread (ServiceTimers), and the    *)
(* white list file, by main (WhiteList).  No message ring is left alone,   *)
(* for any pipelines, periods and gap; and no change of the file is taken  *)
(* for none, for any versions that their sizes tell apart.                 *)
(***************************************************************************)
EXTENDS ServiceTimers, WhiteList, SequenceTheorems, TLAPS

-----------------------------------------------------------------------------
(* The timers of a thread.                                                 *)

\* What is known of the constants, in a form a step can cite.
LEMMA Constants ==
  /\ \A p \in Pipelines : Period[p] \in Int /\ Period[p] > 0
  /\ ThreadPeriod \in Int /\ ThreadPeriod > 0
  /\ Gap \in Int /\ Gap > 0
BY TimersAssumption

LEMMA LongestBounds ==
  ASSUME NEW a \in Int, NEW b \in Int
  PROVE  Longest(a, b) \in Int /\ Longest(a, b) >= a /\ Longest(a, b) >= b
BY DEF Longest

\* A timer of an enabled pipeline after a pass: it has not expired, and it is a period
\* after the ring was last looked at.
LEMMA RearmedTimer ==
  ASSUME TimersInv, NEW p \in on
  PROVE  /\ Rearmed(p) \in Int /\ Rearmed(p) > now
         /\ Rearmed(p) = (IF p \in Due THEN now ELSE since[p]) + Period[p]
<1>1. p \in Pipelines /\ now \in Int /\ time_next[p] \in Int /\ since[p] \in Int
  BY DEF TimersInv, TypeOK
<1>2. time_next[p] = since[p] + Period[p]
  BY DEF TimersInv, Kept
<1>3. Period[p] \in Int /\ Period[p] > 0
  BY <1>1, Constants
<1>4. CASE p \in Due
  BY <1>1, <1>3, <1>4 DEF Rearmed
<1>5. CASE p \notin Due
  <2>1. ~(time_next[p] <= now) BY <1>5 DEF Due
  <2> QED BY <2>1, <1>1, <1>2, <1>5 DEF Rearmed
<1> QED BY <1>4, <1>5

\* The new minimum is a timer that has not expired, and is below all that were looked at.
LEMMA LeastBounds ==
  ASSUME TimersInv, NEW m, NEW n \in Int, n > now, Least(m, n)
  PROVE  /\ m \in Int /\ m > now /\ m <= n
         /\ \A p \in on : m <= Rearmed(p)
<1>1. m \in {Rearmed(p) : p \in on} \cup {n}
  BY DEF Least, IsMin
<1>2. \A x \in {Rearmed(p) : p \in on} \cup {n} : m <= x
  BY DEF Least, IsMin
<1>3. m \in Int /\ m > now
  BY <1>1, RearmedTimer
<1> QED BY <1>2, <1>3

LEMMA InitInv == Init => TimersInv
BY Constants DEF Init, TimersInv, TypeOK, Recent, Kept

\* What a pass leaves of the timers of the pipelines, whatever is disabled and enabled
\* in it, when the minimum is bounded by the thread's period from now.
LEMMA HandleKeeps ==
  ASSUME TimersInv, NEW D, NEW EE \in SUBSET Pipelines, NEW e \in Int, e >= now,
         NEW end \in Int, Handle(D, EE, e, end),
         NEW m \in Int, \A p \in on : m <= Rearmed(p),
         EE # {} => m <= now + ThreadPeriod
  PROVE  /\ on' \subseteq Pipelines
         /\ time_next' \in [Pipelines -> Int] /\ since' \in [Pipelines -> Int]
         /\ \A p \in on' : /\ time_next'[p] = since'[p] + Period[p]
                           /\ m <= since'[p] + Longest(Period[p], ThreadPeriod)
<1>1. now \in Int /\ on \subseteq Pipelines /\ time_next \in [Pipelines -> Int]
      /\ since \in [Pipelines -> Int]
  BY DEF TimersInv, TypeOK
<1>2. on' = (on \ D) \cup EE
  BY DEF Handle
<1>3. time_next' = [p \in Pipelines |-> IF p \in EE THEN e + Period[p] ELSE Rearmed(p)]
  BY DEF Handle
<1>4. since' = [p \in Pipelines |-> IF p \in EE THEN e ELSE IF p \in Due THEN now ELSE since[p]]
  BY DEF Handle
<1>5. \A p \in Pipelines : Period[p] \in Int /\ Period[p] > 0
  BY Constants
<1>6. ASSUME NEW p \in Pipelines PROVE Rearmed(p) \in Int
  <2>1. now + Period[p] \in Int /\ time_next[p] \in Int
    BY <1>1, <1>5
  <2> QED BY <2>1 DEF Rearmed
<1>7. time_next' \in [Pipelines -> Int]
  <2>1. ASSUME NEW p \in Pipelines
        PROVE  (IF p \in EE THEN e + Period[p] ELSE Rearmed(p)) \in Int
    <3>1. e + Period[p] \in Int /\ Rearmed(p) \in Int
      BY <1>5, <1>6
    <3> QED BY <3>1
  <2> QED BY <1>3, <2>1
<1>8. since' \in [Pipelines -> Int]
  BY <1>1, <1>4
<1>9. ASSUME NEW p \in on'
      PROVE  /\ time_next'[p] = since'[p] + Period[p]
             /\ m <= since'[p] + Longest(Period[p], ThreadPeriod)
  <2>1. p \in Pipelines
    BY <1>1, <1>2
  <2>2. /\ Period[p] \in Int /\ ThreadPeriod \in Int
        /\ Longest(Period[p], ThreadPeriod) \in Int
        /\ Longest(Period[p], ThreadPeriod) >= Period[p]
        /\ Longest(Period[p], ThreadPeriod) >= ThreadPeriod
    BY <2>1, Constants, LongestBounds
  <2>3. CASE p \in EE
    <3>1. time_next'[p] = e + Period[p] /\ since'[p] = e
      BY <1>3, <1>4, <2>1, <2>3
    <3>2. m <= now + ThreadPeriod
      BY <2>3
    <3> QED BY <3>1, <3>2, <2>2, <1>1
  <2>4. CASE p \notin EE
    <3>1. p \in on
      BY <1>2, <2>4
    <3>2. time_next'[p] = Rearmed(p) /\ since'[p] = (IF p \in Due THEN now ELSE since[p])
      BY <1>3, <1>4, <2>1, <2>4
    <3>3. Rearmed(p) = since'[p] + Period[p] /\ m <= Rearmed(p)
      BY <3>1, <3>2, RearmedTimer
    <3>4. since'[p] \in Int
      BY <1>8, <2>1
    <3> QED BY <3>2, <3>3, <3>4, <2>2
  <2> QED BY <2>3, <2>4
<1> QED BY <1>1, <1>2, <1>7, <1>8, <1>9

\* Every step keeps the invariant.
LEMMA NextInv == TimersInv /\ [Next]_vars => TimersInv'
<1> SUFFICES ASSUME TimersInv, [Next]_vars PROVE TimersInv'
  OBVIOUS
<1>0. /\ now \in Int /\ look \in Int /\ t_next \in Int /\ time_next_min \in Int /\ t_since \in Int
      /\ Gap \in Int /\ Gap > 0 /\ ThreadPeriod \in Int /\ ThreadPeriod > 0
      /\ look < time_next_min /\ time_next_min <= t_next /\ t_next <= t_since + ThreadPeriod
  BY Constants DEF TimersInv, TypeOK, Recent, Kept
<1>1. CASE run
  <2>1. UNCHANGED <<look, on, time_next, t_next, time_next_min, since, t_since>>
    BY <1>1 DEF run
  <2>2. now' \in Int /\ now' <= look + Gap
    BY <1>0, <1>1 DEF run
  <2> QED BY <2>1, <2>2 DEF TimersInv, TypeOK, Recent, Kept
<1>2. CASE too_early
  <2>1. UNCHANGED <<now, on, time_next, t_next, time_next_min, since, t_since>> /\ look' = now
    BY <1>2 DEF too_early
  <2>2. now < time_next_min /\ now <= now + Gap
    BY <1>0, <1>2 DEF too_early
  <2> QED BY <2>1, <2>2 DEF TimersInv, TypeOK, Recent, Kept
<1>3. CASE pass_pipelines
  <2>1. PICK end \in now..(now + Gap) : now' = end /\ Handle({}, {}, now, end)
    BY <1>3 DEF pass_pipelines
  <2>2. /\ t_next > now /\ Least(time_next_min', t_next)
        /\ look' = now /\ t_next' = t_next /\ t_since' = t_since
    BY <1>3 DEF pass_pipelines
  <2>3. /\ time_next_min' \in Int /\ time_next_min' > now /\ time_next_min' <= t_next
        /\ \A p \in on : time_next_min' <= Rearmed(p)
    BY <1>0, <2>2, LeastBounds
  <2>4. end \in Int /\ now <= end /\ end <= now + Gap
    BY <1>0, <2>1
  <2>5. /\ on' \subseteq Pipelines
        /\ time_next' \in [Pipelines -> Int] /\ since' \in [Pipelines -> Int]
        /\ \A p \in on' : /\ time_next'[p] = since'[p] + Period[p]
                          /\ time_next_min' <= since'[p] + Longest(Period[p], ThreadPeriod)
    <3>1. {} \in SUBSET Pipelines
      OBVIOUS
    <3>2. now >= now
      BY <1>0
    <3> QED BY ONLY <1>0, <2>1, <2>3, <2>4, <3>1, <3>2, TimersInv, HandleKeeps
  <2>6. TypeOK' BY <1>0, <2>1, <2>2, <2>3, <2>4, <2>5 DEF TypeOK
  <2>7. Recent' BY <1>0, <2>1, <2>2, <2>3, <2>4 DEF Recent
  <2>8. Kept' BY <1>0, <2>2, <2>3, <2>5 DEF Kept
  <2> QED BY <2>6, <2>7, <2>8 DEF TimersInv
<1>4. CASE pass_thread
  <2>0. PICK end \in now..(now + Gap) :
          /\ now' = end
          /\ \E D \in SUBSET on, e \in now..end :
               \E EE \in SUBSET (Pipelines \ (on \ D)) : Handle(D, EE, e, end)
    BY <1>4 DEF pass_thread
  <2>1. PICK D \in SUBSET on, e \in now..end :
          \E EE \in SUBSET (Pipelines \ (on \ D)) : Handle(D, EE, e, end)
    BY <2>0
  <2>a. PICK EE \in SUBSET Pipelines : Handle(D, EE, e, end)
    BY <2>1
  <2>2. /\ t_next' = now + ThreadPeriod /\ Least(time_next_min', t_next')
        /\ look' = now /\ t_since' = now
    BY <1>4 DEF pass_thread
  <2>3. t_next' \in Int /\ t_next' > now
    BY <1>0, <2>2
  <2>4. /\ time_next_min' \in Int /\ time_next_min' > now /\ time_next_min' <= t_next'
        /\ \A p \in on : time_next_min' <= Rearmed(p)
    BY <2>2, <2>3, LeastBounds
  <2>5. end \in Int /\ now <= end /\ end <= now + Gap /\ e \in Int /\ now <= e
    BY <1>0, <2>0, <2>1
  <2>6. /\ on' \subseteq Pipelines
        /\ time_next' \in [Pipelines -> Int] /\ since' \in [Pipelines -> Int]
        /\ \A p \in on' : /\ time_next'[p] = since'[p] + Period[p]
                          /\ time_next_min' <= since'[p] + Longest(Period[p], ThreadPeriod)
    BY <1>0, <2>a, <2>2, <2>4, <2>5, HandleKeeps
  <2>7. TypeOK' BY <1>0, <2>0, <2>2, <2>3, <2>4, <2>5, <2>6 DEF TypeOK
  <2>8. Recent' BY <1>0, <2>0, <2>2, <2>4, <2>5 DEF Recent
  <2>9. Kept' BY <1>0, <2>2, <2>4, <2>6 DEF Kept
  <2> QED BY <2>7, <2>8, <2>9 DEF TimersInv
<1>5. CASE UNCHANGED vars
  BY <1>5 DEF vars, TimersInv, TypeOK, Recent, Kept
<1> QED BY <1>1, <1>2, <1>3, <1>4, <1>5 DEF Next

\* The invariant bounds the wait for both kinds of rings.
LEMMA InvServed == TimersInv => ServedInTime /\ ThreadServedInTime
<1> SUFFICES ASSUME TimersInv PROVE ServedInTime /\ ThreadServedInTime
  OBVIOUS
<1>1. /\ now \in Int /\ look \in Int /\ t_next \in Int /\ time_next_min \in Int /\ t_since \in Int
      /\ Gap \in Int /\ ThreadPeriod \in Int
      /\ now <= look + Gap /\ look < time_next_min
      /\ time_next_min <= t_next /\ t_next <= t_since + ThreadPeriod
  BY Constants DEF TimersInv, TypeOK, Recent, Kept
<1>2. ThreadServedInTime
  BY <1>1 DEF ThreadServedInTime
<1>3. ASSUME NEW p \in on
      PROVE  now <= since[p] + Longest(Period[p], ThreadPeriod) + Gap
  <2>1. p \in Pipelines /\ since[p] \in Int
    BY DEF TimersInv, TypeOK
  <2>2. Longest(Period[p], ThreadPeriod) \in Int
    BY <2>1, Constants, LongestBounds
  <2>3. time_next_min <= since[p] + Longest(Period[p], ThreadPeriod)
    BY DEF TimersInv, Kept
  <2> QED BY <1>1, <2>1, <2>2, <2>3
<1> QED BY <1>2, <1>3 DEF ServedInTime

\* The message ring of a pipeline is looked at in time, however pipelines come and go
\* on the thread and however the periods compare.
THEOREM PipelinesServed == Spec => []ServedInTime
BY InitInv, NextInv, InvServed, PTL DEF Spec

\* The message ring of the thread is looked at in time.
THEOREM ThreadServed == Spec => []ThreadServedInTime
BY InitInv, NextInv, InvServed, PTL DEF Spec

-----------------------------------------------------------------------------
(* The white list file.                                                    *)

\* Every variable stays in its type.
LEMMA WatchTypeCorrect == WatchSpec => []WatchTypeOK
<1> USE WhiteListAssumption
<1>1. WatchInit => WatchTypeOK
  <2>1. SUFFICES ASSUME WatchInit PROVE WatchTypeOK
    OBVIOUS
  <2>2. <<>> \in Seq(Blocks)
    OBVIOUS
  <2>3. past \subseteq Versions
    BY <2>1 DEF WatchInit
  <2>4. QED
    BY <2>1, <2>2, <2>3 DEF WatchInit, WatchTypeOK
<1>2. ASSUME WatchTypeOK, [WatchNext]_watch_vars
      PROVE  WatchTypeOK'
  <2>1. CASE Editor
    <3>1. CASE remove
      BY <1>2, <3>1 DEF WatchTypeOK, remove
    <3>2. ASSUME NEW v \in Versions, rewrite(v)
          PROVE  WatchTypeOK'
      <4>1. v # None
        OBVIOUS
      <4>2. CASE named
        BY <1>2, <3>2, <4>1, <4>2 DEF WatchTypeOK, rewrite, fresh
      <4>3. CASE ~named
        BY <1>2, <3>2, <4>3 DEF WatchTypeOK, rewrite, fresh
      <4>4. QED
        BY <4>2, <4>3
    <3>3. ASSUME NEW v \in Versions, replace(v)
          PROVE  WatchTypeOK'
      BY <1>2, <3>3 DEF WatchTypeOK, replace, fresh
    <3>4. QED
      BY <2>1, <3>1, <3>2, <3>3 DEF Editor
  <2>2. CASE look_at_size
    <3>1. current_file_size \in Nat
      BY <1>2 DEF WatchTypeOK, current_file_size
    <3>2. QED
      BY <1>2, <2>2, <3>1 DEF WatchTypeOK, look_at_size, NewSize, disk
  <2>3. CASE open_script
    <3>1. <<>> \in Seq(Blocks)
      OBVIOUS
    <3>2. CASE file = None
      BY <1>2, <2>3, <3>2 DEF WatchTypeOK, open_script, disk
    <3>3. CASE file # None
      BY <1>2, <2>3, <3>1, <3>3 DEF WatchTypeOK, open_script, disk
    <3>4. QED
      BY <3>2, <3>3
  <2>4. CASE read_script
    <3>1. stream \in Versions /\ Content[stream] \in Seq(Blocks)
      BY <1>2, <2>4 DEF WatchTypeOK, read_script
    <3>2. Len(loaded) + 1 \in 1..Len(Content[stream])
      BY <1>2, <2>4, <3>1 DEF WatchTypeOK, read_script
    <3>3. loaded' \in Seq(Blocks)
      BY <1>2, <2>4, <3>1, <3>2 DEF WatchTypeOK, read_script
    <3>4. QED
      BY <1>2, <2>4, <3>3 DEF WatchTypeOK, read_script, disk
  <2>5. CASE close_script
    BY <1>2, <2>5 DEF WatchTypeOK, close_script, disk
  <2>6. CASE UNCHANGED watch_vars
    BY <1>2, <2>6 DEF WatchTypeOK, watch_vars
  <2>7. QED
    BY <1>2, <2>1, <2>2, <2>3, <2>4, <2>5, <2>6 DEF WatchNext, Main
<1>3. QED
  BY <1>1, <1>2, PTL DEF WatchSpec

-----------------------------------------------------------------------------
(* Edits. *)

\* A version that is new has not the size that is remembered, unless it is empty and
\* nothing is run yet.
LEMMA FreshSize ==
  ASSUME WatchTypeOK, FileInv, Distinguishable, NEW v \in Versions \ past, Size[v] = file_size
  PROVE  pc = "look" /\ loaded = Content[v]
<1>1. \A w \in past : Size[w] # file_size
  BY DEF Distinguishable, WatchTypeOK
<1>2. file_size \in Unset \cup {0}
  BY <1>1 DEF FileInv, SizeSeen
<1>3. file_size = 0 /\ Content[v] = <<>>
  BY <1>2 DEF Distinguishable
<1>4. QED
  BY <1>1, <1>3 DEF FileInv, NothingRun

\* Whatever an editor does.
LEMMA EditorKeeps ==
  ASSUME WatchTypeOK, FileInv, Distinguishable, Editor
  PROVE  FileInv'
<1>1. /\ UNCHANGED <<pc, st_size, file_size, loaded>>
      /\ past \subseteq past'
  BY DEF Editor, remove, rewrite, replace, fresh
<1>2. CASE remove
  BY <1>1, <1>2 DEF remove, FileInv, FirstLook, SizeSeen, NothingRun, ReadsFile,
     SameSizeSameFile
<1>3. ASSUME NEW v \in Versions, fresh(v)
      PROVE  FileInv'
  <2>1. v \in Versions \ past /\ file' = v /\ v \in past'
    BY <1>3 DEF fresh
  <2>2. (file # None => file \in past)'
    BY <2>1
  <2>3. FirstLook' /\ SizeSeen' /\ NothingRun'
    BY <1>1 DEF FileInv, FirstLook, SizeSeen, NothingRun
  <2>4. ASSUME Size[v] = file_size
        PROVE  pc = "look" /\ loaded = Content[v]
    BY <2>1, <2>4, FreshSize
  <2>5. ReadsFile' /\ SameSizeSameFile'
    BY <1>1, <2>1, <2>4 DEF ReadsFile, SameSizeSameFile
  <2>6. QED
    BY <2>2, <2>3, <2>5 DEF FileInv
<1>4. QED
  BY <1>2, <1>3 DEF Editor, rewrite, replace

-----------------------------------------------------------------------------
(* The main thread. *)

\* A look, with or without a change of size.
LEMMA LookKeeps ==
  ASSUME WatchTypeOK, FileInv, Distinguishable, look_at_size
  PROVE  FileInv'
<1>1. /\ UNCHANGED <<file, past, stream, named, loaded>>
      /\ pc = "look" /\ pc' \in {"look", "open"}
  BY DEF look_at_size, disk
<1>2. st_size' = file_size' /\ st_size' = current_file_size
  BY DEF look_at_size, NewSize
<1>3. CASE file # None
  <2>1. st_size' = Size[file] /\ file \in past
    BY <1>2, <1>3 DEF current_file_size, FileInv
  <2>2. SizeSeen'
    BY <1>1, <1>2, <2>1 DEF SizeSeen
  <2>3. CASE Size[file] = file_size
    <3>1. pc' = "look" /\ file_size' = file_size
      BY <1>3, <2>3, <1>1 DEF look_at_size, current_file_size
    <3>2. QED
      BY <1>1, <1>2, <2>2, <3>1 DEF FileInv, FirstLook, NothingRun, ReadsFile, SameSizeSameFile
  <2>4. CASE Size[file] # file_size
    <3>1. pc' = "open"
      BY <1>3, <2>4 DEF look_at_size, current_file_size
    <3>2. NothingRun'
      BY <1>1, <1>2, <2>1 DEF NothingRun
    <3>3. QED
      BY <1>1, <1>2, <2>1, <2>2, <3>1, <3>2 DEF FileInv, FirstLook, ReadsFile, SameSizeSameFile
  <2>5. QED
    BY <2>3, <2>4
<1>4. CASE file = None
  <2>1. st_size' = st_size
    BY <1>2, <1>4 DEF current_file_size
  <2>2. CASE st_size = file_size
    BY <1>1, <1>2, <1>4, <2>1, <2>2
       DEF look_at_size, current_file_size, FileInv, FirstLook, SizeSeen, NothingRun, ReadsFile,
           SameSizeSameFile
  <2>3. CASE st_size # file_size
    <3>1. file_size = 0 /\ loaded = <<>> /\ st_size \in Unset
      BY <2>3 DEF FileInv, FirstLook
    <3>2. QED
      BY <1>1, <1>2, <1>4, <2>1, <2>3, <3>1
         DEF FileInv, FirstLook, SizeSeen, NothingRun, ReadsFile, SameSizeSameFile
  <2>4. QED
    BY <2>2, <2>3
<1>5. QED
  BY <1>3, <1>4

\* The script is opened, or there is no file by now.
LEMMA OpenKeeps ==
  ASSUME WatchTypeOK, FileInv, Distinguishable, open_script
  PROVE  FileInv'
<1> USE WhiteListAssumption
<1>1. UNCHANGED <<file, past, st_size, file_size>> /\ pc = "open"
  BY DEF open_script, disk
<1>2. st_size = file_size
  BY <1>1 DEF FileInv, FirstLook
<1>3. FirstLook' /\ SizeSeen'
  BY <1>1, <1>2 DEF FileInv, FirstLook, SizeSeen
<1>4. NothingRun'
  BY <1>1 DEF FileInv, NothingRun
<1>5. CASE file = None
  BY <1>1, <1>3, <1>4, <1>5 DEF open_script, FileInv, ReadsFile, SameSizeSameFile
<1>6. CASE file # None
  <2>1. pc' = "read" /\ stream' = file /\ named' = TRUE /\ loaded' = <<>>
    BY <1>6 DEF open_script
  <2>2. Content[file] \in Seq(Blocks)
    BY <1>6 DEF WatchTypeOK
  <2>3. ReadsFile'
    BY <1>1, <2>1, <2>2 DEF ReadsFile
  <2>4. QED
    BY <1>1, <1>3, <1>4, <2>1, <2>3 DEF FileInv, SameSizeSameFile
<1>7. QED
  BY <1>5, <1>6

\* A block is run.
LEMMA ReadKeeps ==
  ASSUME WatchTypeOK, FileInv, Distinguishable, read_script
  PROVE  FileInv'
<1> USE WhiteListAssumption
<1>1. /\ UNCHANGED <<file, past, pc, st_size, file_size, stream, named>>
      /\ pc = "read" /\ Len(loaded) < Len(Content[stream])
      /\ loaded' = Append(loaded, Content[stream][Len(loaded) + 1])
  BY DEF read_script, disk
<1>2. FirstLook' /\ SizeSeen' /\ NothingRun' /\ SameSizeSameFile'
  BY <1>1 DEF FileInv, FirstLook, SizeSeen, NothingRun, SameSizeSameFile
<1>3. ReadsFile'
  <2>1. SUFFICES ASSUME file # None, Size[file] = file_size
                 PROVE  /\ named /\ stream = file
                        /\ Len(loaded') <= Len(Content[file])
                        /\ \A k \in 1..Len(loaded') : loaded'[k] = Content[file][k]
    BY <1>1 DEF ReadsFile
  <2>2. /\ named /\ stream = file
        /\ \A k \in 1..Len(loaded) : loaded[k] = Content[file][k]
    BY <1>1, <2>1 DEF FileInv, ReadsFile
  <2>3. Content[file] \in Seq(Blocks) /\ loaded \in Seq(Blocks)
    BY <2>1 DEF WatchTypeOK
  <2>4. QED
    BY <1>1, <2>2, <2>3
<1>4. QED
  BY <1>1, <1>2, <1>3 DEF FileInv

\* The script ends.
LEMMA CloseKeeps ==
  ASSUME WatchTypeOK, FileInv, Distinguishable, close_script
  PROVE  FileInv'
<1> USE WhiteListAssumption
<1>1. /\ UNCHANGED <<file, past, st_size, file_size, loaded>>
      /\ pc = "read" /\ pc' = "look" /\ Len(loaded) >= Len(Content[stream])
  BY DEF close_script, disk
<1>2. FirstLook' /\ SizeSeen' /\ NothingRun' /\ ReadsFile'
  BY <1>1 DEF FileInv, FirstLook, SizeSeen, NothingRun, ReadsFile
<1>3. SameSizeSameFile'
  <2>1. SUFFICES ASSUME file # None, Size[file] = file_size
                 PROVE  loaded = Content[file]
    BY <1>1 DEF SameSizeSameFile
  <2>2. /\ stream = file /\ Len(loaded) <= Len(Content[file])
        /\ \A k \in 1..Len(loaded) : loaded[k] = Content[file][k]
    BY <1>1, <2>1 DEF FileInv, ReadsFile
  <2>3. Content[file] \in Seq(Blocks) /\ loaded \in Seq(Blocks)
    BY <2>1 DEF WatchTypeOK
  <2>4. Len(loaded) = Len(Content[file])
    BY <1>1, <2>2, <2>3
  <2>5. QED
    BY <2>2, <2>3, <2>4, SeqEqual
<1>4. QED
  BY <1>1, <1>2, <1>3 DEF FileInv

-----------------------------------------------------------------------------
\* When main finds the file to have the size it remembers, that file is what it ran last,
\* for any versions that can be told apart by their sizes, in any order of edits.
THEOREM LookTells == Distinguishable /\ WatchSpec => []SameSizeSameFile
<1>1. ASSUME Distinguishable PROVE WatchInit => FileInv
  <2>1. SUFFICES ASSUME WatchInit PROVE FileInv
    OBVIOUS
  <2>2. FirstLook /\ SizeSeen /\ NothingRun /\ ReadsFile
    BY <2>1 DEF WatchInit, FirstLook, SizeSeen, NothingRun, ReadsFile
  <2>3. SameSizeSameFile
    BY <1>1, <2>1 DEF WatchInit, SameSizeSameFile, Distinguishable
  <2>4. QED
    BY <2>1, <2>2, <2>3 DEF WatchInit, FileInv
<1>2. ASSUME Distinguishable, WatchTypeOK, FileInv, [WatchNext]_watch_vars
      PROVE  FileInv'
  <2>1. CASE UNCHANGED watch_vars
    BY <1>2, <2>1 DEF watch_vars, FileInv, FirstLook, SizeSeen, NothingRun, ReadsFile,
       SameSizeSameFile
  <2>2. QED
    BY <1>2, <2>1, EditorKeeps, LookKeeps, OpenKeeps, ReadKeeps, CloseKeeps DEF WatchNext, Main
<1>3. FileInv => SameSizeSameFile
  BY DEF FileInv
<1>4. SUFFICES ASSUME Distinguishable PROVE WatchSpec => []SameSizeSameFile
  OBVIOUS
<1>5. WatchInit => FileInv
  BY <1>1, <1>4
<1>6. WatchTypeOK /\ FileInv /\ [WatchNext]_watch_vars => FileInv'
  BY <1>2, <1>4
<1>7. QED
  BY <1>3, <1>5, <1>6, WatchTypeCorrect, PTL DEF WatchSpec
=============================================================================
