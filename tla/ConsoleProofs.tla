--------------------------- MODULE ConsoleProofs ----------------------------
(* Proofs about Console, for any clients, texts and buffer sizes.            *)
EXTENDS Console, SequenceTheorems, FiniteSetTheorems, TLAPS

(* What parse_tokenize_string leaves of a buffer. *)

LEMMA TokenizedType ==
  ASSUME NEW m \in Seq(Bytes)
  PROVE  /\ Tokenized(m) \in Seq(Bytes)
         /\ Len(Tokenized(m)) = Len(m)
         /\ \A c \in Clients : LastBy(Tokenized(m), c) => LastBy(m, c)
<1> DEFINE t == Tokenized(m)
<1>1. Len(m) \in Nat /\ \A k \in 1..Len(m) : m[k] \in Bytes
  OBVIOUS
<1>2. t = [k \in 1..Len(m) |-> t[k]]
  BY DEF Tokenized
<1>3. ASSUME NEW k \in 1..Len(m)
      PROVE  t[k] \in Bytes /\ t[k].by = m[k].by
  <2>1. t[k] = m[k] \/ t[k] = [m[k] EXCEPT !.ch = "nul"]
    BY DEF Tokenized
  <2>2. m[k] \in Bytes
    BY <1>1
  <2>3. QED
    BY <2>1, <2>2 DEF Bytes
<1>4. t \in [1..Len(m) -> Bytes]
  BY <1>2, <1>3
<1>5. t \in Seq(Bytes) /\ Len(t) = Len(m)
  BY <1>1, <1>4
<1>6. ASSUME NEW c \in Clients, LastBy(t, c)
      PROVE  LastBy(m, c)
  <2>1. Len(m) \in 1..Len(m)
    BY <1>5, <1>6 DEF LastBy
  <2>2. QED
    BY <1>3, <1>5, <1>6, <2>1 DEF LastBy
<1>7. QED
  BY <1>5, <1>6

\* A buffer that is what its client typed.
LEMMA PartialIntro ==
  ASSUME NEW m, NEW c, NEW p,
         Len(m) <= p, p = Len(m) \/ Text[c][p - Len(m)] = "end",
         \A k \in 1..Len(m) : m[k] = Byte(c, p - Len(m) + k) /\ m[k].ch # "end"
  PROVE  IsPartial(m, c, p)
  BY DEF IsPartial

\* A line without a NUL is seen whole.
LEMMA PartialIsSeen ==
  ASSUME NEW m \in Seq(Bytes), NEW c \in Clients, NEW p \in 0..Len(Text[c]),
         IsPartial(m, c, p)
  PROVE  Command(m) = m
<1> USE ConsoleAssumption
<1>1. ASSUME NEW k \in 1..Len(m)
      PROVE  m[k].ch # "nul"
  <2>1. m[k] = Byte(c, p - Len(m) + k) /\ p - Len(m) + k \in 1..Len(Text[c])
    BY DEF IsPartial
  <2>2. Text[c] \in Seq(Chars)
    OBVIOUS
  <2>3. QED
    BY SMTT(60), <2>1, <2>2 DEF Byte, Chars
<1>2. Before(m) = 1..Len(m)
  BY <1>1 DEF Before
<1>3. Cardinality(Before(m)) = Len(m)
  <2>1. Len(m) \in Nat
    OBVIOUS
  <2>2. ASSUME NEW n \in Nat PROVE Cardinality(1..n) = n
    <3>1. 1 \in Int /\ n \in Int
      OBVIOUS
    <3>2. Cardinality(1..n) = IF 1 > n THEN 0 ELSE n - 1 + 1
      BY ONLY <3>1, FS_Interval
    <3>3. QED
      BY <3>2
  <2>3. QED
    BY <1>2, <2>1, <2>2
<1>4. SubSeq(m, 1, Len(m)) = m
  OBVIOUS
<1>5. QED
  BY <1>3, <1>4 DEF Command

-----------------------------------------------------------------------------
(* Types. *)

LEMMA InitType == Init => TypeOK
<1> USE ConsoleAssumption
<1>1. <<>> \in Seq(Bytes) /\ Len(<<>>) = 0
  OBVIOUS
<1>2. ASSUME NEW c \in Clients PROVE Len(Text[c]) \in Nat
  OBVIOUS
<1>3. SUFFICES ASSUME Init PROVE TypeOK
  OBVIOUS
<1>4. sent = [c \in Clients |-> 0] /\ taken = [c \in Clients |-> 0]
  BY <1>3 DEF Init
<1>5. /\ sent \in [Clients -> Nat] /\ taken \in [Clients -> Nat]
      /\ \A c \in Clients : taken[c] <= sent[c] /\ sent[c] <= Len(Text[c])
  BY <1>2, <1>4
<1>6. conn \in [Clients -> {"none", "queued", "open", "closed"}] /\ hang \in [Clients -> BOOLEAN]
  BY <1>3 DEF Init
<1>7. msg_in \in Seq(Bytes) /\ Len(msg_in) <= MsgMax
  BY <1>1, <1>3 DEF Init
<1>8. QED
  BY <1>3, <1>5, <1>6, <1>7 DEF Init, TypeOK

LEMMA ClientType ==
  ASSUME TypeOK, NEW c \in Clients, Client(c)
  PROVE  TypeOK'
<1> USE ConsoleAssumption
<1>1. CASE connect(c)
  BY <1>1 DEF connect, TypeOK, reader, ghosts
<1>2. CASE send(c)
  BY <1>2 DEF send, TypeOK, reader, ghosts
<1>3. CASE hang_up(c)
  BY <1>3 DEF hang_up, TypeOK, reader, ghosts
<1>4. QED
  BY <1>1, <1>2, <1>3 DEF Client

\* The actions that leave the bytes alone.
LEMMA PollType ==
  ASSUME TypeOK,
         \/ \E c \in Clients : accept(c) \/ data_event(c) \/ Killed(c)
         \/ accept_none \/ no_event \/ prompt \/ control
  PROVE  TypeOK'
<1> USE ConsoleAssumption
<1>0. ASSUME NEW c \in Clients, Killed(c) PROVE TypeOK'
  BY <1>0 DEF Killed, TypeOK, client, reader, ghosts
<1>1. ASSUME NEW c \in Clients, accept(c) PROVE TypeOK'
  BY ZenonT(60), <1>0, <1>1 DEF accept, TypeOK, reader, ghosts
<1>2. ASSUME NEW c \in Clients, data_event(c) PROVE TypeOK'
  <2>1. taken[c] \in Nat /\ sent[c] \in Nat /\ taken[c] <= sent[c] /\ hang[c] \in BOOLEAN
    BY DEF TypeOK
  <2>2. /\ ReadUpTo(c) \in Nat /\ ReadUpTo(c) <= sent[c]
        /\ taken[c] < sent[c] => taken[c] < ReadUpTo(c)
    BY SMTT(60), <2>1 DEF ReadUpTo
  <2>3. QED
    BY <1>2, <2>1, <2>2 DEF data_event, TypeOK, client, ghosts
<1>3. CASE accept_none \/ no_event
  BY <1>3 DEF accept_none, no_event, TypeOK, client, reader, ghosts
<1>4. CASE prompt
  <2>1. who \in Clients
    BY <1>4 DEF TypeOK, prompt
  <2>2. CASE Killed(who)
    BY <1>0, <2>1, <2>2
  <2>3. QED
    BY <1>4, <2>2 DEF prompt, TypeOK, client, reader, ghosts
<1>5. CASE control
  BY <1>5 DEF control, TypeOK, ghosts
<1>6. QED
  BY <1>0, <1>1, <1>2, <1>3, <1>4, <1>5

\* What is known while a byte is handled.
LEMMA ByteFacts ==
  ASSUME TypeOK, pc = "byte"
  PROVE  /\ who \in Clients /\ i \in Nat /\ i + 1 <= taken[who]
         /\ i + 1 \in 1..Len(Text[who])
         /\ Text[who] \in Seq(Chars)
         /\ next_byte \in {"byte", "prompt"}
         /\ next_byte = "byte" => i + 1 < taken[who]
         /\ next_byte = "prompt" => i + 1 = taken[who]
  BY ConsoleAssumption DEF TypeOK, next_byte

\* The end of a write in the middle of the bytes.
LEMMA WriteType ==
  ASSUME TypeOK, pc = "byte", NEW o, NEW m \in Seq(Bytes), Len(m) <= MsgMax, write(o, m)
  PROVE  /\ msg_in' \in Seq(Bytes) /\ Len(msg_in') <= MsgMax
         /\ pc' \in {"byte", "prompt", "control"}
         /\ pc' = "byte" => i + 1 < taken[who]
         /\ pc' = "prompt" => i + 1 = taken[who]
<1>1. <<>> \in Seq(Bytes) /\ Len(<<>>) <= MsgMax
  BY ConsoleAssumption
<1>2. CASE o = "ok" /\ msg_in' = <<>> /\ pc' = next_byte
  BY <1>1, <1>2, ByteFacts
<1>3. CASE o = "fail" /\ msg_in' = m /\ pc' = "control"
  BY <1>3
<1>4. QED
  BY <1>2, <1>3 DEF write

LEMMA ByteType ==
  ASSUME TypeOK, handle \/ append \/ too_long
  PROVE  TypeOK'
<1> USE ConsoleAssumption
<1>1. pc = "byte" /\ msg_in \in Seq(Bytes) /\ Len(msg_in) <= MsgMax
  BY DEF handle, append, too_long, TypeOK
<1>2. who \in Clients /\ i + 1 \in Nat
  BY <1>1, ByteFacts
<1>3. CASE Killed(who)
  BY <1>2, <1>3, PollType
<1>4. ASSUME handle, ~Killed(who) PROVE TypeOK'
  <2>1. PICK o \in {"ok", "fail"} : write(o, Tokenized(msg_in))
    BY <1>4 DEF handle
  <2>2. Tokenized(msg_in) \in Seq(Bytes) /\ Len(Tokenized(msg_in)) <= MsgMax
    BY <1>1, TokenizedType
  <2>3. /\ msg_in' \in Seq(Bytes) /\ Len(msg_in') <= MsgMax
        /\ pc' \in {"byte", "prompt", "control"}
        /\ pc' = "byte" => i + 1 < taken[who]
    BY <1>1, <2>1, <2>2, WriteType
  <2>4. i' = i + 1 /\ wrong' \in Nat /\ hurt' \in Nat /\ UNCHANGED <<client, taken, who, ctl>>
    BY SMTT(60), <1>4 DEF handle, TypeOK
  <2>5. QED
    BY <1>2, <2>3, <2>4 DEF TypeOK, client
<1>5. CASE append
  <2>1. Byte(who, i + 1) \in Bytes
    BY <1>1, ByteFacts DEF Byte, Bytes
  <2>2. msg_in' \in Seq(Bytes) /\ Len(msg_in') <= MsgMax
    BY <1>1, <1>5, <2>1 DEF append, Fits
  <2>3. pc' \in {"byte", "prompt"} /\ (pc' = "byte" => i + 1 < taken[who])
    BY <1>1, <1>5, ByteFacts DEF append
  <2>4. i' = i + 1 /\ wrong' \in Nat /\ hurt' \in Nat /\ UNCHANGED <<client, taken, who, ctl>>
    BY <1>5 DEF append, TypeOK
  <2>5. QED
    BY <1>2, <2>2, <2>3, <2>4 DEF TypeOK, client
<1>6. ASSUME too_long, ~Killed(who) PROVE TypeOK'
  <2>1. PICK o \in {"ok", "fail"} : write(o, msg_in)
    BY <1>6 DEF too_long
  <2>2. /\ msg_in' \in Seq(Bytes) /\ Len(msg_in') <= MsgMax
        /\ pc' \in {"byte", "prompt", "control"}
        /\ pc' = "byte" => i + 1 < taken[who]
    BY <1>1, <2>1, WriteType
  <2>3. i' = i + 1 /\ wrong' \in Nat /\ hurt' \in Nat /\ UNCHANGED <<client, taken, who, ctl>>
    BY <1>6 DEF too_long, TypeOK
  <2>4. QED
    BY <1>2, <2>2, <2>3 DEF TypeOK, client
<1>7. QED
  BY <1>3, <1>4, <1>5, <1>6

LEMMA NextType == TypeOK /\ [Next]_vars => TypeOK'
<1>1. SUFFICES ASSUME TypeOK, [Next]_vars PROVE TypeOK'
  OBVIOUS
<1>2. CASE UNCHANGED vars
  BY <1>1, <1>2 DEF vars, TypeOK
<1>3. CASE \E c \in Clients : Client(c)
  BY <1>1, <1>3, ClientType
<1>4. CASE Main
  BY <1>1, <1>4, PollType, ByteType DEF Main
<1>5. QED
  BY <1>1, <1>2, <1>3, <1>4 DEF Next

\* Every variable stays in its type; the buffer is never longer than msg_in_len_max.
THEOREM TypeCorrect == Spec => []TypeOK
  BY InitType, NextType, PTL DEF Spec

-----------------------------------------------------------------------------
(* Counting broken lines. *)

LEMMA BrokenFinite == IsFiniteSet(Broken) /\ Cardinality(Broken) \in Nat
  BY ConsoleAssumption, FS_Subset, FS_CardinalityType DEF Broken

LEMMA MoreByOne ==
  ASSUME NEW S, IsFiniteSet(S), NEW a, NEW T \in SUBSET (S \cup {a})
  PROVE  /\ IsFiniteSet(T) /\ Cardinality(T) \in Nat /\ Cardinality(S) \in Nat
         /\ Cardinality(T) <= Cardinality(S) + 1
<1>1. /\ IsFiniteSet(S \cup {a}) /\ Cardinality(S \cup {a}) <= Cardinality(S) + 1
      /\ Cardinality(S) \in Nat /\ Cardinality(S \cup {a}) \in Nat
  BY FS_AddElement, FS_CardinalityType
<1>2. Cardinality(T) <= Cardinality(S \cup {a}) /\ IsFiniteSet(T)
  BY <1>1, FS_Subset
<1>3. Cardinality(T) \in Nat
  BY <1>2, FS_CardinalityType
<1>4. QED
  BY <1>1, <1>2, <1>3

LEMMA MoreByTwo ==
  ASSUME NEW S, IsFiniteSet(S), NEW a, NEW b, NEW T \in SUBSET (S \cup {a} \cup {b})
  PROVE  /\ Cardinality(T) \in Nat /\ Cardinality(S) \in Nat
         /\ Cardinality(T) <= Cardinality(S) + 2
<1> DEFINE U == S \cup {a}
<1>1. /\ IsFiniteSet(U) /\ Cardinality(U) \in Nat /\ Cardinality(S) \in Nat
      /\ Cardinality(U) <= Cardinality(S) + 1
  BY MoreByOne
<1>2. T \in SUBSET (U \cup {b})
  OBVIOUS
<1>3. Cardinality(T) \in Nat /\ Cardinality(T) <= Cardinality(U) + 1
  <2> HIDE DEF U
  <2>1. QED
    BY <1>1, <1>2, MoreByOne
<1>4. QED
  BY <1>1, <1>3

LEMMA LessByOne ==
  ASSUME NEW S, IsFiniteSet(S), NEW a \in S, NEW T \in SUBSET (S \ {a})
  PROVE  Cardinality(T) + 1 <= Cardinality(S)
<1>1. /\ IsFiniteSet(S \ {a}) /\ Cardinality(S \ {a}) = Cardinality(S) - 1
      /\ Cardinality(S) \in Nat /\ Cardinality(S \ {a}) \in Nat
  BY FS_RemoveElement, FS_CardinalityType
<1>2. Cardinality(T) <= Cardinality(S \ {a}) /\ Cardinality(T) \in Nat
  BY <1>1, FS_Subset, FS_CardinalityType
<1>3. QED
  BY <1>1, <1>2

-----------------------------------------------------------------------------
(* What a step does to the lines. *)

\* A step that neither touches the buffer nor handles a byte.
LEMMA QuietKeeps ==
  ASSUME TypeOK, DamageInv, UNCHANGED <<msg_in, wrong, hurt>>,
         pc # "dead" \/ pc' = "dead",
         pc' # "dead" => \A c \in Clients : Place(c)' = Place(c)
  PROVE  DamageInv'
<1>1. DamageBounded'
  BY DEF DamageInv, DamageBounded
<1>2. ASSUME pc' # "dead"
      PROVE  Broken' = Broken
  <2>1. \A c \in Clients : Intact(c)' = Intact(c)
    BY <1>2 DEF Intact, LastBy, IsPartial, Byte
  <2>2. QED
    BY <2>1 DEF Broken
<1>3. QED
  BY <1>1, <1>2 DEF DamageInv

\* A byte changes the standing of its client and of the last writer only.
LEMMA OthersKeep ==
  ASSUME TypeOK, pc = "byte", who' = who, taken' = taken,
         \A d \in Clients \ {who} : LastBy(msg_in', d) => LastBy(msg_in, d),
         NEW d \in Clients \ {who}, ~LastBy(msg_in, d)
  PROVE  Intact(d)' = Intact(d)
<1>1. Place(d) = taken[d] /\ Place(d)' = taken[d]
  BY DEF Place
<1>2. ~LastBy(msg_in', d)
  OBVIOUS
<1>3. Intact(d) = IsPartial(<<>>, d, taken[d])
  BY <1>1 DEF Intact
<1>4. Intact(d)' = IsPartial(<<>>, d, taken[d])
  BY <1>1, <1>2 DEF Intact, LastBy, IsPartial
<1>5. QED
  BY <1>3, <1>4

\* Without bytes of another in the buffer, only the line of the byte's client.
LEMMA UnmixedSpread ==
  ASSUME TypeOK, pc = "byte", who' = who, taken' = taken, ~Mixed,
         \A d \in Clients \ {who} : LastBy(msg_in', d) => LastBy(msg_in, d)
  PROVE  Broken' \subseteq Broken \cup {who}
<1>1. \A d \in Clients \ {who} : ~LastBy(msg_in, d)
  BY DEF Mixed, LastBy
<1>2. QED
  BY <1>1, OthersKeep DEF Broken

\* In any case only that and the last writer's.
LEMMA Spread ==
  ASSUME TypeOK, pc = "byte", who' = who, taken' = taken,
         \A d \in Clients \ {who} : LastBy(msg_in', d) => LastBy(msg_in, d)
  PROVE  \E e : Broken' \subseteq Broken \cup {who} \cup {e}
<1>1. \A d \in Clients : LastBy(msg_in, d) => d = msg_in[Len(msg_in)].by
  BY DEF LastBy
<1>2. Broken' \subseteq Broken \cup {who} \cup {msg_in[Len(msg_in)].by}
  BY <1>1, OthersKeep DEF Broken
<1>3. QED
  BY <1>2

\* Without bytes of another, the line of the byte's client is intact when the buffer is it.
LEMMA IntactBuffer ==
  ASSUME TypeOK, pc = "byte", ~Mixed
  PROVE  Intact(who) = IsPartial(msg_in, who, i)
<1>1. Place(who) = i
  BY DEF Place
<1>2. QED
  BY <1>1 DEF Intact, Mixed

\* After its newline the line of a client is intact if the buffer is empty.
LEMMA IntactAfterEnd ==
  ASSUME TypeOK, pc = "byte", Text[who][i + 1] = "end",
         who' = who, taken' = taken, i' = i + 1, msg_in' = <<>>, pc' = next_byte
  PROVE  Intact(who)'
<1>1. Place(who)' = i + 1
  BY ByteFacts DEF Place
<1>2. i + 1 \in Nat
  BY ByteFacts
<1>3. IsPartial(<<>>, who, i + 1)
  BY <1>2 DEF IsPartial
<1>4. QED
  BY <1>1, <1>3 DEF Intact, LastBy, IsPartial

\* A character that is the next of its line leaves it intact.
LEMMA IntactAppend ==
  ASSUME TypeOK, append, Intact(who), ~Mixed
  PROVE  Intact(who)'
<1>1. pc = "byte" /\ Text[who][i + 1] # "end"
  BY DEF append
<1>2. /\ msg_in' = Append(msg_in, Byte(who, i + 1)) /\ i' = i + 1 /\ pc' = next_byte
      /\ who' = who /\ taken' = taken
  BY DEF append
<1>3. IsPartial(msg_in, who, i)
  BY <1>1, IntactBuffer
<1>4. Place(who)' = i + 1
  BY <1>1, <1>2, ByteFacts DEF Place
<1>5. msg_in \in Seq(Bytes) /\ Byte(who, i + 1) \in Bytes /\ i \in Nat
  BY <1>1, ByteFacts DEF TypeOK, Byte, Bytes
<1>6. /\ Len(msg_in') = Len(msg_in) + 1 /\ Len(msg_in) \in Nat
      /\ \A k \in 1..Len(msg_in) : msg_in'[k] = msg_in[k]
      /\ msg_in'[Len(msg_in) + 1] = Byte(who, i + 1)
      /\ msg_in' # <<>>
  BY <1>2, <1>5
<1>7. LastBy(msg_in', who)
  BY <1>6 DEF LastBy, Byte
<1>8. IsPartial(msg_in', who, i + 1)
  <2>1. (i + 1) - Len(msg_in') = i - Len(msg_in)
    BY <1>5, <1>6
  <2>2. Len(msg_in') <= i + 1 /\ (i + 1 = Len(msg_in') \/ Text[who][(i + 1) - Len(msg_in')] = "end")
    BY <1>3, <1>5, <1>6, <2>1 DEF IsPartial
  <2>3. ASSUME NEW k \in 1..Len(msg_in)
        PROVE  msg_in'[k] = Byte(who, (i + 1) - Len(msg_in') + k) /\ msg_in'[k].ch # "end"
    BY <1>3, <1>6, <2>1 DEF IsPartial
  <2>4. /\ msg_in'[Len(msg_in')] = Byte(who, (i + 1) - Len(msg_in') + Len(msg_in'))
        /\ msg_in'[Len(msg_in')].ch # "end"
    BY <1>1, <1>5, <1>6 DEF Byte
  <2>5. ASSUME NEW k \in 1..Len(msg_in')
        PROVE  msg_in'[k] = Byte(who, (i + 1) - Len(msg_in') + k) /\ msg_in'[k].ch # "end"
    <3>1. k \in 1..Len(msg_in) \/ k = Len(msg_in')
      BY <1>6
    <3>2. QED
      BY <2>3, <2>4, <3>1
  <2>6. \A k \in 1..Len(msg_in') :
          msg_in'[k] = Byte(who, (i + 1) - Len(msg_in') + k) /\ msg_in'[k].ch # "end"
    BY <2>5
  <2>7. QED
    BY <2>2, <2>6, PartialIntro
<1>9. QED
  BY <1>2, <1>4, <1>7, <1>8 DEF Intact, LastBy, IsPartial, Byte

\* Who wrote last after a byte: its client, or whoever it was.
LEMMA LastAfter ==
  ASSUME TypeOK,
         \/ append
         \/ \E o \in {"ok", "fail"} : write(o, msg_in) \/ write(o, Tokenized(msg_in)),
         NEW d \in Clients \ {who}, LastBy(msg_in', d)
  PROVE  LastBy(msg_in, d)
<1>1. msg_in \in Seq(Bytes)
  BY DEF TypeOK
<1>2. CASE append
  <2>1. msg_in' = Append(msg_in, Byte(who, i + 1))
    BY <1>2 DEF append
  <2>2. msg_in'[Len(msg_in')].by = who
    BY <1>1, <2>1 DEF Byte
  <2>3. QED
    BY <2>2 DEF LastBy
<1>3. CASE msg_in' = <<>>
  BY <1>3 DEF LastBy
<1>4. CASE msg_in' = msg_in
  BY <1>4
<1>5. CASE msg_in' = Tokenized(msg_in)
  BY <1>1, <1>5, TokenizedType
<1>6. QED
  BY <1>2, <1>3, <1>4, <1>5 DEF write

-----------------------------------------------------------------------------
(* The actions. *)

\* The three bounds a step can use.
LEMMA Budget ==
  ASSUME TypeOK, DamageInv, pc = "byte", wrong' \in Nat, hurt' \in Nat,
         wrong' + Cardinality(Broken') <= wrong + Cardinality(Broken) + 2 * (hurt' - hurt),
         IsFiniteSet(Broken')
  PROVE  DamageInv'
<1>1. Cardinality(Broken') \in Nat
  BY FS_CardinalityType
<1>2. wrong + Cardinality(Broken) <= 2 * hurt /\ wrong \in Nat /\ hurt \in Nat
  BY DEF DamageInv, TypeOK
<1>3. Cardinality(Broken) \in Nat
  BY BrokenFinite
<1>4. wrong' + Cardinality(Broken') <= 2 * hurt'
  BY <1>1, <1>2, <1>3
<1>5. wrong' <= 2 * hurt'
  <2>1. ASSUME NEW w \in Nat, NEW b \in Nat, NEW h \in Nat, w + b <= 2 * h
        PROVE  w <= 2 * h
    BY <2>1
  <2>2. QED
    BY <1>1, <1>4, <2>1
<1>6. QED
  BY <1>4, <1>5 DEF DamageInv, DamageBounded

LEMMA AppendKeeps ==
  ASSUME TypeOK, DamageInv, append
  PROVE  DamageInv'
<1>1. /\ pc = "byte" /\ who' = who /\ taken' = taken /\ wrong' = wrong
      /\ wrong \in Nat /\ hurt \in Nat
      /\ hurt' = hurt + (IF Mixed THEN 1 ELSE 0)
  BY DEF append, TypeOK
<1>2. \A d \in Clients \ {who} : LastBy(msg_in', d) => LastBy(msg_in, d)
  BY LastAfter
<1>3. IsFiniteSet(Broken) /\ Cardinality(Broken) \in Nat
  BY BrokenFinite
<1>4. CASE Mixed
  <2>1. PICK e : Broken' \subseteq Broken \cup {who} \cup {e}
    BY <1>1, <1>2, Spread
  <2>2. Cardinality(Broken') \in Nat /\ Cardinality(Broken') <= Cardinality(Broken) + 2
    BY ZenonT(60), <1>3, <2>1, MoreByTwo
  <2>3. IsFiniteSet(Broken')
    BY <1>3, <2>1, FS_Subset, FS_AddElement
  <2>4. QED
    BY <1>1, <1>3, <1>4, <2>2, <2>3, Budget
<1>5. CASE ~Mixed
  <2>1. Broken' \subseteq Broken \cup {who}
    BY <1>1, <1>2, <1>5, UnmixedSpread
  <2>2. who \in Broken' => who \in Broken
    BY <1>5, IntactAppend, <1>1 DEF Broken
  <2>3. Broken' \subseteq Broken
    BY <2>1, <2>2
  <2>4. IsFiniteSet(Broken') /\ Cardinality(Broken') <= Cardinality(Broken)
    BY <1>3, <2>3, FS_Subset
  <2>5. Cardinality(Broken') \in Nat
    BY <2>4, FS_CardinalityType
  <2>6. QED
    BY <1>1, <1>3, <1>5, <2>4, <2>5, Budget
<1>6. QED
  BY <1>4, <1>5

LEMMA TooLongKeeps ==
  ASSUME TypeOK, DamageInv, too_long, ~Killed(who)
  PROVE  DamageInv'
<1>1. /\ pc = "byte" /\ who' = who /\ taken' = taken /\ wrong' = wrong
      /\ wrong \in Nat /\ hurt \in Nat
      /\ hurt' = hurt + 1 + (IF Mixed THEN 1 ELSE 0)
      /\ \E o \in {"ok", "fail"} : write(o, msg_in)
  BY DEF too_long, TypeOK
<1>2. \A d \in Clients \ {who} : LastBy(msg_in', d) => LastBy(msg_in, d)
  BY <1>1, LastAfter
<1>3. IsFiniteSet(Broken) /\ Cardinality(Broken) \in Nat
  BY BrokenFinite
<1>4. PICK e : Broken' \subseteq Broken \cup {who} \cup {e}
  BY <1>1, <1>2, Spread
<1>5. Cardinality(Broken') \in Nat /\ Cardinality(Broken') <= Cardinality(Broken) + 2
  BY ZenonT(60), <1>3, <1>4, MoreByTwo
<1>6. IsFiniteSet(Broken')
  BY <1>3, <1>4, FS_Subset, FS_AddElement
<1>7. CASE Mixed
  BY <1>1, <1>3, <1>5, <1>6, <1>7, Budget
<1>8. CASE ~Mixed
  BY <1>1, <1>3, <1>5, <1>6, <1>8, Budget
<1>9. QED
  BY <1>7, <1>8

\* A command of an intact line, with nobody else's bytes before it, is that line.
LEMMA IntactIsRight ==
  ASSUME TypeOK, pc = "byte", Intact(who), ~Mixed
  PROVE  IsPartial(Command(msg_in), who, i)
<1>1. IsPartial(msg_in, who, i)
  BY IntactBuffer
<1>2. /\ msg_in \in Seq(Bytes) /\ who \in Clients /\ i \in 0..Len(Text[who])
  BY ByteFacts DEF TypeOK
<1>3. Command(msg_in) = msg_in
  BY <1>1, <1>2, PartialIsSeen
<1>4. QED
  BY <1>1, <1>3

LEMMA HandleKeeps ==
  ASSUME TypeOK, DamageInv, handle, ~Killed(who)
  PROVE  DamageInv'
<1>1. pc = "byte" /\ Text[who][i + 1] = "end"
  BY DEF handle
<1>2. PICK o \in {"ok", "fail"} :
        /\ write(o, Tokenized(msg_in))
        /\ i' = i + 1
        /\ wrong' = wrong + (IF IsPartial(Command(msg_in), who, i) THEN 0 ELSE 1)
        /\ hurt' = hurt + (IF Mixed THEN 1 ELSE 0) + (IF o = "fail" THEN 1 ELSE 0)
        /\ UNCHANGED <<client, taken, who, ctl>>
  BY DEF handle
<1>3. who' = who /\ taken' = taken /\ who \in Clients
  BY <1>1, <1>2, ByteFacts
<1>4. \A d \in Clients \ {who} : LastBy(msg_in', d) => LastBy(msg_in, d)
  BY <1>2, LastAfter
<1>5. IsFiniteSet(Broken) /\ Cardinality(Broken) \in Nat /\ wrong \in Nat /\ hurt \in Nat
  BY BrokenFinite DEF TypeOK
<1>6. wrong' \in Nat /\ wrong' <= wrong + 1 /\ hurt' \in Nat
  BY <1>2, <1>5
<1>7. CASE o = "ok"
  <2>1. Intact(who)'
    BY <1>1, <1>2, <1>3, <1>7, IntactAfterEnd DEF write
  <2>2. CASE Mixed
    <3>1. PICK e : Broken' \subseteq Broken \cup {who} \cup {e}
      BY <1>1, <1>3, <1>4, Spread
    <3>2. Broken' \subseteq Broken \cup {e}
      BY <1>3, <2>1, <3>1 DEF Broken
    <3>3. /\ IsFiniteSet(Broken') /\ Cardinality(Broken') \in Nat
          /\ Cardinality(Broken') <= Cardinality(Broken) + 1
      BY <1>5, <3>2, MoreByOne
    <3>4. hurt' = hurt + 1
      BY <1>2, <1>5, <1>7, <2>2
    <3>5. QED
      BY <1>1, <1>5, <1>6, <3>3, <3>4, Budget
  <2>3. CASE ~Mixed
    <3>1. Broken' \subseteq Broken \ {who}
      BY <1>1, <1>3, <1>4, <2>1, <2>3, UnmixedSpread DEF Broken
    <3>2. /\ IsFiniteSet(Broken') /\ Cardinality(Broken') <= Cardinality(Broken)
      BY <1>5, <3>1, FS_Subset
    <3>3. Cardinality(Broken') \in Nat
      BY <3>2, FS_CardinalityType
    <3>4. hurt' = hurt
      BY <1>2, <1>5, <1>7, <2>3
    <3>5. CASE Intact(who)
      <4>1. wrong' = wrong
        BY <1>1, <1>2, <1>5, <2>3, <3>5, IntactIsRight
      <4>2. QED
        BY <1>1, <1>5, <1>6, <3>2, <3>3, <3>4, <4>1, Budget
    <3>6. CASE ~Intact(who)
      <4>1. Cardinality(Broken') + 1 <= Cardinality(Broken)
        BY <1>3, <1>5, <3>1, <3>6, LessByOne DEF Broken
      <4>2. QED
        BY <1>1, <1>5, <1>6, <3>2, <3>3, <3>4, <4>1, Budget
    <3>7. QED
      BY <3>5, <3>6
  <2>4. QED
    BY <2>2, <2>3
<1>8. CASE o = "fail"
  <2>1. CASE Mixed
    <3>1. PICK e : Broken' \subseteq Broken \cup {who} \cup {e}
      BY <1>1, <1>3, <1>4, Spread
    <3>2. Cardinality(Broken') \in Nat /\ Cardinality(Broken') <= Cardinality(Broken) + 2
      BY ZenonT(60), <1>5, <3>1, MoreByTwo
    <3>3. IsFiniteSet(Broken')
      BY <1>5, <3>1, FS_Subset, FS_AddElement
    <3>4. hurt' = hurt + 2
      BY <1>2, <1>5, <1>8, <2>1
    <3>5. QED
      BY <1>1, <1>5, <1>6, <3>2, <3>3, <3>4, Budget
  <2>2. CASE ~Mixed
    <3>1. Broken' \subseteq Broken \cup {who}
      BY <1>1, <1>3, <1>4, <2>2, UnmixedSpread
    <3>2. /\ IsFiniteSet(Broken') /\ Cardinality(Broken') \in Nat
          /\ Cardinality(Broken') <= Cardinality(Broken) + 1
      BY <1>5, <3>1, MoreByOne
    <3>3. hurt' = hurt + 1
      BY <1>2, <1>5, <1>8, <2>2
    <3>4. QED
      BY <1>1, <1>5, <1>6, <3>2, <3>3, Budget
  <2>3. QED
    BY <2>1, <2>2
<1>9. QED
  BY <1>7, <1>8

\* Whatever a client does, or main when it handles no byte.
LEMMA OtherKeeps ==
  ASSUME TypeOK, DamageInv,
         \/ \E c \in Clients : Client(c) \/ accept(c) \/ data_event(c) \/ Killed(c)
         \/ accept_none \/ no_event \/ prompt \/ control \/ UNCHANGED vars
  PROVE  DamageInv'
<1> USE ConsoleAssumption
<1>1. ASSUME NEW c \in Clients, Client(c) PROVE DamageInv'
  <2>1. UNCHANGED <<taken, msg_in, pc, who, i, wrong, hurt>>
    BY <1>1 DEF Client, connect, send, hang_up, reader, ghosts
  <2>2. QED
    BY <2>1, QuietKeeps DEF Place
<1>2. ASSUME NEW c \in Clients, Killed(c) PROVE DamageInv'
  BY <1>2, QuietKeeps DEF Killed, ghosts
<1>3. ASSUME NEW c \in Clients, accept(c), ~Killed(c) PROVE DamageInv'
  <2>1. UNCHANGED <<taken, msg_in, who, i, wrong, hurt>> /\ pc = "conn" /\ pc' = "data"
    BY <1>3 DEF accept, reader, ghosts
  <2>2. QED
    BY <2>1, QuietKeeps DEF Place
<1>4. ASSUME NEW c \in Clients, data_event(c) PROVE DamageInv'
  <2>1. /\ UNCHANGED <<msg_in, wrong, hurt>> /\ pc = "data" /\ pc' \in {"byte", "control"}
        /\ who' = c /\ i' = taken[c] /\ taken' = [taken EXCEPT ![c] = ReadUpTo(c)]
        /\ pc' = "control" => ~(taken[c] < sent[c])
    BY <1>4 DEF data_event, ghosts
  <2>2. taken \in [Clients -> Nat] /\ sent[c] \in Nat /\ taken[c] <= sent[c]
    BY DEF TypeOK
  <2>3. pc' = "control" => ReadUpTo(c) = taken[c]
    BY <2>1, <2>2 DEF ReadUpTo
  <2>4. \A d \in Clients : Place(d)' = Place(d)
    BY <2>1, <2>2, <2>3 DEF Place
  <2>5. QED
    BY <2>1, <2>4, QuietKeeps
<1>5. CASE accept_none \/ no_event
  <2>1. /\ UNCHANGED <<taken, msg_in, who, i, wrong, hurt>>
        /\ pc \in {"conn", "data"} /\ pc' \in {"conn", "data"}
    BY <1>5 DEF accept_none, no_event, reader, ghosts
  <2>2. QED
    BY <2>1, QuietKeeps DEF Place
<1>6. CASE prompt /\ ~Killed(who)
  <2>1. UNCHANGED <<taken, msg_in, who, i, wrong, hurt>> /\ pc = "prompt" /\ pc' = "control"
    BY <1>6 DEF prompt, reader, ghosts
  <2>2. QED
    BY <2>1, QuietKeeps DEF Place
<1>7. CASE prompt /\ Killed(who)
  BY <1>7, QuietKeeps DEF Killed, ghosts
<1>8. CASE control
  <2>1. UNCHANGED <<taken, msg_in, wrong, hurt>> /\ pc = "control" /\ pc' = "conn"
    BY <1>8 DEF control, ghosts
  <2>2. QED
    BY <2>1, QuietKeeps DEF Place
<1>9. CASE UNCHANGED vars
  BY <1>9, QuietKeeps DEF vars, Place
<1>10. QED
  BY <1>1, <1>2, <1>3, <1>4, <1>5, <1>6, <1>7, <1>8, <1>9

-----------------------------------------------------------------------------
LEMMA InitDamage == Init => DamageInv
<1>1. SUFFICES ASSUME Init PROVE DamageInv
  OBVIOUS
<1>2. msg_in = <<>> /\ pc = "conn" /\ wrong = 0 /\ hurt = 0 /\ taken = [c \in Clients |-> 0]
  BY <1>1 DEF Init
<1>3. ASSUME NEW c \in Clients PROVE Intact(c)
  BY <1>2 DEF Intact, LastBy, Place, IsPartial
<1>4. Broken = {}
  BY <1>3 DEF Broken
<1>5. QED
  BY <1>2, <1>4, FS_EmptySet DEF DamageInv, DamageBounded

\* However many clients type, a cause of damage (another client's bytes in the shared
\* buffer, a line too long, a failed write) makes at most two commands wrong, and without
\* one every command is the line its client typed.
THEOREM DamageIsBounded == Spec => []DamageBounded
<1>1. TypeOK /\ DamageInv /\ [Next]_vars => DamageInv'
  <2>1. SUFFICES ASSUME TypeOK, DamageInv, [Next]_vars PROVE DamageInv'
    OBVIOUS
  <2>2. ASSUME handle \/ append \/ too_long
        PROVE  DamageInv'
    <3>1. who \in Clients
      BY <2>1, <2>2, ByteFacts DEF handle, append, too_long
    <3>2. QED
      BY <2>1, <2>2, <3>1, HandleKeeps, AppendKeeps, TooLongKeeps, OtherKeeps
  <2>3. QED
    BY <2>1, <2>2, OtherKeeps DEF Next, Main
<1>2. DamageInv => DamageBounded
  BY DEF DamageInv
<1>3. QED
  BY <1>1, <1>2, InitDamage, TypeCorrect, PTL DEF Spec
=============================================================================
