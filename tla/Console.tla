------------------------------ MODULE Console -------------------------------
(* The command line's connections (conn.c), as main's dispatch loop drives   *)
(* them: one client is accepted, one client's bytes are read, in every turn. *)
(* All clients share one input buffer, msg_in.                               *)
(*                                                                           *)
(* What a client types is fixed (Text) and sent in any pieces, so that a     *)
(* byte is known by its client and place.  cli_process is modelled by what   *)
(* it does to the buffer (strtok_r writes over the blanks of a line that is  *)
(* no comment); whether it leaves an answer is up to it.  A write succeeds, fails (a socket that is full, say),  *)
(* or, to a client that is gone, ends the process: SIGPIPE is not handled.   *)
EXTENDS Integers, Sequences, FiniteSets

CONSTANTS
  Clients,   \* the clients, each of which connects once
  Text,      \* Text[c]: the characters c types, "word", "blank" or "end"
  MsgMax,    \* msg_in_len_max
  BufSize,   \* buf_size
  None       \* no client

Chars == {"word", "blank", "end"}

ASSUME ConsoleAssumption ==
  /\ IsFiniteSet(Clients) /\ None \notin Clients
  /\ Text \in [Clients -> Seq(Chars)]
  /\ MsgMax \in Nat \ {0}
  /\ BufSize \in Nat \ {0}

VARIABLES
  conn,    \* conn[c]: "none", "queued" (not accepted), "open" or "closed"
  hang,    \* hang[c]: c sends no more; it may still read or be gone
  sent,    \* sent[c]: how many characters of Text[c] are sent
  taken,   \* taken[c]: how many of them are read
  msg_in,  \* the bytes of the input buffer; its length is msg_in_len
  pc,      \* main: "conn", "data", "byte", "prompt", "control" or "dead"
  who,     \* fd_client
  i,       \* the place in Text[who] of the byte handled last
  ctl,     \* the event has EPOLLRDHUP, EPOLLERR or EPOLLHUP
  wrong,   \* ghost: commands handled that are not the line just ended
  hurt     \* ghost: what may damage a command (see Hurts)

vars == <<conn, hang, sent, taken, msg_in, pc, who, i, ctl, wrong, hurt>>
client == <<conn, hang, sent>>
reader == <<who, i, ctl>>
ghosts == <<wrong, hurt>>

Byte(c, k) == [by |-> c, at |-> k, ch |-> Text[c][k]]

Bytes == [by : Clients, at : Nat \ {0}, ch : Chars \cup {"nul"}]

TypeOK ==
  /\ conn \in [Clients -> {"none", "queued", "open", "closed"}]
  /\ hang \in [Clients -> BOOLEAN]
  /\ sent \in [Clients -> Nat] /\ taken \in [Clients -> Nat]
  /\ \A c \in Clients : taken[c] <= sent[c] /\ sent[c] <= Len(Text[c])
  /\ msg_in \in Seq(Bytes) /\ Len(msg_in) <= MsgMax
  /\ pc \in {"conn", "data", "byte", "prompt", "control", "dead"}
  /\ who \in Clients \cup {None} /\ i \in Nat
  /\ pc \in {"byte", "prompt", "control"} => who \in Clients
  /\ pc = "byte" => i < taken[who]
  /\ ctl \in BOOLEAN
  /\ wrong \in Nat /\ hurt \in Nat

Init ==
  /\ conn = [c \in Clients |-> "none"]
  /\ hang = [c \in Clients |-> FALSE]
  /\ sent = [c \in Clients |-> 0] /\ taken = [c \in Clients |-> 0]
  /\ msg_in = <<>>
  /\ pc = "conn" /\ who = None /\ i = 0 /\ ctl = FALSE
  /\ wrong = 0 /\ hurt = 0

-----------------------------------------------------------------------------
(* Clients. *)

connect(c) ==
  /\ conn[c] = "none"
  /\ conn' = [conn EXCEPT ![c] = "queued"]
  /\ UNCHANGED <<hang, sent, taken, msg_in, pc, reader, ghosts>>

send(c) ==
  /\ conn[c] \in {"queued", "open"} /\ ~hang[c]
  /\ sent[c] < Len(Text[c])
  /\ sent' = [sent EXCEPT ![c] = @ + 1]
  /\ UNCHANGED <<conn, hang, taken, msg_in, pc, reader, ghosts>>

hang_up(c) ==
  /\ conn[c] \in {"queued", "open"} /\ ~hang[c]
  /\ hang' = [hang EXCEPT ![c] = TRUE]
  /\ UNCHANGED <<conn, sent, taken, msg_in, pc, reader, ghosts>>

-----------------------------------------------------------------------------
(* A write to a client that is gone. *)

Killed(c) ==
  /\ hang[c]
  /\ pc' = "dead"
  /\ UNCHANGED <<client, taken, msg_in, reader, ghosts>>

-----------------------------------------------------------------------------
(* conn_poll_for_conn: accept, add to the group, write the welcome and the   *)
(* prompt.  The fd of a client for whom any of this fails is closed.         *)

accept(c) ==
  /\ pc = "conn" /\ conn[c] = "queued"
  /\ \/ \E o \in {"open", "closed"} : conn' = [conn EXCEPT ![c] = o]
        /\ pc' = "data"
        /\ UNCHANGED <<hang, sent, taken, msg_in, reader, ghosts>>
     \/ Killed(c)

accept_none ==
  /\ pc = "conn" /\ \A c \in Clients : conn[c] # "queued"
  /\ pc' = "data"
  /\ UNCHANGED <<client, taken, msg_in, reader, ghosts>>

-----------------------------------------------------------------------------
(* conn_poll_for_msg: the next client that has something, and one read of    *)
(* its bytes.  A client that is at the end of its input is ready too: read   *)
(* returns 0 and no prompt is written.                                       *)

\* (slip: the event is EPOLLIN alone, and read returns 0 at the end)
ReadyForData(c) == conn[c] = "open" /\ taken[c] < sent[c]
Ready(c) == conn[c] = "open" /\ (taken[c] < sent[c] \/ hang[c])

ReadUpTo(c) == IF sent[c] - taken[c] < BufSize THEN sent[c] ELSE taken[c] + BufSize

data_event(c) ==
  /\ pc = "data" /\ Ready(c)
  /\ who' = c /\ i' = taken[c] /\ ctl' = hang[c]
  /\ taken' = [taken EXCEPT ![c] = ReadUpTo(c)]
  /\ pc' = IF taken[c] < sent[c] THEN "byte" ELSE "control"
  /\ UNCHANGED <<client, msg_in, ghosts>>

no_event ==
  /\ pc = "data" /\ \A c \in Clients : ~Ready(c)
  /\ pc' = "conn"
  /\ UNCHANGED <<client, taken, msg_in, reader, ghosts>>

-----------------------------------------------------------------------------
(* data_event_handle, byte by byte. *)

\* The command cli_process sees: the buffer up to the first NUL.
Before(m) == {k \in 1..Len(m) : \A j \in 1..k : m[j].ch # "nul"}
Command(m) == SubSeq(m, 1, Cardinality(Before(m)))

\* What parse_tokenize_string leaves: a NUL for the blank after each word.
Tokenized(m) ==
  [k \in 1..Len(m) |->
     IF k \in Before(m) /\ m[k].ch = "blank" /\ k > 1 /\ m[k - 1].ch = "word"
     THEN [m[k] EXCEPT !.ch = "nul"] ELSE m[k]]

\* m is what c typed of its line up to its p-th character.
IsPartial(m, c, p) ==
  /\ Len(m) <= p
  /\ p = Len(m) \/ Text[c][p - Len(m)] = "end"
  /\ \A k \in 1..Len(m) : m[k] = Byte(c, p - Len(m) + k) /\ m[k].ch # "end"

Fits == Len(msg_in) < MsgMax

\* c wrote into the buffer last.
LastBy(m, c) == m # <<>> /\ m[Len(m)].by = c

\* The buffer holds bytes of another client.
Mixed == msg_in # <<>> /\ ~LastBy(msg_in, who)

next_byte == IF i + 1 = taken[who] THEN "prompt" ELSE "byte"

\* (slip: the buffer is not emptied)
WriteKeeps(o, m) ==
  \/ o = "ok"   /\ msg_in' = m /\ pc' = next_byte
  \/ o = "fail" /\ msg_in' = m /\ pc' = "control"

\* A write in the middle of the bytes: when it fails, the rest of them is lost.
write(o, m) ==
  \/ o = "ok"   /\ msg_in' = <<>> /\ pc' = next_byte
  \/ o = "fail" /\ msg_in' = m    /\ pc' = "control"

handle ==
  /\ pc = "byte" /\ Text[who][i + 1] = "end"
  /\ \/ \E o \in {"ok", "fail"} :
          /\ write(o, Tokenized(msg_in))
          /\ i' = i + 1
          /\ wrong' = wrong + (IF IsPartial(Command(msg_in), who, i) THEN 0 ELSE 1)
          /\ hurt' = hurt + (IF Mixed THEN 1 ELSE 0) + (IF o = "fail" THEN 1 ELSE 0)
          /\ UNCHANGED <<client, taken, who, ctl>>
     \/ Killed(who)

append ==
  /\ pc = "byte" /\ Text[who][i + 1] # "end" /\ Fits
  /\ msg_in' = Append(msg_in, Byte(who, i + 1))
  /\ i' = i + 1 /\ pc' = next_byte
  /\ hurt' = hurt + (IF Mixed THEN 1 ELSE 0)
  /\ UNCHANGED <<client, taken, who, ctl, wrong>>

too_long ==
  /\ pc = "byte" /\ Text[who][i + 1] # "end" /\ ~Fits
  /\ \/ \E o \in {"ok", "fail"} :
          /\ write(o, msg_in)
          /\ i' = i + 1
          /\ hurt' = hurt + 1 + (IF Mixed THEN 1 ELSE 0)
          /\ UNCHANGED <<client, taken, who, ctl, wrong>>
     \/ Killed(who)

prompt ==
  /\ pc = "prompt"
  /\ \/ pc' = "control" /\ UNCHANGED <<client, taken, msg_in, reader, ghosts>>
     \/ Killed(who)

\* control_event_handle: what is not read by now is lost with the socket.
control ==
  /\ pc = "control"
  /\ conn' = IF ctl THEN [conn EXCEPT ![who] = "closed"] ELSE conn
  /\ pc' = "conn" /\ who' = None /\ i' = 0 /\ ctl' = FALSE
  /\ UNCHANGED <<hang, sent, taken, msg_in, ghosts>>

-----------------------------------------------------------------------------
Main ==
  \/ \E c \in Clients : accept(c) \/ data_event(c)
  \/ accept_none \/ no_event
  \/ handle \/ append \/ too_long \/ prompt \/ control

Client(c) == connect(c) \/ send(c) \/ hang_up(c)

Next == Main \/ \E c \in Clients : Client(c)

\* The main lcore runs, and epoll_wait takes ready clients in turn.  Clients
\* need do nothing.
Fairness == WF_vars(Main) /\ \A c \in Clients : SF_vars(data_event(c))

Spec == Init /\ [][Next]_vars /\ Fairness

-----------------------------------------------------------------------------
(* Properties. *)

\* A command that is not the line its client just ended has a cause: bytes of another
\* client in the shared buffer, a line too long for it, or a failed write, after which
\* the buffer keeps the old command.  Each spoils at most two commands, then
\* data_event_handle is in step again.
DamageBounded == wrong <= 2 * hurt

\* How far c's text is handled.
Place(c) == IF who = c /\ pc = "byte" THEN i ELSE taken[c]

\* The next command of c is its line, if nothing happens to the buffer before.
Intact(c) ==
  IF LastBy(msg_in, c)
  THEN IsPartial(msg_in, c, Place(c))
  ELSE IsPartial(<<>>, c, Place(c))

Broken == {c \in Clients : ~Intact(c)}

\* The inductive invariant behind DamageBounded: a cause breaks the lines of two clients
\* at most, the one that writes into the buffer and the one that wrote there last, and a
\* broken line is one command that is yet to be wrong.
DamageInv ==
  /\ DamageBounded
  /\ pc # "dead" => wrong + Cardinality(Broken) <= 2 * hurt

\* The socket of a client that has hung up is closed and leaves the group, though there
\* may be bytes of it that nobody read, and no event of it but the end of its input.
HungUpClosed ==
  \A c \in Clients :
    conn[c] \in {"queued", "open"} /\ hang[c] ~> conn[c] = "closed" \/ pc = "dead"
=============================================================================
